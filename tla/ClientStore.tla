----------------------------- MODULE ClientStore -----------------------------
(***************************************************************************)
(* The PostgreSQL tables of the key service and the statements             *)
(* PostgresStore runs on them (api/internal/store).  Every operator below  *)
(* is one autocommitted SQL statement: the handlers open no transaction,   *)
(* so a handler is a sequence of these and other handlers, or an           *)
(* administrator at the SQL prompt, may run theirs in between.             *)
(*                                                                         *)
(* A secret (an API key or a verification token) is 128 or 256 random      *)
(* bits; two draws never coincide.  Only its SHA-256 digest is stored.     *)
(* Timestamps are reduced to what the statements test: verified_at and     *)
(* revoked_at to "is set", used_at and expires_at to the token's status.   *)
(***************************************************************************)

CONSTANTS
  Emails,    (* Addresses that may be registered.                          *)
  Secrets,   (* Random strings the service may draw: tokens and API keys.  *)
  None       (* SQL NULL, and the zero value of a Go string.               *)

VARIABLES
  clients,   (* clients table, by email (UNIQUE).                          *)
  tokens     (* verification_tokens table, by token_hash.                  *)

storeVars == <<clients, tokens>>

TokenTypes == {"registration", "reissue"}

(* HashKey is injective: no SHA-256 collision is ever met.                 *)
HashKey(secret) == <<"sha256", secret>>

Hashes == {HashKey(s) : s \in Secrets}

ASSUME StoreAssumption == /\ None \notin Emails
                          /\ None \notin Secrets
                          /\ None \notin TokenTypes
                          /\ None \notin Hashes

Client == [exists : BOOLEAN, verified : BOOLEAN, revoked : BOOLEAN,
           hash : Hashes \cup {None}]

NoClient == [exists |-> FALSE, verified |-> FALSE, revoked |-> FALSE,
             hash |-> None]

(* "absent": never inserted; "purged": inserted, later deleted.            *)
TokenStatus == {"absent", "live", "expired", "used", "purged"}

Token == [status : TokenStatus, email : Emails \cup {None},
          type : TokenTypes \cup {None}]

NoToken == [status |-> "absent", email |-> None, type |-> None]

StoreTypeOK == /\ clients \in [Emails -> Client]
               /\ tokens \in [Hashes -> Token]

StoreInit == /\ clients = [e \in Emails |-> NoClient]
             /\ tokens = [h \in Hashes |-> NoToken]

-----------------------------------------------------------------------------
(* Clients.  Each UPDATE is its WHERE clause, a predicate on the row, and  *)
(* its SET: the action is disabled when the statement touches no row.      *)

(* INSERT; a second row for the address is a unique violation.             *)
CreateClient(email) ==
  /\ ~clients[email].exists
  /\ clients' = [clients EXCEPT ![email].exists = TRUE]

(* Faulty variants: no WHERE clause on verified_at; one too many.          *)
UnverifiedUnchecked(email) == clients[email].exists
UnverifiedUnrevoked(email) ==
  clients[email].exists /\ ~clients[email].verified /\ ~clients[email].revoked

Unverified(email) == clients[email].exists /\ ~clients[email].verified

(* Faulty variants: the row is reinstated too, as the in-memory store of   *)
(* the handler tests does; the plaintext is stored.                        *)
VerificationReinstates(row, apiKeyHash) ==
  [row EXCEPT !.verified = TRUE, !.hash = apiKeyHash, !.revoked = FALSE]
VerificationPlaintext(row, apiKeyHash) ==
  [row EXCEPT !.verified = TRUE, !.hash = apiKeyHash[2]]

Verification(row, apiKeyHash) ==
  [row EXCEPT !.verified = TRUE, !.hash = apiKeyHash]

MarkClientVerified(email, apiKeyHash) ==
  /\ Unverified(email)
  /\ clients' = [clients EXCEPT ![email] = Verification(@, apiKeyHash)]

Unrevoked(email) == clients[email].exists /\ ~clients[email].revoked

RevokeClient(email) ==
  /\ Unrevoked(email)
  /\ clients' = [clients EXCEPT ![email].revoked = TRUE]

(* The rows GetClientByAPIKeyHash may return.                              *)
GetClientByAPIKeyHash(hash) ==
  {e \in Emails : clients[e].exists /\ clients[e].hash = hash}

(* A key is honoured while its row is verified and not revoked.            *)
Active(email) == clients[email].verified /\ ~clients[email].revoked

-----------------------------------------------------------------------------
(* Tokens.                                                                 *)

CreateToken(email, tokenHash, type) ==
  tokens' = [tokens EXCEPT ![tokenHash] =
               [status |-> "live", email |-> email, type |-> type]]

(* Faulty variant: no used_at IS NULL.                                     *)
MatchesUsed(tokenHash, type) ==
  /\ tokens[tokenHash].status \in {"live", "used"}
  /\ tokens[tokenHash].type = type

(* WHERE token_hash, type, used_at IS NULL AND expires_at > now().         *)
Matches(tokenHash, type) ==
  /\ tokens[tokenHash].status = "live"
  /\ tokens[tokenHash].type = type

(* One UPDATE ... RETURNING: test and mark are a single atomic statement.  *)
ConsumeToken(tokenHash, type) ==
  /\ Matches(tokenHash, type)
  /\ tokens' = [tokens EXCEPT ![tokenHash].status = "used"]

(* expires_at (24 hours after creation) passes.                            *)
TokenExpires(tokenHash) ==
  /\ tokens[tokenHash].status = "live"
  /\ tokens' = [tokens EXCEPT ![tokenHash].status = "expired"]
  /\ UNCHANGED clients

-----------------------------------------------------------------------------
(* Statements the administrator's runbook gives for the SQL prompt.        *)

AdminRevoke(email) ==
  /\ clients[email].exists
  /\ clients' = [clients EXCEPT ![email].revoked = TRUE]
  /\ UNCHANGED tokens

AdminReinstate(email) ==
  /\ clients[email].exists
  /\ clients' = [clients EXCEPT ![email].revoked = FALSE]
  /\ UNCHANGED tokens

(* DELETE of used rows and of those expired more than seven days ago.      *)
AdminPurge ==
  /\ \E old \in SUBSET {h \in Hashes : tokens[h].status = "expired"} :
       LET gone == old \cup {h \in Hashes : tokens[h].status = "used"}
       IN  /\ gone # {}
           /\ tokens' = [h \in Hashes |->
                           IF h \in gone
                           THEN [tokens[h] EXCEPT !.status = "purged"]
                           ELSE tokens[h]]
  /\ UNCHANGED clients

=============================================================================

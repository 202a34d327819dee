------------------------------- MODULE AuthFlow -------------------------------
(***************************************************************************)
(* The life of an API key: the handlers AuthRegister, AuthVerify and       *)
(* AuthReissue (api/internal/handler/auth.go) and the key check of the     *)
(* Auth middleware (api/internal/middleware/auth.go), running concurrently *)
(* over the tables of ClientStore.                                         *)
(*                                                                         *)
(* A request is a process; each of its steps ends with the next call that  *)
(* leaves the process (a statement, an e-mail, the response).  A request   *)
(* draws at most one secret - a token, if it is a register or a reissue,   *)
(* an API key, if it is a verify - so the secret is named by the request.  *)
(***************************************************************************)
EXTENDS ClientStore, Naturals

CONSTANTS
  Requests,  (* HTTP requests, each served once.                           *)
  MaxFaults  (* Database errors, crashes and lost responses of a behaviour.*)

ASSUME AuthAssumption == /\ Secrets = Requests
                         /\ MaxFaults \in Nat

VARIABLES
  pc,        (* What each request does next.                               *)
  req,       (* Its parameters, and the e-mail address of a consumed token.*)
  code,      (* Its HTTP status; 0 before the response.                    *)
  config,    (* Which of the database and the mail sender are configured;  *)
             (* there is no sender without a database (main.go:76).        *)
  inbox,     (* Tokens whose link reached the mailbox it was sent to.      *)
  handed,    (* Keys whose 200 response reached the caller.                *)
  faults     (* Faults so far.                                             *)

handlerVars == <<pc, req, code>>
worldVars == <<config, inbox, handed>>
vars == <<clients, tokens, pc, req, code, config, inbox, handed, faults>>

Ops == {"register", "verify", "reissue", "call"}

Labels == {"idle",
           "register.lookup", "register.create", "register.token",
           "register.mail",
           "verify.consume", "verify.revoke", "verify.mark", "verify.reply",
           "reissue.lookup", "reissue.token", "reissue.mail",
           "call.lookup",
           "done", "crashed"}

Codes == {0, 200, 202, 400, 401, 500, 503}

NoRequest == [op |-> None, email |-> None, secret |-> None, type |-> None]

Params == [op : Ops \cup {None}, email : Emails \cup {None},
           secret : Secrets \cup {None}, type : TokenTypes \cup {None}]

HandlerTypeOK == /\ pc \in [Requests -> Labels]
                 /\ req \in [Requests -> Params]
                 /\ code \in [Requests -> Codes]

TypeOK == /\ StoreTypeOK
          /\ HandlerTypeOK
          /\ config \in [store : BOOLEAN, sender : BOOLEAN]
          /\ inbox \subseteq Requests
          /\ handed \subseteq Requests
          /\ faults \in 0..MaxFaults

Init ==
  /\ StoreInit
  /\ pc = [r \in Requests |-> "idle"]
  /\ req = [r \in Requests |-> NoRequest]
  /\ code = [r \in Requests |-> 0]
  /\ config \in {c \in [store : BOOLEAN, sender : BOOLEAN] : c.sender => c.store}
  /\ inbox = {}
  /\ handed = {}
  /\ faults = 0

-----------------------------------------------------------------------------
(* Steps of a handler.                                                     *)

At(r, label) == pc[r] = label

Goto(r, label) == /\ pc' = [pc EXCEPT ![r] = label]
                  /\ UNCHANGED <<req, code>>

Reply(r, status) == /\ pc' = [pc EXCEPT ![r] = "done"]
                    /\ code' = [code EXCEPT ![r] = status]
                    /\ UNCHANGED req

(* A call fails: connection lost, time-out, or the request's context ended *)
(* because its client went away.                                           *)
Fault == faults < MaxFaults /\ faults' = faults + 1

NoFault == UNCHANGED faults

(* Without a database the auth handlers answer 503.  A body that does not  *)
(* decode or validate, or a token no mailbox ever received, gets 400, and  *)
(* a key that was never handed out 401.                                    *)
Refuse(r) ==
  /\ At(r, "idle")
  /\ \E status \in {401, IF config.store THEN 400 ELSE 503} : Reply(r, status)
  /\ NoFault
  /\ UNCHANGED <<storeVars, worldVars>>

(* A well-formed request reaches the first store call of its handler.      *)
Enter(r, label, params) ==
  /\ At(r, "idle")
  /\ config.store
  /\ req' = [req EXCEPT ![r] = params]
  /\ pc' = [pc EXCEPT ![r] = label]
  /\ NoFault
  /\ UNCHANGED <<storeVars, code, worldVars>>

-----------------------------------------------------------------------------
(* AuthRegister.                                                           *)

RegisterStart(r) ==
  \E e \in Emails :
    Enter(r, "register.lookup",
          [NoRequest EXCEPT !.op = "register", !.email = e])

(* Faulty variant: the client row is taken for granted.                    *)
RegisterLookupNoCreate(r) ==
  /\ At(r, "register.lookup")
  /\ NoFault
  /\ IF Active(req[r].email) THEN Reply(r, 202) ELSE Goto(r, "register.token")
  /\ UNCHANGED <<storeVars, worldVars>>

(* GetClientByEmail, and what the handler makes of the row it finds.       *)
RegisterLookup(r) ==
  /\ At(r, "register.lookup")
  /\ LET e == req[r].email
     IN  \/ /\ NoFault
            /\ Active(e)
            /\ Reply(r, 202)
         \/ /\ NoFault
            /\ ~Active(e)
            /\ Goto(r, IF clients[e].exists THEN "register.token"
                                            ELSE "register.create")
         \/ /\ Fault
            /\ Reply(r, 500)
  /\ UNCHANGED <<storeVars, worldVars>>

RegisterCreate(r) ==
  /\ At(r, "register.create")
  /\ LET e == req[r].email
     IN  \/ /\ NoFault
            /\ CreateClient(e)
            /\ Goto(r, "register.token")
         \/ /\ NoFault
            /\ clients[e].exists
            /\ Reply(r, 500)
            /\ UNCHANGED clients
         \/ /\ Fault
            /\ CreateClient(e) \/ UNCHANGED clients
            /\ Reply(r, 500)
  /\ UNCHANGED <<tokens, worldVars>>

(* Faulty variant: the error is logged and the link mailed all the same.   *)
MintTokenMailsAnyway(r, type, mail, status) ==
  /\ \/ NoFault /\ CreateToken(req[r].email, HashKey(r), type)
     \/ Fault /\ UNCHANGED tokens
  /\ Goto(r, mail)
  /\ UNCHANGED <<clients, worldVars>>

(* CreateToken; on an error the handler answers status and mails nothing.  *)
MintToken(r, type, mail, status) ==
  /\ \/ /\ NoFault
        /\ CreateToken(req[r].email, HashKey(r), type)
        /\ Goto(r, mail)
     \/ /\ Fault
        /\ CreateToken(req[r].email, HashKey(r), type) \/ UNCHANGED tokens
        /\ Reply(r, status)
  /\ UNCHANGED <<clients, worldVars>>

RegisterToken(r) ==
  /\ At(r, "register.token")
  /\ MintToken(r, "registration", "register.mail", 500)

(* The link is sent, or not (no sender, or SMTP fails, which is logged),   *)
(* and what was sent is delivered or lost: the answer is 202 in each case. *)
MailLink(r) ==
  /\ \/ config.sender /\ inbox' = inbox \cup {r}
     \/ UNCHANGED inbox
  /\ Reply(r, 202)
  /\ NoFault
  /\ UNCHANGED <<storeVars, config, handed>>

RegisterMail(r) == At(r, "register.mail") /\ MailLink(r)

-----------------------------------------------------------------------------
(* AuthVerify.                                                             *)

(* The caller knows the tokens of the mailboxes it reads, and may name     *)
(* either type for any of them.                                            *)
VerifyStart(r) ==
  \E t \in inbox, type \in TokenTypes :
    Enter(r, "verify.consume",
          [NoRequest EXCEPT !.op = "verify", !.secret = t, !.type = type])

(* Faulty variant: every verification revokes first.                       *)
AfterConsumeRevokes(type) == "verify.revoke"

AfterConsume(type) == IF type = "reissue" THEN "verify.revoke"
                                          ELSE "verify.mark"

(* ConsumeToken returns the row, whose e-mail address the handler keeps.   *)
VerifyConsume(r) ==
  /\ At(r, "verify.consume")
  /\ LET hash == HashKey(req[r].secret)
         type == req[r].type
     IN  \/ /\ NoFault
            /\ ConsumeToken(hash, type)
            /\ req' = [req EXCEPT ![r].email = tokens[hash].email]
            /\ pc' = [pc EXCEPT ![r] = AfterConsume(type)]
            /\ UNCHANGED code
         \/ /\ NoFault
            /\ ~Matches(hash, type)
            /\ Reply(r, 400)
            /\ UNCHANGED tokens
         \/ /\ Fault
            /\ ConsumeToken(hash, type) \/ UNCHANGED tokens
            /\ Reply(r, 400)
  /\ UNCHANGED <<clients, worldVars>>

VerifyRevoke(r) ==
  /\ At(r, "verify.revoke")
  /\ LET e == req[r].email
     IN  \/ /\ NoFault
            /\ RevokeClient(e)
            /\ Goto(r, "verify.mark")
         \/ /\ NoFault
            /\ ~Unrevoked(e)
            /\ Reply(r, 500)
            /\ UNCHANGED clients
         \/ /\ Fault
            /\ RevokeClient(e) \/ UNCHANGED clients
            /\ Reply(r, 500)
  /\ UNCHANGED <<tokens, worldVars>>

VerifyMark(r) ==
  /\ At(r, "verify.mark")
  /\ LET e == req[r].email
     IN  \/ /\ NoFault
            /\ MarkClientVerified(e, HashKey(r))
            /\ Goto(r, "verify.reply")
         \/ /\ NoFault
            /\ ~Unverified(e)
            /\ Reply(r, 500)
            /\ UNCHANGED clients
         \/ /\ Fault
            /\ MarkClientVerified(e, HashKey(r)) \/ UNCHANGED clients
            /\ Reply(r, 500)
  /\ UNCHANGED <<tokens, worldVars>>

(* The plaintext key leaves the process once, in this response.            *)
VerifyReply(r) ==
  /\ At(r, "verify.reply")
  /\ Reply(r, 200)
  /\ \/ NoFault /\ handed' = handed \cup {r}
     \/ Fault /\ UNCHANGED handed
  /\ UNCHANGED <<storeVars, config, inbox>>

-----------------------------------------------------------------------------
(* AuthReissue.                                                            *)

ReissueStart(r) ==
  \E e \in Emails :
    Enter(r, "reissue.lookup",
          [NoRequest EXCEPT !.op = "reissue", !.email = e])

(* Faulty variant: unknown addresses get a link as well.                   *)
ReissueLookupAny(r) ==
  /\ At(r, "reissue.lookup")
  /\ NoFault
  /\ Goto(r, "reissue.token")
  /\ UNCHANGED <<storeVars, worldVars>>

ReissueLookup(r) ==
  /\ At(r, "reissue.lookup")
  /\ \/ /\ NoFault
        /\ IF clients[req[r].email].verified
           THEN Goto(r, "reissue.token")
           ELSE Reply(r, 202)
     \/ /\ Fault
        /\ Reply(r, 202)
  /\ UNCHANGED <<storeVars, worldVars>>

ReissueToken(r) ==
  /\ At(r, "reissue.token")
  /\ MintToken(r, "reissue", "reissue.mail", 202)

ReissueMail(r) == At(r, "reissue.mail") /\ MailLink(r)

-----------------------------------------------------------------------------
(* Auth middleware, for a request that carries a key handed out earlier.   *)
(* A store that is nil or fails rejects the key like an unknown one.       *)

CallStart(r) ==
  \E k \in handed :
    Enter(r, "call.lookup", [NoRequest EXCEPT !.op = "call", !.secret = k])

(* Faulty variant: the key is looked up without hashing it.                *)
CallLookupUnhashed(r) ==
  /\ At(r, "call.lookup")
  /\ NoFault
  /\ LET rows == GetClientByAPIKeyHash(req[r].secret)
     IN  \/ \E e \in rows : Reply(r, IF Active(e) THEN 200 ELSE 401)
         \/ rows = {} /\ Reply(r, 401)
  /\ UNCHANGED <<storeVars, worldVars>>

CallLookup(r) ==
  /\ At(r, "call.lookup")
  /\ \/ /\ NoFault
        /\ LET rows == GetClientByAPIKeyHash(HashKey(req[r].secret))
           IN  \/ \E e \in rows : Reply(r, IF Active(e) THEN 200 ELSE 401)
               \/ rows = {} /\ Reply(r, 401)
     \/ /\ Fault
        /\ Reply(r, 401)
  /\ UNCHANGED <<storeVars, worldVars>>

-----------------------------------------------------------------------------
(* The environment.                                                        *)

Expire == \E t \in Requests : TokenExpires(HashKey(t))
          /\ UNCHANGED <<handlerVars, worldVars, faults>>

Revoke(e) == AdminRevoke(e) /\ UNCHANGED <<handlerVars, worldVars, faults>>

Reinstate(e) == AdminReinstate(e)
                /\ UNCHANGED <<handlerVars, worldVars, faults>>

Purge == AdminPurge /\ UNCHANGED <<handlerVars, worldVars, faults>>

(* The process stops between two steps: every request it serves is gone,   *)
(* what the statements committed stays.                                    *)
Crash ==
  /\ Fault
  /\ pc' = [r \in Requests |-> IF pc[r] \in {"idle", "done"}
                               THEN pc[r] ELSE "crashed"]
  /\ UNCHANGED <<storeVars, req, code, worldVars>>

Start(r) == \/ Refuse(r)
            \/ RegisterStart(r) \/ VerifyStart(r) \/ ReissueStart(r)
            \/ CallStart(r)

Serve(r) ==
  \/ RegisterLookup(r) \/ RegisterCreate(r) \/ RegisterToken(r) \/ RegisterMail(r)
  \/ VerifyConsume(r) \/ VerifyRevoke(r) \/ VerifyMark(r) \/ VerifyReply(r)
  \/ ReissueLookup(r) \/ ReissueToken(r) \/ ReissueMail(r)
  \/ CallLookup(r)

Next ==
  \/ \E r \in Requests : Start(r) \/ Serve(r)
  \/ \E e \in Emails : Revoke(e) \/ Reinstate(e)
  \/ Expire \/ Purge \/ Crash

Spec == Init /\ [][Next]_vars

(* The Go runtime runs every handler, and the database answers or fails.   *)
(* smtp.SendMail has no deadline (email.go:100): it may never return.       *)
Prompt(r) == /\ pc[r] \notin {"register.mail", "reissue.mail"}
             /\ Serve(r)

FairSpec == Spec /\ \A r \in Requests : WF_vars(Prompt(r))

-----------------------------------------------------------------------------
(* Safety.                                                                 *)

(* The requests whose ConsumeToken returned a row.                         *)
Consumed(r) == req[r].op = "verify" /\ req[r].email # None

(* A verification token lets one request past ConsumeToken (auth.go:128),  *)
(* however many present it at once or again after a crash or an error.     *)
TokenSpentOnce ==
  \A r1, r2 \in Requests :
    /\ Consumed(r1)
    /\ Consumed(r2)
    /\ req[r1].secret = req[r2].secret
    => r1 = r2

(* A key that was handed out stays the stored key of the address whose     *)
(* token bought it: MarkClientVerified never overwrites it, whatever other *)
(* verifications of that address are in flight (postgres.go:60).  Digests  *)
(* being injective, an address is never handed two keys.                   *)
HandedKeyStillStored ==
  \A k \in handed :
    /\ clients[req[k].email].verified
    /\ clients[req[k].email].hash = HashKey(k)

(* A link is mailed after its token row is committed (auth.go:93 before    *)
(* :100, :194 before :198), for a client row that exists.                  *)
MailedLinkIsStored ==
  \A t \in inbox :
    /\ tokens[HashKey(t)].status # "absent"
    /\ clients[tokens[HashKey(t)].email].exists

(* While nothing has failed, a registration link that was consumed in vain *)
(* (500 after ConsumeToken, auth.go:146-149) belongs to an address that    *)
(* already has its key: no first-time user is stranded by an interleaving. *)
VainLinkMeansKeyExists ==
  \A r \in Requests :
    /\ Consumed(r)
    /\ req[r].type = "registration"
    /\ code[r] = 500
    /\ faults = 0
    => clients[req[r].email].verified

(* No handler lifts a revocation: revoked_at is cleared by the             *)
(* administrator alone (postgres.go:60-73 leaves it, auth.go:93 mints      *)
(* tokens for revoked clients too).                                        *)
NoHandlerReinstates ==
  [][\A e \in Emails :
       clients[e].revoked /\ ~clients'[e].revoked => Reinstate(e)]_vars

(* A key goes dead by the administrator's hand, or by a request that       *)
(* consumed a reissue link minted for that address (auth.go:134-140).      *)
RevocationHasCause ==
  [][\A e \in Emails :
       Active(e) /\ ~Active(e)' =>
         \/ Revoke(e)
         \/ \E r \in Requests :
              /\ Consumed(r)
              /\ req[r].email = e
              /\ req[r].type = "reissue"
              /\ pc[r] = "verify.revoke"]_vars

(* The middleware refuses a key the service handed out only when its       *)
(* client is revoked or the lookup failed: what AuthVerify stores is what  *)
(* Auth looks up (auth.go:143, middleware/auth.go:50-53).                  *)
IssuedKeyHonoured ==
  [][\A r \in Requests :
       /\ pc[r] = "call.lookup"
       /\ pc'[r] = "done"
       /\ code'[r] = 401
       /\ faults' = faults
       => clients[req[req[r].secret].email].revoked]_vars

(* The service seen as a registry of keys.                                 *)
Account == [e \in Emails |-> IF ~clients[e].exists THEN "none"
                             ELSE IF clients[e].verified THEN "active"
                             ELSE "pending"]

KeyOf(hash) == IF hash = None THEN None
               ELSE CHOOSE s \in Secrets : HashKey(s) = hash

Key == [e \in Emails |-> KeyOf(clients[e].hash)]

Barred == {e \in Emails : clients[e].revoked}

Minted == [t \in Secrets |-> tokens[HashKey(t)].email]

Shown == {t \in Secrets : \E r \in Requests : Consumed(r) /\ req[r].secret = t}

Registry == INSTANCE KeyRegistry WITH
  account <- Account, key <- Key, barred <- Barred, minted <- Minted,
  shown <- Shown

(* The service keeps the promises of KeyRegistry at every step: no         *)
(* interleaving of register, verify and reissue (auth.go:45-205) gives an  *)
(* address a second key, or a key without a link mailed to that address.   *)
ImplementsRegistry == Registry!RegistrySpec

-----------------------------------------------------------------------------
(* What the documentation says of the flow.                                *)

(* "revokes the old key, generates and stores a new one" (architecture.md: *)
(* 178): a reissue link, once consumed and absent faults, buys a key.      *)
ReissueIssuesNewKey ==
  \A r \in Requests :
    /\ Consumed(r)
    /\ req[r].type = "reissue"
    /\ pc[r] = "done"
    /\ faults = 0
    => code[r] = 200

(* "always returns 202" (architecture.md:172): absent faults, a            *)
(* well-formed registration is accepted, whoever else registers.           *)
RegisterAlwaysAccepted ==
  \A r \in Requests :
    req[r].op = "register" /\ pc[r] = "done" /\ faults = 0 => code[r] = 202

-----------------------------------------------------------------------------
(* Liveness.                                                               *)

(* Absent faults, a live registration link that is submitted ends with the *)
(* owner of the address holding its key, or the link expired first.        *)
LinkLeadsToKey ==
  \A r \in Requests :
    LET link == tokens[HashKey(req[r].secret)]
        verifying == req[r].op = "verify" /\ req[r].type = "registration"
    IN  /\ verifying
        /\ At(r, "verify.consume")
        /\ link.status = "live"
        /\ link.type = "registration"
        ~> /\ verifying
           /\ \/ \E k \in handed : req[k].email = link.email
              \/ link.status = "expired"

=============================================================================

-------------------------- MODULE AuthFlowRefinement --------------------------
(***************************************************************************)
(* What the steps of AuthFlow may never do, and that AuthFlow implements   *)
(* the key registry of KeyRegistry: both follow from the inductive         *)
(* invariant of AuthFlowProofs, step by step.                              *)
(***************************************************************************)
EXTENDS AuthFlowProofs

(* What a request's own step leaves alone in the other requests, and what  *)
(* it may do to the clients table.                                         *)
LEMMA RevokedColumn ==
  ASSUME IInv, NEW r \in Requests, Start(r) \/ Serve(r)
  PROVE  \/ clients' = clients
         \/ \E e \in Emails : CreateClient(e)
         \/ VerifyRevoke(r) /\ RevokeClient(req[r].email)
         \/ VerifyMark(r) /\ MarkClientVerified(req[r].email, HashKey(r))
<1>1. CASE Start(r)
  BY <1>1 DEF Start, Refuse, RegisterStart, VerifyStart, ReissueStart,
              CallStart, Enter, storeVars
<1>2. CASE RegisterCreate(r)
  BY <1>2 DEF RegisterCreate, IInv, Inv, RequestShape, At, BeforeMinting
<1>3. CASE VerifyRevoke(r)
  BY <1>3 DEF VerifyRevoke
<1>4. CASE VerifyMark(r)
  BY <1>4 DEF VerifyMark
<1>5. CASE RegisterToken(r) \/ ReissueToken(r)
  BY <1>5 DEF RegisterToken, ReissueToken, MintToken
<1>6. CASE RegisterMail(r) \/ ReissueMail(r)
  BY <1>6 DEF RegisterMail, ReissueMail, MailLink, storeVars
<1>7. CASE RegisterLookup(r) \/ ReissueLookup(r) \/ CallLookup(r)
  BY <1>7 DEF RegisterLookup, ReissueLookup, CallLookup, storeVars
<1>8. CASE VerifyConsume(r) \/ VerifyReply(r)
  BY <1>8 DEF VerifyConsume, VerifyReply, storeVars
<1>9. QED
  BY <1>1, <1>2, <1>3, <1>4, <1>5, <1>6, <1>7, <1>8 DEF Serve

(* A step other than a request's or the administrator's writes no client.  *)
LEMMA OtherSteps ==
  ASSUME Expire \/ Purge \/ Crash \/ UNCHANGED vars
  PROVE  clients' = clients
BY DEF Expire, TokenExpires, Purge, AdminPurge, Crash, storeVars, vars

(* A request's step moves no other request.                                *)
LEMMA OwnState ==
  ASSUME HandlerTypeOK, NEW r \in Requests, Start(r) \/ Serve(r),
         NEW x \in Requests, x # r
  PROVE  pc'[x] = pc[x] /\ req'[x] = req[x]
<1> USE DEF HandlerTypeOK
<1>1. CASE RegisterStart(r) \/ VerifyStart(r) \/ ReissueStart(r) \/ CallStart(r)
  BY <1>1 DEF RegisterStart, VerifyStart, ReissueStart, CallStart, Enter
<1>2. ASSUME \/ \E label : Goto(r, label)
             \/ \E status : Reply(r, status)
      PROVE  pc'[x] = pc[x] /\ req'[x] = req[x]
  BY <1>2 DEF Goto, Reply
<1>0. CASE Refuse(r)
  BY <1>0, <1>2 DEF Refuse
<1>3. CASE RegisterLookup(r) \/ RegisterCreate(r)
  BY <1>2, <1>3 DEF RegisterLookup, RegisterCreate
<1>4. CASE RegisterToken(r) \/ ReissueToken(r)
  BY <1>2, <1>4 DEF RegisterToken, ReissueToken, MintToken
<1>5. CASE RegisterMail(r) \/ ReissueMail(r)
  BY <1>2, <1>5 DEF RegisterMail, ReissueMail, MailLink
<1>6. CASE VerifyConsume(r)
  BY <1>2, <1>6 DEF VerifyConsume
<1>7. CASE VerifyRevoke(r) \/ VerifyMark(r) \/ VerifyReply(r)
  BY <1>2, <1>7 DEF VerifyRevoke, VerifyMark, VerifyReply
<1>8. CASE ReissueLookup(r) \/ CallLookup(r)
  BY <1>2, <1>8 DEF ReissueLookup, CallLookup
<1>9. QED
  BY <1>0, <1>1, <1>3, <1>4, <1>5, <1>6, <1>7, <1>8 DEF Start, Serve

-----------------------------------------------------------------------------
(* Action properties.                                                      *)

(* No handler clears revoked_at: after a revocation only the administrator *)
(* brings a client back (postgres.go:60-73).                               *)
THEOREM RevocationsStand == Spec => NoHandlerReinstates
<1>1. ASSUME IInv, [Next]_vars, NEW e \in Emails,
             clients[e].revoked, ~clients'[e].revoked
      PROVE  Reinstate(e)
  <2> USE <1>1
  <2>0. StoreTypeOK
    BY DEF IInv, TypeOK
  <2>1. ASSUME NEW r \in Requests, Start(r) \/ Serve(r) PROVE FALSE
    <3>1. ASSUME NEW x \in Emails, CreateClient(x) PROVE FALSE
      BY <2>0, <3>1, CreateClientEffect
    <3>2. ASSUME VerifyRevoke(r), RevokeClient(req[r].email) PROVE FALSE
      BY <2>0, <3>2 DEF RevokeClient, StoreTypeOK, Client
    <3>3. ASSUME VerifyMark(r), MarkClientVerified(req[r].email, HashKey(r))
          PROVE  FALSE
      BY <2>0, <3>3
      DEF MarkClientVerified, Verification, StoreTypeOK, Client
    <3>4. QED
      BY <2>1, <3>1, <3>2, <3>3, RevokedColumn
  <2>2. ASSUME NEW x \in Emails, Revoke(x) PROVE FALSE
    BY <2>0, <2>2 DEF Revoke, AdminRevoke, StoreTypeOK, Client
  <2>3. ASSUME NEW x \in Emails, Reinstate(x) PROVE Reinstate(e)
    BY <2>0, <2>3 DEF Reinstate, AdminReinstate, StoreTypeOK, Client
  <2>4. QED
    BY <2>1, <2>2, <2>3, OtherSteps DEF Next
<1>2. IInv /\ [Next]_vars =>
        [\A e \in Emails :
           clients[e].revoked /\ ~clients'[e].revoked => Reinstate(e)]_vars
  BY <1>1
<1>3. QED
  BY <1>2, Invariance, PTL DEF Spec, NoHandlerReinstates

(* A key goes dead by the administrator's hand or by a consumed reissue    *)
(* link of its own address (auth.go:134-140).                              *)
THEOREM RevocationsHaveACause == Spec => RevocationHasCause
<1> DEFINE Cause(e) ==
      \/ Revoke(e)
      \/ \E r \in Requests :
           /\ Consumed(r)
           /\ req[r].email = e
           /\ req[r].type = "reissue"
           /\ pc[r] = "verify.revoke"
<1>1. ASSUME IInv, [Next]_vars, NEW e \in Emails, Active(e), ~Active(e)'
      PROVE  Cause(e)
  <2> USE <1>1
  <2>0. StoreTypeOK
    BY DEF IInv, TypeOK
  <2>1. ASSUME NEW r \in Requests, Start(r) \/ Serve(r) PROVE Cause(e)
    <3>1. ASSUME NEW x \in Emails, CreateClient(x) PROVE FALSE
      BY <2>0, <3>1, CreateClientEffect DEF Active
    <3>2. ASSUME VerifyRevoke(r), RevokeClient(req[r].email) PROVE Cause(e)
      <4>1. pc[r] = "verify.revoke" /\ Consumed(r) /\ req[r].type = "reissue"
        BY <3>2 DEF VerifyRevoke, At, IInv, Inv, RequestShape
      <4>2. req[r].email = e
        BY <2>0, <3>2 DEF RevokeClient, Active, StoreTypeOK, Client
      <4>3. QED
        BY <4>1, <4>2
    <3>3. ASSUME VerifyMark(r), MarkClientVerified(req[r].email, HashKey(r))
          PROVE  FALSE
      BY <2>0, <3>3
      DEF MarkClientVerified, Verification, Active, StoreTypeOK, Client
    <3>4. ASSUME clients' = clients PROVE FALSE
      BY <3>4 DEF Active
    <3>5. QED
      BY <2>1, <3>1, <3>2, <3>3, <3>4, RevokedColumn
  <2>2. ASSUME NEW x \in Emails, Revoke(x) PROVE Cause(e)
    BY <2>0, <2>2 DEF Revoke, AdminRevoke, Active, StoreTypeOK, Client
  <2>3. ASSUME NEW x \in Emails, Reinstate(x) PROVE FALSE
    BY <2>0, <2>3 DEF Reinstate, AdminReinstate, Active, StoreTypeOK, Client
  <2>4. ASSUME Expire \/ Purge \/ Crash \/ UNCHANGED vars PROVE FALSE
    BY <2>4, OtherSteps DEF Active
  <2>5. QED
    BY <2>1, <2>2, <2>3, <2>4 DEF Next
<1>2. IInv /\ [Next]_vars =>
        [\A e \in Emails : Active(e) /\ ~Active(e)' => Cause(e)]_vars
  BY <1>1
<1>3. QED
  BY <1>2, Invariance, PTL DEF Spec, RevocationHasCause

(* Auth refuses a key the service handed out only if its client is revoked *)
(* or the lookup failed: AuthVerify stores what Auth looks up              *)
(* (auth.go:143, middleware/auth.go:50-53).                                *)
THEOREM IssuedKeysAreHonoured == Spec => IssuedKeyHonoured
<1>1. ASSUME IInv, [Next]_vars, NEW r \in Requests, pc[r] = "call.lookup",
             pc'[r] = "done", code'[r] = 401, faults' = faults
      PROVE  clients[req[req[r].secret].email].revoked
  <2> USE <1>1
  <2>0. TypeOK /\ StoreTypeOK /\ HandlerTypeOK
    BY DEF IInv, TypeOK
  <2>1. CallLookup(r)
    <3>1. ASSUME NEW x \in Requests, Start(x) \/ Serve(x), ~CallLookup(x)
          PROVE  FALSE
      <4>1. x # r => pc'[r] = pc[r]
        BY <2>0, <3>1, OwnState
      <4>2. pc[x] # "call.lookup"
        BY <3>1
        DEF Start, Serve, Refuse, RegisterStart, VerifyStart, ReissueStart,
            CallStart, Enter, RegisterLookup, RegisterCreate, RegisterToken,
            RegisterMail, VerifyConsume, VerifyRevoke, VerifyMark, VerifyReply,
            ReissueLookup, ReissueToken, ReissueMail, At
      <4>3. QED
        BY <4>1, <4>2
    <3>2. ASSUME NEW x \in Requests, CallLookup(x), x # r PROVE FALSE
      BY <2>0, <3>2 DEF HandlerTypeOK, CallLookup, Reply
    <3>3. ASSUME \/ \E e \in Emails : Revoke(e) \/ Reinstate(e)
                 \/ Expire \/ Purge \/ Crash \/ UNCHANGED vars
          PROVE  FALSE
      BY <2>0, <3>3
      DEF HandlerTypeOK, Revoke, Reinstate, Expire, Purge, Crash, vars,
          handlerVars
    <3>4. QED
      BY <3>1, <3>2, <3>3 DEF Next
  <2> DEFINE k == req[r].secret
             email == req[k].email
  <2>2. k \in handed /\ k \in Requests /\ email \in Emails
    BY <2>0 DEF IInv, Inv, RequestShape, KeysInFlight, Consumed, TypeOK,
                HandlerTypeOK, Params
  <2>3. clients[email].verified /\ clients[email].hash = HashKey(k)
    BY <2>2 DEF IInv, Inv, HandedKeyStillStored
  <2>4. \A e \in Emails : clients[e].hash = HashKey(k) => e = email
    BY <2>2 DEF IInv, Inv, StoredKeys
  <2>5. GetClientByAPIKeyHash(HashKey(k)) = {email}
    BY <2>2, <2>3, <2>4 DEF GetClientByAPIKeyHash, IInv, Inv, StoredKeys
  <2>6. faults # faults + 1
    BY <2>0, AuthAssumption DEF TypeOK
  <2>7. ~Active(email)
    BY <2>0, <2>1, <2>5, <2>6 DEF CallLookup, Reply, Fault, HandlerTypeOK
  <2>8. QED
    BY <2>3, <2>7 DEF Active
<1>2. IInv /\ [Next]_vars =>
        [\A r \in Requests :
           /\ pc[r] = "call.lookup"
           /\ pc'[r] = "done"
           /\ code'[r] = 401
           /\ faults' = faults
           => clients[req[req[r].secret].email].revoked]_vars
  BY <1>1
<1>3. QED
  BY <1>2, Invariance, PTL DEF Spec, IssuedKeyHonoured

-----------------------------------------------------------------------------
(* AuthFlow implements KeyRegistry.                                        *)

(* The registry's key of an address is the key whose digest its row holds. *)
LEMMA KeyOfDigest ==
  ASSUME NEW s \in Secrets
  PROVE  KeyOf(HashKey(s)) = s
<1>1. \E t \in Secrets : HashKey(t) = HashKey(s)
  OBVIOUS
<1>2. HashKey(s) # None
  BY HashKeyType, AuthAssumption
<1>3. QED
  BY <1>1, <1>2, HashKeyInjective DEF KeyOf

(* The registry sees nothing of a step that leaves the client rows, the    *)
(* addresses of the token rows and the consumed tokens as they are.        *)
LEMMA Unseen ==
  ASSUME IInv
  PROVE  /\ UNCHANGED clients => UNCHANGED <<Account, Key, Barred>>
         /\ (\A t \in Secrets : tokens'[HashKey(t)].email = tokens[HashKey(t)].email)
            => UNCHANGED Minted
         /\ (\A r \in Requests : /\ Consumed(r)' <=> Consumed(r)
                                 /\ Consumed(r) => req'[r].secret = req[r].secret)
            => UNCHANGED Shown
<1>1. UNCHANGED clients => UNCHANGED <<Account, Key, Barred>>
  BY DEF Account, Key, Barred
<1>2. (\A t \in Secrets : tokens'[HashKey(t)].email = tokens[HashKey(t)].email)
      => UNCHANGED Minted
  BY DEF Minted
<1>3. (\A r \in Requests : /\ Consumed(r)' <=> Consumed(r)
                           /\ Consumed(r) => req'[r].secret = req[r].secret)
      => UNCHANGED Shown
  BY DEF Shown
<1>4. QED
  BY <1>1, <1>2, <1>3

(* RegisterCreate opens an account, or the registry sees nothing.          *)
LEMMA RegisterRefines ==
  ASSUME IInv, NEW r \in Requests, RegisterCreate(r)
  PROVE  [Registry!RegistryNext]_(Registry!registryVars)
<1> DEFINE e == req[r].email
<1>1. StoreTypeOK /\ HandlerTypeOK /\ e \in Emails
  BY DEF IInv, Inv, TypeOK, RequestShape, RegisterCreate, At, BeforeMinting
<1>2. UNCHANGED <<Minted, Shown>>
  BY Unseen DEF RegisterCreate, Goto, Reply, Consumed
<1>3. CASE UNCHANGED clients
  BY <1>2, <1>3, Unseen DEF Registry!registryVars
<1>4. CASE CreateClient(e)
  <2>1. ~clients[e].exists /\ ~clients[e].verified
    BY <1>1, <1>4 DEF CreateClient, IInv, Inv, StoredKeys
  <2>2. Account[e] = "none" /\ Account' = [Account EXCEPT ![e] = "pending"]
    BY <1>1, <1>4, <2>1, CreateClientEffect
    DEF Account, CreateClient, StoreTypeOK, Client
  <2>3. UNCHANGED <<Key, Barred>>
    <3>1. \A x \in Emails : /\ clients'[x].hash = clients[x].hash
                            /\ clients'[x].revoked <=> clients[x].revoked
      BY <1>1, <1>4, CreateClientEffect
    <3>2. QED
      BY <3>1 DEF Key, Barred
  <2>4. Registry!Register(e)
    BY <1>2, <2>2, <2>3 DEF Registry!Register
  <2>5. QED
    BY <1>1, <2>4 DEF Registry!RegistryNext
<1>5. QED
  BY <1>3, <1>4 DEF RegisterCreate

(* Inserting a token row mints a link for an address with an account.      *)
LEMMA MintRefines ==
  ASSUME IInv, NEW r \in Requests, RegisterToken(r) \/ ReissueToken(r)
  PROVE  [Registry!RegistryNext]_(Registry!registryVars)
<1> DEFINE e == req[r].email
<1>1. /\ StoreTypeOK /\ HandlerTypeOK /\ e \in Emails /\ clients[e].exists
      /\ tokens[HashKey(r)].email = None
  BY HashKeyType
  DEF IInv, Inv, TypeOK, RequestShape, DrawnTokens, TokenRows, RegisterToken,
      ReissueToken, At, BeforeMinting, Minting
<1>2. UNCHANGED <<clients, req>>
  BY DEF RegisterToken, ReissueToken, MintToken, Goto, Reply
<1>3. UNCHANGED <<Account, Key, Barred, Shown>>
  BY <1>2, Unseen DEF Consumed
<1>4. CASE UNCHANGED tokens
  BY <1>3, <1>4, Unseen DEF Registry!registryVars
<1>5. ASSUME NEW type \in TokenTypes, CreateToken(e, HashKey(r), type)
      PROVE  Registry!Mint(e, r)
  <2>1. r \in Secrets /\ HashKey(r) \in Hashes
    BY AuthAssumption, HashKeyType
  <2>2. Minted[r] = None /\ Minted' = [Minted EXCEPT ![r] = e]
    <3>1. tokens'[HashKey(r)].email = e
      BY <1>1, <1>5, <2>1, CreateTokenEffect
    <3>2. ASSUME NEW t \in Secrets, t # r
          PROVE  tokens'[HashKey(t)].email = tokens[HashKey(t)].email
      <4>1. HashKey(t) \in Hashes /\ HashKey(t) # HashKey(r)
        BY <3>2, HashKeyType, HashKeyInjective, AuthAssumption
      <4>2. QED
        BY <1>1, <1>5, <2>1, <4>1, CreateTokenEffect
    <3>3. QED
      BY <1>1, <2>1, <3>1, <3>2 DEF Minted
  <2>3. Account[e] # "none"
    BY <1>1 DEF Account
  <2>4. QED
    BY <1>3, <2>2, <2>3 DEF Registry!Mint
<1>6. QED
  BY <1>1, <1>4, <1>5, AuthAssumption
  DEF RegisterToken, ReissueToken, MintToken, TokenTypes, Registry!RegistryNext

(* ConsumeToken presents a link for the first time, or, when the answer    *)
(* of the database is lost, consumes it unseen.                            *)
LEMMA ConsumeRefines ==
  ASSUME IInv, NEW r \in Requests, VerifyConsume(r)
  PROVE  [Registry!RegistryNext]_(Registry!registryVars)
<1> DEFINE t == req[r].secret
           hash == HashKey(t)
<1>1. /\ StoreTypeOK /\ HandlerTypeOK /\ t \in Requests /\ hash \in Hashes
      /\ req[r].op = "verify" /\ req[r].email = None
  BY HashKeyType DEF IInv, Inv, TypeOK, RequestShape, VerifyConsume, At
<1>2. UNCHANGED clients
  BY DEF VerifyConsume
<1>3. \A h \in Hashes : tokens'[h].email = tokens[h].email
  BY <1>1, ConsumeTokenEffect DEF VerifyConsume
<1>4. UNCHANGED <<Account, Key, Barred, Minted>>
  BY <1>2, <1>3, Unseen, HashKeyType, AuthAssumption
<1>5. CASE UNCHANGED req
  BY <1>4, <1>5, Unseen DEF Registry!registryVars, Consumed
<1>6. CASE /\ ConsumeToken(hash, req[r].type)
           /\ req' = [req EXCEPT ![r].email = tokens[hash].email]
  <2>1. tokens[hash].status = "live" /\ tokens[hash].email \in Emails
    BY <1>1, <1>6, ConsumeTokenEffect, RowTypes DEF IInv, Inv, TokenRows
  <2>2. t \notin Shown
    BY <2>1 DEF Shown, IInv, Inv, ConsumedTokens
  <2>3. /\ Consumed(r)' /\ req'[r].secret = t
        /\ \A x \in Requests : x # r => req'[x] = req[x]
    BY <1>1, <1>6, <2>1, StoreAssumption DEF Consumed, HandlerTypeOK, Params
  <2>4. Shown' = Shown \cup {t}
    BY <1>1, <2>3, AuthAssumption DEF Shown, Consumed
  <2>5. Minted[t] # None
    BY <1>1, <2>1, StoreAssumption, AuthAssumption DEF Minted
  <2>6. Registry!Present(t)
    BY <1>4, <2>2, <2>4, <2>5 DEF Registry!Present
  <2>7. QED
    BY <1>1, <2>6, AuthAssumption DEF Registry!RegistryNext
<1>7. QED
  BY <1>5, <1>6 DEF VerifyConsume, Reply

(* Revoking bars the account of the link's address.                        *)
LEMMA RevokeRefines ==
  ASSUME IInv, NEW r \in Requests, VerifyRevoke(r)
  PROVE  [Registry!RegistryNext]_(Registry!registryVars)
<1> DEFINE e == req[r].email
<1>1. StoreTypeOK /\ HandlerTypeOK /\ e \in Emails
  BY DEF IInv, Inv, TypeOK, RequestShape, VerifyRevoke, At, Consumed,
         HandlerTypeOK, Params
<1>2. UNCHANGED <<Minted, Shown>>
  BY Unseen DEF VerifyRevoke, Goto, Reply, Consumed
<1>3. CASE UNCHANGED clients
  BY <1>2, <1>3, Unseen DEF Registry!registryVars
<1>4. CASE RevokeClient(e)
  <2>1. /\ clients[e].exists
        /\ \A x \in Emails : /\ clients'[x].exists <=> clients[x].exists
                             /\ clients'[x].verified <=> clients[x].verified
                             /\ clients'[x].hash = clients[x].hash
                             /\ x # e => clients'[x] = clients[x]
    BY <1>1, <1>4, RevokeClientEffect
  <2>2. clients'[e].revoked
    BY <1>1, <1>4 DEF RevokeClient, StoreTypeOK, Client
  <2>3. UNCHANGED <<Account, Key>>
    BY <2>1 DEF Account, Key
  <2>4. Account[e] # "none" /\ Barred' = Barred \cup {e}
    BY <1>1, <2>1, <2>2 DEF Account, Barred
  <2>5. Registry!Bar(e)
    BY <1>2, <2>3, <2>4 DEF Registry!Bar
  <2>6. QED
    BY <1>1, <2>5 DEF Registry!RegistryNext
<1>5. QED
  BY <1>3, <1>4 DEF VerifyRevoke

(* MarkClientVerified gives a pending account, for which a link was        *)
(* presented, a key that no address has.                                   *)
LEMMA MarkRefines ==
  ASSUME IInv, NEW r \in Requests, VerifyMark(r)
  PROVE  [Registry!RegistryNext]_(Registry!registryVars)
<1> DEFINE e == req[r].email
           t == req[r].secret
<1>1. /\ StoreTypeOK /\ HandlerTypeOK /\ e \in Emails /\ pc[r] = "verify.mark"
      /\ Consumed(r) /\ t \in Secrets /\ tokens[HashKey(t)].email = e
      /\ r \in Secrets /\ HashKey(r) \in Hashes
  BY HashKeyType, AuthAssumption
  DEF IInv, Inv, TypeOK, RequestShape, ConsumedTokens, VerifyMark, At,
      Consumed, HandlerTypeOK, Params
<1>2. UNCHANGED <<Minted, Shown>>
  BY Unseen DEF VerifyMark, Goto, Reply, Consumed
<1>3. CASE UNCHANGED clients
  BY <1>2, <1>3, Unseen DEF Registry!registryVars
<1>4. CASE MarkClientVerified(e, HashKey(r))
  <2>1. /\ clients[e].exists /\ ~clients[e].verified
        /\ clients'[e].verified /\ clients'[e].hash = HashKey(r)
        /\ \A x \in Emails : /\ clients'[x].exists <=> clients[x].exists
                             /\ clients'[x].revoked <=> clients[x].revoked
                             /\ x # e => clients'[x] = clients[x]
    BY <1>1, <1>4, MarkClientVerifiedEffect
  <2>2. Account[e] = "pending" /\ Account' = [Account EXCEPT ![e] = "active"]
    BY <1>1, <2>1 DEF Account
  <2>3. Key' = [Key EXCEPT ![e] = r]
    BY <1>1, <2>1, KeyOfDigest DEF Key
  <2>4. Barred' = Barred
    BY <2>1 DEF Barred
  <2>5. \A x \in Emails : Key[x] # r
    <3>1. SUFFICES ASSUME NEW x \in Emails, Key[x] = r PROVE FALSE
      OBVIOUS
    <3>2. clients[x].hash # None
      BY <1>1, <3>1, StoreAssumption DEF Key, KeyOf
    <3>3. PICK s \in Secrets : clients[x].hash = HashKey(s)
      BY <1>1, <3>2, RowTypes DEF Hashes
    <3>4. clients[x].hash = HashKey(r)
      BY <3>1, <3>3, KeyOfDigest DEF Key
    <3>5. QED
      BY <1>1, <3>4, AuthAssumption DEF IInv, Inv, StoredKeys
  <2>6. Registry!Claimed(e)
    BY <1>1, AuthAssumption DEF Registry!Claimed, Shown, Minted
  <2>7. Registry!Activate(e, r)
    BY <1>2, <2>2, <2>3, <2>4, <2>5, <2>6 DEF Registry!Activate
  <2>8. QED
    BY <1>1, <2>7 DEF Registry!RegistryNext
<1>5. QED
  BY <1>3, <1>4 DEF VerifyMark

(* The administrator bars and unbars; expiry and purge leave the addresses *)
(* of token rows alone, and a crash leaves the tables alone.               *)
LEMMA EnvironmentRefines ==
  ASSUME IInv,
         \/ \E e \in Emails : Revoke(e) \/ Reinstate(e)
         \/ Expire \/ Purge \/ Crash \/ UNCHANGED vars
  PROVE  [Registry!RegistryNext]_(Registry!registryVars)
<1>0. StoreTypeOK
  BY DEF IInv, TypeOK
<1>1. ASSUME NEW e \in Emails, Revoke(e) \/ Reinstate(e)
      PROVE  Registry!Bar(e) \/ Registry!Unbar(e)
  <2>1. UNCHANGED <<Minted, Shown>>
    BY <1>1, Unseen
    DEF Revoke, Reinstate, AdminRevoke, AdminReinstate, handlerVars, Consumed
  <2>2. /\ clients[e].exists
        /\ \A x \in Emails : /\ clients'[x].exists <=> clients[x].exists
                             /\ clients'[x].verified <=> clients[x].verified
                             /\ clients'[x].hash = clients[x].hash
                             /\ x # e => clients'[x] = clients[x]
    <3>1. CASE Revoke(e)
      BY <1>0, <3>1 DEF Revoke, AdminRevoke, StoreTypeOK, Client
    <3>2. CASE Reinstate(e)
      BY <1>0, <3>2 DEF Reinstate, AdminReinstate, StoreTypeOK, Client
    <3>3. QED
      BY <1>1, <3>1, <3>2
  <2>3. Account[e] # "none" /\ UNCHANGED <<Account, Key>>
    BY <2>2 DEF Account, Key
  <2>4. CASE Revoke(e)
    <3>1. clients'[e].revoked
      BY <1>0, <2>4 DEF Revoke, AdminRevoke, StoreTypeOK, Client
    <3>2. Barred' = Barred \cup {e}
      BY <2>2, <3>1 DEF Barred
    <3>3. QED
      BY <2>1, <2>3, <3>2 DEF Registry!Bar
  <2>5. CASE Reinstate(e)
    <3>1. ~clients'[e].revoked
      BY <1>0, <2>5 DEF Reinstate, AdminReinstate, StoreTypeOK, Client
    <3>2. Barred' = Barred \ {e}
      BY <2>2, <3>1 DEF Barred
    <3>3. QED
      BY <2>1, <2>3, <3>2 DEF Registry!Unbar
  <2>6. QED
    BY <1>1, <2>4, <2>5
<1>2. ASSUME Expire \/ Purge \/ Crash \/ UNCHANGED vars
      PROVE  UNCHANGED Registry!registryVars
  <2>1. UNCHANGED <<clients, req>>
    BY <1>2, OtherSteps DEF Expire, Purge, Crash, vars, handlerVars
  <2>2. \A h \in Hashes : tokens'[h].email = tokens[h].email
    <3>1. CASE Expire
      BY <1>0, <3>1 DEF Expire, TokenExpires, StoreTypeOK, Token
    <3>2. CASE Purge
      BY <1>0, <3>2 DEF Purge, AdminPurge, StoreTypeOK, Token
    <3>3. CASE Crash \/ UNCHANGED vars
      BY <3>3 DEF Crash, storeVars, vars
    <3>4. QED
      BY <1>2, <3>1, <3>2, <3>3
  <2>3. QED
    BY <2>1, <2>2, Unseen, HashKeyType, AuthAssumption
    DEF Registry!registryVars, Consumed
<1>3. QED
  BY <1>1, <1>2 DEF Registry!RegistryNext

(* A handler's step that runs no statement, or only reads, is unseen.      *)
LEMMA ReadingRefines ==
  ASSUME IInv, NEW r \in Requests,
         \/ Start(r)
         \/ RegisterLookup(r) \/ RegisterMail(r) \/ VerifyReply(r)
         \/ ReissueLookup(r) \/ ReissueMail(r) \/ CallLookup(r)
  PROVE  UNCHANGED Registry!registryVars
<1>1. UNCHANGED <<clients, tokens>>
  BY DEF Start, Refuse, RegisterStart, VerifyStart, ReissueStart, CallStart,
         Enter, RegisterLookup, RegisterMail, VerifyReply, ReissueLookup,
         ReissueMail, CallLookup, MailLink, storeVars
<1>2. \A x \in Requests : /\ Consumed(x)' <=> Consumed(x)
                          /\ Consumed(x) => req'[x].secret = req[x].secret
  <2>1. CASE UNCHANGED req
    BY <2>1 DEF Consumed
  <2>2. ASSUME NEW label, NEW params,
               params.op = "verify" => params.email = None,
               Enter(r, label, params)
        PROVE  \A x \in Requests :
                 /\ Consumed(x)' <=> Consumed(x)
                 /\ Consumed(x) => req'[x].secret = req[x].secret
    <3>1. ~Consumed(r)
      BY <2>2 DEF IInv, Inv, RequestShape, Enter, At, NoRequest, Consumed
    <3>2. ~Consumed(r)'
      BY <2>2 DEF Enter, Consumed, IInv, TypeOK, HandlerTypeOK
    <3>3. \A x \in Requests : x # r => req'[x] = req[x]
      BY <2>2 DEF Enter, IInv, TypeOK, HandlerTypeOK
    <3>4. QED
      BY <3>1, <3>2, <3>3 DEF Consumed
  <2>3. CASE RegisterStart(r)
    <3>1. \A e \in Emails :
            [NoRequest EXCEPT !.op = "register", !.email = e].op # "verify"
      BY DEF NoRequest
    <3>2. QED
      BY <2>2, <2>3, <3>1 DEF RegisterStart
  <2>4. CASE VerifyStart(r)
    <3>1. \A t \in inbox, type \in TokenTypes :
            [NoRequest EXCEPT !.op = "verify", !.secret = t, !.type = type].email
              = None
      BY DEF NoRequest
    <3>2. QED
      BY <2>2, <2>4, <3>1 DEF VerifyStart
  <2>5. CASE ReissueStart(r)
    <3>1. \A e \in Emails :
            [NoRequest EXCEPT !.op = "reissue", !.email = e].op # "verify"
      BY DEF NoRequest
    <3>2. QED
      BY <2>2, <2>5, <3>1 DEF ReissueStart
  <2>6. CASE CallStart(r)
    <3>1. \A k \in handed :
            [NoRequest EXCEPT !.op = "call", !.secret = k].op # "verify"
      BY DEF NoRequest
    <3>2. QED
      BY <2>2, <2>6, <3>1 DEF CallStart
  <2>7. CASE RegisterLookup(r) \/ ReissueLookup(r) \/ CallLookup(r) \/ Refuse(r)
    BY <2>1, <2>7
    DEF RegisterLookup, ReissueLookup, CallLookup, Refuse, Goto, Reply
  <2>8. CASE RegisterMail(r) \/ ReissueMail(r) \/ VerifyReply(r)
    BY <2>1, <2>8 DEF RegisterMail, ReissueMail, VerifyReply, MailLink, Reply
  <2>9. QED
    BY <2>3, <2>4, <2>5, <2>6, <2>7, <2>8 DEF Start
<1>3. QED
  BY <1>1, <1>2, Unseen DEF Registry!registryVars

(* At the start no account is open, no link minted.                        *)
LEMMA InitRefines == Init => Registry!RegistryInit
BY StoreAssumption, AuthAssumption, HashKeyType
DEF Init, StoreInit, NoClient, NoToken, NoRequest, Account, Key, KeyOf, Barred,
    Minted, Shown, Consumed, Registry!RegistryInit

(* Whatever the interleaving, the faults and the administrator do, the     *)
(* handlers (auth.go:45-205) keep the promises of the key registry.        *)
THEOREM AuthFlowImplementsRegistry == Spec => ImplementsRegistry
<1>1. IInv /\ [Next]_vars => [Registry!RegistryNext]_(Registry!registryVars)
  <2> SUFFICES ASSUME IInv, [Next]_vars
               PROVE  [Registry!RegistryNext]_(Registry!registryVars)
    OBVIOUS
  <2>1. ASSUME NEW r \in Requests, Start(r) \/ Serve(r)
        PROVE  [Registry!RegistryNext]_(Registry!registryVars)
    BY <2>1, ReadingRefines, RegisterRefines, MintRefines, ConsumeRefines,
       RevokeRefines, MarkRefines
    DEF Serve
  <2>2. QED
    BY <2>1, EnvironmentRefines DEF Next
<1>2. QED
  BY <1>1, InitRefines, Invariance, PTL
  DEF Spec, ImplementsRegistry, Registry!RegistrySpec

=============================================================================

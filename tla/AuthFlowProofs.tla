---------------------------- MODULE AuthFlowProofs ----------------------------
(***************************************************************************)
(* What holds of AuthFlow for every set of addresses and requests and      *)
(* every bound on the faults.                                              *)
(*                                                                         *)
(* The invariants of AuthFlow relate a token row or a client row to a      *)
(* request that may have ended long ago; what makes them inductive is      *)
(* where each request stands while it still carries a token or a key.      *)
(***************************************************************************)
EXTENDS AuthFlow, TLAPS

Minting == {"register.token", "reissue.token"}

BeforeMinting == {"idle", "register.lookup", "register.create",
                  "register.token", "reissue.lookup", "reissue.token"}

(* The parameters a handler relies on are there at each of its labels.     *)
RequestShape ==
  \A r \in Requests :
    /\ pc[r] = "idle" => req[r] = NoRequest
    /\ pc[r] \in (BeforeMinting \ {"idle"}) \cup {"register.mail", "reissue.mail"}
       => req[r].op \in {"register", "reissue"} /\ req[r].email \in Emails
    /\ pc[r] \in Minting => clients[req[r].email].exists
    /\ pc[r] = "verify.consume"
       => /\ req[r].op = "verify"
          /\ req[r].secret \in Requests
          /\ req[r].type \in TokenTypes
          /\ req[r].email = None
    /\ pc[r] \in {"verify.revoke", "verify.mark", "verify.reply"} => Consumed(r)
    /\ pc[r] = "verify.revoke" => req[r].type = "reissue"
    /\ pc[r] = "call.lookup" => req[r].op = "call" /\ req[r].secret \in handed

(* A token row, while there is one, carries the address of a client row.   *)
TokenRows ==
  \A h \in Hashes :
    /\ tokens[h].status = "absent" <=> tokens[h].email = None
    /\ tokens[h].status # "absent" => clients[tokens[h].email].exists

(* A row exists only for a token its request has drawn and inserted, and   *)
(* does exist once the request is to mail the link.                        *)
DrawnTokens ==
  \A r \in Requests :
    /\ tokens[HashKey(r)].status # "absent" =>
         /\ req[r].op \in {"register", "reissue"}
         /\ pc[r] \notin BeforeMinting
    /\ pc[r] \in {"register.mail", "reissue.mail"} =>
         tokens[HashKey(r)].status # "absent"

(* A consumed token stays consumed, and told its address to the request.   *)
ConsumedTokens ==
  \A r \in Requests :
    Consumed(r) =>
      /\ req[r].secret \in Requests
      /\ tokens[HashKey(req[r].secret)].status \in {"used", "purged"}
      /\ tokens[HashKey(req[r].secret)].email = req[r].email

(* A client row holds a digest from its verification on, and it is that of *)
(* a key drawn by a request that consumed a token of the address.          *)
StoredKeys ==
  \A e \in Emails :
    /\ clients[e].verified \/ clients[e].revoked => clients[e].exists
    /\ clients[e].verified <=> clients[e].hash # None
    /\ \A r \in Requests :
         clients[e].hash = HashKey(r) =>
           /\ Consumed(r)
           /\ req[r].email = e
           /\ pc[r] \in {"verify.reply", "done", "crashed"}

(* A key on its way out, or handed out, is the stored one.                 *)
KeysInFlight ==
  /\ \A r \in Requests :
       pc[r] = "verify.reply" =>
         /\ clients[req[r].email].verified
         /\ clients[req[r].email].hash = HashKey(r)
  /\ \A k \in handed : Consumed(k) /\ pc[k] = "done"

Inv == /\ RequestShape
       /\ TokenRows
       /\ DrawnTokens
       /\ ConsumedTokens
       /\ TokenSpentOnce
       /\ StoredKeys
       /\ KeysInFlight
       /\ HandedKeyStillStored
       /\ MailedLinkIsStored

IInv == TypeOK /\ Inv

-----------------------------------------------------------------------------
(* Digests are equal only if the secrets are.                              *)
LEMMA HashKeyInjective ==
  ASSUME NEW s, NEW t, HashKey(s) = HashKey(t)
  PROVE  s = t
BY DEF HashKey

(* Every request's own secret has a digest that indexes the token table.   *)
LEMMA HashKeyType ==
  ASSUME NEW s \in Requests
  PROVE  HashKey(s) \in Hashes /\ HashKey(s) # None
BY StoreAssumption, AuthAssumption DEF Hashes

-----------------------------------------------------------------------------
(* What each statement changes, field by field.                            *)

(* The fields of a row have the types of their columns.                    *)
LEMMA RowTypes ==
  ASSUME StoreTypeOK
  PROVE  /\ \A h \in Hashes : tokens[h].email \in Emails \cup {None}
         /\ \A e \in Emails : clients[e].hash \in Hashes \cup {None}
BY DEF StoreTypeOK, Client, Token

(* CreateClient adds a row and changes no other column of any row.         *)
LEMMA CreateClientEffect ==
  ASSUME StoreTypeOK, NEW e \in Emails, CreateClient(e)
  PROVE  /\ clients'[e].exists
         /\ \A x \in Emails : /\ clients[x].exists => clients'[x].exists
                              /\ clients'[x].verified <=> clients[x].verified
                              /\ clients'[x].revoked <=> clients[x].revoked
                              /\ clients'[x].hash = clients[x].hash
BY DEF StoreTypeOK, Client, CreateClient

(* RevokeClient changes revoked_at, of its own row.                        *)
LEMMA RevokeClientEffect ==
  ASSUME StoreTypeOK, NEW e \in Emails, RevokeClient(e)
  PROVE  /\ clients[e].exists
         /\ \A x \in Emails : /\ clients'[x].exists <=> clients[x].exists
                              /\ clients'[x].verified <=> clients[x].verified
                              /\ clients'[x].hash = clients[x].hash
                              /\ x # e => clients'[x] = clients[x]
BY DEF StoreTypeOK, Client, RevokeClient, Unrevoked

(* MarkClientVerified gives an unverified row its digest.                  *)
LEMMA MarkClientVerifiedEffect ==
  ASSUME StoreTypeOK, NEW e \in Emails, NEW h \in Hashes,
         MarkClientVerified(e, h)
  PROVE  /\ clients[e].exists /\ ~clients[e].verified
         /\ clients'[e].verified /\ clients'[e].hash = h
         /\ \A x \in Emails : /\ clients'[x].exists <=> clients[x].exists
                              /\ clients'[x].revoked <=> clients[x].revoked
                              /\ x # e => clients'[x] = clients[x]
BY DEF StoreTypeOK, Client, MarkClientVerified, Unverified, Verification

(* CreateToken writes one row.                                             *)
LEMMA CreateTokenEffect ==
  ASSUME StoreTypeOK, NEW e \in Emails, NEW h \in Hashes,
         NEW type \in TokenTypes, CreateToken(e, h, type)
  PROVE  /\ tokens'[h].status = "live" /\ tokens'[h].email = e
         /\ \A x \in Hashes : x # h => tokens'[x] = tokens[x]
BY DEF StoreTypeOK, Token, CreateToken

(* ConsumeToken changes the status of one live row to used.                *)
LEMMA ConsumeTokenEffect ==
  ASSUME StoreTypeOK, NEW h \in Hashes, NEW type, ConsumeToken(h, type)
  PROVE  /\ tokens[h].status = "live" /\ tokens'[h].status = "used"
         /\ tokens'[h].email = tokens[h].email
         /\ \A x \in Hashes : x # h => tokens'[x] = tokens[x]
BY DEF StoreTypeOK, Token, ConsumeToken, Matches

-----------------------------------------------------------------------------
(* Type correctness: first the statements, then the handlers' helpers,     *)
(* then the actions.                                                       *)

(* A statement on the clients table leaves rows of the table's type.       *)
LEMMA ClientStatementTypes ==
  ASSUME StoreTypeOK, NEW e, NEW h \in Hashes,
         \/ CreateClient(e) \/ MarkClientVerified(e, h) \/ RevokeClient(e)
         \/ UNCHANGED clients
  PROVE  clients' \in [Emails -> Client]
<1> USE DEF StoreTypeOK, Client
<1>1. CASE CreateClient(e)
  BY <1>1 DEF CreateClient
<1>2. CASE MarkClientVerified(e, h)
  BY <1>2 DEF MarkClientVerified, Verification
<1>3. CASE RevokeClient(e)
  BY <1>3 DEF RevokeClient
<1>4. QED
  BY <1>1, <1>2, <1>3

(* A statement on the token table leaves rows of the table's type.         *)
LEMMA TokenStatementTypes ==
  ASSUME StoreTypeOK, NEW e \in Emails \cup {None}, NEW h \in Hashes,
         NEW type \in TokenTypes,
         \/ CreateToken(e, h, type) \/ ConsumeToken(h, type)
         \/ UNCHANGED tokens
  PROVE  tokens' \in [Hashes -> Token]
<1> USE DEF StoreTypeOK, Token, TokenStatus
<1>1. CASE CreateToken(e, h, type)
  BY <1>1 DEF CreateToken
<1>2. CASE ConsumeToken(h, type)
  BY <1>2 DEF ConsumeToken
<1>3. QED
  BY <1>1, <1>2

(* The administrator's statements and the passing of time do so too.       *)
LEMMA EnvironmentTypes ==
  ASSUME StoreTypeOK,
         \/ \E e \in Emails : AdminRevoke(e) \/ AdminReinstate(e)
         \/ AdminPurge
         \/ \E h \in Hashes : TokenExpires(h)
  PROVE  StoreTypeOK'
<1> USE DEF StoreTypeOK, Client, Token, TokenStatus
<1>1. ASSUME NEW e \in Emails, AdminRevoke(e) \/ AdminReinstate(e)
      PROVE  StoreTypeOK'
  <2>1. CASE AdminRevoke(e)
    BY <2>1 DEF AdminRevoke
  <2>2. CASE AdminReinstate(e)
    BY <2>2 DEF AdminReinstate
  <2>3. QED
    BY <1>1, <2>1, <2>2
<1>2. CASE AdminPurge
  BY <1>2 DEF AdminPurge
<1>3. ASSUME NEW h \in Hashes, TokenExpires(h) PROVE StoreTypeOK'
  BY <1>3 DEF TokenExpires
<1>4. QED
  BY <1>1, <1>2, <1>3

(* A step to a label keeps the handlers' types.                            *)
LEMMA GotoTypes ==
  ASSUME HandlerTypeOK, NEW r \in Requests, NEW label \in Labels,
         Goto(r, label)
  PROVE  HandlerTypeOK'
BY DEF HandlerTypeOK, Goto

(* A response keeps the handlers' types.                                   *)
LEMMA ReplyTypes ==
  ASSUME HandlerTypeOK, NEW r \in Requests, NEW status \in Codes,
         Reply(r, status)
  PROVE  HandlerTypeOK'
BY DEF HandlerTypeOK, Reply, Labels

(* The count of faults stays within its bound.                             *)
LEMMA FaultType ==
  ASSUME faults \in 0..MaxFaults, Fault \/ NoFault
  PROVE  faults' \in 0..MaxFaults
BY AuthAssumption DEF Fault, NoFault

(* A request that enters a handler keeps the types.                        *)
LEMMA EnterTypes ==
  ASSUME TypeOK, NEW r \in Requests, NEW label \in Labels,
         NEW params \in Params, Enter(r, label, params)
  PROVE  TypeOK'
BY DEF TypeOK, StoreTypeOK, HandlerTypeOK, Enter, NoFault, storeVars, worldVars

(* Init establishes the types of the tables and of the handlers' state.    *)
LEMMA InitTypeOK == Init => TypeOK
BY StoreAssumption, AuthAssumption
   DEF Init, StoreInit, TypeOK, StoreTypeOK, Client, NoClient, Token, NoToken,
       TokenStatus, HandlerTypeOK, Params, Labels, Codes, NoRequest

(* Every step of a handler, of the administrator and of the clock keeps    *)
(* the tables and the handlers' state in their types.                      *)
LEMMA NextTypeOK == IInv /\ [Next]_vars => TypeOK'
<1> SUFFICES ASSUME TypeOK, Inv, [Next]_vars
             PROVE  TypeOK'
  BY DEF IInv
<1> USE AuthAssumption, HashKeyType
        DEF TypeOK, At, storeVars, worldVars, handlerVars
<1>0. ASSUME NEW r \in Requests
      PROVE  /\ req[r].email \in Emails \cup {None}
             /\ req[r].secret \in Secrets \cup {None}
             /\ req[r].type \in TokenTypes \cup {None}
  BY DEF HandlerTypeOK, Params
<1>1. ASSUME NEW r \in Requests, Refuse(r) PROVE TypeOK'
  BY <1>1, ReplyTypes, FaultType DEF Refuse, StoreTypeOK, Codes, NoFault
<1>2. ASSUME NEW r \in Requests, RegisterStart(r) PROVE TypeOK'
  BY <1>2, EnterTypes DEF RegisterStart, Params, NoRequest, Ops, Labels
<1>3. ASSUME NEW r \in Requests, VerifyStart(r) PROVE TypeOK'
  BY <1>3, EnterTypes DEF VerifyStart, Params, NoRequest, Ops, Labels
<1>4. ASSUME NEW r \in Requests, ReissueStart(r) PROVE TypeOK'
  BY <1>4, EnterTypes DEF ReissueStart, Params, NoRequest, Ops, Labels
<1>5. ASSUME NEW r \in Requests, CallStart(r) PROVE TypeOK'
  BY <1>5, EnterTypes DEF CallStart, Params, NoRequest, Ops, Labels
<1>6. ASSUME NEW r \in Requests, RegisterLookup(r) PROVE TypeOK'
  BY <1>6, GotoTypes, ReplyTypes, FaultType DEF RegisterLookup, StoreTypeOK, Labels, Codes
<1>7. ASSUME NEW r \in Requests, RegisterCreate(r) PROVE TypeOK'
  <2>1. clients' \in [Emails -> Client]
    BY <1>7, ClientStatementTypes DEF RegisterCreate
  <2>2. HandlerTypeOK'
    BY <1>7, GotoTypes, ReplyTypes DEF RegisterCreate, Labels, Codes
  <2>3. QED
    BY <1>7, <2>1, <2>2, FaultType DEF RegisterCreate, StoreTypeOK
<1>8. ASSUME NEW r \in Requests, RegisterToken(r) PROVE TypeOK'
  <2>1. tokens' \in [Hashes -> Token]
    BY <1>8, <1>0, TokenStatementTypes DEF RegisterToken, MintToken, TokenTypes
  <2>2. HandlerTypeOK'
    BY <1>8, GotoTypes, ReplyTypes DEF RegisterToken, MintToken, Labels, Codes
  <2>3. QED
    BY <1>8, <2>1, <2>2, FaultType DEF RegisterToken, MintToken, StoreTypeOK
<1>9. ASSUME NEW r \in Requests, RegisterMail(r) PROVE TypeOK'
  BY <1>9, ReplyTypes DEF RegisterMail, MailLink, NoFault, StoreTypeOK, Codes
<1>10. ASSUME NEW r \in Requests, VerifyConsume(r) PROVE TypeOK'
  <2> DEFINE hash == HashKey(req[r].secret)
  <2>0. hash \in Hashes /\ tokens[hash].email \in Emails \cup {None}
    BY <1>10, RowTypes DEF VerifyConsume, Inv, RequestShape
  <2>1. tokens' \in [Hashes -> Token]
    BY <1>10 DEF VerifyConsume, ConsumeToken, Matches, StoreTypeOK, Token, TokenStatus
  <2>2. HandlerTypeOK'
    <3>1. CASE /\ req' = [req EXCEPT ![r].email = tokens[hash].email]
               /\ pc' = [pc EXCEPT ![r] = AfterConsume(req[r].type)]
               /\ UNCHANGED code
               /\ Matches(hash, req[r].type)
      BY <2>0, <3>1 DEF AfterConsume, HandlerTypeOK, Params, Labels
    <3>2. QED
      BY <1>10, <3>1, ReplyTypes DEF VerifyConsume, ConsumeToken, Codes
  <2>3. QED
    BY <1>10, <2>1, <2>2, FaultType DEF VerifyConsume, StoreTypeOK
<1>11. ASSUME NEW r \in Requests, VerifyRevoke(r) PROVE TypeOK'
  <2>1. clients' \in [Emails -> Client]
    BY <1>11, ClientStatementTypes DEF VerifyRevoke
  <2>2. HandlerTypeOK'
    BY <1>11, GotoTypes, ReplyTypes DEF VerifyRevoke, Labels, Codes
  <2>3. QED
    BY <1>11, <2>1, <2>2, FaultType DEF VerifyRevoke, StoreTypeOK
<1>12. ASSUME NEW r \in Requests, VerifyMark(r) PROVE TypeOK'
  <2>1. clients' \in [Emails -> Client]
    BY <1>12, ClientStatementTypes DEF VerifyMark
  <2>2. HandlerTypeOK'
    BY <1>12, GotoTypes, ReplyTypes DEF VerifyMark, Labels, Codes
  <2>3. QED
    BY <1>12, <2>1, <2>2, FaultType DEF VerifyMark, StoreTypeOK
<1>13. ASSUME NEW r \in Requests, VerifyReply(r) PROVE TypeOK'
  BY <1>13, ReplyTypes, FaultType DEF VerifyReply, StoreTypeOK, Codes
<1>14. ASSUME NEW r \in Requests, ReissueLookup(r) PROVE TypeOK'
  BY <1>14, GotoTypes, ReplyTypes, FaultType DEF ReissueLookup, StoreTypeOK, Labels, Codes
<1>15. ASSUME NEW r \in Requests, ReissueToken(r) PROVE TypeOK'
  <2>1. tokens' \in [Hashes -> Token]
    BY <1>15, <1>0, TokenStatementTypes DEF ReissueToken, MintToken, TokenTypes
  <2>2. HandlerTypeOK'
    BY <1>15, GotoTypes, ReplyTypes DEF ReissueToken, MintToken, Labels, Codes
  <2>3. QED
    BY <1>15, <2>1, <2>2, FaultType DEF ReissueToken, MintToken, StoreTypeOK
<1>16. ASSUME NEW r \in Requests, ReissueMail(r) PROVE TypeOK'
  BY <1>16, ReplyTypes DEF ReissueMail, MailLink, NoFault, StoreTypeOK, Codes
<1>17. ASSUME NEW r \in Requests, CallLookup(r) PROVE TypeOK'
  BY <1>17, ReplyTypes, FaultType DEF CallLookup, StoreTypeOK, Codes
<1>18. ASSUME NEW e \in Emails, Revoke(e) \/ Reinstate(e) PROVE TypeOK'
  BY <1>18, EnvironmentTypes DEF Revoke, Reinstate, HandlerTypeOK
<1>19. CASE Expire \/ Purge
  BY <1>19, EnvironmentTypes DEF Expire, Purge, HandlerTypeOK
<1>20. CASE Crash
  BY <1>20, FaultType DEF Crash, StoreTypeOK, HandlerTypeOK, Labels
<1>21. CASE UNCHANGED vars
  BY <1>21 DEF vars, StoreTypeOK, HandlerTypeOK
<1>22. QED
  BY <1>1, <1>2, <1>3, <1>4, <1>5, <1>6, <1>7, <1>8, <1>9, <1>10, <1>11,
     <1>12, <1>13, <1>14, <1>15, <1>16, <1>17, <1>18, <1>19, <1>20, <1>21
  DEF Next, Start, Serve

-----------------------------------------------------------------------------
(* The inductive invariant.                                                *)

(* RegisterCreate adds a client row that no other row or request refers to.*)
LEMMA RegisterCreateInv ==
  ASSUME IInv, NEW r \in Requests, RegisterCreate(r)
  PROVE  Inv'
<1> DEFINE e == req[r].email
<1> USE DEF IInv, Inv
<1>1. e \in Emails /\ pc[r] = "register.create"
  BY DEF RequestShape, RegisterCreate, At, BeforeMinting
<1>2. TypeOK /\ StoreTypeOK /\ HandlerTypeOK /\ tokens' = tokens /\ req' = req
      /\ inbox' = inbox /\ handed' = handed
  BY DEF TypeOK, RegisterCreate, Goto, Reply, worldVars
<1>3. \A x \in Emails : /\ clients[x].exists => clients'[x].exists
                        /\ clients'[x].verified <=> clients[x].verified
                        /\ clients'[x].revoked <=> clients[x].revoked
                        /\ clients'[x].hash = clients[x].hash
  BY <1>1, <1>2, CreateClientEffect DEF RegisterCreate
<1>4. \/ pc' = [pc EXCEPT ![r] = "register.token"] /\ clients'[e].exists
      \/ pc' = [pc EXCEPT ![r] = "done"]
  BY <1>1, <1>2, CreateClientEffect DEF RegisterCreate, Goto, Reply
<1>5. RequestShape'
  BY <1>1, <1>2, <1>3, <1>4
  DEF RequestShape, HandlerTypeOK, BeforeMinting, Minting, Consumed
<1>6. TokenRows' /\ MailedLinkIsStored'
  BY <1>2, <1>3, RowTypes, StoreAssumption, AuthAssumption, HashKeyType DEF TypeOK, TokenRows, MailedLinkIsStored
<1>7. DrawnTokens' /\ ConsumedTokens' /\ TokenSpentOnce'
  BY <1>1, <1>2, <1>4
  DEF DrawnTokens, ConsumedTokens, TokenSpentOnce, Consumed, HandlerTypeOK,
      BeforeMinting
<1>8. StoredKeys'
  BY <1>1, <1>2, <1>3, <1>4 DEF StoredKeys, Consumed, HandlerTypeOK
<1>9. KeysInFlight' /\ HandedKeyStillStored'
  BY <1>1, <1>2, <1>3, <1>4, StoreAssumption
  DEF RequestShape, KeysInFlight, HandedKeyStillStored, Consumed, HandlerTypeOK,
      TypeOK, Params
<1>10. QED
  BY <1>5, <1>6, <1>7, <1>8, <1>9

(* Minting inserts a row where its request had none.                       *)
LEMMA MintTokenInv ==
  ASSUME IInv, NEW r \in Requests, RegisterToken(r) \/ ReissueToken(r)
  PROVE  Inv'
<1> DEFINE e == req[r].email
<1> USE DEF IInv, Inv
<1>1. /\ pc[r] \in Minting /\ e \in Emails /\ clients[e].exists
      /\ req[r].op \in {"register", "reissue"}
      /\ tokens[HashKey(r)].status = "absent"
  BY DEF RequestShape, DrawnTokens, RegisterToken, ReissueToken, At,
         BeforeMinting, Minting
<1>2. StoreTypeOK /\ HandlerTypeOK /\ clients' = clients /\ req' = req
      /\ inbox' = inbox /\ handed' = handed /\ inbox \subseteq Requests
  BY DEF TypeOK, RegisterToken, ReissueToken, MintToken, Goto, Reply, worldVars
<1>3. \/ /\ tokens'[HashKey(r)].status = "live"
         /\ tokens'[HashKey(r)].email = e
         /\ \A x \in Hashes : x # HashKey(r) => tokens'[x] = tokens[x]
         /\ \E mail \in {"register.mail", "reissue.mail", "done"} :
              pc' = [pc EXCEPT ![r] = mail]
      \/ tokens' = tokens /\ pc' = [pc EXCEPT ![r] = "done"]
  BY <1>1, <1>2, HashKeyType, CreateTokenEffect
  DEF RegisterToken, ReissueToken, MintToken, Goto, Reply, TokenTypes
<1>4. RequestShape'
  BY <1>1, <1>2, <1>3
  DEF RequestShape, HandlerTypeOK, BeforeMinting, Minting, Consumed
<1>5. TokenRows'
  BY <1>1, <1>2, <1>3, StoreAssumption, HashKeyType DEF TokenRows
<1>6. DrawnTokens'
  BY <1>1, <1>2, <1>3, HashKeyType, HashKeyInjective
  DEF DrawnTokens, HandlerTypeOK, BeforeMinting, Minting
<1>7. ConsumedTokens' /\ TokenSpentOnce'
  BY <1>1, <1>2, <1>3, HashKeyType, HashKeyInjective
  DEF ConsumedTokens, TokenSpentOnce, Consumed
<1>8. KeysInFlight' /\ HandedKeyStillStored'
  <2>1. handed \subseteq Requests /\ r \notin handed /\ pc'[r] # "verify.reply"
    BY <1>1, <1>2, <1>3 DEF TypeOK, HandlerTypeOK, KeysInFlight, Minting
  <2>2. \A x \in Requests : x # r => pc'[x] = pc[x]
    BY <1>2, <1>3 DEF HandlerTypeOK
  <2>3. QED
    BY <1>2, <2>1, <2>2 DEF KeysInFlight, HandedKeyStillStored, Consumed
<1>9. StoredKeys'
  <2>1. ~Consumed(r)
    BY <1>1 DEF Consumed
  <2>2. \A x \in Requests : x # r => pc'[x] = pc[x]
    BY <1>2, <1>3 DEF HandlerTypeOK
  <2>3. QED
    BY <1>2, <2>1, <2>2 DEF StoredKeys, Consumed
<1>10. MailedLinkIsStored'
  BY <1>1, <1>2, <1>3, HashKeyType DEF MailedLinkIsStored
<1>11. QED
  BY <1>4, <1>5, <1>6, <1>7, <1>8, <1>9, <1>10

(* ConsumeToken takes a live row, which no request had consumed.           *)
LEMMA VerifyConsumeInv ==
  ASSUME IInv, NEW r \in Requests, VerifyConsume(r)
  PROVE  Inv'
<1> DEFINE hash == HashKey(req[r].secret)
           email == tokens[hash].email
<1> USE DEF IInv, Inv
<1>1. /\ pc[r] = "verify.consume" /\ req[r].op = "verify"
      /\ req[r].secret \in Requests /\ req[r].email = None /\ hash \in Hashes
      /\ req[r].type \in TokenTypes
  BY HashKeyType DEF RequestShape, VerifyConsume, At
<1>2. /\ StoreTypeOK /\ HandlerTypeOK /\ inbox \subseteq Requests
      /\ handed \subseteq Requests
      /\ clients' = clients /\ inbox' = inbox /\ handed' = handed
  BY DEF TypeOK, VerifyConsume, worldVars
<1>3. \A h \in Hashes : /\ tokens'[h].email = tokens[h].email
                        /\ \/ tokens'[h].status = tokens[h].status
                           \/ h = hash /\ tokens[h].status = "live"
                                      /\ tokens'[h].status = "used"
  BY <1>1, <1>2, ConsumeTokenEffect DEF VerifyConsume
<1>4. \/ req' = req /\ pc' = [pc EXCEPT ![r] = "done"]
      \/ /\ tokens[hash].status = "live" /\ tokens'[hash].status = "used"
         /\ req' = [req EXCEPT ![r].email = email]
         /\ \/ pc' = [pc EXCEPT ![r] = "verify.mark"]
            \/ /\ pc' = [pc EXCEPT ![r] = "verify.revoke"]
               /\ req[r].type = "reissue"
  BY <1>1, <1>2, ConsumeTokenEffect DEF VerifyConsume, Reply, AfterConsume
<1>5. tokens[hash].status = "live" => email \in Emails
  BY <1>1, <1>2, RowTypes DEF TokenRows
<1>6. \A x \in Requests : /\ req'[x].op = req[x].op
                          /\ req'[x].secret = req[x].secret
                          /\ req'[x].type = req[x].type
                          /\ x # r => req'[x] = req[x] /\ pc'[x] = pc[x]
  BY <1>2, <1>4 DEF HandlerTypeOK, Params
<1>7. \/ req'[r] = req[r] /\ pc'[r] = "done"
      \/ /\ tokens[hash].status = "live" /\ tokens'[hash].status = "used"
         /\ req'[r].email = email
         /\ \/ pc'[r] = "verify.mark"
            \/ pc'[r] = "verify.revoke" /\ req[r].type = "reissue"
  BY <1>2, <1>4 DEF HandlerTypeOK, Params
<1>8. RequestShape'
  BY <1>1, <1>2, <1>5, <1>6, <1>7, StoreAssumption
  DEF RequestShape, BeforeMinting, Minting, Consumed
<1>9. TokenRows' /\ MailedLinkIsStored'
  BY <1>2, <1>3, HashKeyType DEF TokenRows, MailedLinkIsStored
<1>10. DrawnTokens'
  BY <1>1, <1>3, <1>6, <1>7, HashKeyType DEF DrawnTokens, BeforeMinting
<1>11. ConsumedTokens'
  BY <1>1, <1>3, <1>6, <1>7, HashKeyType DEF ConsumedTokens, Consumed
<1>12. TokenSpentOnce'
  BY <1>1, <1>6, <1>7 DEF TokenSpentOnce, ConsumedTokens, Consumed
<1>13. StoredKeys'
  BY <1>1, <1>2, <1>6 DEF StoredKeys, Consumed
<1>14. KeysInFlight' /\ HandedKeyStillStored'
  BY <1>1, <1>2, <1>6, <1>7 DEF KeysInFlight, HandedKeyStillStored, Consumed
<1>15. QED
  BY <1>8, <1>9, <1>10, <1>11, <1>12, <1>13, <1>14

(* A request revokes on the strength of a reissue token it consumed.       *)
LEMMA VerifyRevokeInv ==
  ASSUME IInv, NEW r \in Requests, VerifyRevoke(r)
  PROVE  Inv'
<1> DEFINE e == req[r].email
<1> USE DEF IInv, Inv
<1>1. /\ pc[r] = "verify.revoke" /\ Consumed(r) /\ e \in Emails
  BY DEF RequestShape, VerifyRevoke, At, TypeOK, HandlerTypeOK, Params, Consumed
<1>2. /\ StoreTypeOK /\ HandlerTypeOK /\ inbox \subseteq Requests
      /\ tokens' = tokens /\ req' = req /\ inbox' = inbox /\ handed' = handed
  BY DEF TypeOK, VerifyRevoke, Goto, Reply, worldVars
<1>3. \A x \in Emails : /\ clients'[x].exists <=> clients[x].exists
                        /\ clients'[x].verified <=> clients[x].verified
                        /\ clients'[x].hash = clients[x].hash
                        /\ clients'[x].revoked => clients[x].exists
  BY <1>1, <1>2, RevokeClientEffect DEF VerifyRevoke, StoredKeys
<1>4. \/ pc' = [pc EXCEPT ![r] = "verify.mark"]
      \/ pc' = [pc EXCEPT ![r] = "done"]
  BY DEF VerifyRevoke, Goto, Reply
<1>5. RequestShape'
  BY <1>1, <1>2, <1>3, <1>4
  DEF RequestShape, HandlerTypeOK, BeforeMinting, Minting, Consumed
<1>6. TokenRows' /\ MailedLinkIsStored'
  BY <1>2, <1>3, RowTypes, HashKeyType DEF TokenRows, MailedLinkIsStored
<1>7. DrawnTokens' /\ ConsumedTokens' /\ TokenSpentOnce'
  BY <1>1, <1>2, <1>4
  DEF DrawnTokens, ConsumedTokens, TokenSpentOnce, Consumed, HandlerTypeOK,
      BeforeMinting
<1>8. StoredKeys'
  BY <1>1, <1>2, <1>3, <1>4 DEF StoredKeys, Consumed, HandlerTypeOK
<1>9. KeysInFlight' /\ HandedKeyStillStored'
  BY <1>1, <1>2, <1>3, <1>4
  DEF RequestShape, KeysInFlight, HandedKeyStillStored, Consumed, HandlerTypeOK,
      TypeOK, Params
<1>10. QED
  BY <1>5, <1>6, <1>7, <1>8, <1>9

(* MarkClientVerified writes a digest where there was none, so no key that *)
(* is stored, in flight or handed out loses its row.                       *)
LEMMA VerifyMarkInv ==
  ASSUME IInv, NEW r \in Requests, VerifyMark(r)
  PROVE  Inv'
<1> DEFINE e == req[r].email
<1> USE DEF IInv, Inv
<1>1. /\ pc[r] = "verify.mark" /\ Consumed(r) /\ e \in Emails
      /\ HashKey(r) \in Hashes /\ HashKey(r) # None
  BY HashKeyType
  DEF RequestShape, VerifyMark, At, TypeOK, HandlerTypeOK, Params, Consumed
<1>2. /\ StoreTypeOK /\ HandlerTypeOK /\ inbox \subseteq Requests
      /\ tokens' = tokens /\ req' = req /\ inbox' = inbox /\ handed' = handed
  BY DEF TypeOK, VerifyMark, Goto, Reply, worldVars
<1>3. /\ \A x \in Emails : clients'[x].exists <=> clients[x].exists
      /\ \A x \in Emails : clients'[x].revoked => clients[x].exists
      /\ \/ clients' = clients /\ pc' = [pc EXCEPT ![r] = "done"]
         \/ /\ clients[e].exists /\ ~clients[e].verified
            /\ clients'[e].verified /\ clients'[e].hash = HashKey(r)
            /\ \A x \in Emails : x # e => clients'[x] = clients[x]
            /\ \/ pc' = [pc EXCEPT ![r] = "verify.reply"]
               \/ pc' = [pc EXCEPT ![r] = "done"]
  BY <1>1, <1>2, MarkClientVerifiedEffect
  DEF VerifyMark, Goto, Reply, StoredKeys
<1>4. RequestShape'
  BY <1>1, <1>2, <1>3
  DEF RequestShape, HandlerTypeOK, BeforeMinting, Minting, Consumed
<1>5. TokenRows' /\ MailedLinkIsStored'
  BY <1>2, <1>3, RowTypes, HashKeyType DEF TokenRows, MailedLinkIsStored
<1>6. DrawnTokens' /\ ConsumedTokens' /\ TokenSpentOnce'
  BY <1>1, <1>2, <1>3
  DEF DrawnTokens, ConsumedTokens, TokenSpentOnce, Consumed, HandlerTypeOK,
      BeforeMinting
<1>7. StoredKeys'
  BY <1>1, <1>2, <1>3, HashKeyInjective DEF StoredKeys, Consumed, HandlerTypeOK
<1>8. KeysInFlight' /\ HandedKeyStillStored'
  BY <1>1, <1>2, <1>3, StoreAssumption
  DEF RequestShape, KeysInFlight, HandedKeyStillStored, Consumed, HandlerTypeOK,
      TypeOK, Params
<1>9. QED
  BY <1>4, <1>5, <1>6, <1>7, <1>8

(* The steps that write no row of a table: what the request carries is     *)
(* read, sent or refused, and the invariant speaks of rows and requests.   *)
LEMMA HandlerStepInv ==
  ASSUME IInv, NEW r \in Requests,
         \/ Start(r)
         \/ RegisterLookup(r) \/ RegisterMail(r) \/ VerifyReply(r)
         \/ ReissueLookup(r) \/ ReissueMail(r) \/ CallLookup(r)
  PROVE  Inv'
<1> USE StoreAssumption, AuthAssumption, HashKeyType
    DEF Inv, IInv, TypeOK, StoreTypeOK, HandlerTypeOK, Params, Client, Token,
        At, Goto, Reply, Fault, NoFault, storeVars, worldVars, handlerVars,
        Consumed, NoRequest, Minting, BeforeMinting, RequestShape, TokenRows,
        DrawnTokens, ConsumedTokens, TokenSpentOnce, StoredKeys, KeysInFlight,
        HandedKeyStillStored, MailedLinkIsStored
<1>1. CASE Refuse(r)
  BY <1>1 DEF Refuse
<1>2. CASE RegisterStart(r)
  BY <1>2 DEF RegisterStart, Enter
<1>3. CASE VerifyStart(r)
  BY <1>3 DEF VerifyStart, Enter
<1>4. CASE ReissueStart(r)
  BY <1>4 DEF ReissueStart, Enter
<1>5. CASE CallStart(r)
  BY <1>5 DEF CallStart, Enter
<1>6. CASE RegisterLookup(r)
  <2>1. RequestShape'
    BY <1>6 DEF RegisterLookup
  <2>2. TokenRows' /\ ConsumedTokens' /\ TokenSpentOnce'
    BY <1>6 DEF RegisterLookup
  <2>3. DrawnTokens'
    BY <1>6 DEF RegisterLookup
  <2>4. StoredKeys'
    BY <1>6 DEF RegisterLookup
  <2>5. KeysInFlight' /\ HandedKeyStillStored' /\ MailedLinkIsStored'
    BY <1>6 DEF RegisterLookup
  <2>6. QED
    BY <2>1, <2>2, <2>3, <2>4, <2>5
<1>7. CASE RegisterMail(r)
  BY <1>7 DEF RegisterMail, MailLink
<1>8. CASE VerifyReply(r)
  BY <1>8, HashKeyInjective DEF VerifyReply
<1>9. CASE ReissueLookup(r)
  <2>1. RequestShape'
    BY <1>9 DEF ReissueLookup
  <2>2. TokenRows' /\ ConsumedTokens' /\ TokenSpentOnce'
    BY <1>9 DEF ReissueLookup
  <2>3. DrawnTokens'
    BY <1>9 DEF ReissueLookup
  <2>4. StoredKeys'
    BY <1>9 DEF ReissueLookup
  <2>5. KeysInFlight' /\ HandedKeyStillStored' /\ MailedLinkIsStored'
    BY <1>9 DEF ReissueLookup
  <2>6. QED
    BY <2>1, <2>2, <2>3, <2>4, <2>5
<1>10. CASE ReissueMail(r)
  BY <1>10 DEF ReissueMail, MailLink
<1>11. CASE CallLookup(r)
  <2>1. RequestShape'
    BY <1>11 DEF CallLookup
  <2>2. TokenRows' /\ ConsumedTokens' /\ TokenSpentOnce'
    BY <1>11 DEF CallLookup
  <2>3. DrawnTokens'
    BY <1>11 DEF CallLookup
  <2>4. StoredKeys'
    BY <1>11 DEF CallLookup
  <2>5. KeysInFlight' /\ HandedKeyStillStored' /\ MailedLinkIsStored'
    BY <1>11 DEF CallLookup
  <2>6. QED
    BY <2>1, <2>2, <2>3, <2>4, <2>5
<1>12. QED
  BY <1>1, <1>2, <1>3, <1>4, <1>5, <1>6, <1>7, <1>8, <1>9, <1>10, <1>11
  DEF Start

(* The administrator, the clock and a crash remove no row another row or   *)
(* request depends on, and make no token live or any digest change.        *)
LEMMA EnvironmentInv ==
  ASSUME IInv,
         \/ \E e \in Emails : Revoke(e) \/ Reinstate(e)
         \/ Expire \/ Purge \/ Crash \/ UNCHANGED vars
  PROVE  Inv'
<1> USE StoreAssumption, AuthAssumption, HashKeyType
    DEF Inv, IInv, TypeOK, StoreTypeOK, HandlerTypeOK, Params, Client, Token,
        At, Goto, Reply, Fault, NoFault, storeVars, worldVars, handlerVars,
        Consumed, NoRequest, Minting, BeforeMinting, RequestShape, TokenRows,
        DrawnTokens, ConsumedTokens, TokenSpentOnce, StoredKeys, KeysInFlight,
        HandedKeyStillStored, MailedLinkIsStored
<1>1. ASSUME NEW e \in Emails, Revoke(e) PROVE Inv'
  BY <1>1 DEF Revoke, AdminRevoke
<1>2. ASSUME NEW e \in Emails, Reinstate(e) PROVE Inv'
  BY <1>2 DEF Reinstate, AdminReinstate
<1>3. CASE Expire
  BY <1>3, HashKeyInjective DEF Expire, TokenExpires
<1>4. CASE Purge
  BY <1>4, HashKeyInjective DEF Purge, AdminPurge
<1>5. CASE Crash
  BY <1>5 DEF Crash
<1>6. CASE UNCHANGED vars
  BY <1>6 DEF vars
<1>7. QED
  BY <1>1, <1>2, <1>3, <1>4, <1>5, <1>6

(* In the first state nothing is registered, drawn, consumed or handed out.*)
LEMMA InitInv == Init => IInv
<1> SUFFICES ASSUME Init PROVE IInv
  OBVIOUS
<1>1. TypeOK
  BY InitTypeOK
<1>2. Inv
  BY StoreAssumption, AuthAssumption, HashKeyType
  DEF Init, StoreInit, NoClient, NoToken, NoRequest, Inv, RequestShape,
      TokenRows, DrawnTokens, ConsumedTokens, TokenSpentOnce, StoredKeys,
      KeysInFlight, HandedKeyStillStored, MailedLinkIsStored, Consumed,
      BeforeMinting, Minting
<1>3. QED
  BY <1>1, <1>2 DEF IInv

(* The invariant is inductive.                                             *)
LEMMA NextInv == IInv /\ [Next]_vars => IInv'
<1> SUFFICES ASSUME IInv, [Next]_vars PROVE IInv'
  OBVIOUS
<1>1. TypeOK'
  BY NextTypeOK
<1>2. ASSUME NEW r \in Requests, Start(r) \/ Serve(r) PROVE Inv'
  BY <1>2, HandlerStepInv, RegisterCreateInv, MintTokenInv, VerifyConsumeInv,
     VerifyRevokeInv, VerifyMarkInv
  DEF Serve
<1>3. Inv'
  BY <1>2, EnvironmentInv DEF Next
<1>4. QED
  BY <1>1, <1>3 DEF IInv

-----------------------------------------------------------------------------
(* The invariants.                                                         *)

(* Every reachable state satisfies the inductive invariant.                *)
THEOREM Invariance == Spec => []IInv
  BY InitInv, NextInv, PTL DEF Spec

(* The tables and the handlers' state keep their types: in particular only *)
(* digests are stored, and e-mail addresses reach a handler with a token.  *)
THEOREM TypeCorrect == Spec => []TypeOK
  BY Invariance, PTL DEF IInv

(* A verification token buys at most one pass through ConsumeToken.        *)
THEOREM TokensAreSpentOnce == Spec => []TokenSpentOnce
  BY Invariance, PTL DEF IInv, Inv

(* A key that was handed out is never overwritten by another verification. *)
THEOREM HandedKeysStayStored == Spec => []HandedKeyStillStored
  BY Invariance, PTL DEF IInv, Inv

(* A link in a mailbox was committed before it was sent.                   *)
THEOREM MailedLinksAreStored == Spec => []MailedLinkIsStored
  BY Invariance, PTL DEF IInv, Inv

-----------------------------------------------------------------------------
(* Links consumed in vain.                                                 *)

(* A request has no status before its response.                            *)
Unanswered == \A r \in Requests : pc[r] # "done" => code[r] = 0

(* VainLinkMeansKeyExists looks back from a response to the moment it was  *)
(* decided: no response exists before that, and until a fault the client   *)
(* row the response was about stays verified.                              *)
VainInv == Unanswered /\ VainLinkMeansKeyExists

(* No statement and no administrator takes verified_at back.               *)
LEMMA VerifiedForGood ==
  ASSUME IInv, [Next]_vars, NEW e \in Emails, clients[e].verified
  PROVE  clients'[e].verified
<1> USE DEF IInv, TypeOK, storeVars
<1>1. ASSUME NEW x \in Emails,
             CreateClient(x) \/ RevokeClient(x) \/ Revoke(x) \/ Reinstate(x)
      PROVE  clients'[e].verified
  BY <1>1 DEF CreateClient, RevokeClient, Revoke, Reinstate, AdminRevoke,
              AdminReinstate, StoreTypeOK, Client
<1>2. ASSUME NEW x \in Emails, NEW h \in Hashes, MarkClientVerified(x, h)
      PROVE  clients'[e].verified
  BY <1>2, MarkClientVerifiedEffect
<1>3. CASE UNCHANGED clients
  BY <1>3
<1>4. ASSUME NEW r \in Requests, Start(r)
      PROVE  UNCHANGED clients
  BY <1>4 DEF Start, Refuse, RegisterStart, VerifyStart, ReissueStart,
              CallStart, Enter
<1>5. ASSUME NEW r \in Requests, Serve(r)
      PROVE  clients'[e].verified
  <2>1. CASE RegisterCreate(r)
    <3>1. req[r].email \in Emails
      BY <2>1 DEF RegisterCreate, At, Inv, RequestShape, BeforeMinting
    <3>2. QED
      BY <2>1, <3>1, <1>1, <1>3 DEF RegisterCreate
  <2>2. CASE VerifyRevoke(r)
    <3>1. req[r].email \in Emails
      BY <2>2 DEF VerifyRevoke, At, Inv, RequestShape, Consumed, HandlerTypeOK,
                  Params
    <3>2. QED
      BY <2>2, <3>1, <1>1, <1>3 DEF VerifyRevoke
  <2>3. CASE VerifyMark(r)
    <3>1. req[r].email \in Emails /\ HashKey(r) \in Hashes
      BY <2>3, HashKeyType
         DEF VerifyMark, At, Inv, RequestShape, Consumed, HandlerTypeOK, Params
    <3>2. QED
      BY <2>3, <3>1, <1>2, <1>3 DEF VerifyMark
  <2>4. QED
    BY <1>3, <1>5, <2>1, <2>2, <2>3
       DEF Serve, RegisterLookup, RegisterToken, MintToken, RegisterMail,
           MailLink, VerifyConsume, VerifyReply, ReissueLookup, ReissueToken,
           ReissueMail, CallLookup
<1>6. CASE Expire \/ Purge \/ Crash \/ UNCHANGED vars
  BY <1>3, <1>6 DEF Expire, TokenExpires, Purge, AdminPurge, Crash, vars
<1>7. QED
  BY <1>1, <1>3, <1>4, <1>5, <1>6 DEF Next

(* Faults are counted, never forgotten.                                    *)
LEMMA FaultsAccumulate ==
  ASSUME IInv, [Next]_vars
  PROVE  faults' = 0 => faults = 0
<1>1. faults \in Nat /\ (Fault \/ NoFault => (faults' = 0 => faults = 0))
  BY AuthAssumption DEF IInv, TypeOK, Fault, NoFault
<1>2. ASSUME NEW r \in Requests, Start(r) PROVE Fault \/ NoFault
  BY <1>2 DEF Start, Refuse, RegisterStart, VerifyStart, ReissueStart,
              CallStart, Enter
<1>3. ASSUME NEW r \in Requests, Serve(r) PROVE Fault \/ NoFault
  BY <1>3 DEF Serve, RegisterLookup, RegisterCreate, RegisterToken, MintToken,
              RegisterMail, MailLink, VerifyConsume, VerifyRevoke, VerifyMark,
              VerifyReply, ReissueLookup, ReissueToken, ReissueMail, CallLookup
<1>4. CASE Crash
  BY <1>1, <1>4 DEF Crash
<1>5. ASSUME NEW e \in Emails, Revoke(e) \/ Reinstate(e)
      PROVE  faults' = faults
  BY <1>5 DEF Revoke, Reinstate
<1>6. CASE Expire \/ Purge \/ UNCHANGED vars
  BY <1>6 DEF Expire, Purge, vars
<1>7. QED
  BY <1>1, <1>2, <1>3, <1>4, <1>5, <1>6 DEF Next

(* A request that starts is refused, or enters its handler.               *)
LEMMA StartEffect ==
  ASSUME TypeOK, NEW r \in Requests, Start(r)
  PROVE  /\ pc[r] = "idle"
         /\ \/ /\ pc'[r] = "done"
               /\ req' = req
            \/ /\ pc'[r] # "done"
               /\ code' = code
         /\ \A x \in Requests \ {r} : /\ pc'[x] = pc[x]
                                      /\ req'[x] = req[x]
                                      /\ code'[x] = code[x]
<1> USE DEF TypeOK, HandlerTypeOK
<1>1. CASE Refuse(r)
  BY <1>1 DEF Refuse, At, Reply
<1>2. ASSUME NEW label, label # "done", NEW params, Enter(r, label, params)
      PROVE  /\ pc[r] = "idle"
             /\ pc'[r] # "done"
             /\ code' = code
             /\ \A x \in Requests \ {r} : pc'[x] = pc[x] /\ req'[x] = req[x]
  BY <1>2 DEF Enter, At
<1>3. CASE RegisterStart(r) \/ VerifyStart(r) \/ ReissueStart(r) \/ CallStart(r)
  <2>1. \E label, params : label # "done" /\ Enter(r, label, params)
    BY <1>3 DEF RegisterStart, VerifyStart, ReissueStart, CallStart
  <2>2. QED
    BY <1>2, <2>1
<1>4. QED
  BY <1>1, <1>3 DEF Start

(* A step of a request leaves the others alone, and is its last exactly    *)
(* when it sends a response.                                               *)
LEMMA OneRequestMoves ==
  ASSUME IInv, NEW r \in Requests, Start(r) \/ Serve(r)
  PROVE  /\ pc[r] # "done"
         /\ pc'[r] # "done" => code'[r] = code[r]
         /\ \A x \in Requests \ {r} : /\ pc'[x] = pc[x]
                                      /\ req'[x] = req[x]
                                      /\ code'[x] = code[x]
<1> USE DEF IInv, TypeOK, HandlerTypeOK, At, Goto, Reply
<1>1. CASE Start(r)
  BY <1>1, StartEffect
<1>2. CASE RegisterLookup(r) \/ RegisterCreate(r) \/ ReissueLookup(r)
  BY <1>2 DEF RegisterLookup, RegisterCreate, ReissueLookup
<1>3. CASE RegisterToken(r) \/ ReissueToken(r)
  BY <1>3 DEF RegisterToken, ReissueToken, MintToken
<1>4. CASE RegisterMail(r) \/ ReissueMail(r)
  BY <1>4 DEF RegisterMail, ReissueMail, MailLink
<1>5. CASE VerifyConsume(r)
  BY <1>5 DEF VerifyConsume
<1>6. CASE VerifyRevoke(r) \/ VerifyMark(r) \/ VerifyReply(r) \/ CallLookup(r)
  BY <1>6 DEF VerifyRevoke, VerifyMark, VerifyReply, CallLookup
<1>7. QED
  BY <1>1, <1>2, <1>3, <1>4, <1>5, <1>6 DEF Serve

(* The only 500 a request answers after it consumed a registration link is *)
(* that of MarkClientVerified, which without a fault touched no row: the   *)
(* row is there, so it is verified.                                        *)
LEMMA VainAnswer ==
  ASSUME IInv, NEW r \in Requests, Start(r) \/ Serve(r), pc'[r] = "done",
         Consumed(r)', req'[r].type = "registration", code'[r] = 500,
         faults' = 0
  PROVE  clients'[req'[r].email].verified
<1> USE DEF IInv, TypeOK, HandlerTypeOK, At, Goto, Reply
<1>1. ~Fault
  BY AuthAssumption DEF Fault
<1>2. CASE Start(r)
  <2>1. req' = req /\ req[r] = NoRequest
    BY <1>2, StartEffect DEF Inv, RequestShape
  <2>2. QED
    BY <2>1 DEF Consumed, NoRequest
<1>3. CASE \/ RegisterLookup(r) \/ RegisterCreate(r) \/ RegisterToken(r)
           \/ RegisterMail(r) \/ ReissueLookup(r) \/ ReissueToken(r)
           \/ ReissueMail(r)
  <2>1. req' = req /\ req[r].op \in {"register", "reissue"}
    BY <1>3 DEF RegisterLookup, RegisterCreate, RegisterToken, RegisterMail,
                ReissueLookup, ReissueToken, ReissueMail, MintToken, MailLink,
                Inv, RequestShape, BeforeMinting
  <2>2. QED
    BY <2>1 DEF Consumed
<1>4. CASE VerifyConsume(r)
  <2>1. /\ req[r].email = None
        /\ code'[r] = 400 \/ pc'[r] # "done" \/ req' = req
    <3>1. req[r].email = None
      BY <1>4 DEF VerifyConsume, Inv, RequestShape
    <3>2. CASE Reply(r, 400)
      BY <3>2
    <3>3. CASE pc' = [pc EXCEPT ![r] = AfterConsume(req[r].type)]
      BY <3>3 DEF AfterConsume
    <3>4. QED
      BY <1>4, <3>1, <3>2, <3>3 DEF VerifyConsume
  <2>2. QED
    BY <2>1 DEF Consumed
<1>5. CASE VerifyRevoke(r)
  BY <1>5 DEF VerifyRevoke, Inv, RequestShape
<1>6. CASE VerifyMark(r)
  <2> DEFINE e == req[r].email
  <2>1. req' = req /\ Consumed(r) /\ e \in Emails
    BY <1>6 DEF VerifyMark, Inv, RequestShape, Consumed, Params
  <2>2. ~Unverified(e) /\ clients' = clients
    BY <1>1, <1>6 DEF VerifyMark
  <2>3. clients[e].exists
    BY <2>1, HashKeyType, StoreAssumption
       DEF Inv, ConsumedTokens, TokenRows
  <2>4. QED
    BY <2>1, <2>2, <2>3 DEF Unverified
<1>7. CASE VerifyReply(r) \/ CallLookup(r)
  BY <1>7 DEF VerifyReply, CallLookup
<1>8. QED
  BY <1>2, <1>3, <1>4, <1>5, <1>6, <1>7 DEF Serve

(* The look back survives every step.                                      *)
LEMMA NextVainInv == IInv /\ VainInv /\ [Next]_vars => VainInv'
<1> SUFFICES ASSUME IInv, VainInv, [Next]_vars PROVE VainInv'
  OBVIOUS
<1> USE DEF VainInv, Unanswered, VainLinkMeansKeyExists
<1>1. ASSUME NEW x \in Requests, Consumed(x), req'[x] = req[x],
             clients[req[x].email].verified
      PROVE  clients'[req'[x].email].verified
  BY <1>1, VerifiedForGood DEF IInv, TypeOK, HandlerTypeOK, Params, Consumed
<1>2. ASSUME NEW r \in Requests, Start(r) \/ Serve(r) PROVE VainInv'
  <2>1. /\ pc[r] # "done"
        /\ pc'[r] # "done" => code'[r] = 0
        /\ \A x \in Requests \ {r} : /\ pc'[x] = pc[x]
                                     /\ req'[x] = req[x]
                                     /\ code'[x] = code[x]
    BY <1>2, OneRequestMoves
  <2>2. Unanswered'
    BY <2>1
  <2>3. ASSUME NEW x \in Requests, Consumed(x)', req'[x].type = "registration",
               code'[x] = 500, faults' = 0
        PROVE  clients'[req'[x].email].verified
    <3>1. CASE x = r
      BY <1>2, <2>1, <2>3, <3>1, VainAnswer
    <3>2. CASE x # r
      <4>1. Consumed(x) /\ faults = 0
        BY <2>1, <2>3, <3>2, FaultsAccumulate DEF Consumed
      <4>2. clients[req[x].email].verified
        BY <2>1, <2>3, <3>2, <4>1
      <4>3. QED
        BY <1>1, <2>1, <3>2, <4>1, <4>2
    <3>3. QED
      BY <3>1, <3>2
  <2>4. QED
    BY <2>2, <2>3
<1>3. CASE \/ \E e \in Emails : Revoke(e) \/ Reinstate(e)
           \/ Expire \/ Purge \/ Crash \/ UNCHANGED vars
  <2>1. /\ req' = req /\ code' = code
        /\ \A x \in Requests : pc'[x] = "done" <=> pc[x] = "done"
    BY <1>3 DEF Revoke, Reinstate, Expire, Purge, Crash, handlerVars, vars,
                IInv, TypeOK, HandlerTypeOK
  <2>2. ASSUME NEW x \in Requests, Consumed(x)', req'[x].type = "registration",
               code'[x] = 500, faults' = 0
        PROVE  clients'[req'[x].email].verified
    BY <1>1, <2>1, <2>2, FaultsAccumulate DEF Consumed
  <2>3. QED
    BY <2>1, <2>2
<1>4. QED
  BY <1>2, <1>3 DEF Next

(* While nothing has failed, a registration link consumed in vain belongs  *)
(* to an address that has its key already (auth.go:146-149): whichever     *)
(* requests interleave, no first-time user is stranded by them alone.      *)
THEOREM VainLinksMeanKeys == Spec => []VainLinkMeansKeyExists
<1>1. Init => VainInv
  BY DEF Init, NoRequest, VainInv, Unanswered, VainLinkMeansKeyExists, Consumed
<1>2. QED
  BY <1>1, Invariance, NextVainInv, PTL DEF Spec, VainInv

=============================================================================

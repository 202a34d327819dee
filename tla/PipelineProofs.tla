----------------------------- MODULE PipelineProofs ----------------------------
(***************************************************************************)
(* What holds of the gates for any requests, finitely many, any clients,   *)
(* addresses, limits, edits and outages.                                   *)
(*                                                                         *)
(* The budgets of RequestPipeline are those of owners, its limiters count  *)
(* keys; the invariant relates the two and says what a window may hold.    *)
(***************************************************************************)
EXTENDS RequestPipeline, FiniteSetTheorems, WellFoundedInduction, TLAPS

Credential(r) == req[r].visit.credential

(* The key a request is counted under.                                     *)
KeyOf(r) ==
  <<IF Route(r) \in Auth THEN "auth" ELSE "main",
    IF Route(r) \in Main /\ Credential(r) \in Clients
    THEN <<"client", Credential(r)>> ELSE <<"ip", req[r].visit.address>>>>

(* Which gates a request has behind it.                                    *)
GatesPassed ==
  \A r \in Requests :
    /\ pc[r] \in {"idle", "auth", "limit"} => decision[r] = NotAsked /\ r \notin ran
    /\ pc[r] = "auth" => Route(r) \in Main
    /\ pc[r] = "limit" => Route(r) \in Main \cup Auth
    /\ pc[r] = "token" => Route(r) = "admin"
    /\ pc[r] = "token" => r \notin ran
    /\ r \in ran => pc[r] \in {"handler", "done"}
    /\ pc[r] \in {"token", "handler"} \/ r \in ran =>
         (Route(r) \in Auth => r \in Asked)
    /\ r \in Asked /\ decision[r].allowed => pc[r] \in {"token", "handler", "done"}
    /\ decision[r] = Failed => pc[r] \in {"handler", "done"}

(* The context carries the client whose key was accepted.                  *)
ClientsCarried ==
  \A r \in Requests :
    /\ pc[r] \in {"idle", "auth"} => client[r] = Anonymous
    /\ client[r] # Anonymous =>
         /\ Route(r) \in Main
         /\ client[r].id = Credential(r)
    /\ pc[r] = "limit" /\ Route(r) \in Main /\ Credential(r) # "none" =>
         client[r] # Anonymous

(* What was decided was decided for the owner.                             *)
DecidedForOwner ==
  \A r \in Asked :
    /\ Route(r) \in Main \cup Auth
    /\ decision[r].key = KeyOf(r)
    /\ decision[r].stamp <= now
    /\ Route(r) \in Auth => decision[r].rpm = AuthRPM
    /\ decision[r].allowed => decision[r].rpm > 0
    /\ ~decision[r].allowed => pc[r] = "done" /\ r \notin ran

(* A revocation stands, and a key that was accepted was not revoked when   *)
(* its request came.                                                       *)
KeysWereGood ==
  \A r \in Requests :
    pc[r] # "idle" =>
      /\ \A c \in req[r].revoked : row[c].revoked
      /\ Route(r) \in Main /\ Credential(r) # "none"
           /\ (pc[r] \in {"limit", "handler"} \/ r \in ran) =>
           /\ Credential(r) \in Clients
           /\ row[Credential(r)].verified
           /\ Credential(r) \notin req[r].revoked

(* Admitted requests of one key, no two of them a window apart.            *)
Together ==
  {T \in SUBSET Asked :
     /\ \A d \in T : decision[d].allowed
     /\ \A d, e \in T : /\ decision[d].key = decision[e].key
                        /\ decision[d].stamp > decision[e].stamp - Window}

(* One of them, the last, had room for all.                                *)
WindowsFit ==
  \A T \in Together : T # {} => \E e \in T : Cardinality(T) <= decision[e].rpm

IInv == /\ TypeOK
        /\ GatesPassed
        /\ ClientsCarried
        /\ DecidedForOwner
        /\ KeysWereGood
        /\ OutageOpensMainOnly
        /\ WindowsFit
        /\ RefusalIsDeserved

-----------------------------------------------------------------------------
(* Sets and values.                                                        *)

(* The counts of SlidingWindow are counts.                                 *)
LEMMA WindowCounts ==
  ASSUME NEW S
  PROVE  Window_!Cardinality(S) = Cardinality(S)
BY Zenon DEF Window_!Cardinality, Cardinality

(* A set of numbers has a least one.                                       *)
LEMMA Least ==
  ASSUME NEW T, T \subseteq Nat, T # {}
  PROVE  \E x \in T : \A y \in T : x <= y
<1> DEFINE R == OpToRel(<, Nat)
<1>1. IsWellFoundedOn(R, Nat)
  BY NatLessThanWellFounded
<1>2. \A x, y \in Nat : <<x, y>> \in R <=> x < y
  BY DEF OpToRel
<1> HIDE DEF R
<1>3. PICK x \in T : \A y \in T : ~(<<y, x>> \in R)
  BY <1>1, WFMin, Zenon
<1>4. \A y \in T : ~(y < x) /\ x \in Nat /\ y \in Nat
  BY <1>2, <1>3
<1>5. \A y \in T : x <= y
  BY <1>4
<1> QED
  BY <1>5

(* A decision, its absence and a failure differ.                           *)
LEMMA Outcomes ==
  /\ NotAsked \notin Decided
  /\ Failed \notin Decided
  /\ NotAsked # Failed
BY DEF NotAsked, Failed, Decided

(* Requests are finitely many, and so are those of any kind.               *)
LEMMA Finite ==
  ASSUME NEW S, S \subseteq Requests
  PROVE  IsFiniteSet(S) /\ Cardinality(S) \in Nat
BY PipelineAssumption, FS_Subset, FS_CardinalityType

(* What TypeOK says of a request that has come.                            *)
LEMMA Visited ==
  ASSUME TypeOK, NEW r \in Requests, pc[r] # "idle"
  PROVE  /\ req[r].revoked \subseteq Clients
         /\ req[r].visit \in Visit
         /\ Route(r) \in Main \cup Auth \cup {"preflight", "probe", "metrics"}
         /\ Credential(r) \in Credentials
         /\ req[r].visit.address \in Addresses
         /\ KeyOf(r) \in Key
<1>1. req[r] \in Request
  BY DEF TypeOK
<1>2. req[r].visit \in Visit /\ req[r].revoked \subseteq Clients
  BY <1>1 DEF Request
<1>3. /\ Route(r) \in Main \cup Auth \cup {"preflight", "probe", "metrics"}
      /\ Credential(r) \in Credentials
      /\ req[r].visit.address \in Addresses
  BY <1>2 DEF Visit, Route, Credential
<1>4. KeyOf(r) \in Key
  BY <1>3 DEF KeyOf, Key, Main, Auth
<1> QED
  BY <1>2, <1>3, <1>4

(* Two requests have an owner and a kind of route in common if and only if *)
(* they have the key in common.                                            *)
LEMMA OwnersAreKeys ==
  ASSUME IInv, NEW d \in Requests, NEW r \in Requests,
         pc[d] # "idle", pc[r] # "idle",
         Route(d) \in Main \cup Auth, Route(r) \in Main \cup Auth
  PROVE  KeyOf(d) = KeyOf(r) <=>
           (Route(d) \in Auth <=> Route(r) \in Auth) /\ Owner(d) = Owner(r)
<1>1. /\ req[d].visit.address \in Addresses
      /\ req[r].visit.address \in Addresses
      /\ Clients \cap Addresses = {}
  BY Visited, PipelineAssumption DEF IInv
<1>2. Main \cap Auth = {}
  BY DEF Main, Auth
<1> QED
  BY <1>1, <1>2 DEF KeyOf, Owner, Credential

(* The key the code counts under is that of the owner.                     *)
LEMMA BudgetIsKey ==
  ASSUME IInv, NEW r \in Requests, pc[r] = "limit"
  PROVE  /\ Budget(r) = KeyOf(r)
         /\ Budget(r) \in Key
         /\ Limit(r) \in Int
         /\ Route(r) \in Auth => Limit(r) = AuthRPM
         /\ Route(r) \in Main \cup Auth
<1>1. Route(r) \in Main \cup Auth /\ Main \cap Auth = {}
  BY DEF IInv, GatesPassed, Main, Auth
<1>2. client[r] # Anonymous =>
        /\ Route(r) \in Main
        /\ client[r].id = Credential(r)
        /\ Credential(r) \in Clients
        /\ client[r].rpm \in Int
  <2>1. client[r] \in ClientInfo
    BY DEF IInv, TypeOK
  <2>2. client[r] # Anonymous => client[r].id \in Clients /\ client[r].rpm \in Int
    BY <2>1 DEF ClientInfo
  <2> QED
    BY <2>2 DEF IInv, ClientsCarried
<1>3. Route(r) \in Main /\ Credential(r) \in Clients => client[r] # Anonymous
  BY PipelineAssumption DEF IInv, ClientsCarried
<1>4. Budget(r) = KeyOf(r)
  BY <1>1, <1>2, <1>3 DEF Budget, KeyOf, Limiter
<1>5. Limit(r) \in Int /\ (Route(r) \in Auth => Limit(r) = AuthRPM)
  BY <1>1, <1>2, PipelineAssumption DEF Limit, Limiter
<1> QED
  BY <1>1, <1>4, <1>5, Visited DEF IInv

(* The admitted requests a decision on r takes into account.               *)
Counted(r) == {d \in Asked : /\ decision[d].key = KeyOf(r)
                             /\ decision[d].allowed
                             /\ decision[d].stamp > now - Window}

(* What SlidingWindow counts, with the latest stamp being now's at most.   *)
LEMMA RecentIsCounted ==
  ASSUME IInv, NEW r \in Requests, pc[r] = "limit"
  PROVE  Window_!Recent(Budget(r), now) = Counted(r)
<1>1. \A d \in Asked :
        /\ decision[d].stamp \in Int /\ decision[d].rpm \in Int
        /\ decision[d].stamp <= now
        /\ decision[d].allowed => decision[d].rpm > 0
  BY DEF IInv, DecidedForOwner, Asked, Decided, Times
<1>2. now \in Int /\ Window \in Int
  BY PipelineAssumption DEF IInv, TypeOK, Times
<1>3. Budget(r) = KeyOf(r)
  BY BudgetIsKey
<1> QED
  BY <1>1, <1>2, <1>3 DEF Window_!Recent, Window_!Decided, Counted

(* The verdict is typed, and depends on how many there are.                *)
LEMMA VerdictIs ==
  ASSUME IInv, NEW r \in Requests, pc[r] = "limit",
         NEW verdict, verdict = Window_!Verdict(Budget(r), Limit(r), now)
  PROVE  /\ verdict \in Decided
         /\ verdict.key = KeyOf(r)
         /\ verdict.rpm = Limit(r)
         /\ verdict.stamp = now
         /\ verdict.allowed <=> Cardinality(Counted(r)) < Limit(r)
<1> DEFINE count == Cardinality(Counted(r))
<1>1. count \in Nat
  BY Finite DEF Counted, Asked
<1>2. Window_!Cardinality(Window_!Recent(Budget(r), now)) = count
  BY RecentIsCounted, WindowCounts, Zenon
<1>3. Limit(r) \in Int /\ Budget(r) \in Key /\ Budget(r) = KeyOf(r) /\ now \in Times
  BY BudgetIsKey DEF IInv, TypeOK
<1> HIDE DEF count
<1>4. verdict = IF count < Limit(r)
                THEN [key |-> Budget(r), rpm |-> Limit(r), stamp |-> now,
                      allowed |-> TRUE, remaining |-> Limit(r) - count - 1]
                ELSE [key |-> Budget(r), rpm |-> Limit(r), stamp |-> now,
                      allowed |-> FALSE, remaining |-> 0]
  BY <1>2 DEF Window_!Verdict
<1>5. count < Limit(r) => Limit(r) - count - 1 \in Nat
  BY <1>1, <1>3
<1>6. verdict \in Decided
  <2> DEFINE D(a, n) == [key |-> Budget(r), rpm |-> Limit(r), stamp |-> now,
                         allowed |-> a, remaining |-> n]
  <2>0. \A a \in BOOLEAN, n \in Nat : D(a, n) \in Decided
    BY <1>3 DEF Decided
  <2>1. CASE count < Limit(r)
    <3>1. verdict = D(TRUE, Limit(r) - count - 1)
      BY <1>4, <2>1
    <3> QED
      BY <1>5, <2>0, <2>1, <3>1, Zenon
  <2>2. CASE ~(count < Limit(r))
    <3>1. verdict = D(FALSE, 0)
      BY <1>4, <2>2
    <3> QED
      BY <2>0, <3>1
  <2> QED
    BY <2>1, <2>2
<1>7. verdict.key = KeyOf(r) /\ verdict.rpm = Limit(r) /\ verdict.stamp = now
  BY <1>3, <1>4
<1>8. verdict.allowed <=> count < Limit(r)
  BY <1>4
<1> QED
  BY <1>6, <1>7, <1>8 DEF count

(* Whatever the clock says, a 429 asks for a positive number of seconds.   *)
LEMMA RetryAfterType ==
  ASSUME IInv, NEW r \in Requests, pc[r] = "limit"
  PROVE  RetryAfter(Budget(r), Limit(r)) \in Nat \ {0}
<1> DEFINE stamps == {decision[d].stamp : d \in Window_!Recent(Budget(r), now)}
<1>1. stamps \subseteq Nat
  <2>1. Window_!Recent(Budget(r), now) \subseteq Asked
    BY RecentIsCounted DEF Counted
  <2> QED
    BY <2>1, PipelineAssumption DEF Asked, Decided, Times
<1> HIDE DEF stamps
<1>2. stamps # {} => Oldest(stamps) \in Nat
  BY <1>1, Least DEF Oldest
<1>3. now \in Int /\ Window \in Int
  BY PipelineAssumption DEF IInv, TypeOK, Times
<1>4. ResetAt(Budget(r), Limit(r)) \in Int
  <2>1. ResetAt(Budget(r), Limit(r))
          = IF Limit(r) <= 0 \/ stamps = {} THEN now + Window ELSE Oldest(stamps) + Window
    BY Zenon DEF ResetAt, stamps
  <2> QED
    BY <1>2, <1>3, <2>1
<1>5. (ResetAt(Budget(r), Limit(r)) - now) \div TicksPerSecond \in Int
  BY <1>3, <1>4, PipelineAssumption
<1> QED
  BY <1>5 DEF RetryAfter

-----------------------------------------------------------------------------
(* Windows.                                                                *)

(* Where nothing is decided, the windows hold what they held.              *)
LEMMA KeptDecisions ==
  ASSUME IInv,
         \A d \in Requests : decision'[d] \in Decided <=> decision[d] \in Decided,
         \A d \in Asked : decision'[d] = decision[d] /\ req'[d] = req[d]
  PROVE  Asked' = Asked /\ WindowsFit' /\ RefusalIsDeserved'
<1>1. Asked' = Asked
  BY DEF Asked
<1>2. Together' = Together
  BY <1>1 DEF Together
<1>3. WindowsFit'
  <2> SUFFICES ASSUME NEW T \in Together, T # {}
               PROVE  \E e \in T : Cardinality(T) <= decision'[e].rpm
    BY <1>2 DEF WindowsFit
  <2>1. PICK e \in T : Cardinality(T) <= decision[e].rpm
    BY DEF IInv, WindowsFit
  <2> QED
    BY <2>1 DEF Together
<1>4. ASSUME NEW r \in Asked
      PROVE  Rivals(r)' = Rivals(r)
  BY <1>1 DEF Rivals, Owner, Route
<1>5. RefusalIsDeserved'
  <2> SUFFICES ASSUME NEW r \in Asked, ~decision[r].allowed
               PROVE  Cardinality({d \in Rivals(r)' : decision'[d].allowed})
                        >= decision[r].rpm
    BY <1>1 DEF RefusalIsDeserved
  <2>1. {d \in Rivals(r)' : decision'[d].allowed} = {d \in Rivals(r) : decision[d].allowed}
    BY <1>4 DEF Rivals
  <2> QED
    BY <2>1 DEF IInv, RefusalIsDeserved
<1> QED
  BY <1>1, <1>3, <1>5

(* The decision on r, and what it leaves alone.                            *)
LEMMA DecisionIs ==
  ASSUME IInv, NEW r \in Requests, Decide(r)
  PROVE  /\ pc[r] = "limit" /\ r \notin Asked
         /\ req' = req /\ now' = now /\ decision' = [decision EXCEPT ![r] = decision'[r]]
         /\ Asked' = Asked \cup {r}
         /\ \A d \in Asked : decision'[d] = decision[d] /\ d # r
         /\ decision'[r] \in Decided
         /\ decision'[r].key = KeyOf(r)
         /\ decision'[r].rpm = Limit(r) /\ Limit(r) \in Int
         /\ decision'[r].stamp = now
         /\ decision'[r].allowed <=> Cardinality(Counted(r)) < Limit(r)
         /\ IF decision'[r].allowed
            THEN Goto(r, NextGate(r)) /\ UNCHANGED response
            ELSE Respond(r, "RATE_LIMITED", RetryAfter(Budget(r), Limit(r)))
<1> DEFINE verdict == Window_!Verdict(Budget(r), Limit(r), now)
<1>1. /\ pc[r] = "limit"
      /\ req' = req /\ now' = now
      /\ decision' = [decision EXCEPT ![r] = verdict]
      /\ IF verdict.allowed
         THEN Goto(r, NextGate(r)) /\ UNCHANGED response
         ELSE Respond(r, "RATE_LIMITED", RetryAfter(Budget(r), Limit(r)))
  BY DEF Decide, environment
<1>2. /\ verdict \in Decided
      /\ verdict.key = KeyOf(r)
      /\ verdict.rpm = Limit(r)
      /\ verdict.stamp = now
      /\ verdict.allowed <=> Cardinality(Counted(r)) < Limit(r)
  BY <1>1, VerdictIs
<1> HIDE DEF verdict
<1>3. decision'[r] = verdict /\ \A d \in Requests \ {r} : decision'[d] = decision[d]
  BY <1>1 DEF IInv, TypeOK
<1>4. r \notin Asked
  BY <1>1, Outcomes DEF IInv, GatesPassed, Asked
<1>5. Asked' = Asked \cup {r}
  BY <1>2, <1>3 DEF Asked
<1>6. \A d \in Asked : decision'[d] = decision[d] /\ d # r
  BY <1>3, <1>4 DEF Asked
<1>7. decision' = [decision EXCEPT ![r] = decision'[r]]
  BY <1>1, <1>3
<1>8. Limit(r) \in Int
  BY <1>1, BudgetIsKey
<1> QED
  BY <1>1, <1>2, <1>3, <1>4, <1>5, <1>6, <1>7, <1>8

(* A request that is let in fits; one that is not meets a full window.     *)
LEMMA DecideFits ==
  ASSUME IInv, NEW r \in Requests, Decide(r)
  PROVE  WindowsFit'
<1>1. /\ r \notin Asked
      /\ Asked' = Asked \cup {r}
      /\ \A d \in Asked : decision'[d] = decision[d] /\ d # r
      /\ decision'[r].key = KeyOf(r)
      /\ decision'[r].rpm = Limit(r) /\ Limit(r) \in Int
      /\ decision'[r].stamp = now
      /\ decision'[r].allowed <=> Cardinality(Counted(r)) < Limit(r)
  BY DecisionIs
<1> SUFFICES ASSUME NEW T \in Together', T # {}
             PROVE  \E e \in T : Cardinality(T) <= decision'[e].rpm
  BY DEF WindowsFit
<1>2. /\ T \subseteq Asked \cup {r}
      /\ \A d \in T : decision'[d].allowed
      /\ \A d, e \in T : /\ decision'[d].key = decision'[e].key
                         /\ decision'[d].stamp > decision'[e].stamp - Window
  BY <1>1 DEF Together
<1>3. CASE r \notin T
  <2>1. T \in Together
    BY <1>1, <1>2, <1>3 DEF Together
  <2>2. PICK e \in T : Cardinality(T) <= decision[e].rpm
    BY <2>1 DEF IInv, WindowsFit
  <2>3. decision'[e] = decision[e]
    BY <1>1, <1>2, <1>3
  <2> QED
    BY <2>2, <2>3
<1>4. CASE r \in T
  <2> DEFINE others == T \ {r}
  <2>1. others \subseteq Counted(r)
    BY <1>1, <1>2, <1>4 DEF Counted
  <2>2. IsFiniteSet(Counted(r)) /\ Cardinality(Counted(r)) \in Nat
    BY Finite DEF Counted, Asked
  <2>3. IsFiniteSet(others) /\ Cardinality(others) \in Nat
        /\ Cardinality(others) <= Cardinality(Counted(r))
    BY <2>1, <2>2, FS_Subset, FS_CardinalityType
  <2>4. Cardinality(others \cup {r}) = Cardinality(others) + 1
    BY <2>3, FS_AddElement
  <2>5. others \cup {r} = T
    BY <1>4
  <2>6. Cardinality(T) = Cardinality(others) + 1
    BY <2>4, <2>5
  <2>7. Cardinality(Counted(r)) < Limit(r)
    BY <1>1, <1>2, <1>4
  <2>8. Cardinality(T) <= decision'[r].rpm
    BY <1>1, <2>2, <2>3, <2>6, <2>7
  <2> QED
    BY <1>4, <2>8
<1> QED
  BY <1>3, <1>4

(* Who is refused meets a full window, and who was refused still did.      *)
LEMMA DecideRefuses ==
  ASSUME IInv, NEW r \in Requests, Decide(r)
  PROVE  RefusalIsDeserved'
<1>1. /\ pc[r] = "limit" /\ r \notin Asked
      /\ req' = req
      /\ Asked' = Asked \cup {r}
      /\ \A d \in Asked : decision'[d] = decision[d] /\ d # r
      /\ decision'[r].rpm = Limit(r) /\ Limit(r) \in Int
      /\ decision'[r].stamp = now
      /\ decision'[r].allowed <=> Cardinality(Counted(r)) < Limit(r)
  BY DecisionIs
<1> DEFINE Admitted(x) == {d \in Rivals(x) : decision[d].allowed}
           AdmittedNext(x) == {d \in Rivals(x)' : decision'[d].allowed}
<1> SUFFICES ASSUME NEW x \in Asked', ~decision'[x].allowed
             PROVE  Cardinality(AdmittedNext(x)) >= decision'[x].rpm
  BY DEF RefusalIsDeserved
<1>2. Rivals(x)' = {d \in Asked' : /\ Route(d) \in Auth <=> Route(x) \in Auth
                                   /\ Owner(d) = Owner(x)
                                   /\ decision'[d].stamp > decision'[x].stamp - Window
                                   /\ decision'[d].stamp <= decision'[x].stamp}
  BY <1>1 DEF Rivals, Owner, Route
<1>3. IsFiniteSet(AdmittedNext(x)) /\ Cardinality(AdmittedNext(x)) \in Nat
  <2>1. AdmittedNext(x) \subseteq Requests
    BY <1>1, <1>2 DEF Asked
  <2> QED
    BY <2>1, Finite
<1>4. CASE x \in Asked
  <2>1. Admitted(x) \subseteq AdmittedNext(x)
    BY <1>1, <1>2, <1>4 DEF Rivals
  <2>2. Cardinality(Admitted(x)) <= Cardinality(AdmittedNext(x))
    BY <1>3, <2>1, FS_Subset
  <2>3. Cardinality(Admitted(x)) >= decision[x].rpm
    BY <1>1, <1>4 DEF IInv, RefusalIsDeserved
  <2>4. decision'[x].rpm = decision[x].rpm /\ decision[x].rpm \in Int
    BY <1>1, <1>4 DEF Asked, Decided
  <2>5. Cardinality(Admitted(x)) \in Nat
    BY Finite DEF Rivals, Asked
  <2> HIDE DEF Admitted, AdmittedNext
  <2> QED
    BY <1>3, <2>2, <2>3, <2>4, <2>5
<1>5. CASE x = r
  <2>1. Counted(r) \subseteq AdmittedNext(r)
    <3> SUFFICES ASSUME NEW d \in Counted(r)
                 PROVE  d \in AdmittedNext(r)
      OBVIOUS
    <3>1. /\ d \in Asked /\ d \in Requests /\ decision[d].allowed
          /\ decision[d].key = KeyOf(r)
          /\ decision[d].stamp > now - Window
      BY DEF Counted, Asked
    <3>2. /\ decision[d].key = KeyOf(d)
          /\ decision[d].stamp <= now
          /\ Route(d) \in Main \cup Auth
      BY <3>1 DEF IInv, DecidedForOwner
    <3>3. pc[d] # "idle" /\ Route(r) \in Main \cup Auth
      BY <1>1, <3>1, Outcomes DEF IInv, GatesPassed, Asked
    <3>4. (Route(d) \in Auth <=> Route(r) \in Auth) /\ Owner(d) = Owner(r)
      BY <1>1, <3>1, <3>2, <3>3, OwnersAreKeys
    <3> QED
      BY <1>1, <1>2, <1>5, <3>1, <3>2, <3>4
  <2>2. Cardinality(Counted(r)) <= Cardinality(AdmittedNext(r))
    BY <1>3, <1>5, <2>1, FS_Subset
  <2>3. Cardinality(Counted(r)) \in Nat
    BY Finite DEF Counted, Asked
  <2>4. Cardinality(Counted(r)) >= Limit(r)
    BY <1>1, <1>5, <2>3
  <2> HIDE DEF AdmittedNext
  <2> QED
    BY <1>1, <1>3, <1>5, <2>2, <2>3, <2>4
<1> QED
  BY <1>1, <1>4, <1>5

-----------------------------------------------------------------------------
(* The gates, one by one.                                                  *)

(* A request that is answered, or goes on, with the answers of the others  *)
(* left alone.                                                             *)
LEMMA RespondType ==
  ASSUME TypeOK, NEW r \in Requests, NEW code, NEW retryAfter,
         Respond(r, code, retryAfter),
         \/ code \in Codes \ {"RATE_LIMITED"} /\ retryAfter \in {0, 5}
         \/ code = "RATE_LIMITED" /\ retryAfter \in Nat \ {0}
  PROVE  /\ response' \in [Requests -> Response]
         /\ pc' = [pc EXCEPT ![r] = "done"]
         /\ response'[r].code = code
<1>1. [code |-> code, retryAfter |-> retryAfter] \in Response
  BY DEF Response
<1> QED
  BY <1>1 DEF Respond, Goto, TypeOK

(* A request comes; it was not asked anything yet.                         *)
LEMMA ArriveStep ==
  ASSUME IInv, NEW r \in Requests, Arrive(r)
  PROVE  IInv'
<1>1. PICK visit \in Visits[r] :
        /\ pc[r] = "idle"
        /\ pc' = [pc EXCEPT ![r] = FirstGate(visit.route)]
        /\ req' = [req EXCEPT ![r] = [visit |-> visit,
                                      revoked |-> {c \in Clients : row[c].revoked}]]
        /\ UNCHANGED <<now, down, row, edits, client, decision, response, ran>>
  BY DEF Arrive, Goto, environment
<1>2. visit \in Visit
  BY PipelineAssumption
<1>3. /\ pc'[r] = FirstGate(visit.route)
      /\ req'[r].visit = visit
      /\ req'[r].revoked = {c \in Clients : row[c].revoked}
      /\ req'[r] \in Request
      /\ \A q \in Requests \ {r} : pc'[q] = pc[q] /\ req'[q] = req[q]
  BY <1>1, <1>2 DEF IInv, TypeOK, Request
<1>4. /\ pc'[r] \in {"auth", "limit", "handler"}
      /\ pc'[r] = "auth" <=> visit.route \in Main
      /\ pc'[r] = "limit" <=> visit.route \in Auth
  BY <1>3 DEF FirstGate, Main, Auth
<1>5. decision[r] = NotAsked /\ r \notin ran /\ r \notin Asked /\ client[r] = Anonymous
  BY <1>1, Outcomes DEF IInv, GatesPassed, ClientsCarried, Asked
<1>6. TypeOK'
  BY <1>1, <1>2, <1>3, <1>4 DEF IInv, TypeOK
<1>7. GatesPassed'
  BY <1>1, <1>3, <1>4, <1>5, Outcomes DEF IInv, GatesPassed, Asked, Route
<1>8. ClientsCarried'
  BY <1>1, <1>3, <1>4, <1>5 DEF IInv, ClientsCarried, Route, Credential, Main, Auth
<1>9. DecidedForOwner'
  BY <1>1, <1>3, <1>5 DEF IInv, DecidedForOwner, KeyOf, Route, Credential, Asked
<1>10. KeysWereGood'
  BY <1>1, <1>3, <1>4, <1>5 DEF IInv, KeysWereGood, Route, Credential, Main, Auth
<1>11. OutageOpensMainOnly'
  BY <1>1, <1>3, <1>5, Outcomes DEF IInv, OutageOpensMainOnly, Route
<1>12. WindowsFit' /\ RefusalIsDeserved'
  <2>1. \A d \in Asked : decision'[d] = decision[d] /\ req'[d] = req[d]
    BY <1>1, <1>3, <1>5 DEF Asked
  <2> QED
    BY <1>1, <2>1, KeptDecisions
<1> QED
  BY <1>6, <1>7, <1>8, <1>9, <1>10, <1>11, <1>12 DEF IInv

(* A key is accepted while its row says so.                                *)
LEMMA AuthStep ==
  ASSUME IInv, NEW r \in Requests, PassAnonymous(r) \/ PassClient(r) \/ RefuseKey(r)
  PROVE  IInv'
<1> DEFINE c == Credential(r)
<1>1. /\ pc[r] = "auth"
      /\ UNCHANGED <<now, down, row, edits, req, decision, ran>>
  BY DEF PassAnonymous, PassClient, RefuseKey, environment
<1>2. /\ Route(r) \in Main /\ decision[r] = NotAsked /\ r \notin ran
      /\ client[r] = Anonymous
      /\ \A d \in req[r].revoked : row[d].revoked
      /\ req[r].revoked \subseteq Clients
  BY <1>1, Visited DEF IInv, GatesPassed, ClientsCarried, KeysWereGood
<1>3. \/ /\ c = "none"
         /\ pc' = [pc EXCEPT ![r] = "limit"]
         /\ UNCHANGED <<client, response>>
      \/ /\ c \in Clients /\ row[c].verified /\ ~row[c].revoked
         /\ client' = [client EXCEPT ![r] = [id |-> c, rpm |-> row[c].rpm]]
         /\ pc' = [pc EXCEPT ![r] = "limit"]
         /\ UNCHANGED response
      \/ /\ Respond(r, "INVALID_API_KEY", 0)
         /\ UNCHANGED client
  BY DEF PassAnonymous, PassClient, RefuseKey, KeyAccepted, Usable, Goto, Credential
<1>4. /\ pc' \in {[pc EXCEPT ![r] = "limit"], [pc EXCEPT ![r] = "done"]}
      /\ response' \in [Requests -> Response]
  BY <1>3, RespondType DEF IInv, TypeOK, Codes
<1>5. /\ pc'[r] \in {"limit", "done"}
      /\ \A q \in Requests \ {r} : pc'[q] = pc[q] /\ client'[q] = client[q]
      /\ pc'[r] = "limit" /\ c # "none" =>
           /\ c \in Clients /\ row[c].verified /\ ~row[c].revoked
           /\ client'[r] = [id |-> c, rpm |-> row[c].rpm]
      /\ client'[r] \in {Anonymous, [id |-> c, rpm |-> row[c].rpm]}
      /\ client'[r] # Anonymous => c \in Clients
      /\ pc' \in [Requests -> {"idle", "auth", "limit", "token", "handler", "done"}]
  BY <1>1, <1>2, <1>3, <1>4, RespondType DEF IInv, TypeOK, Codes
<1>6. TypeOK'
  <2>1. client' \in [Requests -> ClientInfo]
    BY <1>3 DEF IInv, TypeOK, ClientInfo, Row
  <2> QED
    BY <1>1, <1>4, <1>5, <2>1 DEF IInv, TypeOK
<1>7. GatesPassed'
  BY <1>1, <1>2, <1>5, Outcomes DEF IInv, GatesPassed, Asked, Route
<1>8. ClientsCarried'
  <2>1. [id |-> c, rpm |-> row[c].rpm].id = c
    OBVIOUS
  <2>2. pc'[r] = "limit" /\ c # "none" => client'[r] # Anonymous
    BY <1>5, PipelineAssumption DEF Anonymous
  <2> QED
    BY <1>1, <1>2, <1>5, <2>1, <2>2 DEF IInv, ClientsCarried, Route, Credential
<1>9. DecidedForOwner'
  BY <1>1, <1>2, <1>5, Outcomes
     DEF IInv, DecidedForOwner, KeyOf, Route, Credential, Asked
<1>10. KeysWereGood'
  BY <1>1, <1>2, <1>5 DEF IInv, KeysWereGood, Route, Credential
<1>11. OutageOpensMainOnly'
  <2>1. \A q \in Requests \ {r} : response'[q] = response[q]
    BY <1>3 DEF Respond, IInv, TypeOK
  <2> QED
    BY <1>1, <1>2, <1>5, <2>1, Outcomes DEF IInv, OutageOpensMainOnly, Route
<1>12. WindowsFit' /\ RefusalIsDeserved'
  BY <1>1, KeptDecisions
<1> QED
  BY <1>6, <1>7, <1>8, <1>9, <1>10, <1>11, <1>12 DEF IInv

(* The limiter answers.                                                    *)
LEMMA DecideStep ==
  ASSUME IInv, NEW r \in Requests, Decide(r)
  PROVE  IInv'
<1>1. /\ pc[r] = "limit" /\ r \notin Asked
      /\ req' = req /\ now' = now
      /\ decision' = [decision EXCEPT ![r] = decision'[r]]
      /\ Asked' = Asked \cup {r}
      /\ \A d \in Asked : decision'[d] = decision[d] /\ d # r
      /\ decision'[r] \in Decided
      /\ decision'[r].key = KeyOf(r)
      /\ decision'[r].rpm = Limit(r) /\ Limit(r) \in Int
      /\ decision'[r].stamp = now
      /\ decision'[r].allowed <=> Cardinality(Counted(r)) < Limit(r)
  BY DecisionIs
<1>2. /\ UNCHANGED <<down, row, edits, client, ran>>
      /\ \/ /\ decision'[r].allowed
            /\ pc' = [pc EXCEPT ![r] = NextGate(r)]
            /\ UNCHANGED response
         \/ /\ ~decision'[r].allowed
            /\ Respond(r, "RATE_LIMITED", RetryAfter(Budget(r), Limit(r)))
  BY DecisionIs DEF Decide, environment, Goto
<1>3. /\ r \notin ran
      /\ Route(r) \in Main \cup Auth
      /\ Route(r) \in Auth => Limit(r) = AuthRPM
      /\ NextGate(r) = IF Route(r) = "admin" THEN "token" ELSE "handler"
      /\ Main \cap Auth = {} /\ "admin" \in Auth
  BY <1>1, BudgetIsKey DEF IInv, GatesPassed, NextGate, Main, Auth
<1>4. decision'[r].allowed => decision'[r].rpm > 0
  <2>1. Cardinality(Counted(r)) \in Nat
    BY Finite DEF Counted, Asked
  <2> QED
    BY <1>1, <2>1
<1>5. /\ response' \in [Requests -> Response]
      /\ pc' = [pc EXCEPT ![r] = IF decision'[r].allowed THEN NextGate(r) ELSE "done"]
  BY <1>1, <1>2, RespondType, RetryAfterType DEF IInv, TypeOK
<1>6. /\ pc'[r] = IF decision'[r].allowed THEN NextGate(r) ELSE "done"
      /\ \A q \in Requests \ {r} :
           pc'[q] = pc[q] /\ decision'[q] = decision[q] /\ response'[q] = response[q]
      /\ pc' \in [Requests -> {"idle", "auth", "limit", "token", "handler", "done"}]
      /\ decision' \in [Requests -> Decided \cup {NotAsked, Failed}]
  BY <1>1, <1>2, <1>3, <1>5 DEF IInv, TypeOK, Respond
<1>7. TypeOK'
  BY <1>1, <1>2, <1>5, <1>6 DEF IInv, TypeOK
<1>8. GatesPassed'
  BY <1>1, <1>2, <1>3, <1>6, Outcomes DEF IInv, GatesPassed, Route
<1>9. ClientsCarried'
  BY <1>1, <1>2, <1>3, <1>6 DEF IInv, ClientsCarried, Route, Credential
<1>10. DecidedForOwner'
  <2>1. \A d \in Requests : Route(d)' = Route(d) /\ KeyOf(d)' = KeyOf(d)
    BY <1>1 DEF KeyOf, Route, Credential
  <2>2. \A d \in Asked : d \in Requests \ {r}
    BY <1>1 DEF Asked
  <2>3. now \in Int
    BY DEF IInv, TypeOK, Times
  <2>4. ASSUME NEW d \in Asked
        PROVE  /\ Route(d)' = Route(d) /\ KeyOf(d)' = KeyOf(d)
               /\ decision'[d] = decision[d] /\ pc'[d] = pc[d]
    BY <1>1, <1>6, <2>1, <2>2
  <2>5. \A d \in Asked :
          /\ Route(d)' \in Main \cup Auth
          /\ decision'[d].key = KeyOf(d)'
          /\ decision'[d].stamp <= now'
          /\ Route(d)' \in Auth => decision'[d].rpm = AuthRPM
          /\ decision'[d].allowed => decision'[d].rpm > 0
          /\ ~decision'[d].allowed => pc'[d] = "done" /\ d \notin ran'
    BY <1>1, <1>2, <2>4 DEF IInv, DecidedForOwner
  <2>6. /\ Route(r)' \in Main \cup Auth
        /\ decision'[r].key = KeyOf(r)'
        /\ decision'[r].stamp <= now'
        /\ Route(r)' \in Auth => decision'[r].rpm = AuthRPM
        /\ decision'[r].allowed => decision'[r].rpm > 0
        /\ ~decision'[r].allowed => pc'[r] = "done" /\ r \notin ran'
    BY <1>1, <1>2, <1>3, <1>4, <1>6, <2>1, <2>3
  <2> QED
    BY <1>1, <2>5, <2>6 DEF DecidedForOwner
<1>11. KeysWereGood'
  BY <1>1, <1>2, <1>3, <1>6 DEF IInv, KeysWereGood, Route, Credential
<1>12. OutageOpensMainOnly'
  BY <1>1, <1>6, Outcomes DEF IInv, OutageOpensMainOnly, Route
<1>13. WindowsFit' /\ RefusalIsDeserved'
  BY DecideFits, DecideRefuses
<1> QED
  BY <1>7, <1>8, <1>9, <1>10, <1>11, <1>12, <1>13 DEF IInv

(* A limiter that fails is that of the main routes.                        *)
LEMMA LimiterFailsStep ==
  ASSUME IInv, NEW r \in Requests, LimiterFails(r)
  PROVE  IInv'
<1>1. /\ pc[r] = "limit" /\ r \notin ran /\ decision[r] = NotAsked
      /\ Route(r) \in Main /\ Main \cap Auth = {} /\ "admin" \in Auth
  <2>1. Route(r) \notin Auth
    BY DEF LimiterFails, Fails, Limiter
  <2> QED
    BY <2>1 DEF LimiterFails, IInv, GatesPassed, Main, Auth
<1>2. /\ pc' = [pc EXCEPT ![r] = "handler"]
      /\ decision' = [decision EXCEPT ![r] = Failed]
      /\ UNCHANGED <<now, down, row, edits, req, client, response, ran>>
  BY <1>1 DEF LimiterFails, FailClosed, Limiter, Goto, NextGate, environment
<1>3. /\ pc'[r] = "handler" /\ decision'[r] = Failed
      /\ \A q \in Requests \ {r} : pc'[q] = pc[q] /\ decision'[q] = decision[q]
      /\ Asked' = Asked /\ r \notin Asked
      /\ TypeOK'
  BY <1>1, <1>2, Outcomes DEF IInv, TypeOK, Asked
<1>4. GatesPassed'
  BY <1>1, <1>2, <1>3, Outcomes DEF IInv, GatesPassed, Route
<1>5. ClientsCarried'
  BY <1>1, <1>2, <1>3 DEF IInv, ClientsCarried, Route, Credential
<1>6. DecidedForOwner'
  <2>1. \A d \in Asked : /\ Route(d)' = Route(d) /\ KeyOf(d)' = KeyOf(d)
                         /\ d \in Requests \ {r}
    BY <1>2, <1>3 DEF KeyOf, Route, Credential, Asked
  <2> QED
    BY <1>2, <1>3, <2>1 DEF IInv, DecidedForOwner
<1>7. KeysWereGood'
  BY <1>1, <1>2, <1>3 DEF IInv, KeysWereGood, Route, Credential
<1>8. OutageOpensMainOnly'
  BY <1>1, <1>2, <1>3 DEF IInv, OutageOpensMainOnly, Route
<1>9. WindowsFit' /\ RefusalIsDeserved'
  BY <1>1, <1>2, <1>3, Outcomes, KeptDecisions DEF Asked
<1> QED
  BY <1>3, <1>4, <1>5, <1>6, <1>7, <1>8, <1>9 DEF IInv

(* The token, and the end of the route: nothing is decided there.          *)
LEMMA LastGatesStep ==
  ASSUME IInv, NEW r \in Requests, CheckToken(r) \/ Handle(r)
  PROVE  IInv'
<1>1. /\ pc[r] = "token" \/ pc[r] = "handler"
      /\ ran' = ran \cup {r}
      /\ UNCHANGED <<now, down, row, edits, req, client, decision>>
  BY DEF CheckToken, Handle, environment
<1>2. /\ Route(r) \in Auth => r \in Asked
      /\ pc[r] = "token" => Route(r) \in Auth /\ Route(r) \notin Main
      /\ r \in Asked => decision[r].allowed
  BY <1>1 DEF IInv, GatesPassed, DecidedForOwner, Main, Auth
<1>3. \/ /\ pc[r] = "token"
         /\ pc' = [pc EXCEPT ![r] = "handler"]
         /\ UNCHANGED response
      \/ /\ pc[r] = "token"
         /\ Respond(r, "INVALID_ADMIN_TOKEN", 0)
      \/ /\ pc[r] = "handler"
         /\ Respond(r, Answer(Route(r)), 0)
  BY DEF CheckToken, Handle, Goto
<1>4. /\ Answer(Route(r)) \in Codes \ {"RATE_LIMITED"}
      /\ Route(r) \in Main => Answer(Route(r)) \in {"HANDLED", "NOT_FOUND"}
  BY DEF Answer, Generated, AuthAnswer, Preflight, Probe, Metrics, Codes, Main, Auth
<1>5. /\ response' \in [Requests -> Response]
      /\ pc' \in {[pc EXCEPT ![r] = "handler"], [pc EXCEPT ![r] = "done"]}
      /\ pc' = [pc EXCEPT ![r] = "done"] =>
           pc[r] = "token" \/ response'[r].code = Answer(Route(r))
  <2>1. "INVALID_ADMIN_TOKEN" \in Codes \ {"RATE_LIMITED"}
    BY DEF Codes
  <2>2. pc[r] \notin {"idle", "done"} /\ r \in DOMAIN pc
    BY <1>1 DEF IInv, TypeOK
  <2>3. [pc EXCEPT ![r] = "handler"] # [pc EXCEPT ![r] = "done"]
    BY <2>2
  <2> QED
    BY <1>3, <1>4, <2>1, <2>3, RespondType DEF IInv, TypeOK
<1>6. /\ pc'[r] \in {"handler", "done"}
      /\ pc'[r] = "done" /\ Route(r) \in Main =>
           response'[r].code \in {"HANDLED", "NOT_FOUND"}
      /\ \A q \in Requests \ {r} : pc'[q] = pc[q] /\ response'[q] = response[q]
      /\ TypeOK'
  BY <1>1, <1>2, <1>3, <1>4, <1>5 DEF IInv, TypeOK, Respond
<1>7. GatesPassed'
  BY <1>1, <1>2, <1>6, Outcomes DEF IInv, GatesPassed, Route, Asked
<1>8. ClientsCarried'
  BY <1>1, <1>6 DEF IInv, ClientsCarried, Route, Credential
<1>9. DecidedForOwner'
  BY <1>1, <1>2, <1>6 DEF IInv, DecidedForOwner, KeyOf, Route, Credential, Asked
<1>10. KeysWereGood'
  BY <1>1, <1>2, <1>6 DEF IInv, KeysWereGood, Route, Credential
<1>11. OutageOpensMainOnly'
  BY <1>1, <1>6 DEF IInv, OutageOpensMainOnly, Route
<1>12. WindowsFit' /\ RefusalIsDeserved'
  BY <1>1, KeptDecisions
<1> QED
  BY <1>6, <1>7, <1>8, <1>9, <1>10, <1>11, <1>12 DEF IInv

(* Edits, outages and the clock leave every request where it is.           *)
LEMMA EnvironmentStep ==
  ASSUME IInv,
         \/ SetRPM \/ Verify \/ Revoke \/ Outage \/ Recovery \/ Tick \/ UNCHANGED vars
  PROVE  IInv'
<1>1. UNCHANGED <<pc, req, client, decision, response, ran>>
  BY DEF SetRPM, Verify, Revoke, Outage, Recovery, Tick, vars, requests
<1>2. /\ now \in Times /\ now' \in Times /\ now <= now'
      /\ down' \subseteq Services
      /\ edits' \in 0..MaxEdits
      /\ row' \in [Clients -> Row]
      /\ \A c \in Clients : /\ row[c].verified => row'[c].verified
                            /\ row[c].revoked => row'[c].revoked
  <2>1. /\ now \in Times /\ down \subseteq Services /\ row \in [Clients -> Row]
        /\ edits \in 0..MaxEdits /\ MaxEdits \in Nat /\ MaxTime \in Nat
    BY PipelineAssumption DEF IInv, TypeOK
  <2>2. CASE SetRPM
    BY <2>1, <2>2, PipelineAssumption DEF SetRPM, Edit, Row, Times
  <2>3. CASE Verify \/ Revoke
    <3>1. PICK c \in Clients : \/ row' = [row EXCEPT ![c].verified = TRUE]
                              \/ row' = [row EXCEPT ![c].revoked = TRUE]
      BY <2>3 DEF Verify, Revoke
    <3>2. \A d \in Clients : row[d] \in Row
      BY <2>1
    <3>3. row' \in [Clients -> Row]
      BY <2>1, <3>1, <3>2 DEF Row
    <3>4. \A d \in Clients : /\ row[d].verified => row'[d].verified
                             /\ row[d].revoked => row'[d].revoked
      BY <2>1, <3>1, <3>2 DEF Row
    <3> QED
      BY <2>1, <2>3, <3>3, <3>4 DEF Verify, Revoke, Edit, Times
  <2>4. CASE Outage \/ Recovery \/ Tick \/ UNCHANGED vars
    BY <2>1, <2>4 DEF Outage, Recovery, Tick, Edit, Times, vars, environment
  <2> QED
    BY <2>2, <2>3, <2>4
<1>3. TypeOK'
  BY <1>1, <1>2 DEF IInv, TypeOK
<1>4. GatesPassed' /\ ClientsCarried' /\ OutageOpensMainOnly'
  BY <1>1 DEF IInv, GatesPassed, ClientsCarried, OutageOpensMainOnly,
              Asked, Route, Credential
<1>5. DecidedForOwner'
  <2>1. \A d \in Asked : decision[d].stamp \in Int
    BY DEF Asked, Decided, Times
  <2>2. Asked' = Asked /\ now \in Int /\ now' \in Int
    BY <1>1, <1>2 DEF Asked, Times
  <2> QED
    BY <1>1, <1>2, <2>1, <2>2 DEF IInv, DecidedForOwner, KeyOf, Route, Credential
<1>6. KeysWereGood'
  <2>1. \A r \in Requests : pc[r] # "idle" => req[r].revoked \subseteq Clients
    BY Visited DEF IInv
  <2> QED
    BY <1>1, <1>2, <2>1 DEF IInv, KeysWereGood, Route, Credential
<1>7. WindowsFit' /\ RefusalIsDeserved'
  BY <1>1, KeptDecisions
<1> QED
  BY <1>3, <1>4, <1>5, <1>6, <1>7 DEF IInv

-----------------------------------------------------------------------------
(* The theorems.                                                           *)

(* Nobody has come.                                                        *)
LEMMA InitIInv == Init => IInv
<1> SUFFICES ASSUME Init
             PROVE  IInv
  OBVIOUS
<1>1. /\ \A r \in Requests : pc[r] = "idle" /\ client[r] = Anonymous
      /\ \A r \in Requests : decision[r] = NotAsked
      /\ ran = {}
  BY DEF Init
<1>2. Asked = {}
  BY <1>1, Outcomes DEF Asked
<1>3. TypeOK
  <2>1. NoResponse \in Response
    BY DEF NoResponse, Response
  <2>2. /\ 0 \in Times /\ 0 \in 0..MaxEdits
        /\ row \in [Clients -> Row]
    <3>1. row \in [Clients -> [rpm : ClientRPMs, verified : BOOLEAN, revoked : {FALSE}]]
      BY DEF Init
    <3>2. [rpm : ClientRPMs, verified : BOOLEAN, revoked : {FALSE}] \subseteq Row
      BY PipelineAssumption DEF Row
    <3>3. row \in [Clients -> Row]
      BY <3>1, <3>2
    <3> QED
      BY <3>3, PipelineAssumption DEF Times
  <2> QED
    BY <1>1, <2>1, <2>2 DEF Init, TypeOK, ClientInfo
<1>4. GatesPassed /\ ClientsCarried /\ DecidedForOwner /\ KeysWereGood
  BY <1>1, <1>2, Outcomes
     DEF GatesPassed, ClientsCarried, DecidedForOwner, KeysWereGood
<1>5. OutageOpensMainOnly /\ WindowsFit /\ RefusalIsDeserved
  BY <1>1, <1>2, Outcomes
     DEF OutageOpensMainOnly, WindowsFit, Together, RefusalIsDeserved
<1> QED
  BY <1>3, <1>4, <1>5 DEF IInv

(* The invariant holds whatever the requests ask for, in whatever order    *)
(* they pass the gates.                                                    *)
THEOREM Invariance == Spec => []IInv
<1>1. ASSUME IInv, [Next]_vars
      PROVE  IInv'
  <2>1. CASE \E r \in Requests : Step(r)
    BY <1>1, <2>1, ArriveStep, AuthStep, DecideStep, LimiterFailsStep, LastGatesStep
       DEF Step
  <2>2. CASE ~(\E r \in Requests : Step(r))
    BY <1>1, <2>2, EnvironmentStep DEF Next
  <2> QED
    BY <2>1, <2>2
<1> QED
  BY InitIInv, <1>1, PTL DEF Spec

(* Every variable keeps its type; a 429 never asks for zero seconds        *)
(* (ratelimit.go:98-103).                                                  *)
THEOREM TypeCorrect == Spec => []TypeOK
<1>1. IInv => TypeOK
  BY DEF IInv
<1> QED
  BY <1>1, Invariance, PTL

(* A revoked or unverified key and a key of nobody serve nothing           *)
(* (auth.go:23-57).                                                        *)
THEOREM RevokedKeysStop == Spec => []RevokedKeyStops
<1>1. IInv => RevokedKeyStops
  <2> SUFFICES ASSUME IInv, NEW r \in ran
               PROVE  Route(r) \in Main /\ Credential(r) # "none" =>
                        /\ Credential(r) \in Clients
                        /\ row[Credential(r)].verified
                        /\ Credential(r) \notin req[r].revoked
    BY DEF RevokedKeyStops, Credential
  <2>1. r \in Requests
    BY DEF IInv, TypeOK
  <2>2. pc[r] # "idle"
    BY <2>1 DEF IInv, GatesPassed
  <2> QED
    BY <2>1, <2>2 DEF IInv, KeysWereGood
<1> QED
  BY <1>1, Invariance, PTL

(* An outage of Redis opens the main routes and no other                   *)
(* (ratelimit.go:60-85, router.go:42-58).                                  *)
THEOREM OutagesOpenMainOnly == Spec => []OutageOpensMainOnly
<1>1. IInv => OutageOpensMainOnly
  BY DEF IInv
<1> QED
  BY <1>1, Invariance, PTL

(* A 429 is owed to requests of the same owner on the same group of routes *)
(* (router.go:42-64).                                                      *)
THEOREM RefusalsAreDeserved == Spec => []RefusalIsDeserved
<1>1. IInv => RefusalIsDeserved
  BY DEF IInv
<1> QED
  BY <1>1, Invariance, PTL

(* Admitted rivals of a request are together in a window.                  *)
LEMMA RivalsTogether ==
  ASSUME IInv, NEW r \in Asked, NEW T, T \subseteq Rivals(r),
         \A d \in T : decision[d].allowed
  PROVE  T \in Together
<1>1. \A d \in T : /\ d \in Asked /\ d \in Requests
                   /\ Route(d) \in Auth <=> Route(r) \in Auth
                   /\ Owner(d) = Owner(r)
                   /\ decision[d].stamp > decision[r].stamp - Window
                   /\ decision[d].stamp <= decision[r].stamp
  BY DEF Rivals, Asked
<1>2. \A d \in Asked : /\ pc[d] # "idle"
                       /\ Route(d) \in Main \cup Auth
                       /\ decision[d].key = KeyOf(d)
                       /\ decision[d].stamp \in Int
  BY Outcomes DEF IInv, GatesPassed, DecidedForOwner, Asked, Decided, Times
<1>3. \A d \in T : decision[d].key = KeyOf(r)
  BY <1>1, <1>2, OwnersAreKeys DEF Asked
<1>4. \A d, e \in T : decision[d].stamp > decision[e].stamp - Window
  BY <1>1, <1>2, PipelineAssumption
<1> QED
  BY <1>1, <1>3, <1>4 DEF Together

(* No owner is served more in a window than the largest of its limits      *)
(* (ratelimit.go:45-55).                                                   *)
THEOREM OwnersKeepTheirBudget == Spec => []OwnerBudget
<1>1. IInv => OwnerBudget
  <2> SUFFICES ASSUME IInv, NEW r \in Asked \cap ran
               PROVE  \E e \in Rivals(r) \cap ran :
                        Cardinality(Rivals(r) \cap ran) <= decision[e].rpm
    BY DEF OwnerBudget
  <2>1. \A d \in Rivals(r) \cap ran : decision[d].allowed
    BY DEF IInv, DecidedForOwner, Rivals
  <2>2. Rivals(r) \cap ran \in Together
    BY <2>1, RivalsTogether
  <2>3. r \in Rivals(r)
    BY PipelineAssumption DEF Rivals, Asked, Decided, Times
  <2> QED
    BY <2>2, <2>3 DEF IInv, WindowsFit
<1> QED
  BY <1>1, Invariance, PTL

(* The auth routes work for AuthRPM requests of an address in a window     *)
(* (router.go:42-58).                                                      *)
THEOREM AuthWorkBounded == Spec => []AuthWorkIsBounded
<1>1. IInv => AuthWorkIsBounded
  <2> SUFFICES ASSUME IInv, NEW r \in ran, Route(r) \in Auth
               PROVE  /\ r \in Asked
                      /\ Cardinality({d \in Rivals(r) : decision[d].allowed}) <= AuthRPM
    BY DEF AuthWorkIsBounded
  <2>1. r \in Asked
    BY DEF IInv, GatesPassed, TypeOK
  <2> DEFINE T == {d \in Rivals(r) : decision[d].allowed}
  <2>2. CASE T = {}
    <3>1. Cardinality(T) = 0
      BY <2>2, FS_EmptySet
    <3> QED
      BY <2>1, <3>1, PipelineAssumption
  <2>3. CASE T # {}
    <3>1. T \in Together
      BY <2>1, RivalsTogether
    <3>2. PICK e \in T : Cardinality(T) <= decision[e].rpm
      BY <2>3, <3>1 DEF IInv, WindowsFit
    <3>3. decision[e].rpm = AuthRPM
      BY <3>2 DEF Rivals, IInv, DecidedForOwner
    <3> QED
      BY <2>1, <3>2, <3>3
  <2> QED
    BY <2>2, <2>3
<1> QED
  BY <1>1, Invariance, PTL

-----------------------------------------------------------------------------
(* Retry-After.                                                            *)

(* A 429 that counted somebody names, with one second more than it says, a *)
(* moment when one admitted request it counted is out of the window.       *)
RefusalsTell ==
  \A f \in Requests :
    response[f].code = "RATE_LIMITED" =>
      /\ f \in Asked
      /\ ~decision[f].allowed
      /\ decision[f].rpm > 0 =>
           \E d \in Asked :
             /\ decision[d].allowed
             /\ decision[d].key = decision[f].key
             /\ decision[d].stamp > decision[f].stamp - Window
             /\ decision[d].stamp + Window
                  < decision[f].stamp + (response[f].retryAfter + 1) * TicksPerSecond

(* Whole seconds leave out less than one second.                           *)
LEMMA WholeSeconds ==
  ASSUME NEW ticks \in Int, NEW t \in Nat \ {0}, NEW n \in Int, n >= ticks \div t
  PROVE  (n + 1) * t > ticks
<1> DEFINE q == ticks \div t
<1>1. q \in Int /\ (q + 1) * t > ticks
  OBVIOUS
<1> HIDE DEF q
<1>2. (n + 1) * t >= (q + 1) * t
  BY <1>1 DEF q
<1>3. QED
  BY <1>1, <1>2

(* Of the counted requests the oldest leaves the window first.             *)
LEMMA RefusalTells ==
  ASSUME IInv, NEW r \in Requests, pc[r] = "limit", Limit(r) > 0,
         ~(Cardinality(Counted(r)) < Limit(r))
  PROVE  \E d \in Counted(r) :
           decision[d].stamp + Window
             < now + (RetryAfter(Budget(r), Limit(r)) + 1) * TicksPerSecond
<1> DEFINE stamps == {decision[d].stamp : d \in Counted(r)}
           left == ResetAt(Budget(r), Limit(r)) - now
<1>1. Counted(r) # {}
  <2>1. Cardinality(Counted(r)) \in Nat /\ Limit(r) \in Int
    BY Finite, BudgetIsKey DEF Counted, Asked
  <2>2. Cardinality(Counted(r)) # 0
    BY <2>1
  <2>3. QED
    BY <2>2, FS_EmptySet
<1>2. stamps \subseteq Nat /\ stamps # {}
  BY <1>1, PipelineAssumption DEF Counted, Asked, Decided, Times
<1>3. Oldest(stamps) \in stamps
  BY <1>2, Least DEF Oldest
<1>4. PICK d \in Counted(r) : decision[d].stamp = Oldest(stamps)
  BY <1>3
<1>5. /\ now \in Int /\ Window \in Int /\ decision[d].stamp \in Int
      /\ TicksPerSecond \in Nat \ {0}
  BY <1>2, <1>3, <1>4, PipelineAssumption DEF IInv, TypeOK, Times
<1>6. left = decision[d].stamp + Window - now /\ left \in Int
  <2>1. ~(Limit(r) <= 0)
    BY BudgetIsKey
  <2>2. ResetAt(Budget(r), Limit(r)) = Oldest(stamps) + Window
    BY <1>2, <2>1, RecentIsCounted DEF ResetAt
  <2>3. QED
    BY <1>4, <1>5, <2>2
<1>7. /\ RetryAfter(Budget(r), Limit(r)) >= left \div TicksPerSecond
      /\ RetryAfter(Budget(r), Limit(r)) \in Int
  <2>1. left \div TicksPerSecond \in Int
    BY <1>5, <1>6
  <2>2. RetryAfter(Budget(r), Limit(r))
          = IF left \div TicksPerSecond < 1 THEN 1 ELSE left \div TicksPerSecond
    BY DEF RetryAfter
  <2> HIDE DEF left
  <2>3. QED
    BY <2>1, <2>2
<1> DEFINE wait == (RetryAfter(Budget(r), Limit(r)) + 1) * TicksPerSecond
<1>8. wait > left /\ wait \in Int
  BY <1>5, <1>6, <1>7, WholeSeconds
<1> HIDE DEF wait, left, stamps
<1>9. decision[d].stamp + Window < now + wait
  BY <1>5, <1>6, <1>8
<1>10. QED
  BY <1>4, <1>9 DEF wait

(* What was decided stays decided, and a 429 is the limiter's.             *)
LEMMA AnswersStay ==
  ASSUME IInv, [Next]_vars
  PROVE  /\ \A d \in Asked : d \in Asked' /\ decision'[d] = decision[d]
         /\ \A f \in Requests :
              response'[f].code = "RATE_LIMITED" =>
                \/ response'[f] = response[f]
                \/ /\ Decide(f)
                   /\ ~decision'[f].allowed
                   /\ response'[f].retryAfter = RetryAfter(Budget(f), Limit(f))
<1> USE DEF IInv, TypeOK
<1>1. ASSUME NEW r \in Requests, Decide(r)
      PROVE  /\ \A d \in Asked : d \in Asked' /\ decision'[d] = decision[d]
             /\ \A f \in Requests :
                  \/ response'[f] = response[f]
                  \/ /\ f = r
                     /\ ~decision'[f].allowed
                     /\ response'[f].retryAfter = RetryAfter(Budget(f), Limit(f))
  <2>1. \A d \in Asked : d \in Asked' /\ decision'[d] = decision[d]
    BY <1>1, DecisionIs
  <2>2. CASE UNCHANGED response
    BY <2>1, <2>2
  <2>3. CASE /\ ~decision'[r].allowed
             /\ Respond(r, "RATE_LIMITED", RetryAfter(Budget(r), Limit(r)))
    BY <2>1, <2>3 DEF Respond
  <2>4. QED
    BY <1>1, <2>2, <2>3, DecisionIs
<1>2. ASSUME NEW r \in Requests, LimiterFails(r)
      PROVE  /\ \A d \in Asked : d \in Asked' /\ decision'[d] = decision[d]
             /\ \A f \in Requests : response'[f] = response[f]
                                      \/ response'[f].code # "RATE_LIMITED"
  <2>1. r \notin Asked
    BY <1>2, Outcomes DEF LimiterFails, GatesPassed, Asked
  <2>2. \A d \in Requests \ {r} : decision'[d] = decision[d]
    BY <1>2 DEF LimiterFails
  <2>3. \A f \in Requests : response'[f] = response[f]
                              \/ response'[f].code # "RATE_LIMITED"
    BY <1>2 DEF LimiterFails, Respond
  <2>4. QED
    BY <2>1, <2>2, <2>3 DEF Asked
<1>3. ASSUME NEW r \in Requests,
             \/ Arrive(r) \/ PassAnonymous(r) \/ PassClient(r) \/ RefuseKey(r)
             \/ CheckToken(r) \/ Handle(r)
      PROVE  /\ decision' = decision
             /\ \A f \in Requests : response'[f] = response[f]
                                      \/ response'[f].code # "RATE_LIMITED"
  <2>1. Answer(Route(r)) # "RATE_LIMITED"
    BY DEF Answer, Generated, AuthAnswer, Preflight, Probe, Metrics
  <2>2. CASE Arrive(r) \/ PassAnonymous(r) \/ PassClient(r) \/ RefuseKey(r)
    BY <2>2 DEF Arrive, PassAnonymous, PassClient, RefuseKey, Respond
  <2>3. CASE CheckToken(r) \/ Handle(r)
    BY <2>1, <2>3 DEF CheckToken, Handle, Respond
  <2>4. QED
    BY <1>3, <2>2, <2>3
<1>4. CASE SetRPM \/ Verify \/ Revoke \/ Outage \/ Recovery \/ Tick \/ UNCHANGED vars
  BY <1>4 DEF SetRPM, Verify, Revoke, Outage, Recovery, Tick, vars, requests, Asked
<1>5. ASSUME NEW r \in Requests, Step(r)
      PROVE  /\ \A d \in Asked : d \in Asked' /\ decision'[d] = decision[d]
             /\ \A f \in Requests :
                  response'[f].code = "RATE_LIMITED" =>
                    \/ response'[f] = response[f]
                    \/ /\ Decide(f)
                       /\ ~decision'[f].allowed
                       /\ response'[f].retryAfter = RetryAfter(Budget(f), Limit(f))
  <2>1. CASE Decide(r)
    BY <1>1, <2>1
  <2>2. CASE LimiterFails(r)
    BY <1>2, <2>2
  <2>3. CASE ~Decide(r) /\ ~LimiterFails(r)
    BY <1>3, <1>5, <2>3 DEF Step, Asked
  <2>4. QED
    BY <2>1, <2>2, <2>3
<1>6. QED
  BY <1>4, <1>5 DEF Next

(* A 429 tells when it is sent, and from then on.                          *)
LEMMA NextRefusalsTell == IInv /\ RefusalsTell /\ [Next]_vars => RefusalsTell'
<1> SUFFICES ASSUME IInv, RefusalsTell, [Next]_vars,
                    NEW f \in Requests, response'[f].code = "RATE_LIMITED"
             PROVE  /\ f \in Asked'
                    /\ ~decision'[f].allowed
                    /\ decision'[f].rpm > 0 =>
                         \E d \in Asked' :
                           /\ decision'[d].allowed
                           /\ decision'[d].key = decision'[f].key
                           /\ decision'[d].stamp > decision'[f].stamp - Window
                           /\ decision'[d].stamp + Window
                                < decision'[f].stamp
                                    + (response'[f].retryAfter + 1) * TicksPerSecond
  BY DEF RefusalsTell
<1>1. CASE response'[f] = response[f]
  <2>1. /\ f \in Asked /\ f \in Asked' /\ decision'[f] = decision[f]
        /\ ~decision[f].allowed
    BY <1>1, AnswersStay DEF RefusalsTell
  <2>2. ASSUME decision[f].rpm > 0
        PROVE  \E d \in Asked' :
                 /\ decision'[d].allowed
                 /\ decision'[d].key = decision[f].key
                 /\ decision'[d].stamp > decision[f].stamp - Window
                 /\ decision'[d].stamp + Window
                      < decision[f].stamp
                          + (response[f].retryAfter + 1) * TicksPerSecond
    <3>1. PICK d \in Asked :
            /\ decision[d].allowed
            /\ decision[d].key = decision[f].key
            /\ decision[d].stamp > decision[f].stamp - Window
            /\ decision[d].stamp + Window
                 < decision[f].stamp + (response[f].retryAfter + 1) * TicksPerSecond
      BY <1>1, <2>2 DEF RefusalsTell
    <3>2. d \in Asked' /\ decision'[d] = decision[d]
      BY AnswersStay
    <3>3. QED
      BY <3>1, <3>2
  <2>3. QED
    BY <1>1, <2>1, <2>2
<1>2. CASE /\ Decide(f)
           /\ ~decision'[f].allowed
           /\ response'[f].retryAfter = RetryAfter(Budget(f), Limit(f))
  <2>1. /\ pc[f] = "limit"
        /\ f \in Asked'
        /\ decision'[f].key = KeyOf(f)
        /\ decision'[f].rpm = Limit(f)
        /\ decision'[f].stamp = now
        /\ ~(Cardinality(Counted(f)) < Limit(f))
    BY <1>2, DecisionIs
  <2>2. ASSUME Limit(f) > 0
        PROVE  \E d \in Asked' :
                 /\ decision'[d].allowed
                 /\ decision'[d].key = KeyOf(f)
                 /\ decision'[d].stamp > now - Window
                 /\ decision'[d].stamp + Window
                      < now + (RetryAfter(Budget(f), Limit(f)) + 1) * TicksPerSecond
    <3>1. PICK d \in Counted(f) :
            decision[d].stamp + Window
              < now + (RetryAfter(Budget(f), Limit(f)) + 1) * TicksPerSecond
      BY <2>1, <2>2, RefusalTells
    <3>2. d \in Asked /\ d \in Asked' /\ decision'[d] = decision[d]
      BY AnswersStay DEF Counted
    <3>3. QED
      BY <3>1, <3>2 DEF Counted
  <2>3. QED
    BY <1>2, <2>1, <2>2
<1>3. QED
  BY <1>1, <1>2, AnswersStay

(* Only the limiter decides.                                               *)
LEMMA OnlyDecideDecides ==
  ASSUME IInv, [Next]_vars, NEW r \in Requests, pc[r] = "limit",
         decision'[r] \in Decided
  PROVE  Decide(r)
<1>1. decision[r] = NotAsked
  BY DEF IInv, GatesPassed
<1>2. ASSUME NEW q \in Requests, Step(q), ~Decide(r)
      PROVE  decision'[r] = decision[r] \/ decision'[r] = Failed
  <2>1. CASE Decide(q)
    BY <1>2, <2>1, DecisionIs DEF IInv, TypeOK
  <2>2. CASE LimiterFails(q)
    BY <2>2 DEF LimiterFails, IInv, TypeOK
  <2>3. QED
    BY <1>2, <2>1, <2>2 DEF Step, Arrive, PassAnonymous, PassClient, RefuseKey,
                            CheckToken, Handle
<1>3. CASE SetRPM \/ Verify \/ Revoke \/ Outage \/ Recovery \/ Tick \/ UNCHANGED vars
  BY <1>1, <1>3, Outcomes
     DEF SetRPM, Verify, Revoke, Outage, Recovery, Tick, vars, requests
<1>4. QED
  BY <1>1, <1>2, <1>3, Outcomes DEF Next

(* A client that waits one second longer than it was told finds room: the  *)
(* window of the refusal held at most the limit, and one of those admitted *)
(* in it has left.                                                         *)
LEMMA PatientRetry ==
  ASSUME IInv, RefusalsTell, [Next]_vars, NEW f \in Requests, NEW r \in Requests,
         Retries(f, r, response[f].retryAfter + 1)
  PROVE  decision'[r].allowed
<1>1. /\ pc[r] = "limit" /\ decision'[r] \in Decided
      /\ response[f].code = "RATE_LIMITED"
      /\ Route(r) \in Auth <=> Route(f) \in Auth
      /\ Owner(r) = Owner(f)
      /\ decision'[r].rpm > 0
      /\ now >= decision[f].stamp + (response[f].retryAfter + 1) * TicksPerSecond
      /\ \A d \in Asked :
           (Route(d) \in Auth <=> Route(f) \in Auth) /\ Owner(d) = Owner(f) =>
             /\ decision[d].rpm = decision'[r].rpm
             /\ decision[d].allowed => decision[d].stamp <= decision[f].stamp
  BY DEF Retries
<1>2. /\ decision'[r].rpm = Limit(r) /\ Limit(r) \in Int
      /\ decision'[r].allowed <=> Cardinality(Counted(r)) < Limit(r)
  BY <1>1, OnlyDecideDecides, DecisionIs
<1>3. \A d \in Asked : /\ d \in Requests /\ pc[d] # "idle"
                       /\ Route(d) \in Main \cup Auth
                       /\ decision[d].key = KeyOf(d)
                       /\ decision[d].stamp \in Int
                       /\ decision[d].stamp <= now
  BY Outcomes DEF IInv, GatesPassed, DecidedForOwner, Asked, Decided, Times
<1>4. Route(r) \in Main \cup Auth
  BY <1>1 DEF IInv, GatesPassed
<1>5. f \in Asked /\ decision[f].rpm > 0
  BY <1>1 DEF RefusalsTell
<1>6. ASSUME NEW d \in Asked, decision[d].key = KeyOf(r)
      PROVE  /\ decision[d].rpm = Limit(r)
             /\ decision[d].allowed => decision[d].stamp <= decision[f].stamp
  <2>1. (Route(d) \in Auth <=> Route(r) \in Auth) /\ Owner(d) = Owner(r)
    BY <1>1, <1>3, <1>4, <1>6, OwnersAreKeys
  <2>2. QED
    BY <1>1, <1>2, <2>1
<1>7. decision[f].key = KeyOf(r)
  BY <1>1, <1>3, <1>4, <1>5, OwnersAreKeys
<1> DEFINE wait == (response[f].retryAfter + 1) * TicksPerSecond
<1>8. PICK d \in Asked : /\ decision[d].allowed
                         /\ decision[d].key = KeyOf(r)
                         /\ decision[d].stamp > decision[f].stamp - Window
                         /\ decision[d].stamp + Window < decision[f].stamp + wait
  BY <1>1, <1>5, <1>7 DEF RefusalsTell
<1>9. now >= decision[f].stamp + wait /\ wait \in Int
  <2>1. response[f].retryAfter \in Int
    BY DEF IInv, TypeOK, Response
  <2>2. QED
    BY <1>1, <2>1, PipelineAssumption
<1> HIDE DEF wait
<1>10. now \in Int /\ Window \in Nat
  BY PipelineAssumption DEF IInv, TypeOK, Times
<1> DEFINE T == {m \in Asked : /\ decision[m].key = KeyOf(r)
                               /\ decision[m].allowed
                               /\ decision[m].stamp > decision[f].stamp - Window}
<1>11. T \in Together
  <2>1. ASSUME NEW m \in T, NEW e \in T
        PROVE  decision[m].stamp > decision[e].stamp - Window
    <3>1. /\ decision[m].stamp \in Int /\ decision[e].stamp \in Int
          /\ decision[f].stamp \in Int
          /\ decision[m].stamp > decision[f].stamp - Window
          /\ decision[e].stamp <= decision[f].stamp
      BY <1>3, <1>5, <1>6
    <3>2. QED
      BY <1>10, <3>1
  <2>2. QED
    BY <2>1 DEF Together
<1>12. d \in T /\ d \notin Counted(r)
  <2>1. decision[d].stamp \in Int /\ decision[f].stamp \in Int
    BY <1>3, <1>5
  <2>2. ~(decision[d].stamp > now - Window)
    BY <1>8, <1>9, <1>10, <2>1
  <2>3. QED
    BY <1>8, <2>2 DEF Counted
<1>13. Counted(r) \subseteq T
  <2> SUFFICES ASSUME NEW m \in Counted(r)
               PROVE  m \in T
    OBVIOUS
  <2>1. /\ m \in Asked /\ decision[m].key = KeyOf(r) /\ decision[m].allowed
        /\ decision[m].stamp > now - Window
    BY DEF Counted
  <2>2. /\ decision[m].stamp \in Int /\ decision[f].stamp \in Int
        /\ decision[f].stamp <= now
    BY <1>3, <1>5, <2>1
  <2>3. decision[m].stamp > decision[f].stamp - Window
    BY <1>10, <2>1, <2>2
  <2>4. QED
    BY <2>1, <2>3
<1>14. PICK e \in T : Cardinality(T) <= decision[e].rpm
  BY <1>11, <1>12 DEF IInv, WindowsFit
<1>15. decision[e].rpm = Limit(r)
  BY <1>6
<1>16. /\ Cardinality(Counted(r)) < Cardinality(T)
       /\ Cardinality(Counted(r)) \in Nat /\ Cardinality(T) \in Nat
  <2>1. T \subseteq Requests /\ Counted(r) \subseteq Requests
    BY DEF Asked, Counted
  <2>2. /\ IsFiniteSet(T)
        /\ Cardinality(T) \in Nat /\ Cardinality(Counted(r)) \in Nat
    BY <2>1, Finite
  <2>3. QED
    BY <1>12, <1>13, <2>2, FS_Subset
<1> HIDE DEF T
<1>17. Cardinality(Counted(r)) < Limit(r)
  BY <1>2, <1>14, <1>15, <1>16
<1>18. QED
  BY <1>2, <1>17

(* Retry-After (ratelimit.go:98-103) and one second: whoever was refused,  *)
(* with a limit that stays the same, is let in then, unless somebody took  *)
(* the slot; for every fineness of the clock.                              *)
THEOREM RetryAfterSuffices == Spec => RetryAfterPlusOne
<1>1. Init => RefusalsTell
  BY DEF Init, RefusalsTell, NoResponse
<1>2. IInv /\ RefusalsTell /\ [Next]_vars =>
        [\A f, r \in Requests :
           Retries(f, r, response[f].retryAfter + 1) => decision'[r].allowed]_vars
  BY PatientRetry
<1>3. QED
  BY <1>1, <1>2, NextRefusalsTell, Invariance, PTL DEF Spec, RetryAfterPlusOne

=============================================================================

----------------------------- MODULE RedisProofs -----------------------------
(***************************************************************************)
(* What holds of the limiter the replicas share, for any replicas whose    *)
(* clocks are off by a bounded time, any keys, limits and faults, and any  *)
(* calls, finitely many.                                                   *)
(*                                                                         *)
(* The properties count charged calls, the script counts what is left in   *)
(* a sorted set; the invariant says what the set and its expiry may have   *)
(* lost, and what a refusal has seen.                                      *)
(***************************************************************************)
EXTENDS RedisLimiter, FiniteSetTheorems, WellFoundedInduction, TLAPS

(* The time at which a call read its clock, by the clock of Redis.         *)
Sent(c) == call[c].stamp - Skew[call[c].replica]

(* A script of the call may still run.                                     *)
Pending(c) == pc[c] = "waiting" \/ c \in strays

(* What a call adds to the sorted set.                                     *)
Entry(c) == [member |-> c, score |-> call[c].stamp]

(* Scripts run, and calls return, no later than MaxDelay after the clock   *)
(* was read.                                                               *)
CallsAreTimely ==
  \A c \in Calls :
    /\ pc[c] = "answering" \/ Pending(c) =>
         /\ pc[c] # "idle" /\ call[c].rpm > 0
         /\ Sent(c) <= now /\ now <= Sent(c) + MaxDelay
    /\ charged[c] >= 0 =>
         /\ pc[c] # "idle"
         /\ Sent(c) <= charged[c] /\ charged[c] <= Sent(c) + MaxDelay
         /\ charged[c] <= now

(* Nothing is in a set but charged calls of its key.                       *)
SetsHoldCharged ==
  \A k \in Keys : \A m \in zset[k] :
    \E d \in Calls : charged[d] >= 0 /\ call[d].key = k /\ m = Entry(d)

(* A key does not expire within a window of any charge.                    *)
ExpiryCovers ==
  \A d \in Calls : charged[d] >= 0 => charged[d] + Window <= expires[call[d].key]

(* What a set has lost is older than a window less the slack.              *)
ForgottenAreOld ==
  \A d \in Calls :
    charged[d] >= 0 /\ Entry(d) \notin zset[call[d].key] =>
      charged[d] <= now - (Window - Slack)

(* A set holds no more than some limit of its key allows.                  *)
SetsFit ==
  \A k \in Keys :
    zset[k] # {} => \E d \in Calls : /\ pc[d] # "idle" /\ call[d].key = k
                                     /\ Cardinality(zset[k]) <= call[d].rpm

(* As long as nobody is charged after a refusal, what is later than the    *)
(* oldest it saw leaves room.                                              *)
RefusalsLast ==
  \A c \in Calls :
    LET k == call[c].key
    IN  pc[c] \in {"answering", "done"} /\ call[c].rpm > 0 =>
          /\ reply[c].charges <= charges[k]
          /\ pc[c] = "done" => /\ result[c].allowed = reply[c].allowed
                               /\ result[c].resetAt = reply[c].oldest + Window
          /\ ~reply[c].allowed /\ reply[c].charges = charges[k] =>
               \E d \in Calls :
                 /\ pc[d] # "idle" /\ call[d].key = k
                 /\ Cardinality({m \in zset[k] : m.score > reply[c].oldest})
                      < call[d].rpm

IInv == /\ TypeOK
        /\ CallsAreTimely
        /\ SetsHoldCharged
        /\ ExpiryCovers
        /\ ForgottenAreOld
        /\ SetsFit
        /\ RefusalsLast

-----------------------------------------------------------------------------
(* Sets and numbers.                                                       *)

(* A set of numbers has a least one.                                       *)
LEMMA Least ==
  ASSUME NEW T, T \subseteq Nat, T # {}
  PROVE  \E x \in T : \A y \in T : x <= y
<1> DEFINE R == OpToRel(<, Nat)
<1>1. IsWellFoundedOn(R, Nat)
  BY NatLessThanWellFounded
<1>2. \A x, y \in Nat : <<x, y>> \in R <=> x < y
  BY DEF OpToRel
<1> HIDE DEF R
<1>3. PICK x \in T : \A y \in T : ~(<<y, x>> \in R)
  BY <1>1, WFMin, Zenon
<1>4. \A y \in T : ~(y < x) /\ x \in Nat /\ y \in Nat
  BY <1>2, <1>3
<1>5. \A y \in T : x <= y
  BY <1>4
<1> QED
  BY <1>5

(* So has a set of integers with a lower bound.                            *)
LEMMA LeastAbove ==
  ASSUME NEW bound \in Int, NEW T, T \subseteq Int, T # {}, \A x \in T : x > bound
  PROVE  \E x \in T : \A y \in T : x <= y
<1> DEFINE Shifted == {x - bound : x \in T}
<1>1. Shifted \subseteq Nat /\ Shifted # {}
  <2>1. \A x \in T : x - bound \in Nat
    OBVIOUS
  <2> QED
    BY <2>1
<1>2. PICK s \in Shifted : \A t \in Shifted : s <= t
  BY <1>1, Least
<1>3. PICK x \in T : s = x - bound
  BY <1>2
<1>4. \A y \in T : x - bound <= y - bound
  BY <1>2, <1>3
<1>5. \A y \in T : x <= y
  BY <1>4
<1> QED
  BY <1>5

(* There is a replica, and the slack covers any two clocks.                *)
LEMMA SlackCovers ==
  /\ Slack \in Int /\ Slack >= MaxDelay
  /\ \A s, t \in Replicas : Slack >= MaxDelay + Skew[s] - Skew[t]
<1> DEFINE Distances == {Skew[r] - Skew[q] : r, q \in Replicas}
           widest == CHOOSE d \in Distances : \A r, q \in Replicas : Skew[r] - Skew[q] <= d
<1>1. \E d \in Distances : \A r, q \in Replicas : Skew[r] - Skew[q] <= d
  <2>1. PICK r, q \in Replicas :
          \A s, t \in Replicas : Skew[s] - Skew[t] <= Skew[r] - Skew[q]
    BY RedisAssumption
  <2>2. Skew[r] - Skew[q] \in Distances
    OBVIOUS
  <2> QED
    BY <2>1, <2>2
<1>2. widest \in Distances /\ \A r, q \in Replicas : Skew[r] - Skew[q] <= widest
  BY <1>1
<1>3. Distances \subseteq Int
  BY RedisAssumption
<1>4. PICK r \in Replicas : TRUE
  BY RedisAssumption
<1>5. widest \in Int /\ Skew[r] - Skew[r] <= widest /\ Skew[r] \in Int
  <2> HIDE DEF widest
  <2>1. Skew[r] \in Int
    BY <1>4, RedisAssumption
  <2> QED
    BY <1>2, <1>3, <1>4, <2>1
<1>6. widest >= 0
  BY <1>5
<1>7. Slack = MaxDelay + widest
  BY DEF Slack
<1>8. \A s, t \in Replicas : Skew[s] \in Int /\ Skew[t] \in Int
  BY RedisAssumption
<1> HIDE DEF widest, Distances
<1> QED
  BY <1>2, <1>5, <1>6, <1>7, <1>8, RedisAssumption

(* A set of entries has as many elements as there are calls it comes from. *)
LEMMA EntriesAreCalls ==
  ASSUME NEW S, \A m \in S : \E d \in Calls : m = Entry(d)
  PROVE  /\ IsFiniteSet(S) /\ Cardinality(S) \in Nat
         /\ Cardinality(S) = Cardinality({d \in Calls : Entry(d) \in S})
<1> DEFINE M == {d \in Calls : Entry(d) \in S}
           f == [d \in M |-> Entry(d)]
<1>1. IsFiniteSet(M)
  BY RedisAssumption, FS_Subset
<1>2. f \in [M -> S]
  OBVIOUS
<1>3. \A m \in S : \E d \in M : f[d] = m
  OBVIOUS
<1>4. \A d, e \in M : f[d] = f[e] => d = e
  BY DEF Entry
<1> HIDE DEF M, f
<1>5. f \in Surjection(M, S) /\ f \in Injection(M, S)
  BY <1>2, <1>3, <1>4 DEF Surjection, Injection, IsInjective
<1>6. IsFiniteSet(S) /\ Cardinality(S) = Cardinality(M)
  BY <1>1, <1>5, FS_Surjection
<1> QED
  BY <1>6, FS_CardinalityType DEF M

(* Calls are finitely many, and so are those of any kind.                  *)
LEMMA FinitelyMany ==
  ASSUME NEW S, S \subseteq Calls
  PROVE  IsFiniteSet(S) /\ Cardinality(S) \in Nat
BY RedisAssumption, FS_Subset, FS_CardinalityType

-----------------------------------------------------------------------------
(* One run of the script.                                                  *)

(* What TypeOK says of a call whose script may run.                        *)
LEMMA CallIs ==
  ASSUME IInv, NEW c \in Calls, pc[c] # "idle"
  PROVE  /\ call[c] \in Call
         /\ call[c].key \in Keys /\ call[c].rpm \in Int /\ call[c].stamp \in Int
         /\ call[c].replica \in Replicas /\ Skew[call[c].replica] \in Int
         /\ Sent(c) \in Int
         /\ call[c].stamp = Sent(c) + Skew[call[c].replica]
<1>1. call[c] \in Call
  BY DEF IInv, TypeOK
<1>2. /\ call[c].key \in Keys /\ call[c].rpm \in Int /\ call[c].stamp \in Int
      /\ call[c].replica \in Replicas /\ Skew[call[c].replica] \in Int
  BY <1>1, RedisAssumption DEF Call
<1> QED
  BY <1>1, <1>2 DEF Sent

(* The entries the script counts.                                          *)
LEMMA ValidIs ==
  ASSUME IInv, NEW c \in Calls, pc[c] # "idle"
  PROVE  /\ Valid(c) \subseteq zset[call[c].key]
         /\ IsFiniteSet(zset[call[c].key]) /\ Cardinality(zset[call[c].key]) \in Nat
         /\ IsFiniteSet(Valid(c)) /\ Cardinality(Valid(c)) \in Nat
         /\ Cardinality(Valid(c)) <= Cardinality(zset[call[c].key])
         /\ Cardinality(Valid(c)) = Cardinality({d \in Calls : Entry(d) \in Valid(c)})
         /\ \A m \in Valid(c) : /\ m.score \in Int
                                /\ m.score > call[c].stamp - Window
                                /\ \E d \in Calls : /\ charged[d] >= 0
                                                    /\ call[d].key = call[c].key
                                                    /\ m = Entry(d)
<1>1. call[c].key \in Keys
  BY CallIs
<1>2. Valid(c) \subseteq zset[call[c].key]
  BY DEF Valid, Stored
<1>3. \A m \in zset[call[c].key] : /\ m.score \in Int
                                   /\ \E d \in Calls : /\ charged[d] >= 0
                                                       /\ call[d].key = call[c].key
                                                       /\ m = Entry(d)
  BY <1>1 DEF IInv, SetsHoldCharged, TypeOK
<1>4. \A m \in Valid(c) : m.score > call[c].stamp - Window
  BY DEF Valid, InWindow
<1>5. IsFiniteSet(zset[call[c].key]) /\ Cardinality(zset[call[c].key]) \in Nat
  BY <1>3, EntriesAreCalls
<1>6. /\ IsFiniteSet(Valid(c)) /\ Cardinality(Valid(c)) \in Nat
      /\ Cardinality(Valid(c)) = Cardinality({d \in Calls : Entry(d) \in Valid(c)})
  BY <1>2, <1>3, EntriesAreCalls
<1>7. Cardinality(Valid(c)) <= Cardinality(zset[call[c].key])
  BY <1>2, <1>5, FS_Subset
<1> QED
  BY <1>2, <1>3, <1>4, <1>5, <1>6, <1>7

(* The set the script leaves.                                              *)
LEMMA EvictedIs ==
  ASSUME IInv, NEW c \in Calls, pc[c] # "idle", call[c].rpm > 0
  PROVE  /\ Evicted(c) # {}
         /\ IsFiniteSet(Evicted(c)) /\ Cardinality(Evicted(c)) \in Nat
         /\ \A m \in Evicted(c) : m \in Valid(c) \/ (Admits(c) /\ m = Entry(c))
         /\ Valid(c) \subseteq Evicted(c)
         /\ Admits(c) => /\ Entry(c) \in Evicted(c)
                         /\ Cardinality(Evicted(c)) <= call[c].rpm
         /\ ~Admits(c) => /\ Evicted(c) = Valid(c)
                          /\ Cardinality(Valid(c)) >= call[c].rpm
<1>1. /\ IsFiniteSet(Valid(c)) /\ Cardinality(Valid(c)) \in Nat
      /\ call[c].rpm \in Int
  BY ValidIs, CallIs
<1>2. Evicted(c) = IF Admits(c) THEN Valid(c) \cup {Entry(c)} ELSE Valid(c)
  BY DEF Evicted, Member, Entry
<1>3. CASE Admits(c)
  <2>1. /\ IsFiniteSet(Evicted(c))
        /\ Cardinality(Evicted(c)) \in {Cardinality(Valid(c)), Cardinality(Valid(c)) + 1}
    BY <1>1, <1>2, <1>3, FS_AddElement
  <2>2. Cardinality(Valid(c)) < call[c].rpm
    BY <1>3 DEF Admits
  <2>3. Evicted(c) = Valid(c) \cup {Entry(c)} /\ Evicted(c) # {}
    BY <1>2, <1>3
  <2>4. Cardinality(Evicted(c)) \in Nat /\ Cardinality(Evicted(c)) <= call[c].rpm
    BY <1>1, <2>1, <2>2
  <2>5. /\ \A m \in Evicted(c) : m \in Valid(c) \/ m = Entry(c)
        /\ Valid(c) \subseteq Evicted(c) /\ Entry(c) \in Evicted(c)
    BY <2>3
  <2>6. IsFiniteSet(Evicted(c)) /\ Evicted(c) # {}
    BY <2>1, <2>3
  <2> QED
    BY <1>3, <2>4, <2>5, <2>6
<1>4. CASE ~Admits(c)
  <2>1. Cardinality(Valid(c)) >= call[c].rpm
    BY <1>1, <1>4 DEF Admits
  <2>2. Valid(c) # {}
    BY <1>1, <2>1, FS_EmptySet
  <2>3. Evicted(c) = Valid(c)
    BY <1>2, <1>4
  <2>4. \A m \in Evicted(c) : m \in Valid(c)
    BY <2>3
  <2>5. IsFiniteSet(Evicted(c)) /\ Cardinality(Evicted(c)) \in Nat /\ Evicted(c) # {}
    BY <1>1, <2>2, <2>3
  <2> QED
    BY <1>4, <2>1, <2>3, <2>4, <2>5
<1> QED
  BY <1>3, <1>4

(* A set that has anything has an oldest entry.                            *)
LEMMA OldestIs ==
  ASSUME IInv, NEW c \in Calls, pc[c] # "idle", call[c].rpm > 0
  PROVE  /\ Returned(c).oldest \in Int
         /\ \E m \in Evicted(c) : m.score = Returned(c).oldest
         /\ \A m \in Evicted(c) : Returned(c).oldest <= m.score
<1> DEFINE scores == {m.score : m \in Evicted(c)}
           oldest == CHOOSE s \in scores : \A m \in Evicted(c) : s <= m.score
<1>1. call[c].stamp \in Int /\ Window \in Nat \ {0}
  BY CallIs, RedisAssumption
<1>2. \A m \in Evicted(c) : m.score \in Int /\ m.score > call[c].stamp - Window
  <2>1. Entry(c).score \in Int /\ Entry(c).score > call[c].stamp - Window
    BY <1>1 DEF Entry
  <2> QED
    BY <2>1, EvictedIs, ValidIs
<1>3. scores \subseteq Int /\ scores # {} /\ \A s \in scores : s > call[c].stamp - Window
  BY <1>2, EvictedIs
<1>4. call[c].stamp - Window \in Int
  BY <1>1
<1>5. \E s \in scores : \A t \in scores : s <= t
  BY <1>3, <1>4, LeastAbove
<1>6. oldest \in scores /\ \A m \in Evicted(c) : oldest <= m.score
  BY <1>5
<1>7. Returned(c).oldest = oldest
  BY DEF Returned
<1> QED
  BY <1>3, <1>6, <1>7

(* What a run of the script changes.                                       *)
LEMMA ScriptIs ==
  ASSUME IInv, NEW c \in Calls, pc[c] # "idle", call[c].rpm > 0, Script(c)
  PROVE  LET k == call[c].key
         IN  /\ k \in Keys
             /\ zset'[k] = Evicted(c)
             /\ \A j \in Keys \ {k} : zset'[j] = zset[j]
             /\ DOMAIN zset' = Keys
             /\ \A j \in Keys \ {k} : expires'[j] = expires[j] /\ charges'[j] = charges[j]
             /\ \A d \in Calls \ {c} : charged'[d] = charged[d]
             /\ expires' \in [Keys -> Int] /\ charged' \in [Calls -> Int]
             /\ charges' \in [Keys -> Nat]
             /\ Admits(c) => /\ expires'[k] = now + Window
                             /\ charged'[c] = now
                             /\ charges'[k] = charges[k] + 1
             /\ ~Admits(c) => UNCHANGED <<expires, charged, charges>>
<1>1. call[c].key \in Keys
  BY CallIs
<1>2. /\ now \in Int /\ Window \in Int
      /\ DOMAIN zset = Keys
      /\ expires \in [Keys -> Int] /\ charged \in [Calls -> Int]
      /\ charges \in [Keys -> Nat]
  BY RedisAssumption DEF IInv, TypeOK
<1>3. zset' = [zset EXCEPT ![call[c].key] = Evicted(c)]
  BY DEF Script
<1>4. CASE Admits(c)
  <2>1. /\ expires' = [expires EXCEPT ![call[c].key] = now + Window]
        /\ charged' = [charged EXCEPT ![c] = now]
        /\ charges' = [charges EXCEPT ![call[c].key] = @ + 1]
    BY <1>4 DEF Script, Expiry
  <2> QED
    BY <1>1, <1>2, <1>3, <1>4, <2>1
<1>5. CASE ~Admits(c)
  <2>1. UNCHANGED <<expires, charged, charges>>
    BY <1>5 DEF Script
  <2> QED
    BY <1>1, <1>2, <1>3, <1>5, <2>1
<1> QED
  BY <1>4, <1>5

(* The sets, however late the script runs.                                 *)
LEMMA ScriptKeeps ==
  ASSUME IInv, NEW c \in Calls, Pending(c), Script(c), now' = now, call' = call,
         \A d \in Calls : pc[d] # "idle" => pc'[d] # "idle"
  PROVE  /\ \A k \in Keys : \A m \in zset'[k] : m.member \in Calls /\ m.score \in Int
         /\ SetsHoldCharged' /\ ExpiryCovers' /\ ForgottenAreOld' /\ SetsFit'
<1> DEFINE k == call[c].key
<1>1. /\ pc[c] # "idle" /\ call[c].rpm > 0
      /\ Sent(c) <= now /\ now <= Sent(c) + MaxDelay
  BY DEF IInv, CallsAreTimely
<1>2. /\ k \in Keys /\ call[c].rpm \in Int /\ call[c].stamp \in Int
      /\ Sent(c) \in Int /\ Skew[call[c].replica] \in Int
      /\ call[c].replica \in Replicas
      /\ call[c].stamp = Sent(c) + Skew[call[c].replica]
  BY <1>1, CallIs
<1>3. /\ zset'[k] = Evicted(c)
      /\ \A j \in Keys \ {k} : zset'[j] = zset[j] /\ expires'[j] = expires[j]
      /\ \A d \in Calls \ {c} : charged'[d] = charged[d]
      /\ Admits(c) => expires'[k] = now + Window /\ charged'[c] = now
      /\ ~Admits(c) => expires' = expires /\ charged' = charged
  BY <1>1, ScriptIs
<1>4. /\ now \in Int /\ now >= 0 /\ Window \in Nat \ {0} /\ MaxDelay \in Nat
      /\ Slack \in Int /\ Slack >= MaxDelay
      /\ \A j \in Keys : expires[j] \in Int
      /\ \A d \in Calls : charged[d] \in Int
  BY SlackCovers, RedisAssumption DEF IInv, TypeOK
<1>5. \A d \in Calls : charged[d] >= 0 =>
        /\ pc[d] # "idle" /\ call[d].key \in Keys
        /\ Sent(d) \in Int /\ Skew[call[d].replica] \in Int
        /\ call[d].replica \in Replicas
        /\ call[d].stamp = Sent(d) + Skew[call[d].replica]
        /\ charged[d] <= now /\ charged[d] <= Sent(d) + MaxDelay
  BY CallIs DEF IInv, CallsAreTimely
<1>6. \A d \in Calls : charged[d] >= 0 => charged'[d] >= 0
  BY <1>3, <1>4
<1>7. \A m \in zset'[k] : \E d \in Calls : /\ charged'[d] >= 0
                                           /\ call[d].key = k /\ m = Entry(d)
  <2> SUFFICES ASSUME NEW m \in Evicted(c)
               PROVE  \E d \in Calls : /\ charged'[d] >= 0
                                       /\ call[d].key = k /\ m = Entry(d)
    BY <1>3
  <2>1. CASE m \in Valid(c)
    BY <1>1, <1>6, <2>1, ValidIs
  <2>2. CASE Admits(c) /\ m = Entry(c)
    BY <1>3, <1>4, <2>2
  <2> QED
    BY <1>1, <2>1, <2>2, EvictedIs
<1>8. SetsHoldCharged'
  BY <1>3, <1>6, <1>7 DEF IInv, SetsHoldCharged, Entry
<1>9. \A j \in Keys : \A m \in zset'[j] : m.member \in Calls /\ m.score \in Int
  <2>1. \A m \in zset'[k] : m.member \in Calls /\ m.score \in Int
    <3>1. \A d \in Calls : pc[d] # "idle" => call[d].stamp \in Int
      BY CallIs
    <3>2. \A m \in Evicted(c) : m.member \in Calls /\ m.score \in Int
      <4>1. \A m \in Valid(c) : m.member \in Calls /\ m.score \in Int
        BY <1>1, <1>2, ValidIs DEF IInv, TypeOK
      <4>2. Entry(c).member \in Calls /\ Entry(c).score \in Int
        BY <1>2 DEF Entry
      <4> QED
        BY <1>1, <4>1, <4>2, EvictedIs
    <3> QED
      BY <1>3, <3>2
  <2> QED
    BY <1>3, <2>1 DEF IInv, TypeOK
<1>10. ExpiryCovers'
  <2> SUFFICES ASSUME NEW d \in Calls, charged'[d] >= 0
               PROVE  charged'[d] + Window <= expires'[call[d].key]
    BY DEF ExpiryCovers
  <2>1. CASE Admits(c) /\ d = c
    BY <1>3, <1>4, <2>1
  <2>2. CASE ~(Admits(c) /\ d = c)
    <3>1. charged'[d] = charged[d]
      BY <1>3, <2>2
    <3>2. /\ charged[d] + Window <= expires[call[d].key]
          /\ charged[d] <= now /\ call[d].key \in Keys
      BY <1>5, <3>1 DEF IInv, ExpiryCovers
    <3> QED
      BY <1>3, <1>4, <3>1, <3>2
  <2> QED
    BY <2>1, <2>2
<1>11. ForgottenAreOld'
  <2> SUFFICES ASSUME NEW d \in Calls, charged'[d] >= 0,
                      Entry(d) \notin zset'[call[d].key]
               PROVE  charged'[d] <= now - (Window - Slack)
    BY DEF ForgottenAreOld, Entry, Slack
  <2>1. ~(Admits(c) /\ d = c)
    BY <1>1, <1>3, EvictedIs
  <2>2. charged'[d] = charged[d]
    BY <1>3, <2>1
  <2>3. CASE Entry(d) \notin zset[call[d].key]
    BY <2>2, <2>3 DEF IInv, ForgottenAreOld
  <2>4. CASE Entry(d) \in zset[call[d].key]
    <3>1. call[d].key = k
      BY <1>3, <1>5, <2>2, <2>4
    <3>2. Entry(d) \notin Valid(c)
      BY <1>1, <1>3, <3>1, EvictedIs
    <3>3. now > expires[k] \/ ~(call[d].stamp > call[c].stamp - Window)
      BY <2>4, <3>1, <3>2 DEF Valid, Stored, InWindow, Entry
    <3>4. CASE now > expires[k]
      <4>1. charged[d] + Window <= expires[k]
        BY <2>2, <3>1 DEF IInv, ExpiryCovers
      <4> QED
        BY <1>2, <1>4, <2>2, <3>4, <4>1
    <3>5. CASE ~(call[d].stamp > call[c].stamp - Window)
      <4>1. /\ charged[d] <= Sent(d) + MaxDelay
            /\ Sent(d) \in Int /\ Skew[call[d].replica] \in Int
            /\ call[d].stamp = Sent(d) + Skew[call[d].replica]
            /\ call[d].replica \in Replicas
        BY <1>5, <2>2
      <4>2. Slack >= MaxDelay + Skew[call[c].replica] - Skew[call[d].replica]
        BY <1>2, <4>1, SlackCovers
      <4> QED
        BY <1>1, <1>2, <1>4, <2>2, <3>5, <4>1, <4>2
    <3> QED
      BY <3>3, <3>4, <3>5
  <2> QED
    BY <2>3, <2>4
<1>12. SetsFit'
  <2> SUFFICES ASSUME NEW j \in Keys, zset'[j] # {}
               PROVE  \E d \in Calls : /\ pc'[d] # "idle" /\ call[d].key = j
                                       /\ Cardinality(zset'[j]) <= call[d].rpm
    BY DEF SetsFit
  <2>1. CASE j # k
    BY <1>3, <2>1 DEF IInv, SetsFit
  <2>2. CASE j = k /\ Admits(c)
    BY <1>1, <1>3, <2>2, EvictedIs
  <2>3. CASE j = k /\ ~Admits(c)
    <3>1. zset'[j] = Valid(c)
      BY <1>1, <1>3, <2>3, EvictedIs
    <3>2. /\ Valid(c) \subseteq zset[k]
          /\ Cardinality(Valid(c)) \in Nat /\ Cardinality(zset[k]) \in Nat
          /\ Cardinality(Valid(c)) <= Cardinality(zset[k])
      BY <1>1, ValidIs
    <3>3. PICK d \in Calls : /\ pc[d] # "idle" /\ call[d].key = k
                             /\ Cardinality(zset[k]) <= call[d].rpm
      BY <1>2, <3>1, <3>2 DEF IInv, SetsFit
    <3>4. call[d].rpm \in Int
      BY <3>3, CallIs
    <3> QED
      BY <2>3, <3>1, <3>2, <3>3, <3>4
  <2> QED
    BY <2>1, <2>2, <2>3
<1> QED
  BY <1>8, <1>9, <1>10, <1>11, <1>12

-----------------------------------------------------------------------------
(* The steps.                                                              *)

(* A call reads its clock; it has charged nobody yet.                      *)
LEMMA EnterStep ==
  ASSUME IInv, NEW c \in Calls, DenyAtOnce(c) \/ Send(c)
  PROVE  IInv'
<1>1. PICK r \in Replicas, k \in Keys, rpm \in Int, label \in {"done", "waiting"} :
        /\ pc[c] = "idle"
        /\ pc' = [pc EXCEPT ![c] = label]
        /\ call' = [call EXCEPT ![c] = [replica |-> r, key |-> k, rpm |-> rpm,
                                        stamp |-> now + Skew[r]]]
        /\ IF label = "done" THEN rpm <= 0 ELSE rpm > 0
  <2>1. \A k \in Keys : Limits[k] \subseteq Int
    BY RedisAssumption
  <2>2. CASE DenyAtOnce(c)
    <3>1. PICK r \in Replicas, k \in Keys : \E rpm \in Limits[k] :
            rpm <= 0 /\ Enter(c, r, k, rpm, "done")
      BY <2>2 DEF DenyAtOnce
    <3> QED
      BY <2>1, <3>1 DEF Enter
  <2>3. CASE Send(c)
    <3>1. PICK r \in Replicas, k \in Keys : \E rpm \in Limits[k] :
            rpm > 0 /\ Enter(c, r, k, rpm, "waiting")
      BY <2>3 DEF Send
    <3> QED
      BY <2>1, <3>1 DEF Enter
  <2> QED
    BY <2>2, <2>3
<1>2. /\ UNCHANGED <<now, reply, zset, expires, charged, charges, strays, faults>>
      /\ result' \in [Calls -> Result]
      /\ \A d \in Calls \ {c} : result'[d] = result[d]
  <2>1. \A q \in Replicas :
          [allowed |-> FALSE, remaining |-> 0, resetAt |-> now + Skew[q] + Window]
            \in Result
    <3>1. \A q \in Replicas : now + Skew[q] + Window \in Int
      BY RedisAssumption DEF IInv, TypeOK
    <3> QED
      BY <3>1 DEF Result
  <2>2. result \in [Calls -> Result]
    BY DEF IInv, TypeOK
  <2> QED
    BY <2>1, <2>2 DEF DenyAtOnce, Send, redisVars
<1>3. /\ call'[c] \in Call /\ call'[c].key = k /\ call'[c].rpm = rpm
      /\ call'[c].stamp - Skew[call'[c].replica] = now
      /\ now \in Int /\ MaxDelay \in Nat
      /\ \A d \in Calls \ {c} : call'[d] = call[d] /\ pc'[d] = pc[d]
      /\ pc'[c] = label
      /\ DOMAIN call' = Calls
      /\ pc' \in [Calls -> {"idle", "waiting", "answering", "done", "failed"}]
  <2>1. now \in Int /\ now + Skew[r] \in Int /\ (now + Skew[r]) - Skew[r] = now
        /\ MaxDelay \in Nat
    BY RedisAssumption DEF IInv, TypeOK
  <2>2. call'[c] = [replica |-> r, key |-> k, rpm |-> rpm, stamp |-> now + Skew[r]]
    BY <1>1 DEF IInv, TypeOK
  <2>3. call'[c] \in Call
    BY <2>1, <2>2 DEF Call
  <2>4. call'[c].stamp - Skew[call'[c].replica] = now
    <3>1. call'[c].stamp = now + Skew[r] /\ call'[c].replica = r
      BY <2>2
    <3>2. Skew[call'[c].replica] = Skew[r]
      BY <3>1
    <3>3. call'[c].stamp - Skew[call'[c].replica] = (now + Skew[r]) - Skew[r]
      BY <3>1, <3>2, Zenon
    <3> QED
      BY <2>1, <3>3, Zenon
  <2>5. /\ \A d \in Calls \ {c} : call'[d] = call[d] /\ pc'[d] = pc[d]
        /\ pc'[c] = label
        /\ DOMAIN call' = Calls
        /\ pc' \in [Calls -> {"idle", "waiting", "answering", "done", "failed"}]
    BY <1>1 DEF IInv, TypeOK
  <2> QED
    BY <2>1, <2>2, <2>3, <2>4, <2>5
<1>4. ~(charged[c] >= 0) /\ c \notin strays
  BY <1>1 DEF IInv, CallsAreTimely, Pending
<1>5. TypeOK'
  BY <1>1, <1>2, <1>3 DEF IInv, TypeOK
<1>6. CallsAreTimely'
  BY <1>1, <1>2, <1>3, <1>4 DEF IInv, CallsAreTimely, Pending, Sent
<1>7. \A d \in Calls : charged[d] >= 0 => d # c /\ call'[d] = call[d]
  BY <1>3, <1>4
<1>8. SetsHoldCharged'
  <2> SUFFICES ASSUME NEW j \in Keys, NEW m \in zset[j]
               PROVE  \E d \in Calls : /\ charged[d] >= 0 /\ call'[d].key = j
                                       /\ m = Entry(d)'
    BY <1>2 DEF SetsHoldCharged
  <2>1. PICK d \in Calls : charged[d] >= 0 /\ call[d].key = j /\ m = Entry(d)
    BY DEF IInv, SetsHoldCharged
  <2> QED
    BY <1>7, <2>1 DEF Entry
<1>9. ExpiryCovers'
  BY <1>2, <1>7 DEF IInv, ExpiryCovers
<1>10. ForgottenAreOld'
  <2> SUFFICES ASSUME NEW d \in Calls, charged[d] >= 0,
                      Entry(d)' \notin zset[call'[d].key]
               PROVE  charged[d] <= now - (Window - Slack)
    BY <1>2 DEF ForgottenAreOld, Slack, Entry
  <2>1. Entry(d)' = Entry(d) /\ call'[d] = call[d]
    BY <1>7 DEF Entry
  <2> QED
    BY <2>1 DEF IInv, ForgottenAreOld
<1>11. SetsFit'
  <2> SUFFICES ASSUME NEW j \in Keys, zset[j] # {}
               PROVE  \E d \in Calls : /\ pc'[d] # "idle" /\ call'[d].key = j
                                       /\ Cardinality(zset[j]) <= call'[d].rpm
    BY <1>2 DEF SetsFit
  <2>1. PICK d \in Calls : /\ pc[d] # "idle" /\ call[d].key = j
                           /\ Cardinality(zset[j]) <= call[d].rpm
    BY DEF IInv, SetsFit
  <2> QED
    BY <1>1, <1>3, <2>1
<1>12. RefusalsLast'
  <2> SUFFICES ASSUME NEW d \in Calls, pc'[d] \in {"answering", "done"},
                      call'[d].rpm > 0
               PROVE  /\ reply[d].charges <= charges[call'[d].key]
                      /\ pc'[d] = "done" =>
                           /\ result'[d].allowed = reply[d].allowed
                           /\ result'[d].resetAt = reply[d].oldest + Window
                      /\ ~reply[d].allowed /\ reply[d].charges = charges[call'[d].key] =>
                           \E e \in Calls :
                             /\ pc'[e] # "idle" /\ call'[e].key = call'[d].key
                             /\ Cardinality({m \in zset[call'[d].key] :
                                               m.score > reply[d].oldest})
                                  < call'[e].rpm
    BY <1>2 DEF RefusalsLast
  <2>1. d # c
    BY <1>1, <1>3
  <2>2. /\ call'[d] = call[d] /\ pc'[d] = pc[d] /\ result'[d] = result[d]
        /\ \A e \in Calls : pc[e] # "idle" => pc'[e] # "idle" /\ call'[e] = call[e]
    BY <1>1, <1>2, <1>3, <2>1
  <2> QED
    BY <2>2 DEF IInv, RefusalsLast
<1> QED
  BY <1>5, <1>6, <1>8, <1>9, <1>10, <1>11, <1>12 DEF IInv

(* What a run returns is of its type, and remembers what it saw.           *)
LEMMA ReturnedIs ==
  ASSUME IInv, NEW c \in Calls, Pending(c), Script(c)
  PROVE  /\ Returned(c) \in Reply
         /\ Returned(c).allowed = Admits(c)
         /\ Returned(c).charges = charges'[call[c].key]
<1>1. pc[c] # "idle" /\ call[c].rpm > 0
  BY DEF IInv, CallsAreTimely
<1>2. /\ Returned(c).oldest \in Int
      /\ Cardinality(Valid(c)) \in Nat
      /\ charges'[call[c].key] \in Nat
  BY <1>1, OldestIs, ValidIs, ScriptIs
<1>3. Admits(c) \in BOOLEAN
  BY DEF Admits
<1>4. /\ Returned(c).allowed = Admits(c)
      /\ Returned(c).charges = charges'[call[c].key]
      /\ Returned(c).count = Cardinality(Valid(c)) + (IF Admits(c) THEN 1 ELSE 0)
      /\ Returned(c) = [allowed |-> Returned(c).allowed, count |-> Returned(c).count,
                        oldest |-> Returned(c).oldest, charges |-> Returned(c).charges]
  BY DEF Returned
<1>5. Returned(c).count \in Nat
  BY <1>2, <1>4
<1> QED
  BY <1>2, <1>3, <1>4, <1>5 DEF Reply

(* A refusal seen by d stands while nobody is charged.                     *)
LEMMA RefusalStands ==
  ASSUME IInv, NEW c \in Calls, Pending(c), Script(c), call' = call,
         \A d \in Calls : pc[d] # "idle" => pc'[d] # "idle",
         NEW d \in Calls, pc[d] \in {"answering", "done"}, call[d].rpm > 0,
         reply'[d] = reply[d]
  PROVE  LET k == call[d].key
         IN  /\ reply[d].charges <= charges'[k]
             /\ ~reply[d].allowed /\ reply[d].charges = charges'[k] =>
                  \E e \in Calls :
                    /\ pc'[e] # "idle" /\ call[e].key = k
                    /\ Cardinality({m \in zset'[k] : m.score > reply[d].oldest})
                         < call[e].rpm
<1> DEFINE k == call[d].key
<1>1. pc[c] # "idle" /\ call[c].rpm > 0 /\ k \in Keys
  BY CallIs DEF IInv, CallsAreTimely
<1>2. /\ \A j \in Keys \ {call[c].key} : zset'[j] = zset[j] /\ charges'[j] = charges[j]
      /\ zset'[call[c].key] = Evicted(c)
      /\ \/ charges'[call[c].key] = charges[call[c].key] + 1
         \/ ~Admits(c) /\ charges' = charges
  BY <1>1, ScriptIs
<1>3. reply[d].charges \in Nat /\ charges[k] \in Nat /\ reply[d].charges <= charges[k]
  BY <1>1 DEF IInv, TypeOK, RefusalsLast, Reply
<1>4. \/ charges'[k] = charges[k] + 1
      \/ charges'[k] = charges[k] /\ zset'[k] \subseteq zset[k]
  <2>1. ~Admits(c) => Evicted(c) \subseteq zset[call[c].key]
    BY <1>1, EvictedIs, ValidIs
  <2> QED
    BY <1>1, <1>2, <2>1
<1>5. reply[d].charges <= charges'[k]
  BY <1>3, <1>4
<1>6. ASSUME ~reply[d].allowed, reply[d].charges = charges'[k]
      PROVE  \E e \in Calls :
               /\ pc'[e] # "idle" /\ call[e].key = k
               /\ Cardinality({m \in zset'[k] : m.score > reply[d].oldest}) < call[e].rpm
  <2> DEFINE Later == {m \in zset[k] : m.score > reply[d].oldest}
             LaterNext == {m \in zset'[k] : m.score > reply[d].oldest}
  <2>1. charges[k] = reply[d].charges /\ zset'[k] \subseteq zset[k]
    BY <1>3, <1>4, <1>6
  <2>2. PICK e \in Calls : /\ pc[e] # "idle" /\ call[e].key = k
                           /\ Cardinality(Later) < call[e].rpm
    BY <1>6, <2>1 DEF IInv, RefusalsLast
  <2>3. \A m \in zset[k] : \E f \in Calls : m = Entry(f)
    BY <1>1 DEF IInv, SetsHoldCharged
  <2>4. IsFiniteSet(Later) /\ Cardinality(Later) \in Nat
    BY <2>3, EntriesAreCalls
  <2>5. LaterNext \subseteq Later
    BY <2>1
  <2>6. Cardinality(LaterNext) \in Nat /\ Cardinality(LaterNext) <= Cardinality(Later)
    BY <2>4, <2>5, FS_Subset, FS_CardinalityType
  <2>7. call[e].rpm \in Int
    BY <2>2, CallIs
  <2>8. Cardinality(LaterNext) < call[e].rpm
    BY <2>2, <2>4, <2>6, <2>7
  <2> QED
    BY <2>2, <2>8
<1> QED
  BY <1>5, <1>6

(* The script runs for a call that waits: the reply is what it saw.         *)
LEMMA RunStep ==
  ASSUME IInv, NEW c \in Calls, Run(c)
  PROVE  IInv'
<1>1. /\ pc[c] = "waiting" /\ Pending(c) /\ Script(c)
      /\ pc' = [pc EXCEPT ![c] = "answering"]
      /\ reply' = [reply EXCEPT ![c] = Returned(c)]
      /\ UNCHANGED <<now, call, result, strays, faults>>
  BY DEF Run, Pending
<1>2. /\ pc[c] # "idle" /\ call[c].rpm > 0 /\ call[c].rpm \in Int
      /\ call[c].key \in Keys
      /\ Sent(c) <= now /\ now <= Sent(c) + MaxDelay
  BY <1>1, CallIs DEF IInv, CallsAreTimely
<1>3. /\ pc' \in [Calls -> {"idle", "waiting", "answering", "done", "failed"}]
      /\ pc'[c] = "answering"
      /\ \A d \in Calls \ {c} : pc'[d] = pc[d] /\ reply'[d] = reply[d]
      /\ \A d \in Calls : pc[d] # "idle" => pc'[d] # "idle"
      /\ reply'[c] = Returned(c)
      /\ reply' \in [Calls -> Reply]
  BY <1>1, ReturnedIs DEF IInv, TypeOK
<1>4. /\ \A k \in Keys : \A m \in zset'[k] : m.member \in Calls /\ m.score \in Int
      /\ SetsHoldCharged' /\ ExpiryCovers' /\ ForgottenAreOld' /\ SetsFit'
  BY <1>1, <1>3, ScriptKeeps
<1>5. /\ DOMAIN zset' = Keys
      /\ expires' \in [Keys -> Int] /\ charged' \in [Calls -> Int]
      /\ charges' \in [Keys -> Nat]
      /\ \A d \in Calls : charged'[d] = charged[d] \/ (d = c /\ charged'[d] = now)
      /\ zset'[call[c].key] = Evicted(c)
  BY <1>1, <1>2, ScriptIs
<1>6. TypeOK'
  BY <1>1, <1>3, <1>4, <1>5 DEF IInv, TypeOK
<1>7. CallsAreTimely'
  <2>1. now \in Int
    BY DEF IInv, TypeOK
  <2> QED
    BY <1>1, <1>2, <1>3, <1>5, <2>1 DEF IInv, CallsAreTimely, Pending, Sent
<1>8. RefusalsLast'
  <2> SUFFICES ASSUME NEW d \in Calls, pc'[d] \in {"answering", "done"},
                      call[d].rpm > 0
               PROVE  /\ reply'[d].charges <= charges'[call[d].key]
                      /\ pc'[d] = "done" =>
                           /\ result[d].allowed = reply'[d].allowed
                           /\ result[d].resetAt = reply'[d].oldest + Window
                      /\ ~reply'[d].allowed /\ reply'[d].charges = charges'[call[d].key] =>
                           \E e \in Calls :
                             /\ pc'[e] # "idle" /\ call[e].key = call[d].key
                             /\ Cardinality({m \in zset'[call[d].key] :
                                               m.score > reply'[d].oldest})
                                  < call[e].rpm
    BY <1>1 DEF RefusalsLast
  <2>1. CASE d # c
    <3>1. pc'[d] = pc[d] /\ reply'[d] = reply[d]
      BY <1>3, <2>1
    <3>2. pc[d] = "done" => /\ result[d].allowed = reply[d].allowed
                            /\ result[d].resetAt = reply[d].oldest + Window
      BY <3>1 DEF IInv, RefusalsLast
    <3> QED
      BY <1>1, <1>3, <3>1, <3>2, RefusalStands
  <2>2. CASE d = c
    <3>1. /\ reply'[c].charges = charges'[call[c].key]
          /\ charges'[call[c].key] \in Nat
          /\ reply'[c].allowed = Admits(c)
      BY <1>1, <1>2, <1>3, <1>5, ReturnedIs
    <3>2. ASSUME ~Admits(c)
          PROVE  \E e \in Calls :
                   /\ pc'[e] # "idle" /\ call[e].key = call[c].key
                   /\ Cardinality({m \in zset'[call[c].key] : m.score > reply'[c].oldest})
                        < call[e].rpm
      <4> DEFINE Later == {m \in Evicted(c) : m.score > Returned(c).oldest}
      <4>1. /\ Evicted(c) = Valid(c) /\ Cardinality(Valid(c)) >= call[c].rpm
            /\ IsFiniteSet(Valid(c)) /\ Cardinality(Valid(c)) \in Nat
            /\ Cardinality(zset[call[c].key]) \in Nat
            /\ Cardinality(Valid(c)) <= Cardinality(zset[call[c].key])
            /\ Valid(c) \subseteq zset[call[c].key] /\ Evicted(c) # {}
        BY <1>2, <3>2, EvictedIs, ValidIs
      <4>2. PICK m \in Evicted(c) : m.score = Returned(c).oldest
        BY <1>2, OldestIs
      <4>3. Returned(c).oldest \in Int
        BY <1>2, OldestIs
      <4>4. Later \subseteq Valid(c) \ {m}
        BY <4>1, <4>2, <4>3
      <4>5. IsFiniteSet(Valid(c) \ {m})
            /\ Cardinality(Valid(c) \ {m}) = Cardinality(Valid(c)) - 1
        BY <4>1, <4>2, FS_RemoveElement
      <4>6. Cardinality(Later) \in Nat /\ Cardinality(Later) <= Cardinality(Valid(c)) - 1
        BY <4>4, <4>5, FS_Subset, FS_CardinalityType
      <4>7. PICK e \in Calls : /\ pc[e] # "idle" /\ call[e].key = call[c].key
                               /\ Cardinality(zset[call[c].key]) <= call[e].rpm
        BY <1>2, <4>1 DEF IInv, SetsFit
      <4>8. call[e].rpm \in Int
        BY <4>7, CallIs
      <4>9. Cardinality(Later) < call[e].rpm
        BY <4>1, <4>6, <4>7, <4>8
      <4>10. Later = {x \in zset'[call[c].key] : x.score > reply'[c].oldest}
        BY <1>3, <1>5
      <4> HIDE DEF Later
      <4> QED
        BY <1>3, <4>7, <4>9, <4>10
    <3> QED
      BY <1>3, <2>2, <3>1, <3>2
  <2> QED
    BY <2>1, <2>2
<1> QED
  BY <1>4, <1>6, <1>7, <1>8 DEF IInv

(* A run nobody waits for.                                                 *)
LEMMA StrayStep ==
  ASSUME IInv, NEW c \in Calls, StrayRuns(c)
  PROVE  IInv'
<1>1. /\ c \in strays /\ Pending(c) /\ Script(c) /\ strays' = strays \ {c}
      /\ UNCHANGED <<now, pc, call, reply, result, faults>>
  BY DEF StrayRuns, Pending
<1>2. /\ pc[c] # "idle" /\ call[c].rpm > 0
      /\ Sent(c) <= now /\ now <= Sent(c) + MaxDelay
  BY <1>1 DEF IInv, CallsAreTimely
<1>3. /\ \A k \in Keys : \A m \in zset'[k] : m.member \in Calls /\ m.score \in Int
      /\ SetsHoldCharged' /\ ExpiryCovers' /\ ForgottenAreOld' /\ SetsFit'
  BY <1>1, ScriptKeeps
<1>4. /\ DOMAIN zset' = Keys
      /\ expires' \in [Keys -> Int] /\ charged' \in [Calls -> Int]
      /\ charges' \in [Keys -> Nat]
      /\ \A d \in Calls : charged'[d] = charged[d] \/ (d = c /\ charged'[d] = now)
  BY <1>1, <1>2, ScriptIs
<1>5. TypeOK'
  BY <1>1, <1>3, <1>4 DEF IInv, TypeOK
<1>6. CallsAreTimely'
  <2>1. now \in Int
    BY DEF IInv, TypeOK
  <2> QED
    BY <1>1, <1>2, <1>4, <2>1 DEF IInv, CallsAreTimely, Pending, Sent
<1>7. RefusalsLast'
  <2> SUFFICES ASSUME NEW d \in Calls, pc[d] \in {"answering", "done"}, call[d].rpm > 0
               PROVE  /\ reply[d].charges <= charges'[call[d].key]
                      /\ pc[d] = "done" =>
                           /\ result[d].allowed = reply[d].allowed
                           /\ result[d].resetAt = reply[d].oldest + Window
                      /\ ~reply[d].allowed /\ reply[d].charges = charges'[call[d].key] =>
                           \E e \in Calls :
                             /\ pc[e] # "idle" /\ call[e].key = call[d].key
                             /\ Cardinality({m \in zset'[call[d].key] :
                                               m.score > reply[d].oldest})
                                  < call[e].rpm
    BY <1>1 DEF RefusalsLast
  <2>1. pc[d] = "done" => /\ result[d].allowed = reply[d].allowed
                          /\ result[d].resetAt = reply[d].oldest + Window
    BY DEF IInv, RefusalsLast
  <2> QED
    BY <1>1, <2>1, RefusalStands
<1> QED
  BY <1>3, <1>5, <1>6, <1>7 DEF IInv

(* What happens on the replica and on the way there leaves the sets alone. *)
LEMMA SetsStay ==
  ASSUME IInv, UNCHANGED <<call, zset, expires, charged, charges>>,
         now' = now \/ now' = now + 1,
         \A d \in Calls : pc[d] # "idle" => pc'[d] # "idle"
  PROVE  SetsHoldCharged' /\ ExpiryCovers' /\ ForgottenAreOld' /\ SetsFit'
<1>1. SetsHoldCharged' /\ ExpiryCovers'
  BY DEF IInv, SetsHoldCharged, ExpiryCovers, Entry
<1>2. ForgottenAreOld'
  <2>1. /\ now \in Int /\ Window \in Int /\ Slack \in Int
        /\ \A d \in Calls : charged[d] \in Int
    BY SlackCovers, RedisAssumption DEF IInv, TypeOK
  <2> SUFFICES ASSUME NEW d \in Calls, charged[d] >= 0,
                      Entry(d) \notin zset[call[d].key]
               PROVE  charged[d] <= now' - (Window - Slack)
    BY DEF ForgottenAreOld, Slack, Entry
  <2>2. charged[d] <= now - (Window - Slack)
    BY DEF IInv, ForgottenAreOld
  <2> QED
    BY <2>1, <2>2
<1>3. SetsFit'
  BY DEF IInv, SetsFit
<1> QED
  BY <1>1, <1>2, <1>3

(* AllowN computes its result from the reply; the sets stay as they are.   *)
LEMMA AnswerStep ==
  ASSUME IInv, NEW c \in Calls, Answer(c)
  PROVE  IInv'
<1> DEFINE answer == [allowed |-> reply[c].allowed,
                      remaining |-> Remaining(call[c].rpm, reply[c].count),
                      resetAt |-> reply[c].oldest + Window]
<1>1. /\ pc[c] = "answering"
      /\ pc' = [pc EXCEPT ![c] = "done"]
      /\ result' = [result EXCEPT ![c] = answer]
      /\ UNCHANGED <<now, call, reply, zset, expires, charged, charges, strays, faults>>
  BY DEF Answer, redisVars
<1>2. answer \in Result
  <2>1. call[c].rpm \in Int /\ reply[c] \in Reply /\ Window \in Int
    BY <1>1, CallIs, RedisAssumption DEF IInv, TypeOK
  <2>2. /\ reply[c].allowed \in BOOLEAN /\ reply[c].count \in Nat
        /\ reply[c].oldest \in Int
    BY <2>1 DEF Reply
  <2>3. Remaining(call[c].rpm, reply[c].count) \in Nat
    BY <2>1, <2>2 DEF Remaining
  <2> QED
    BY <2>1, <2>2, <2>3 DEF Result
<1>3. answer.allowed = reply[c].allowed /\ answer.resetAt = reply[c].oldest + Window
  OBVIOUS
<1> HIDE DEF answer
<1>4. /\ pc' \in [Calls -> {"idle", "waiting", "answering", "done", "failed"}]
      /\ result' \in [Calls -> Result]
      /\ pc'[c] = "done" /\ result'[c] = answer
      /\ \A d \in Calls \ {c} : pc'[d] = pc[d] /\ result'[d] = result[d]
      /\ \A d \in Calls : pc[d] # "idle" => pc'[d] # "idle"
  BY <1>1, <1>2 DEF IInv, TypeOK
<1>5. TypeOK'
  BY <1>1, <1>4 DEF IInv, TypeOK
<1>6. CallsAreTimely'
  BY <1>1, <1>4 DEF IInv, CallsAreTimely, Pending, Sent
<1>7. RefusalsLast'
  BY <1>1, <1>3, <1>4 DEF IInv, RefusalsLast
<1> QED
  BY <1>1, <1>4, <1>5, <1>6, <1>7, SetsStay DEF IInv

(* A broken connection loses the reply and may leave a script under way.   *)
LEMMA BreaksStep ==
  ASSUME IInv, NEW c \in Calls, Resend(c) \/ Fail(c)
  PROVE  IInv'
<1>1. PICK label \in {"waiting", "failed"} :
        /\ pc[c] \in {"waiting", "answering"}
        /\ pc' = [pc EXCEPT ![c] = label]
        /\ faults' \in 0..MaxFaults
        /\ strays' = strays \/ strays' = strays \cup {c}
        /\ reply' = [reply EXCEPT ![c] = NoReply]
        /\ UNCHANGED <<now, call, result, zset, expires, charged, charges>>
  <2>1. /\ pc[c] \in {"waiting", "answering"}
        /\ faults < MaxFaults /\ faults' = faults + 1
        /\ strays' = strays \/ strays' = strays \cup {c}
        /\ reply' = [reply EXCEPT ![c] = NoReply]
        /\ UNCHANGED <<now, call, result, zset, expires, charged, charges>>
    BY DEF Resend, Fail, Breaks, redisVars
  <2>2. faults' \in 0..MaxFaults
    BY <2>1, RedisAssumption DEF IInv, TypeOK
  <2> QED
    BY <2>1, <2>2 DEF Resend, Fail
<1>2. /\ pc' \in [Calls -> {"idle", "waiting", "answering", "done", "failed"}]
      /\ reply' \in [Calls -> Reply]
      /\ pc'[c] = label /\ strays' \subseteq Calls
      /\ \A d \in Calls \ {c} : /\ pc'[d] = pc[d] /\ reply'[d] = reply[d]
                                /\ d \in strays' => d \in strays
      /\ \A d \in Calls : pc[d] # "idle" => pc'[d] # "idle"
  <2>1. NoReply \in Reply
    BY DEF NoReply, Reply
  <2> QED
    BY <1>1, <2>1 DEF IInv, TypeOK
<1>3. TypeOK'
  BY <1>1, <1>2 DEF IInv, TypeOK
<1>4. CallsAreTimely'
  BY <1>1, <1>2 DEF IInv, CallsAreTimely, Pending, Sent
<1>5. RefusalsLast'
  BY <1>1, <1>2 DEF IInv, RefusalsLast
<1> QED
  BY <1>1, <1>2, <1>3, <1>4, <1>5, SetsStay DEF IInv

(* Time passes only while every script is still in time.                   *)
LEMMA TickStep ==
  ASSUME IInv, Tick
  PROVE  IInv'
<1>1. /\ now < MaxTime /\ now' = now + 1
      /\ \A c \in Calls : pc[c] = "answering" \/ Pending(c) => now < Sent(c) + MaxDelay
      /\ UNCHANGED <<pc, call, reply, result, zset, expires, charged, charges>>
      /\ UNCHANGED <<strays, faults>>
  BY DEF Tick, Pending, Sent, redisVars
<1>2. /\ now \in Int /\ now' \in 0..MaxTime /\ MaxDelay \in Nat
      /\ \A c \in Calls : charged[c] \in Int
      /\ \A c \in Calls : pc[c] # "idle" => Sent(c) \in Int
  BY <1>1, CallIs, RedisAssumption DEF IInv, TypeOK
<1>3. TypeOK'
  BY <1>1, <1>2 DEF IInv, TypeOK
<1>4. CallsAreTimely'
  <2> SUFFICES ASSUME NEW c \in Calls
               PROVE  /\ pc[c] = "answering" \/ Pending(c) =>
                           /\ pc[c] # "idle" /\ call[c].rpm > 0
                           /\ Sent(c) <= now' /\ now' <= Sent(c) + MaxDelay
                      /\ charged[c] >= 0 =>
                           /\ pc[c] # "idle"
                           /\ Sent(c) <= charged[c] /\ charged[c] <= Sent(c) + MaxDelay
                           /\ charged[c] <= now'
    BY <1>1 DEF CallsAreTimely, Pending, Sent
  <2> QED
    BY <1>1, <1>2 DEF IInv, CallsAreTimely
<1>5. RefusalsLast'
  BY <1>1 DEF IInv, RefusalsLast
<1> QED
  BY <1>1, <1>3, <1>4, <1>5, SetsStay DEF IInv


(* Nobody has called yet.                                                  *)
LEMMA InitIInv == Init => IInv
<1> SUFFICES ASSUME Init PROVE IInv
  OBVIOUS
<1>1. TypeOK
  <2>1. NoReply \in Reply /\ NoResult \in Result
    BY DEF NoReply, Reply, NoResult, Result
  <2>2. 0 \in 0..MaxTime /\ 0 \in 0..MaxFaults
    BY RedisAssumption
  <2> QED
    BY <2>1, <2>2 DEF Init, TypeOK
<1>2. \A c \in Calls : pc[c] = "idle" /\ c \notin strays /\ ~(charged[c] >= 0)
  BY DEF Init
<1>3. CallsAreTimely /\ ExpiryCovers /\ ForgottenAreOld /\ RefusalsLast
  BY <1>2 DEF CallsAreTimely, ExpiryCovers, ForgottenAreOld, RefusalsLast, Pending
<1>4. SetsHoldCharged /\ SetsFit
  BY DEF Init, SetsHoldCharged, SetsFit
<1> QED
  BY <1>1, <1>3, <1>4 DEF IInv

(* Every step keeps the invariant.                                         *)
LEMMA NextIInv == IInv /\ [Next]_vars => IInv'
<1> SUFFICES ASSUME IInv, [Next]_vars PROVE IInv'
  OBVIOUS
<1>1. ASSUME NEW c \in Calls,
             \/ DenyAtOnce(c) \/ Send(c) \/ Run(c) \/ Answer(c)
             \/ Resend(c) \/ Fail(c) \/ StrayRuns(c)
      PROVE  IInv'
  BY <1>1, EnterStep, RunStep, AnswerStep, BreaksStep, StrayStep
<1>2. CASE Tick
  BY <1>2, TickStep
<1>3. CASE UNCHANGED vars
  <2>1. UNCHANGED <<now, pc, call, reply, result, zset, expires, strays, charged,
                    charges, faults>>
    BY <1>3 DEF vars, redisVars
  <2>2. TypeOK' /\ CallsAreTimely' /\ RefusalsLast'
    BY <2>1 DEF IInv, TypeOK, CallsAreTimely, RefusalsLast, Pending, Sent
  <2> QED
    BY <2>1, <2>2, SetsStay DEF IInv
<1> QED
  BY <1>1, <1>2, <1>3 DEF Next

(* The invariant holds throughout, however skewed the clocks, late the     *)
(* scripts and broken the connections.                                     *)
THEOREM Invariance == Spec => []IInv
BY InitIInv, NextIInv, PTL DEF Spec

(* Every variable keeps its type: the script finds nothing in a set it     *)
(* could not compare.                                                      *)
THEOREM TypeCorrect == Spec => []TypeOK
<1>1. IInv => TypeOK
  BY DEF IInv
<1> QED
  BY <1>1, Invariance, PTL

-----------------------------------------------------------------------------
(* The properties.                                                         *)

(* A decided call has run its script, and was told what the script found.  *)
LEMMA DecidedIs ==
  ASSUME IInv, [Next]_vars, NEW c \in Calls, Decided(c)
  PROVE  /\ Pending(c) /\ Script(c) /\ pc[c] # "idle"
         /\ call[c].rpm > 0 /\ call[c].rpm \in Int /\ call[c].key \in Keys
         /\ UNCHANGED <<now, call, result>>
         /\ reply'[c].allowed = Admits(c)
<1>1. pc[c] = "waiting" /\ pc'[c] = "answering"
  BY DEF Decided
<1>2. pc \in [Calls -> {"idle", "waiting", "answering", "done", "failed"}]
      /\ reply \in [Calls -> Reply]
  BY DEF IInv, TypeOK
<1>3. Run(c)
  <2>1. PICK d \in Calls : \/ DenyAtOnce(d) \/ Send(d) \/ Run(d) \/ Answer(d)
                           \/ Resend(d) \/ Fail(d) \/ StrayRuns(d)
    BY <1>1 DEF Next, vars, Tick
  <2>2. CASE DenyAtOnce(d) \/ Send(d)
    BY <1>1, <1>2, <2>2 DEF DenyAtOnce, Send, Enter
  <2>3. CASE Run(d)
    BY <1>1, <1>2, <2>3 DEF Run
  <2>4. CASE Answer(d)
    BY <1>1, <1>2, <2>4 DEF Answer
  <2>5. CASE Resend(d) \/ Fail(d)
    BY <1>1, <1>2, <2>5 DEF Resend, Fail
  <2>6. CASE StrayRuns(d)
    BY <1>1, <2>6 DEF StrayRuns
  <2> QED
    BY <2>1, <2>2, <2>3, <2>4, <2>5, <2>6
<1>4. Pending(c) /\ Script(c) /\ UNCHANGED <<now, call, result>>
      /\ reply' = [reply EXCEPT ![c] = Returned(c)]
  BY <1>1, <1>3 DEF Run, Pending
<1>5. pc[c] # "idle" /\ call[c].rpm > 0
  BY <1>4 DEF IInv, CallsAreTimely
<1>6. call[c].rpm \in Int /\ call[c].key \in Keys
  BY <1>5, CallIs
<1>7. reply'[c].allowed = Admits(c)
  BY <1>2, <1>4, ReturnedIs
<1> QED
  BY <1>4, <1>5, <1>6, <1>7

(* An admission finds room for every call charged within the window less   *)
(* the slack: each is still in the set and in the window the script reads. *)
LEMMA AdmissionFits ==
  ASSUME IInv, [Next]_vars, NEW c \in Calls, Decided(c), reply'[c].allowed
  PROVE  Cardinality({d \in Charged(call[c].key)' :
                        charged'[d] > now - (Window - Slack)}) <= call[c].rpm
<1> DEFINE Recent == {d \in Charged(call[c].key)' : charged'[d] > now - (Window - Slack)}
           Counted == {d \in Calls : Entry(d) \in Valid(c)}
<1>1. /\ Pending(c) /\ Script(c) /\ pc[c] # "idle" /\ call[c].rpm > 0
      /\ call[c].rpm \in Int /\ call[c].key \in Keys
      /\ UNCHANGED <<now, call>> /\ Admits(c)
  BY DecidedIs
<1>2. /\ Cardinality(Valid(c)) \in Nat /\ Cardinality(Valid(c)) < call[c].rpm
      /\ Cardinality(Valid(c)) = Cardinality(Counted)
  BY <1>1, ValidIs DEF Admits
<1>3. \A d \in Calls \ {c} : charged'[d] = charged[d]
  BY <1>1, ScriptIs
<1>4. /\ now \in Int /\ Window \in Nat \ {0} /\ Slack \in Int /\ Slack >= MaxDelay
      /\ MaxDelay \in Nat
      /\ \A d \in Calls : charged[d] \in Int
      /\ expires[call[c].key] \in Int
  BY <1>1, SlackCovers, RedisAssumption DEF IInv, TypeOK
<1>5. ASSUME NEW d \in Recent, d # c
      PROVE  d \in Counted
  <2>1. /\ d \in Calls /\ charged[d] >= 0 /\ call[d].key = call[c].key
        /\ charged[d] > now - (Window - Slack)
    BY <1>1, <1>3, <1>5 DEF Charged
  <2>2. Entry(d) \in zset[call[c].key]
    <3>1. ~(charged[d] <= now - (Window - Slack))
      BY <1>4, <2>1
    <3> QED
      BY <2>1, <3>1 DEF IInv, ForgottenAreOld
  <2>3. ~(now > expires[call[c].key])
    <3>1. charged[d] + Window <= expires[call[c].key]
      BY <2>1 DEF IInv, ExpiryCovers
    <3> QED
      BY <1>4, <2>1, <3>1
  <2>4. call[d].stamp > call[c].stamp - Window
    <3>1. pc[d] # "idle" /\ charged[d] <= Sent(d) + MaxDelay
      BY <2>1 DEF IInv, CallsAreTimely
    <3>2. Sent(c) <= now
      BY <1>1 DEF IInv, CallsAreTimely
    <3>3. /\ Sent(d) \in Int /\ Skew[call[d].replica] \in Int
          /\ call[d].replica \in Replicas
          /\ call[d].stamp = Sent(d) + Skew[call[d].replica]
      BY <2>1, <3>1, CallIs
    <3>4. /\ Sent(c) \in Int /\ Skew[call[c].replica] \in Int
          /\ call[c].replica \in Replicas
          /\ call[c].stamp = Sent(c) + Skew[call[c].replica]
      BY <1>1, CallIs
    <3>5. Slack >= MaxDelay + Skew[call[c].replica] - Skew[call[d].replica]
      BY <3>3, <3>4, SlackCovers
    <3>6. charged[d] \in Int
      BY <1>4, <2>1
    <3>7. call[d].stamp \in Int /\ call[c].stamp \in Int
      BY <3>3, <3>4
    <3> QED
      BY <1>4, <2>1, <3>1, <3>2, <3>3, <3>4, <3>5, <3>6, <3>7
  <2>5. Entry(d) \in Valid(c)
    BY <2>2, <2>3, <2>4 DEF Valid, Stored, InWindow, Entry
  <2> QED
    BY <2>1, <2>5
<1>6. /\ Recent \subseteq Counted \cup {c}
      /\ Counted \subseteq Calls
  BY <1>5
<1>7. IsFiniteSet(Counted)
  BY <1>6, FinitelyMany
<1> HIDE DEF Recent, Counted
<1>8. /\ IsFiniteSet(Counted \cup {c})
      /\ Cardinality(Counted \cup {c}) \in {Cardinality(Counted), Cardinality(Counted) + 1}
  BY <1>7, FS_AddElement
<1>9. Cardinality(Recent) \in Nat /\ Cardinality(Recent) <= Cardinality(Counted \cup {c})
  BY <1>6, <1>8, FS_Subset, FS_CardinalityType
<1>10. Cardinality(Recent) <= call[c].rpm
  BY <1>1, <1>2, <1>8, <1>9
<1> QED
  BY <1>10 DEF Recent

(* The clocks of the replicas may differ and scripts may come late or      *)
(* twice: no call is admitted over its limit of calls in the window less   *)
(* that slack (redis.go:22-48).                                            *)
THEOREM WindowsAreBounded == Spec => WindowBound
<1>1. IInv /\ [Next]_vars =>
        [\A c \in Calls :
           Decided(c) /\ reply'[c].allowed =>
             Cardinality({d \in Charged(call[c].key)' :
                            charged'[d] > now - (Window - Slack)}) <= call[c].rpm]_vars
  BY AdmissionFits
<1> QED
  BY <1>1, Invariance, PTL DEF Spec, WindowBound

(* What a refusing script counted are calls that were charged.             *)
LEMMA RefusalCounts ==
  ASSUME IInv, [Next]_vars, NEW c \in Calls, Decided(c), ~reply'[c].allowed
  PROVE  Cardinality({d \in Charged(call[c].key) :
                        InWindow(call[d].stamp, call[c].stamp)}) >= call[c].rpm
<1> DEFINE Owed == {d \in Charged(call[c].key) : InWindow(call[d].stamp, call[c].stamp)}
           Counted == {d \in Calls : Entry(d) \in Valid(c)}
<1>1. pc[c] # "idle" /\ call[c].rpm > 0 /\ call[c].rpm \in Int /\ ~Admits(c)
  BY DecidedIs
<1>2. /\ Cardinality(Valid(c)) \in Nat /\ Cardinality(Valid(c)) >= call[c].rpm
      /\ Cardinality(Valid(c)) = Cardinality(Counted)
  BY <1>1, ValidIs DEF Admits
<1>3. Counted \subseteq Owed
  <2> SUFFICES ASSUME NEW d \in Calls, Entry(d) \in Valid(c)
               PROVE  /\ charged[d] >= 0 /\ call[d].key = call[c].key
                      /\ call[d].stamp > call[c].stamp - Window
    BY DEF Charged, InWindow
  <2>1. Entry(d).score > call[c].stamp - Window
    BY <1>1, ValidIs
  <2>2. PICK e \in Calls : /\ charged[e] >= 0 /\ call[e].key = call[c].key
                           /\ Entry(d) = Entry(e)
    BY <1>1, ValidIs
  <2>3. Entry(d).member = d /\ Entry(e).member = e /\ Entry(d).score = call[d].stamp
    BY DEF Entry
  <2> QED
    BY <2>1, <2>2, <2>3
<1>4. Owed \subseteq Calls
  BY DEF Charged
<1> HIDE DEF Owed, Counted
<1>5. /\ IsFiniteSet(Owed) /\ Cardinality(Owed) \in Nat
      /\ Cardinality(Counted) <= Cardinality(Owed)
  BY <1>3, <1>4, FinitelyMany, FS_Subset
<1>6. Cardinality(Owed) >= call[c].rpm
  BY <1>1, <1>2, <1>5
<1> QED
  BY <1>6 DEF Owed

(* Nobody is refused on account of a member counted twice or one that is   *)
(* out of the window (redis.go:30, 118).                                   *)
THEOREM RefusalsAreEarned == Spec => RefusalIsEarned
<1>1. IInv /\ [Next]_vars =>
        [\A c \in Calls :
           Decided(c) /\ ~reply'[c].allowed =>
             Cardinality({d \in Charged(call[c].key) :
                            InWindow(call[d].stamp, call[c].stamp)}) >= call[c].rpm]_vars
  BY RefusalCounts
<1> QED
  BY <1>1, Invariance, PTL DEF Spec, RefusalIsEarned

(* At the ResetAt of a refusal the oldest call it saw is out of the        *)
(* window, and what is later leaves room.                                  *)
LEMMA ResetLeavesRoom ==
  ASSUME IInv, [Next]_vars, NEW refused \in Calls, NEW c \in Calls,
         Decided(c), pc[refused] = "done", ~result[refused].allowed,
         call[refused].key = call[c].key,
         \A d \in Calls : pc[d] # "idle" /\ call[d].key = call[c].key
                           => call[d].rpm = call[c].rpm,
         charges[call[c].key] = reply[refused].charges,
         call[c].stamp >= result[refused].resetAt
  PROVE  reply'[c].allowed
<1> DEFINE k == call[c].key
           Later == {m \in zset[k] : m.score > reply[refused].oldest}
<1>1. /\ pc[c] # "idle" /\ call[c].rpm > 0 /\ call[c].rpm \in Int /\ k \in Keys
      /\ reply'[c].allowed = Admits(c)
  BY DecidedIs
<1>2. call[refused].rpm > 0
  BY <1>1
<1>3. /\ result[refused].allowed = reply[refused].allowed
      /\ result[refused].resetAt = reply[refused].oldest + Window
  BY <1>2 DEF IInv, RefusalsLast
<1>4. PICK e \in Calls : /\ pc[e] # "idle" /\ call[e].key = k
                         /\ Cardinality(Later) < call[e].rpm
  BY <1>2, <1>3 DEF IInv, RefusalsLast
<1>5. Cardinality(Later) < call[c].rpm
  BY <1>4
<1>6. \A m \in zset[k] : \E d \in Calls : m = Entry(d)
  BY <1>1 DEF IInv, SetsHoldCharged
<1>7. IsFiniteSet(Later) /\ Cardinality(Later) \in Nat
  BY <1>6, EntriesAreCalls
<1>8. reply[refused].oldest \in Int /\ call[c].stamp \in Int /\ Window \in Int
  BY <1>1, CallIs, RedisAssumption DEF IInv, TypeOK, Reply
<1>9. Valid(c) \subseteq Later
  <2>1. \A m \in Valid(c) : m.score \in Int /\ m.score > call[c].stamp - Window
                            /\ m \in zset[k]
    BY <1>1, ValidIs
  <2> QED
    BY <1>3, <1>8, <2>1
<1> HIDE DEF Later
<1>10. Cardinality(Valid(c)) \in Nat /\ Cardinality(Valid(c)) <= Cardinality(Later)
  BY <1>7, <1>9, FS_Subset, FS_CardinalityType
<1>11. Admits(c)
  BY <1>1, <1>5, <1>7, <1>10 DEF Admits
<1> QED
  BY <1>1, <1>11

(* A client that comes back at its ResetAt finds room, on any replica      *)
(* whose clock has reached it (redis.go:136-141).                          *)
THEOREM ResetAtsAreHonoured == Spec => ResetAtIsHonoured
<1>1. IInv /\ [Next]_vars =>
        [\A refused, c \in Calls :
           LET k == call[c].key
           IN  /\ Decided(c)
               /\ pc[refused] = "done" /\ ~result[refused].allowed
               /\ call[refused].key = k
               /\ \A d \in Calls : pc[d] # "idle" /\ call[d].key = k
                                    => call[d].rpm = call[c].rpm
               /\ charges[k] = reply[refused].charges
               /\ call[c].stamp >= result[refused].resetAt
               => reply'[c].allowed]_vars
  BY ResetLeavesRoom
<1> QED
  BY <1>1, Invariance, PTL DEF Spec, ResetAtIsHonoured

=============================================================================

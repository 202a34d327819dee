------------------------- MODULE MemoryLimiterProofs -------------------------
(***************************************************************************)
(* What holds of MemoryLimiter for every set of keys, every finite set of  *)
(* calls, all limits and every clock, as long as no wait for the mutex is  *)
(* longer than the constants allow (LimiterAssumption).                    *)
(*                                                                         *)
(* The entries forget: a call evicts what is older than its own window,    *)
(* cleanup what was not used for long.  The invariant says that nothing a  *)
(* later call could still count is among what they forgot.                 *)
(***************************************************************************)
EXTENDS MemoryLimiter, FiniteSetTheorems, TLAPS

(* The calls that went through the critical section.                       *)
Decided(k) == {c \in Done : call[c].key = k /\ call[c].rpm > 0}

Stale(d, k) == \E e \in Decided(k) : call[d].stamp <= call[e].stamp - Window

(* A waiting call read the clock at most MaxHold ago.                      *)
WaitingCalls ==
  \A c \in Calls :
    pc[c] = "waiting" =>
      /\ call[c].rpm > 0
      /\ call[c].rpm \in Limits[call[c].key]
      /\ call[c].stamp <= now
      /\ now <= call[c].stamp + MaxHold

(* A call that returned did so at most MaxHold after it read the clock.    *)
DoneCalls ==
  \A c \in Done :
    /\ call[c].rpm \in Limits[call[c].key]
    /\ call[c].stamp <= result[c].at
    /\ result[c].at <= call[c].stamp + MaxHold
    /\ result[c].at <= now
    /\ result[c].turn <= turn
    /\ result[c].allowed => call[c].rpm > 0

(* Turns are numbers given one after the other, so any calls that returned *)
(* have a first one.                                                       *)
FirstExists ==
  \A S \in SUBSET Done :
    S # {} => \E d \in S : \A e \in S : result[d].turn <= result[e].turn

(* An entry holds admitted calls of its key that no decided call of the    *)
(* key has left behind by a window.                                        *)
EntriesAreFresh ==
  \A k \in Keys :
    /\ entries[k].timestamps \subseteq Admitted(k)
    /\ \A d \in entries[k].timestamps : ~Stale(d, k)

(* An admitted call that is not in the entry is out of the window of       *)
(* every decided call to come.                                             *)
ForgottenAreStale ==
  \A k \in Keys : \A d \in Admitted(k) \ entries[k].timestamps :
    Stale(d, k) \/ call[d].stamp + Window + MaxHold <= now

(* An entry was used, by its lastSeen, after all its timestamps.           *)
LastSeenCovers ==
  \A k \in Keys :
    /\ entries[k].timestamps # {} => entries[k].present
    /\ \A d \in entries[k].timestamps :
         result[d].at <= entries[k].lastSeen + MaxHold

(* The ticker has been heard, and no entry missed two of its ticks.        *)
TicksAreServed ==
  /\ nextTick <= now + CleanupInterval
  /\ loop # "returned" => now <= nextTick + MaxHold
  /\ \A k \in Keys :
       loop # "returned" /\ entries[k].present =>
         nextTick <= entries[k].lastSeen + EntryTTL + CleanupInterval

IInv == /\ TypeOK
        /\ WaitingCalls
        /\ DoneCalls
        /\ FirstExists
        /\ EntriesAreFresh
        /\ ForgottenAreStale
        /\ LastSeenCovers
        /\ TicksAreServed
        /\ WindowBound

-----------------------------------------------------------------------------
(* What the steps do.                                                      *)

(* Sets of calls are finite (LimiterAssumption) and so have a cardinality. *)
LEMMA SomeCalls ==
  ASSUME NEW S \in SUBSET Calls
  PROVE  IsFiniteSet(S) /\ Cardinality(S) \in Nat
BY FS_Subset, FS_CardinalityType, LimiterAssumption

(* The numbers in the records, for the arithmetic of the proofs.           *)
LEMMA Numbers ==
  ASSUME TypeOK
  PROVE  /\ \A c \in Calls : result[c].at \in Int /\ result[c].turn \in Int
         /\ \A c \in Calls : pc[c] # "idle" =>
              /\ call[c].key \in Keys
              /\ call[c].stamp \in Int
              /\ call[c].rpm \in Int
         /\ \A k \in Keys : /\ entries[k].lastSeen \in Int
                             /\ entries[k].timestamps \in SUBSET Calls
         /\ now \in Int /\ turn \in Int /\ nextTick \in Int
         /\ Window \in Int /\ MaxHold \in Int
         /\ EntryTTL \in Int /\ CleanupInterval \in Int
BY LimiterAssumption DEF TypeOK, Call, Result, Entry, Times

(* What a call returned, and what it was called with, stays.               *)
LEMMA ReturnedForGood ==
  ASSUME TypeOK, [Next]_vars
  PROVE  /\ Done \subseteq Done'
         /\ \A d \in Done : call'[d] = call[d] /\ result'[d] = result[d]
<1>1. ASSUME NEW c \in Calls, DenyAtOnce(c)
      PROVE  /\ Done \subseteq Done'
             /\ \A d \in Done : call'[d] = call[d] /\ result'[d] = result[d]
  BY <1>1 DEF DenyAtOnce, Enter, Return, TypeOK, Done
<1>2. ASSUME NEW c \in Calls, ReadClock(c)
      PROVE  /\ Done \subseteq Done'
             /\ \A d \in Done : call'[d] = call[d] /\ result'[d] = result[d]
  BY <1>2 DEF ReadClock, Enter, TypeOK, Done
<1>3. ASSUME NEW c \in Calls, Decide(c)
      PROVE  /\ Done \subseteq Done'
             /\ \A d \in Done : call'[d] = call[d] /\ result'[d] = result[d]
  BY <1>3 DEF Decide, Return, TypeOK, Done
<1>4. CASE Cleanup \/ Close \/ LoopReturns \/ Tick \/ UNCHANGED vars
  BY <1>4 DEF Cleanup, Close, LoopReturns, Tick, callVars, vars, Done
<1>5. QED
  BY <1>1, <1>2, <1>3, <1>4 DEF Next

(* A step that returns nothing leaves the calls that returned as they are. *)
LEMMA NothingReturned ==
  ASSUME TypeOK,
         \/ \E c \in Calls : ReadClock(c)
         \/ Cleanup \/ Close \/ LoopReturns \/ Tick \/ UNCHANGED vars
  PROVE  /\ Done' = Done
         /\ turn' = turn
         /\ \A d \in Done : call'[d] = call[d] /\ result'[d] = result[d]
<1>1. ASSUME NEW c \in Calls, ReadClock(c)
      PROVE  /\ Done' = Done
             /\ turn' = turn
             /\ \A d \in Done : call'[d] = call[d] /\ result'[d] = result[d]
  BY <1>1 DEF ReadClock, Enter, TypeOK, Done
<1>2. CASE Cleanup \/ Close \/ LoopReturns \/ Tick \/ UNCHANGED vars
  BY <1>2 DEF Cleanup, Close, LoopReturns, Tick, callVars, vars, Done
<1>3. QED
  BY <1>1, <1>2

(* A call that returns is the last that returned.                          *)
LEMMA OneReturned ==
  ASSUME TypeOK, NEW c \in Calls, DenyAtOnce(c) \/ Decide(c)
  PROVE  /\ c \notin Done
         /\ Done' = Done \cup {c}
         /\ turn' = turn + 1
         /\ now' = now
         /\ result'[c].turn = turn + 1
         /\ result'[c].at = now
         /\ \A d \in Done : call'[d] = call[d] /\ result'[d] = result[d]
<1>1. CASE DenyAtOnce(c)
  BY <1>1 DEF DenyAtOnce, Enter, Return, TypeOK, Done
<1>2. CASE Decide(c)
  BY <1>2 DEF Decide, Return, TypeOK, Done
<1>3. QED
  BY <1>1, <1>2

(* The calls a waiting call counts.                                        *)
Valid(c) ==
  {d \in entries[call[c].key].timestamps : InWindow(call[d].stamp, call[c].stamp)}

(* There is a first among the counted calls.                               *)
LEMMA FirstOfSome ==
  ASSUME FirstExists, NEW S \in SUBSET Done, S # {}
  PROVE  First(S) \in S
BY DEF FirstExists, First

LEMMA ValidCalls ==
  ASSUME IInv, NEW c \in Calls, pc[c] = "waiting"
  PROVE  /\ Valid(c) \in SUBSET Done
         /\ Valid(c) \in SUBSET Calls
         /\ IsFiniteSet(Valid(c))
         /\ Cardinality(Valid(c)) \in Nat
         /\ call[c] \in Call
         /\ call[c].rpm > 0
<1>1. call[c] \in Call /\ call[c].rpm > 0
  BY DEF IInv, TypeOK, WaitingCalls
<1>2. Valid(c) \in SUBSET Done /\ Valid(c) \in SUBSET Calls
  BY <1>1 DEF Valid, IInv, EntriesAreFresh, Admitted, Done, Call
<1>3. QED
  BY <1>1, <1>2, SomeCalls

(* What the critical section does.                                         *)
LEMMA DecideEffect ==
  ASSUME IInv, NEW c \in Calls, Decide(c)
  PROVE  LET k == call[c].key
             granted == Cardinality(Valid(c)) < call[c].rpm
         IN  /\ pc[c] = "waiting"
             /\ pc' = [pc EXCEPT ![c] = "done"]
             /\ entries' = [entries EXCEPT ![k] =
                              [present |-> TRUE,
                               timestamps |-> IF granted THEN Valid(c) \cup {c}
                                                         ELSE Valid(c),
                               lastSeen |-> call[c].stamp]]
             /\ result'[c].allowed = granted
             /\ result'[c].remaining = IF granted
                                       THEN call[c].rpm - Cardinality(Valid(c)) - 1
                                       ELSE 0
             /\ result'[c] \in Result
             /\ result' = [result EXCEPT ![c] = result'[c]]
             /\ turn' = turn + 1
             /\ UNCHANGED <<now, call, nextTick, loop>>
<1> DEFINE k == call[c].key
           granted == Cardinality(Valid(c)) < call[c].rpm
           count == Cardinality(Valid(c)) + (IF granted THEN 1 ELSE 0)
           oldest == IF Valid(c) = {} THEN call[c].stamp
                                      ELSE call[First(Valid(c))].stamp
<1>1. pc[c] = "waiting"
  BY DEF Decide
<1>2. /\ Cardinality(Valid(c)) \in Nat
      /\ call[c] \in Call
      /\ call[c].rpm > 0
      /\ call[c].rpm \in Int
      /\ call[c].stamp \in Times
  BY <1>1, ValidCalls DEF Call
<1>3. oldest \in Nat
  <2>1. CASE Valid(c) = {}
    BY <1>2, <2>1 DEF Times
  <2>2. CASE Valid(c) # {}
    <3>1. First(Valid(c)) \in Done
      BY <1>1, <2>2, ValidCalls, FirstOfSome DEF IInv
    <3>2. QED
      BY <2>2, <3>1 DEF Done, IInv, TypeOK, Call, Times
  <2>3. QED
    BY <2>1, <2>2
<1>4. /\ pc' = [pc EXCEPT ![c] = "done"]
      /\ entries' = [entries EXCEPT ![k] =
                       [present |-> TRUE,
                        timestamps |-> IF granted THEN Valid(c) \cup {c}
                                                  ELSE Valid(c),
                        lastSeen |-> call[c].stamp]]
      /\ result' = [result EXCEPT ![c] =
                      [allowed |-> granted,
                       remaining |-> Remaining(call[c].rpm, count),
                       resetAt |-> oldest + Window, at |-> now,
                       turn |-> turn + 1]]
      /\ turn' = turn + 1
      /\ UNCHANGED <<now, call, nextTick, loop>>
  BY DEF Decide, Valid, Admits, Stamped, Return
<1>5. /\ Remaining(call[c].rpm, count) \in Nat
      /\ Remaining(call[c].rpm, count)
           = IF granted THEN call[c].rpm - Cardinality(Valid(c)) - 1 ELSE 0
  BY <1>2 DEF Remaining
<1>6. /\ result'[c] = [allowed |-> granted,
                       remaining |-> Remaining(call[c].rpm, count),
                       resetAt |-> oldest + Window, at |-> now,
                       turn |-> turn + 1]
      /\ granted \in BOOLEAN /\ now \in Times /\ turn \in Nat
      /\ oldest + Window \in Nat
  BY <1>3, <1>4, LimiterAssumption DEF IInv, TypeOK
<1>7. result'[c] \in Result
  BY <1>5, <1>6 DEF Result
<1>8. /\ result'[c].allowed = granted
      /\ result'[c].remaining
           = IF granted THEN call[c].rpm - Cardinality(Valid(c)) - 1 ELSE 0
  BY <1>5, <1>6
<1>9. result' = [result EXCEPT ![c] = result'[c]]
  BY <1>4, <1>6
<1>10. QED
  BY <1>1, <1>4, <1>7, <1>8, <1>9

-----------------------------------------------------------------------------
(* Types.                                                                  *)

LEMMA InitTypeOK == Init => TypeOK
BY LimiterAssumption
DEF Init, TypeOK, NoResult, NoEntry, Result, Entry, Times

LEMMA NextTypeOK == IInv /\ [Next]_vars => TypeOK'
<1> SUFFICES ASSUME IInv, [Next]_vars
             PROVE  TypeOK'
  OBVIOUS
<1> USE LimiterAssumption
<1>0. TypeOK
  BY DEF IInv
<1>1. ASSUME NEW c \in Calls, DenyAtOnce(c)
      PROVE  TypeOK'
  <2> PICK k \in Keys, rpm \in Int :
        /\ rpm \in Limits[k]
        /\ Enter(c, k, rpm, "done")
        /\ Return(c, FALSE, 0, now + Window)
        /\ UNCHANGED <<now, entries, nextTick, loop>>
    BY <1>1 DEF DenyAtOnce
  <2>1. [key |-> k, rpm |-> rpm, stamp |-> now] \in Call
    BY <1>0 DEF Call, TypeOK
  <2>2. [allowed |-> FALSE, remaining |-> 0, resetAt |-> now + Window,
         at |-> now, turn |-> turn + 1] \in Result
    BY <1>0 DEF Result, TypeOK, Times
  <2>3. QED
    BY <1>0, <2>1, <2>2 DEF TypeOK, Enter, Return
<1>2. ASSUME NEW c \in Calls, ReadClock(c)
      PROVE  TypeOK'
  <2> PICK k \in Keys, rpm \in Int :
        /\ rpm \in Limits[k]
        /\ Enter(c, k, rpm, "waiting")
        /\ UNCHANGED <<now, result, turn, entries, nextTick, loop>>
    BY <1>2 DEF ReadClock
  <2>1. [key |-> k, rpm |-> rpm, stamp |-> now] \in Call
    BY <1>0 DEF Call, TypeOK
  <2>2. QED
    BY <1>0, <2>1 DEF TypeOK, Enter
<1>3. ASSUME NEW c \in Calls, Decide(c)
      PROVE  TypeOK'
  <2>1. [present |-> TRUE,
         timestamps |-> IF Cardinality(Valid(c)) < call[c].rpm
                        THEN Valid(c) \cup {c} ELSE Valid(c),
         lastSeen |-> call[c].stamp] \in Entry
    BY <1>3, DecideEffect, ValidCalls DEF Entry, Call
  <2>2. QED
    BY <1>0, <1>3, <2>1, DecideEffect DEF TypeOK
<1>4. CASE Cleanup
  BY <1>0, <1>4 DEF TypeOK, Cleanup, callVars, NoEntry, Entry, Times
<1>5. CASE Close \/ LoopReturns \/ Tick \/ UNCHANGED vars
  BY <1>0, <1>5 DEF TypeOK, Close, LoopReturns, Tick, callVars, vars, Times
<1>6. QED
  BY <1>1, <1>2, <1>3, <1>4, <1>5 DEF Next

-----------------------------------------------------------------------------
(* Steps in which no call returns.                                         *)

LEMMA QuietSame ==
  ASSUME TypeOK, Done' = Done,
         \A d \in Done : call'[d] = call[d] /\ result'[d] = result[d]
  PROVE  \A k \in Keys :
           /\ Admitted(k)' = Admitted(k)
           /\ Decided(k)' = Decided(k)
           /\ \A d \in Done : Stale(d, k)' <=> Stale(d, k)
BY DEF Admitted, Decided, Stale

(* The history of answers is not touched.                                  *)
LEMMA QuietHistory ==
  ASSUME IInv, Done' = Done, turn' = turn, now' \in Int, now <= now',
         \A d \in Done : call'[d] = call[d] /\ result'[d] = result[d]
  PROVE  DoneCalls' /\ FirstExists' /\ WindowBound'
<1>1. DoneCalls'
  BY Numbers DEF IInv, DoneCalls, Done
<1>2. FirstExists'
  BY DEF IInv, FirstExists
<1>3. ASSUME NEW c \in Done
      PROVE  AdmittedBefore(c)' = AdmittedBefore(c)
  <2>1. call'[c] = call[c] /\ call[c].key \in Keys
    BY Numbers DEF IInv, Done
  <2>2. Admitted(call[c].key)' = Admitted(call[c].key)
    BY <2>1, QuietSame DEF IInv, Admitted
  <2>3. QED
    BY <2>1, <2>2 DEF AdmittedBefore, Admitted
<1>4. WindowBound'
  BY <1>3 DEF IInv, WindowBound
<1>5. QED
  BY <1>1, <1>2, <1>4

(* A caller reads the clock: it has just read it.                          *)
LEMMA ReadClockInv ==
  ASSUME IInv, NEW c \in Calls, ReadClock(c)
  PROVE  IInv'
<1>0. TypeOK /\ TypeOK'
  BY NextTypeOK DEF IInv, Next
<1>1. /\ Done' = Done
      /\ turn' = turn
      /\ \A d \in Done : call'[d] = call[d] /\ result'[d] = result[d]
      /\ UNCHANGED <<now, entries, nextTick, loop>>
  BY <1>0, NothingReturned DEF ReadClock
<1>2. WaitingCalls'
  <2> PICK k \in Keys, rpm \in Int :
        /\ rpm \in Limits[k] /\ rpm > 0
        /\ Enter(c, k, rpm, "waiting")
    BY LimiterAssumption DEF ReadClock
  <2>1. call'[c] = [key |-> k, rpm |-> rpm, stamp |-> now]
    BY <1>0 DEF Enter, TypeOK
  <2>2. \A d \in Calls \ {c} : call'[d] = call[d] /\ pc'[d] = pc[d]
    BY <1>0 DEF Enter, TypeOK
  <2>3. QED
    BY <1>1, <2>1, <2>2, Numbers, LimiterAssumption DEF IInv, WaitingCalls
<1>3. DoneCalls' /\ FirstExists' /\ WindowBound'
  BY <1>0, <1>1, Numbers, QuietHistory
<1>4. EntriesAreFresh' /\ ForgottenAreStale' /\ LastSeenCovers' /\ TicksAreServed'
  <2>1. \A k \in Keys : /\ Admitted(k)' = Admitted(k)
                        /\ \A d \in Done : Stale(d, k)' <=> Stale(d, k)
    BY <1>0, <1>1, QuietSame
  <2>2. \A k \in Keys : Admitted(k) \subseteq Done
    BY DEF Admitted
  <2>3. QED
    BY <1>1, <2>1, <2>2
    DEF IInv, EntriesAreFresh, ForgottenAreStale, LastSeenCovers, TicksAreServed
<1>5. QED
  BY <1>0, <1>2, <1>3, <1>4 DEF IInv

(* Cleanup forgets only what no call can count any more: the entry's last  *)
(* use is entryTTL ago, its timestamps are not younger.                    *)
LEMMA CleanupInv ==
  ASSUME IInv, Cleanup
  PROVE  IInv'
<1>0. TypeOK /\ TypeOK'
  BY NextTypeOK DEF IInv, Next
<1>1. /\ Done' = Done
      /\ UNCHANGED <<now, pc, call, result, turn, loop>>
  BY DEF Cleanup, callVars, Done
<1>2. \A k \in Keys : entries'[k] = IF Idle(k) THEN NoEntry ELSE entries[k]
  BY DEF Cleanup
<1>3. \A k \in Keys : /\ Admitted(k)' = Admitted(k)
                      /\ Admitted(k) \subseteq Done
                      /\ \A d \in Done : Stale(d, k)' <=> Stale(d, k)
  BY <1>0, <1>1, QuietSame DEF Admitted
<1>4. WaitingCalls'
  BY <1>1 DEF IInv, WaitingCalls
<1>5. DoneCalls' /\ FirstExists' /\ WindowBound'
  BY <1>0, <1>1, Numbers, QuietHistory
<1>6. EntriesAreFresh'
  BY <1>2, <1>3 DEF IInv, EntriesAreFresh, NoEntry
<1>7. ForgottenAreStale'
  <2> SUFFICES ASSUME NEW k \in Keys, NEW d \in Admitted(k),
                      d \notin entries'[k].timestamps
               PROVE  Stale(d, k) \/ call[d].stamp + Window + MaxHold <= now
    BY <1>1, <1>3 DEF ForgottenAreStale
  <2>1. CASE d \notin entries[k].timestamps
    BY <2>1 DEF IInv, ForgottenAreStale
  <2>2. CASE d \in entries[k].timestamps
    <3>1. entries[k].lastSeen < now - EntryTTL
      BY <1>2, <2>2 DEF Idle
    <3>2. result[d].at <= entries[k].lastSeen + MaxHold
      BY <2>2 DEF IInv, LastSeenCovers
    <3>3. d \in Done /\ call[d].stamp <= result[d].at
      BY <1>3 DEF IInv, DoneCalls
    <3>4. QED
      BY <1>0, <3>1, <3>2, <3>3, Numbers, LimiterAssumption DEF Done
  <2>3. QED
    BY <2>1, <2>2
<1>8. LastSeenCovers'
  BY <1>1, <1>2 DEF IInv, LastSeenCovers, NoEntry
<1>9. TicksAreServed'
  <2>1. now >= nextTick /\ nextTick' = nextTick + CleanupInterval
    BY DEF Cleanup
  <2>2. \A k \in Keys :
          entries'[k].present =>
            /\ entries'[k] = entries[k]
            /\ entries[k].lastSeen >= now - EntryTTL
    BY <1>0, <1>2, Numbers DEF Idle, NoEntry
  <2>3. QED
    BY <1>0, <1>1, <2>1, <2>2, Numbers, LimiterAssumption DEF IInv, TicksAreServed
<1>10. QED
  BY <1>0, <1>4, <1>5, <1>6, <1>7, <1>8, <1>9 DEF IInv

(* Time passes, the goroutine is stopped.                                  *)
LEMMA ClockInv ==
  ASSUME IInv, Tick \/ Close \/ LoopReturns \/ UNCHANGED vars
  PROVE  IInv'
<1>0. TypeOK /\ TypeOK'
  BY NextTypeOK DEF IInv, Next
<1>1. /\ Done' = Done
      /\ UNCHANGED <<pc, call, result, turn, entries, nextTick>>
      /\ now' \in Int /\ now <= now'
  BY <1>0, Numbers DEF Tick, Close, LoopReturns, vars, callVars, Done
<1>2. /\ \A c \in Calls : pc[c] = "waiting" => now' <= call[c].stamp + MaxHold
      /\ loop' # "returned" => loop # "returned" /\ now' <= nextTick + MaxHold
  <2>1. CASE Tick
    BY <1>0, <2>1, Numbers DEF Tick
  <2>2. CASE Close \/ LoopReturns \/ UNCHANGED vars
    BY <2>2 DEF Close, LoopReturns, vars, callVars, IInv, WaitingCalls, TicksAreServed
  <2>3. QED
    BY <2>1, <2>2
<1>3. \A k \in Keys : /\ Admitted(k)' = Admitted(k)
                      /\ Admitted(k) \subseteq Done
                      /\ \A d \in Done : Stale(d, k)' <=> Stale(d, k)
  BY <1>0, <1>1, QuietSame DEF Admitted
<1>4. WaitingCalls'
  BY <1>0, <1>1, <1>2, Numbers DEF IInv, WaitingCalls
<1>5. DoneCalls' /\ FirstExists' /\ WindowBound'
  BY <1>0, <1>1, Numbers, QuietHistory
<1>6. EntriesAreFresh' /\ LastSeenCovers'
  BY <1>1, <1>3 DEF IInv, EntriesAreFresh, LastSeenCovers
<1>7. ForgottenAreStale'
  <2> SUFFICES ASSUME NEW k \in Keys, NEW d \in Admitted(k),
                      d \notin entries[k].timestamps
               PROVE  Stale(d, k) \/ call[d].stamp + Window + MaxHold <= now'
    BY <1>1, <1>3 DEF ForgottenAreStale
  <2>1. Stale(d, k) \/ call[d].stamp + Window + MaxHold <= now
    BY DEF IInv, ForgottenAreStale
  <2>2. QED
    BY <1>0, <1>1, <2>1, Numbers DEF Admitted, Done
<1>8. TicksAreServed'
  BY <1>0, <1>1, <1>2, Numbers DEF IInv, TicksAreServed
<1>9. QED
  BY <1>0, <1>4, <1>5, <1>6, <1>7, <1>8 DEF IInv

-----------------------------------------------------------------------------
(* Steps in which a call returns.                                          *)

(* The new answer comes last: the first of any calls stays the first, and  *)
(* no earlier answer has it in its past.                                   *)
LEMMA LaterTurn ==
  ASSUME IInv, NEW c \in Calls, DenyAtOnce(c) \/ Decide(c)
  PROVE  /\ FirstExists'
         /\ \A d \in Done : AdmittedBefore(d)' = AdmittedBefore(d)
<1>0. TypeOK
  BY DEF IInv
<1>1. /\ c \notin Done
      /\ Done' = Done \cup {c}
      /\ result'[c].turn = turn + 1
      /\ \A d \in Done : call'[d] = call[d] /\ result'[d] = result[d]
  BY <1>0, OneReturned
<1>2. \A d \in Done : result[d].turn <= turn
  BY DEF IInv, DoneCalls
<1>3. FirstExists'
  <2> SUFFICES ASSUME NEW S \in SUBSET (Done \cup {c}), S # {}
               PROVE  \E d \in S : \A e \in S : result'[d].turn <= result'[e].turn
    BY <1>1 DEF FirstExists
  <2>1. CASE S \ {c} = {}
    BY <1>0, <1>1, <2>1, Numbers
  <2>2. CASE S \ {c} # {}
    <3>1. PICK d \in S \ {c} :
            \A e \in S \ {c} : result[d].turn <= result[e].turn
      <4>1. S \ {c} \in SUBSET Done
        OBVIOUS
      <4>2. QED
        BY <2>2, <4>1 DEF IInv, FirstExists
    <3>2. d \in Done /\ result[d].turn <= turn + 1
      BY <1>0, <1>2, <3>1, Numbers DEF Done
    <3>3. QED
      BY <1>1, <3>1, <3>2
  <2>3. QED
    BY <2>1, <2>2
<1>4. ASSUME NEW d \in Done
      PROVE  AdmittedBefore(d)' = AdmittedBefore(d)
  <2>1. /\ call'[d] = call[d] /\ result'[d] = result[d]
        /\ d # c
        /\ result[d].turn < result'[c].turn
        /\ result[d].turn \in Int /\ result'[c].turn \in Int
    BY <1>0, <1>1, <1>2, Numbers DEF Done
  <2>2. \A e \in Done : e \in Admitted(call[d].key)' <=> e \in Admitted(call[d].key)
    BY <1>1, <2>1 DEF Admitted
  <2>3. \A e : e \in AdmittedBefore(d)' => e \in Done
    BY <1>1, <2>1 DEF AdmittedBefore, Admitted
  <2>4. \A e : e \in AdmittedBefore(d) => e \in Done
    BY DEF AdmittedBefore, Admitted
  <2>5. \A e \in Done : e \in AdmittedBefore(d)' <=> e \in AdmittedBefore(d)
    BY <1>1, <2>1, <2>2 DEF AdmittedBefore
  <2>6. QED
    BY <2>3, <2>4, <2>5
<1>5. QED
  BY <1>3, <1>4

(* A call denied for its limit leaves no trace in the entries, and its     *)
(* timestamp counts for nobody.                                            *)
LEMMA DenyAtOnceInv ==
  ASSUME IInv, NEW c \in Calls, DenyAtOnce(c)
  PROVE  IInv'
<1>0. TypeOK /\ TypeOK'
  BY NextTypeOK DEF IInv, Next
<1>1. /\ c \notin Done
      /\ Done' = Done \cup {c}
      /\ turn' = turn + 1
      /\ \A d \in Done : call'[d] = call[d] /\ result'[d] = result[d]
      /\ result'[c].turn = turn + 1 /\ result'[c].at = now
      /\ UNCHANGED <<now, entries, nextTick, loop>>
  BY <1>0, OneReturned DEF DenyAtOnce
<1>2. /\ ~result'[c].allowed
      /\ call'[c].rpm \in Int /\ call'[c].rpm <= 0
      /\ call'[c].rpm \in Limits[call'[c].key]
      /\ call'[c].stamp = now
      /\ \A d \in Calls \ {c} : call'[d] = call[d] /\ pc'[d] = pc[d]
      /\ pc'[c] = "done"
  <2> PICK k \in Keys, rpm \in Int :
        /\ rpm \in Limits[k] /\ rpm <= 0
        /\ Enter(c, k, rpm, "done")
        /\ Return(c, FALSE, 0, now + Window)
    BY LimiterAssumption DEF DenyAtOnce
  <2>1. call'[c] = [key |-> k, rpm |-> rpm, stamp |-> now]
    BY <1>0 DEF Enter, TypeOK
  <2>2. ~result'[c].allowed
    BY <1>0 DEF Return, TypeOK
  <2>3. /\ \A d \in Calls \ {c} : call'[d] = call[d] /\ pc'[d] = pc[d]
        /\ pc'[c] = "done"
    BY <1>0 DEF Enter, TypeOK
  <2>4. QED
    BY <2>1, <2>2, <2>3
<1>3. \A k \in Keys : /\ Admitted(k)' = Admitted(k)
                      /\ Admitted(k) \subseteq Done
                      /\ Decided(k)' = Decided(k)
  BY <1>1, <1>2 DEF Admitted, Decided
<1>4. \A k \in Keys : \A d \in Done : Stale(d, k)' <=> Stale(d, k)
  BY <1>1, <1>3 DEF Stale, Decided
<1>5. WaitingCalls'
  BY <1>1, <1>2 DEF IInv, WaitingCalls
<1>6. DoneCalls'
  BY <1>0, <1>1, <1>2, Numbers, LimiterAssumption DEF IInv, DoneCalls, Done
<1>7. FirstExists' /\ WindowBound'
  BY <1>1, <1>2, LaterTurn DEF IInv, WindowBound
<1>8. EntriesAreFresh' /\ ForgottenAreStale' /\ LastSeenCovers' /\ TicksAreServed'
  BY <1>1, <1>3, <1>4
  DEF IInv, EntriesAreFresh, ForgottenAreStale, LastSeenCovers, TicksAreServed
<1>9. QED
  BY <1>0, <1>5, <1>6, <1>7, <1>8 DEF IInv

(* What the entry of a waiting call forgot, the call would not count: an   *)
(* admission that is not in the entry is older than its window.            *)
LEMMA ForgottenDoNotCount ==
  ASSUME IInv, NEW c \in Calls, pc[c] = "waiting",
         NEW d \in Admitted(call[c].key), d \notin entries[call[c].key].timestamps,
         ~Stale(d, call[c].key)
  PROVE  call[d].stamp <= call[c].stamp - Window
<1>1. call[c].key \in Keys /\ d \in Done
  BY Numbers DEF IInv, Admitted
<1>2. call[d].stamp + Window + MaxHold <= now
  BY <1>1 DEF IInv, ForgottenAreStale
<1>3. now <= call[c].stamp + MaxHold
  BY DEF IInv, WaitingCalls
<1>4. QED
  BY <1>1, <1>2, <1>3, Numbers DEF IInv, Done

(* The critical section's own call: after it, its key has one decided call *)
(* more, and one admitted more if it was granted.                          *)
LEMMA DecideHistory ==
  ASSUME IInv, NEW c \in Calls, Decide(c), NEW k \in Keys, k = call[c].key
  PROVE  /\ Decided(k)' = Decided(k) \cup {c}
         /\ Admitted(k)' = IF result'[c].allowed THEN Admitted(k) \cup {c}
                                                 ELSE Admitted(k)
         /\ \A j \in Keys \ {k} : /\ Decided(j)' = Decided(j)
                                  /\ Admitted(j)' = Admitted(j)
<1>1. /\ c \notin Done
      /\ Done' = Done \cup {c}
      /\ \A d \in Done : result'[d] = result[d]
      /\ call' = call
  BY OneReturned, DecideEffect DEF IInv
<1>2. call[c].rpm > 0
  BY DecideEffect DEF IInv, WaitingCalls
<1>3. QED
  BY <1>1, <1>2 DEF Decided, Admitted

(* Only what the call itself left behind becomes stale by it.              *)
LEMMA DecideStale ==
  ASSUME IInv, NEW c \in Calls, Decide(c), NEW k \in Keys, k = call[c].key
  PROVE  /\ \A d \in Done : \A j \in Keys \ {k} : Stale(d, j)' <=> Stale(d, j)
         /\ \A d \in Done :
              Stale(d, k)' <=> \/ Stale(d, k)
                               \/ call[d].stamp <= call[c].stamp - Window
         /\ ~Stale(c, k)'
<1>1. call' = call
  BY DecideEffect
<1>2. \A e \in Decided(k) : call[e].stamp <= now
  BY Numbers DEF IInv, DoneCalls, Decided, Done
<1>3. /\ now <= call[c].stamp + MaxHold
      /\ call[c].stamp \in Int
  BY DecideEffect, Numbers DEF IInv, WaitingCalls
<1>4. \A e \in Decided(k) : call[e].stamp \in Int
  BY Numbers DEF IInv, Decided, Done
<1>5. ~Stale(c, k)'
  <2>1. \A e \in Decided(k) \cup {c} : ~(call[c].stamp <= call[e].stamp - Window)
    BY <1>2, <1>3, <1>4, Numbers, LimiterAssumption DEF IInv
  <2>2. QED
    BY <1>1, <2>1, DecideHistory DEF Stale
<1>6. ASSUME NEW d \in Done, NEW j \in Keys \ {k}
      PROVE  Stale(d, j)' <=> Stale(d, j)
  <2>1. Decided(j)' = Decided(j)
    BY DecideHistory
  <2>2. QED
    BY <1>1, <2>1 DEF Stale
<1>7. ASSUME NEW d \in Done
      PROVE  Stale(d, k)' <=> \/ Stale(d, k)
                              \/ call[d].stamp <= call[c].stamp - Window
  <2>1. Decided(k)' = Decided(k) \cup {c}
    BY DecideHistory
  <2>2. QED
    BY <1>1, <2>1 DEF Stale
<1>8. QED
  BY <1>5, <1>6, <1>7

LEMMA DecideInv ==
  ASSUME IInv, NEW c \in Calls, Decide(c)
  PROVE  IInv'
<1> DEFINE granted == Cardinality(Valid(c)) < call[c].rpm
<1> PICK k \in Keys : k = call[c].key
  BY DecideEffect, Numbers DEF IInv
<1>0. TypeOK /\ TypeOK' /\ pc[c] = "waiting"
  BY NextTypeOK, DecideEffect DEF IInv, Next
<1>1. /\ c \notin Done
      /\ Done' = Done \cup {c}
      /\ turn' = turn + 1
      /\ \A d \in Done : result'[d] = result[d]
      /\ result'[c].turn = turn + 1 /\ result'[c].at = now
      /\ UNCHANGED <<now, call, nextTick, loop>>
  BY <1>0, OneReturned, DecideEffect
<1>2. /\ entries'[k].present
      /\ entries'[k].timestamps = IF granted THEN Valid(c) \cup {c} ELSE Valid(c)
      /\ entries'[k].lastSeen = call[c].stamp
      /\ \A j \in Keys \ {k} : entries'[j] = entries[j]
      /\ result'[c].allowed <=> granted
  <2>1. k \in Keys
    BY <1>0, Numbers
  <2>2. /\ entries' = [entries EXCEPT ![k] =
                         [present |-> TRUE,
                          timestamps |-> IF granted THEN Valid(c) \cup {c}
                                                    ELSE Valid(c),
                          lastSeen |-> call[c].stamp]]
        /\ result'[c].allowed = granted
    BY DecideEffect
  <2>3. DOMAIN entries = Keys
    BY <1>0 DEF TypeOK
  <2>4. QED
    BY <2>1, <2>2, <2>3
<1>3. /\ k \in Keys
      /\ call[c].rpm > 0
      /\ call[c].rpm \in Limits[k]
      /\ call[c].stamp <= now
      /\ now <= call[c].stamp + MaxHold
  BY <1>0, Numbers DEF IInv, WaitingCalls
<1>4. Valid(c) \subseteq entries[k].timestamps
  BY DEF Valid
<1>5. \A j \in Keys : /\ entries[j].timestamps \subseteq Admitted(j)
                      /\ Admitted(j) \subseteq Done
  BY DEF IInv, EntriesAreFresh, Admitted
<1>6. WaitingCalls'
  BY <1>0, <1>1, DecideEffect DEF IInv, WaitingCalls, TypeOK
<1>7. DoneCalls'
  BY <1>0, <1>1, <1>3, Numbers DEF IInv, DoneCalls, Done
<1>8. EntriesAreFresh'
  <2>1. ASSUME NEW j \in Keys \ {k}
        PROVE  /\ entries'[j].timestamps \subseteq Admitted(j)'
               /\ \A d \in entries'[j].timestamps : ~Stale(d, j)'
    <3>1. /\ entries[j].timestamps \subseteq Admitted(j)
          /\ \A d \in entries[j].timestamps : ~Stale(d, j)
      BY DEF IInv, EntriesAreFresh
    <3>2. /\ Admitted(j)' = Admitted(j)
          /\ \A d \in Done : Stale(d, j)' <=> Stale(d, j)
      BY DecideHistory, DecideStale
    <3>3. /\ entries'[j].timestamps = entries[j].timestamps
          /\ entries[j].timestamps \subseteq Done
      BY <1>2, <1>5
    <3>4. entries'[j].timestamps \subseteq Admitted(j)'
      BY <3>1, <3>2, <3>3
    <3>5. \A d \in entries'[j].timestamps : ~Stale(d, j)'
      BY <3>1, <3>2, <3>3
    <3>6. QED
      BY <3>4, <3>5
  <2>2. entries'[k].timestamps \subseteq Admitted(k)'
    BY <1>2, <1>3, <1>4, <1>5, DecideHistory
  <2>3. ASSUME NEW d \in Valid(c)
        PROVE  ~Stale(d, k)'
    <3>1. d \in Done /\ call[d].stamp > call[c].stamp - Window /\ ~Stale(d, k)
      BY <1>3, <1>4, <1>5 DEF Valid, InWindow, IInv, EntriesAreFresh
    <3>2. ~(call[d].stamp <= call[c].stamp - Window)
      BY <1>0, <3>1, Numbers DEF Done
    <3>3. QED
      BY <3>1, <3>2, DecideStale
  <2>4. \A d \in entries'[k].timestamps : ~Stale(d, k)'
    BY <1>2, <2>3, DecideStale
  <2>5. \A j \in Keys : /\ entries'[j].timestamps \subseteq Admitted(j)'
                         /\ \A d \in entries'[j].timestamps : ~Stale(d, j)'
    <3> TAKE j \in Keys
    <3>1. CASE j = k
      BY <2>2, <2>4, <3>1
    <3>2. CASE j # k
      BY <2>1, <3>2
    <3>3. QED
      BY <3>1, <3>2
  <2>6. QED
    BY <2>5 DEF EntriesAreFresh
<1>9. ForgottenAreStale'
  <2>1. ASSUME NEW j \in Keys \ {k}, NEW d \in Admitted(j)',
               d \notin entries'[j].timestamps
        PROVE  Stale(d, j)' \/ call[d].stamp + Window + MaxHold <= now
    BY <1>2, <1>5, <2>1, DecideHistory, DecideStale DEF IInv, ForgottenAreStale
  <2>2. ASSUME NEW d \in Admitted(k)', d \notin entries'[k].timestamps
        PROVE  Stale(d, k)' \/ call[d].stamp + Window + MaxHold <= now
    <3>1. d \in Admitted(k) /\ d \notin Valid(c) /\ d \in Done
      BY <1>2, <1>3, <1>5, <2>2, DecideHistory
    <3>2. CASE d \in entries[k].timestamps
      <4>1. call[d].stamp <= call[c].stamp - Window
        BY <1>0, <3>1, <3>2, Numbers DEF Valid, InWindow, Done
      <4>2. QED
        BY <3>1, <4>1, DecideStale
    <3>3. CASE d \notin entries[k].timestamps
      BY <1>3, <3>1, <3>3, DecideStale DEF IInv, ForgottenAreStale
    <3>4. QED
      BY <3>2, <3>3
  <2>3. QED
    BY <1>1, <2>1, <2>2 DEF ForgottenAreStale
<1>10. LastSeenCovers'
  <2>1. \A d \in entries'[k].timestamps : result'[d].at <= now
    BY <1>0, <1>1, <1>2, <1>3, <1>4, <1>5, Numbers DEF IInv, DoneCalls
  <2>2. \A d \in entries'[k].timestamps : result'[d].at <= call[c].stamp + MaxHold
    <3>1. \A d \in entries'[k].timestamps : result'[d].at \in Int
      BY <1>0, <1>3, Numbers DEF TypeOK, Entry, Result, Times
    <3>2. QED
      BY <1>0, <1>3, <2>1, <3>1, Numbers
  <2>3. \A j \in Keys \ {k} : \A d \in entries'[j].timestamps :
          /\ d \in Done
          /\ result'[d] = result[d]
    BY <1>1, <1>2, <1>5
  <2>4. QED
    BY <1>2, <2>2, <2>3 DEF IInv, LastSeenCovers
<1>11. TicksAreServed'
  <2>1. nextTick <= now + CleanupInterval
    BY DEF IInv, TicksAreServed
  <2>2. nextTick <= call[c].stamp + EntryTTL + CleanupInterval
    BY <1>0, <1>3, <2>1, Numbers, LimiterAssumption
  <2>3. QED
    BY <1>1, <1>2, <2>2 DEF IInv, TicksAreServed
<1>12. WindowBound'
  <2>1. ASSUME granted
        PROVE  Cardinality(AdmittedBefore(c)') <= call[c].rpm
    <3>1. AdmittedBefore(c)' \subseteq Valid(c) \cup {c}
      <4> SUFFICES ASSUME NEW d \in AdmittedBefore(c)', d # c
                   PROVE  d \in Valid(c)
        OBVIOUS
      <4>1. d \in Admitted(k) /\ d \in Done
        <5>1. d \in Admitted(k)'
          BY <1>1 DEF AdmittedBefore, Admitted
        <5>2. QED
          BY <1>3, <1>5, <5>1, DecideHistory
      <4>2. result[d].at > now - (Window - MaxHold)
        BY <1>1, <4>1 DEF AdmittedBefore
      <4>3. result[d].at <= call[d].stamp + MaxHold
        BY <4>1 DEF IInv, DoneCalls
      <4>4. /\ call[d].stamp \in Int /\ result[d].at \in Int
            /\ call[c].stamp \in Int
        BY <1>0, <4>1, Numbers DEF Done
      <4>5. call[d].stamp > now - Window
        BY <1>0, <4>2, <4>3, <4>4, Numbers
      <4>6. call[d].stamp > call[c].stamp - Window
        BY <1>0, <1>3, <4>4, <4>5, Numbers
      <4>7. ~Stale(d, k)
        <5>1. \A e \in Decided(k) : call[e].stamp \in Int /\ call[e].stamp <= now
          BY <1>0, Numbers DEF IInv, DoneCalls, Decided, Done
        <5>2. QED
          BY <1>0, <4>4, <4>5, <5>1, Numbers DEF Stale
      <4>8. d \in entries[k].timestamps
        BY <1>0, <4>1, <4>4, <4>6, <4>7, ForgottenDoNotCount, Numbers
      <4>9. QED
        BY <4>6, <4>8 DEF Valid, InWindow
    <3>2. /\ IsFiniteSet(Valid(c) \cup {c})
          /\ Cardinality(Valid(c) \cup {c}) <= Cardinality(Valid(c)) + 1
      <4>1. IsFiniteSet(Valid(c)) /\ Cardinality(Valid(c)) \in Nat
        BY <1>0, ValidCalls
      <4>2. /\ IsFiniteSet(Valid(c) \cup {c})
            /\ Cardinality(Valid(c) \cup {c})
                 = IF c \in Valid(c) THEN Cardinality(Valid(c))
                                     ELSE Cardinality(Valid(c)) + 1
        BY <4>1, FS_AddElement
      <4>3. QED
        BY <4>1, <4>2
    <3>3. Cardinality(AdmittedBefore(c)') <= Cardinality(Valid(c)) + 1
      <4>1. /\ AdmittedBefore(c)' \in SUBSET Calls
            /\ Valid(c) \cup {c} \in SUBSET Calls
        BY <1>0, <3>1, ValidCalls
      <4>2. Cardinality(AdmittedBefore(c)') <= Cardinality(Valid(c) \cup {c})
        BY <3>1, <3>2, FS_Subset
      <4>3. QED
        BY <1>0, <3>2, <4>1, <4>2, SomeCalls, ValidCalls
    <3>4. QED
      <4>1. Cardinality(AdmittedBefore(c)') \in Nat
        BY <1>0, <3>1, ValidCalls, SomeCalls
      <4>2. QED
        BY <1>0, <2>1, <3>3, <4>1, ValidCalls, Numbers
  <2>2. QED
    BY <1>1, <1>2, <2>1, LaterTurn DEF IInv, WindowBound
<1>13. QED
  BY <1>0, <1>6, <1>7, <1>8, <1>9, <1>10, <1>11, <1>12, LaterTurn DEF IInv

-----------------------------------------------------------------------------
(* The theorems.                                                           *)

LEMMA InitInv == Init => IInv
<1> SUFFICES ASSUME Init
             PROVE  IInv
  OBVIOUS
<1>1. TypeOK
  BY InitTypeOK
<1>2. Done = {}
  BY DEF Init, Done
<1>3. \A k \in Keys : entries[k] = NoEntry /\ Admitted(k) = {}
  BY <1>2 DEF Init, Admitted
<1>4. WaitingCalls /\ DoneCalls /\ FirstExists /\ WindowBound
  BY <1>2 DEF Init, WaitingCalls, DoneCalls, FirstExists, WindowBound
<1>5. EntriesAreFresh /\ ForgottenAreStale /\ LastSeenCovers
  BY <1>3 DEF EntriesAreFresh, ForgottenAreStale, LastSeenCovers, NoEntry
<1>6. TicksAreServed
  BY <1>3, LimiterAssumption DEF Init, TicksAreServed, NoEntry
<1>7. QED
  BY <1>1, <1>4, <1>5, <1>6 DEF IInv

(* The limiter's invariant (memory.go:49-137).                             *)
THEOREM Invariance == Spec => []IInv
<1>1. IInv /\ [Next]_vars => IInv'
  BY ReadClockInv, CleanupInv, ClockInv, DenyAtOnceInv, DecideInv DEF Next
<1>2. QED
  BY <1>1, InitInv, PTL DEF Spec

(* The entries keep their types, and Remaining is never negative           *)
(* (memory.go:80-83), whatever limits the callers pass.                    *)
THEOREM TypeCorrect == Spec => []TypeOK
  BY Invariance, PTL DEF IInv

(* However calls overtake each other between clock and mutex, and whatever *)
(* was evicted or dropped, no interval of Window - MaxHold holds more      *)
(* admissions than the limit of the last of them.                          *)
THEOREM WindowsAreBounded == Spec => []WindowBound
  BY Invariance, PTL DEF IInv

(* The goroutine drops every entry that was not used for entryTTL, one     *)
(* interval later at most (memory.go:109-137).                             *)
THEOREM IdleEntriesGo == Spec => []IdleEntriesAreDropped
<1>1. IInv => IdleEntriesAreDropped
  BY Numbers DEF IInv, TicksAreServed, IdleEntriesAreDropped
<1>2. QED
  BY <1>1, Invariance, PTL

-----------------------------------------------------------------------------
(* ResetAt.                                                                *)

(* An entry never holds more timestamps than some limit allowed.           *)
EntriesFit ==
  \A k \in Keys :
    entries[k].timestamps # {} =>
      \E e \in Decided(k) : Cardinality(entries[k].timestamps) <= call[e].rpm

(* No call of the key was admitted since c was refused.                    *)
Unclaimed(c) ==
  \A m \in Done : /\ call[m].key = call[c].key
                  /\ result[m].turn > result[c].turn
                  => ~result[m].allowed

(* What a call that comes at the ResetAt of c may still count.             *)
Late(c) ==
  {m \in entries[call[c].key].timestamps :
     call[m].stamp > result[c].resetAt - Window}

(* At the ResetAt of a refused call the timestamp it was computed from no  *)
(* longer counts, so the others are fewer than a limit, as long as no call *)
(* takes the slot.                                                         *)
RefusalsTell ==
  \A c \in Done :
    ~result[c].allowed /\ call[c].rpm > 0 /\ Unclaimed(c) =>
      \E e \in Decided(call[c].key) : Cardinality(Late(c)) < call[e].rpm

ResetInv == EntriesFit /\ RefusalsTell /\ ResetAtIsHonoured

(* Fewer calls, smaller cardinality.                                       *)
LEMMA FewerCalls ==
  ASSUME NEW T \in SUBSET Calls, NEW S \in SUBSET T
  PROVE  /\ Cardinality(S) \in Nat
         /\ Cardinality(T) \in Nat
         /\ Cardinality(S) <= Cardinality(T)
         /\ S # T => Cardinality(S) < Cardinality(T)
<1>1. IsFiniteSet(T) /\ Cardinality(T) \in Nat
  BY SomeCalls
<1>2. Cardinality(S) \in Nat
  BY SomeCalls
<1>3. QED
  BY <1>1, <1>2, FS_Subset

(* Where only the entries may have lost timestamps, the refusals still     *)
(* tell.                                                                   *)
LEMMA QuietReset ==
  ASSUME IInv, ResetInv, Done' = Done,
         \A d \in Done : call'[d] = call[d] /\ result'[d] = result[d],
         \A k \in Keys : entries'[k].timestamps \subseteq entries[k].timestamps
  PROVE  ResetInv'
<1>0. TypeOK
  BY DEF IInv
<1>1. \A k \in Keys : /\ Decided(k)' = Decided(k)
                      /\ Decided(k) \subseteq Done
                      /\ entries[k].timestamps \in SUBSET Calls
                      /\ entries[k].timestamps \subseteq Done
  BY <1>0, QuietSame, Numbers DEF Decided, IInv, EntriesAreFresh, Admitted
<1>2. \A e \in Done : call[e].key \in Keys /\ call[e].rpm \in Int
  BY <1>0, Numbers DEF Done
<1>3. EntriesFit'
  <2> SUFFICES ASSUME NEW k \in Keys, entries'[k].timestamps # {}
               PROVE  \E e \in Decided(k)' :
                        Cardinality(entries'[k].timestamps) <= call'[e].rpm
    BY DEF EntriesFit
  <2>1. PICK e \in Decided(k) : Cardinality(entries[k].timestamps) <= call[e].rpm
    BY DEF ResetInv, EntriesFit
  <2>2. Cardinality(entries'[k].timestamps) <= Cardinality(entries[k].timestamps)
    BY <1>1, FewerCalls
  <2>3. /\ Cardinality(entries'[k].timestamps) \in Nat
        /\ Cardinality(entries[k].timestamps) \in Nat
    BY <1>1, FewerCalls
  <2>4. Cardinality(entries'[k].timestamps) <= call'[e].rpm
    BY <1>1, <1>2, <2>1, <2>2, <2>3
  <2>5. QED
    BY <1>1, <2>4
<1>4. RefusalsTell'
  <2> SUFFICES ASSUME NEW c \in Done, ~result[c].allowed, call[c].rpm > 0,
                      Unclaimed(c)'
               PROVE  \E e \in Decided(call[c].key)' :
                        Cardinality(Late(c)') < call'[e].rpm
    BY <1>1, <1>2 DEF RefusalsTell
  <2>1. Unclaimed(c)
    BY DEF Unclaimed
  <2>2. PICK e \in Decided(call[c].key) : Cardinality(Late(c)) < call[e].rpm
    BY <2>1 DEF ResetInv, RefusalsTell
  <2>3. Late(c)' \in SUBSET Late(c) /\ Late(c) \in SUBSET Calls
    BY <1>1, <1>2 DEF Late
  <2>4. /\ Cardinality(Late(c)') <= Cardinality(Late(c))
        /\ Cardinality(Late(c)') \in Nat /\ Cardinality(Late(c)) \in Nat
    BY <2>3, FewerCalls
  <2>5. Cardinality(Late(c)') < call'[e].rpm
    BY <1>1, <1>2, <2>2, <2>4
  <2>6. QED
    BY <1>1, <1>2, <2>5
<1>5. ResetAtIsHonoured'
  BY DEF ResetInv, ResetAtIsHonoured
<1>6. QED
  BY <1>3, <1>4, <1>5 DEF ResetInv

(* A new answer is the latest, so what ResetAtIsHonoured says of earlier   *)
(* retries it says as before.                                              *)
LEMMA EarlierRetries ==
  ASSUME IInv, ResetAtIsHonoured, NEW c \in Calls, DenyAtOnce(c) \/ Decide(c),
         NEW refused \in Done', NEW retry \in Done
  PROVE  LET k == call'[retry].key
             before == {m \in Done' : /\ call'[m].key = k
                                      /\ result'[m].turn < result'[retry].turn}
         IN  /\ refused \in before
             /\ ~result'[refused].allowed
             /\ call'[retry].rpm > 0
             /\ \A m \in before : call'[m].rpm = call'[retry].rpm
             /\ call'[retry].stamp >= result'[refused].resetAt
             /\ \A m \in before : result'[m].turn > result'[refused].turn
                                    => ~result'[m].allowed
             => result'[retry].allowed
<1>1. /\ c \notin Done
      /\ Done' = Done \cup {c}
      /\ result'[c].turn = turn + 1
      /\ \A d \in Done : call'[d] = call[d] /\ result'[d] = result[d]
  BY OneReturned DEF IInv
<1>2. ~(result'[c].turn < result'[retry].turn)
  BY <1>1, Numbers DEF IInv, DoneCalls, Done
<1>3. {m \in Done' : /\ call'[m].key = call'[retry].key
                     /\ result'[m].turn < result'[retry].turn}
        = {m \in Done : /\ call[m].key = call[retry].key
                        /\ result[m].turn < result[retry].turn}
  BY <1>1, <1>2
<1>4. QED
  BY <1>1, <1>3 DEF ResetAtIsHonoured

(* A call denied for its limit was no retry with a limit, and its ResetAt  *)
(* promises nothing.                                                       *)
LEMMA DenyAtOnceReset ==
  ASSUME IInv, ResetInv, NEW c \in Calls, DenyAtOnce(c)
  PROVE  ResetInv'
<1>0. TypeOK
  BY DEF IInv
<1>1. /\ c \notin Done
      /\ Done' = Done \cup {c}
      /\ \A d \in Done : call'[d] = call[d] /\ result'[d] = result[d]
      /\ entries' = entries
  BY <1>0, OneReturned DEF DenyAtOnce
<1>2. ~(call'[c].rpm > 0)
  <2> PICK k \in Keys, rpm \in Int : rpm <= 0 /\ Enter(c, k, rpm, "done")
    BY LimiterAssumption DEF DenyAtOnce
  <2>1. call'[c] = [key |-> k, rpm |-> rpm, stamp |-> now]
    BY <1>0 DEF Enter, TypeOK
  <2>2. QED
    BY <2>1
<1>3. \A k \in Keys : /\ Decided(k)' = Decided(k)
                      /\ Decided(k) \subseteq Done
                      /\ entries[k].timestamps \subseteq Done
  BY <1>1, <1>2 DEF Decided, IInv, EntriesAreFresh, Admitted
<1>4. EntriesFit'
  <2> SUFFICES ASSUME NEW k \in Keys, entries[k].timestamps # {}
               PROVE  \E e \in Decided(k)' :
                        Cardinality(entries[k].timestamps) <= call'[e].rpm
    BY <1>1 DEF EntriesFit
  <2>1. PICK e \in Decided(k) : Cardinality(entries[k].timestamps) <= call[e].rpm
    BY DEF ResetInv, EntriesFit
  <2>2. QED
    BY <1>1, <1>3, <2>1
<1>5. RefusalsTell'
  <2> SUFFICES ASSUME NEW d \in Done, ~result[d].allowed, call[d].rpm > 0,
                      Unclaimed(d)'
               PROVE  \E e \in Decided(call[d].key)' :
                        Cardinality(Late(d)') < call'[e].rpm
    BY <1>1, <1>2 DEF RefusalsTell
  <2>1. call[d].key \in Keys
    BY <1>0, Numbers DEF Done
  <2>2. Unclaimed(d)
    BY <1>1 DEF Unclaimed
  <2>3. Late(d)' = Late(d)
    BY <1>1, <1>3, <2>1 DEF Late
  <2>4. PICK e \in Decided(call[d].key) : Cardinality(Late(d)) < call[e].rpm
    BY <2>2 DEF ResetInv, RefusalsTell
  <2>5. QED
    BY <1>1, <1>3, <2>1, <2>3, <2>4
<1>6. ResetAtIsHonoured'
  <2>1. ASSUME NEW retry \in Done', call'[retry].rpm > 0
        PROVE  retry \in Done
    BY <1>1, <1>2, <2>1
  <2>2. QED
    BY <2>1, EarlierRetries DEF ResetInv, ResetAtIsHonoured
<1>7. QED
  BY <1>4, <1>5, <1>6 DEF ResetInv

(* What the critical section leaves in the entries, and the ResetAt it     *)
(* returns.                                                                *)
LEMMA DecideEntries ==
  ASSUME IInv, NEW c \in Calls, Decide(c), NEW k \in Keys, k = call[c].key
  PROVE  /\ entries'[k].timestamps
              = IF result'[c].allowed THEN Valid(c) \cup {c} ELSE Valid(c)
         /\ \A j \in Keys \ {k} : entries'[j] = entries[j]
         /\ Valid(c) # {} =>
              result'[c].resetAt = call[First(Valid(c))].stamp + Window
<1>1. TypeOK
  BY DEF IInv
<1>2. Valid(c) # {} => result'[c].resetAt = call[First(Valid(c))].stamp + Window
  BY <1>1 DEF Decide, Valid, Return, TypeOK
<1>3. /\ entries' = [entries EXCEPT ![k] =
                       [present |-> TRUE,
                        timestamps |-> IF Cardinality(Valid(c)) < call[c].rpm
                                       THEN Valid(c) \cup {c} ELSE Valid(c),
                        lastSeen |-> call[c].stamp]]
      /\ result'[c].allowed = (Cardinality(Valid(c)) < call[c].rpm)
  BY DecideEffect
<1>4. QED
  BY <1>1, <1>2, <1>3 DEF TypeOK

(* A refusal names the timestamp that has to leave the window: without it  *)
(* the entry has room.                                                     *)
LEMMA RefusalTells ==
  ASSUME IInv, ResetInv, NEW c \in Calls, Decide(c), ~result'[c].allowed
  PROVE  \E e \in Decided(call[c].key) :
           Cardinality({m \in Valid(c) :
                          call[m].stamp > result'[c].resetAt - Window})
             < call[e].rpm
<1> PICK k \in Keys : k = call[c].key
  BY DecideEffect, Numbers DEF IInv
<1> DEFINE S == {m \in Valid(c) : call[m].stamp > result'[c].resetAt - Window}
           T == entries[k].timestamps
<1>1. /\ pc[c] = "waiting"
      /\ ~(Cardinality(Valid(c)) < call[c].rpm)
  BY DecideEffect
<1>2. /\ Valid(c) \in SUBSET Done
      /\ Valid(c) \in SUBSET T
      /\ T \in SUBSET Calls
      /\ Cardinality(Valid(c)) \in Nat
      /\ call[c].rpm > 0 /\ call[c].rpm \in Int
  BY <1>1, ValidCalls, Numbers DEF Valid, IInv
<1>3. Valid(c) # {}
  <2>1. Cardinality(Valid(c)) # 0
    BY <1>1, <1>2
  <2>2. QED
    BY <2>1, FS_EmptySet
<1>4. /\ First(Valid(c)) \in Valid(c)
      /\ result'[c].resetAt = call[First(Valid(c))].stamp + Window
  BY <1>2, <1>3, FirstOfSome, DecideEntries DEF IInv
<1>5. /\ call[First(Valid(c))].stamp \in Int
      /\ Window \in Int
  BY <1>2, <1>4, Numbers DEF IInv, Done
<1>6. S \in SUBSET T /\ First(Valid(c)) \notin S /\ S # T
  BY <1>2, <1>4, <1>5
<1>7. PICK e \in Decided(k) : Cardinality(T) <= call[e].rpm
  BY <1>3, <1>2 DEF ResetInv, EntriesFit
<1>8. call[e].rpm \in Int
  BY Numbers DEF IInv, Decided, Done
<1>9. /\ Cardinality(S) < Cardinality(T)
      /\ Cardinality(S) \in Nat /\ Cardinality(T) \in Nat
  BY <1>2, <1>6, FewerCalls
<1> HIDE DEF S, T
<1>10. Cardinality(S) < call[e].rpm
  BY <1>7, <1>8, <1>9
<1>11. QED
  BY <1>7, <1>10 DEF S

(* A retry that comes at or after the ResetAt of a refusal, nobody having  *)
(* been admitted in between and the limit being the same throughout, is    *)
(* admitted.                                                               *)
LEMMA RetryIsAdmitted ==
  ASSUME IInv, ResetInv, NEW c \in Calls, Decide(c),
         NEW refused \in Done, call[refused].key = call[c].key,
         ~result[refused].allowed,
         \A m \in Done : call[m].key = call[c].key =>
           /\ call[m].rpm = call[c].rpm
           /\ result[m].turn > result[refused].turn => ~result[m].allowed,
         call[c].stamp >= result[refused].resetAt
  PROVE  result'[c].allowed
<1> PICK k \in Keys : k = call[c].key
  BY DecideEffect, Numbers DEF IInv
<1>1. /\ pc[c] = "waiting"
      /\ result'[c].allowed = (Cardinality(Valid(c)) < call[c].rpm)
  BY DecideEffect
<1>2. /\ call[c].rpm > 0 /\ call[c].rpm \in Int
      /\ call[c].stamp \in Int
      /\ Valid(c) \in SUBSET Done
  BY <1>1, ValidCalls, Numbers DEF IInv
<1>3. Unclaimed(refused) /\ call[refused].rpm > 0
  BY <1>2 DEF Unclaimed
<1>4. PICK e \in Decided(k) : Cardinality(Late(refused)) < call[e].rpm
  BY <1>3 DEF ResetInv, RefusalsTell
<1>5. call[e].rpm = call[c].rpm
  BY DEF Decided
<1>6. Valid(c) \in SUBSET Late(refused)
  <2> SUFFICES ASSUME NEW m \in Valid(c)
               PROVE  m \in Late(refused)
    OBVIOUS
  <2>1. m \in entries[k].timestamps /\ call[m].stamp > call[c].stamp - Window
    BY DEF Valid, InWindow
  <2>2. /\ call[m].stamp \in Int /\ Window \in Int
        /\ result[refused].resetAt \in Int
    BY <1>2, Numbers DEF IInv, Done, TypeOK, Result
  <2>3. call[m].stamp > result[refused].resetAt - Window
    BY <1>2, <2>1, <2>2
  <2>4. QED
    BY <2>1, <2>3 DEF Late
<1>7. Late(refused) \in SUBSET Calls
  BY Numbers DEF IInv, Late
<1>8. /\ Cardinality(Valid(c)) <= Cardinality(Late(refused))
      /\ Cardinality(Valid(c)) \in Nat /\ Cardinality(Late(refused)) \in Nat
  BY <1>6, <1>7, FewerCalls
<1>9. Cardinality(Valid(c)) < call[c].rpm
  BY <1>2, <1>4, <1>5, <1>8
<1>10. QED
  BY <1>1, <1>9

LEMMA DecideReset ==
  ASSUME IInv, ResetInv, NEW c \in Calls, Decide(c)
  PROVE  ResetInv'
<1> PICK k \in Keys : k = call[c].key
  BY DecideEffect, Numbers DEF IInv
<1>0. TypeOK
  BY DEF IInv
<1>1. /\ pc[c] = "waiting"
      /\ c \notin Done
      /\ Done' = Done \cup {c}
      /\ call' = call
      /\ result'[c].turn = turn + 1
      /\ result'[c].allowed = (Cardinality(Valid(c)) < call[c].rpm)
      /\ \A d \in Done : result'[d] = result[d]
  BY <1>0, OneReturned, DecideEffect
<1>2. /\ Valid(c) \in SUBSET Done
      /\ Valid(c) \in SUBSET entries[k].timestamps
      /\ entries[k].timestamps \in SUBSET Calls
      /\ Cardinality(Valid(c)) \in Nat
      /\ call[c].rpm > 0 /\ call[c].rpm \in Int
  BY <1>0, <1>1, ValidCalls, Numbers DEF Valid
<1>3. /\ Decided(k)' = Decided(k) \cup {c}
      /\ \A j \in Keys \ {k} : Decided(j)' = Decided(j)
      /\ \A j \in Keys : Decided(j) \subseteq Done
  BY DecideHistory DEF Decided
<1>4. /\ entries'[k].timestamps
           = IF result'[c].allowed THEN Valid(c) \cup {c} ELSE Valid(c)
      /\ \A j \in Keys \ {k} : entries'[j] = entries[j]
  BY DecideEntries
<1>5. \A d \in Done : /\ call[d].key \in Keys
                      /\ call[d].rpm \in Int
                      /\ result[d].turn <= turn
                      /\ result[d].turn \in Int
  BY <1>0, Numbers DEF IInv, DoneCalls, Done
<1>6. EntriesFit'
  <2>1. ASSUME NEW j \in Keys \ {k}, entries'[j].timestamps # {}
        PROVE  \E e \in Decided(j)' :
                 Cardinality(entries'[j].timestamps) <= call[e].rpm
    BY <1>3, <1>4, <2>1 DEF ResetInv, EntriesFit
  <2>2. ASSUME entries'[k].timestamps # {}
        PROVE  \E e \in Decided(k)' :
                 Cardinality(entries'[k].timestamps) <= call[e].rpm
    <3>1. CASE result'[c].allowed
      <4>1. Cardinality(Valid(c) \cup {c}) <= Cardinality(Valid(c)) + 1
        <5>1. IsFiniteSet(Valid(c))
          BY <1>1, ValidCalls
        <5>2. Cardinality(Valid(c) \cup {c})
                = IF c \in Valid(c) THEN Cardinality(Valid(c))
                                    ELSE Cardinality(Valid(c)) + 1
          BY <5>1, FS_AddElement
        <5>3. QED
          BY <1>2, <5>2
      <4>2. /\ entries'[k].timestamps = Valid(c) \cup {c}
            /\ Cardinality(Valid(c)) < call[c].rpm
        BY <1>1, <1>4, <3>1
      <4>3. Cardinality(Valid(c) \cup {c}) \in Nat
        <5>1. Valid(c) \cup {c} \in SUBSET Calls
          BY <1>2 DEF Done
        <5>2. QED
          BY <5>1, SomeCalls
      <4>4. Cardinality(entries'[k].timestamps) <= call[c].rpm
        BY <1>2, <4>1, <4>2, <4>3
      <4>5. QED
        BY <1>3, <4>4
    <3>2. CASE ~result'[c].allowed
      <4>1. PICK e \in Decided(k) :
              Cardinality(entries[k].timestamps) <= call[e].rpm
        BY <1>2, <1>4, <2>2, <3>2 DEF ResetInv, EntriesFit
      <4>2. entries'[k].timestamps \in SUBSET entries[k].timestamps
        BY <1>2, <1>4, <3>2
      <4>3. /\ Cardinality(entries'[k].timestamps) \in Nat
            /\ Cardinality(entries[k].timestamps) \in Nat
            /\ Cardinality(entries'[k].timestamps)
                 <= Cardinality(entries[k].timestamps)
        BY <1>2, <4>2, FewerCalls
      <4>4. call[e].rpm \in Int
        BY <1>3, <1>5
      <4>5. Cardinality(entries'[k].timestamps) <= call[e].rpm
        BY <4>1, <4>3, <4>4
      <4>6. QED
        BY <1>3, <4>5
    <3>3. QED
      BY <3>1, <3>2
  <2>3. QED
    BY <1>1, <2>1, <2>2 DEF EntriesFit
<1>7. RefusalsTell'
  <2>1. ASSUME ~result'[c].allowed
        PROVE  \E e \in Decided(k)' : Cardinality(Late(c)') < call[e].rpm
    <3>1. Late(c)' = {m \in Valid(c) : call[m].stamp > result'[c].resetAt - Window}
      BY <1>1, <1>4, <2>1 DEF Late
    <3>2. QED
      BY <1>3, <2>1, <3>1, RefusalTells
  <2>2. ASSUME NEW d \in Done, ~result[d].allowed, call[d].rpm > 0, Unclaimed(d)'
        PROVE  \E e \in Decided(call[d].key)' :
                 Cardinality(Late(d)') < call[e].rpm
    <3>1. Unclaimed(d)
      BY <1>1, <2>2 DEF Unclaimed
    <3>2. PICK e \in Decided(call[d].key) : Cardinality(Late(d)) < call[e].rpm
      BY <2>2, <3>1 DEF ResetInv, RefusalsTell
    <3>3. e \in Decided(call[d].key)' /\ e \in Done
      <4>1. CASE call[d].key = k
        BY <1>1, <1>3, <3>2, <4>1
      <4>2. CASE call[d].key # k
        BY <1>1, <1>3, <1>5, <3>2, <4>2
      <4>3. QED
        BY <4>1, <4>2
    <3>4. entries'[call[d].key].timestamps \subseteq entries[call[d].key].timestamps
      <4>1. CASE call[d].key # k
        BY <1>4, <1>5, <4>1
      <4>2. CASE call[d].key = k
        <5>1. result'[c].turn > result[d].turn
          BY <1>0, <1>1, <1>5, Numbers
        <5>2. ~result'[c].allowed
          BY <1>1, <2>2, <4>2, <5>1 DEF Unclaimed
        <5>3. QED
          BY <1>2, <1>4, <4>2, <5>2
      <4>3. QED
        BY <4>1, <4>2
    <3>5. Late(d)' \in SUBSET Late(d) /\ Late(d) \in SUBSET Calls
      BY <1>0, <1>1, <1>5, <3>4, Numbers DEF Late
    <3>6. /\ Cardinality(Late(d)') <= Cardinality(Late(d))
          /\ Cardinality(Late(d)') \in Nat /\ Cardinality(Late(d)) \in Nat
      BY <3>5, FewerCalls
    <3>7. Cardinality(Late(d)') < call[e].rpm
      BY <1>5, <3>2, <3>3, <3>6
    <3>8. QED
      BY <3>3, <3>7
  <2>3. QED
    BY <1>1, <2>1, <2>2 DEF RefusalsTell
<1>8. ResetAtIsHonoured'
  <2> DEFINE before == {m \in Done' : /\ call'[m].key = call'[c].key
                                      /\ result'[m].turn < result'[c].turn}
  <2>1. ASSUME NEW refused \in before,
               ~result'[refused].allowed,
               \A m \in before : call'[m].rpm = call'[c].rpm,
               call'[c].stamp >= result'[refused].resetAt,
               \A m \in before : result'[m].turn > result'[refused].turn
                                   => ~result'[m].allowed
        PROVE  result'[c].allowed
    <3>1. before = {m \in Done : call[m].key = call[c].key}
      BY <1>0, <1>1, <1>5, Numbers
    <3>2. QED
      BY <1>1, <2>1, <3>1, RetryIsAdmitted
  <2>2. ASSUME NEW refused \in Done'
        PROVE  /\ refused \in before
               /\ ~result'[refused].allowed
               /\ call'[c].rpm > 0
               /\ \A m \in before : call'[m].rpm = call'[c].rpm
               /\ call'[c].stamp >= result'[refused].resetAt
               /\ \A m \in before : result'[m].turn > result'[refused].turn
                                      => ~result'[m].allowed
               => result'[c].allowed
    BY <2>1
  <2>3. QED
    BY <1>1, <2>2, EarlierRetries DEF ResetInv, ResetAtIsHonoured
<1>9. QED
  BY <1>6, <1>7, <1>8 DEF ResetInv

(* The promise of ResetAt (memory.go:85-91) is kept: while the limit of a  *)
(* key does not change, whoever comes back at the ResetAt of a refusal is  *)
(* admitted unless another call took the slot, whatever was evicted or     *)
(* dropped meanwhile.                                                      *)
THEOREM ResetAtIsKept == Spec => []ResetAtIsHonoured
<1>1. Init => ResetInv
  <2> SUFFICES ASSUME Init PROVE ResetInv
    OBVIOUS
  <2>1. Done = {} /\ \A k \in Keys : entries[k].timestamps = {}
    BY DEF Init, Done, NoEntry
  <2>2. QED
    BY <2>1 DEF ResetInv, EntriesFit, RefusalsTell, ResetAtIsHonoured
<1>2. IInv /\ ResetInv /\ [Next]_vars => ResetInv'
  <2> SUFFICES ASSUME IInv, ResetInv, [Next]_vars PROVE ResetInv'
    OBVIOUS
  <2>1. CASE \/ \E c \in Calls : ReadClock(c)
             \/ Cleanup \/ Close \/ LoopReturns \/ Tick \/ UNCHANGED vars
    <3>1. \A k \in Keys : entries'[k].timestamps \subseteq entries[k].timestamps
      BY <2>1 DEF ReadClock, Cleanup, Close, LoopReturns, Tick, vars, NoEntry
    <3>2. QED
      BY <2>1, <3>1, NothingReturned, QuietReset DEF IInv
  <2>2. QED
    BY <2>1, DenyAtOnceReset, DecideReset DEF Next
<1>3. QED
  BY <1>1, <1>2, Invariance, PTL DEF Spec, ResetInv

-----------------------------------------------------------------------------
(* Refinement: MemoryLimiter implements SlidingWindow.  What the entries   *)
(* forgot, by eviction or by cleanup, changes no answer.                   *)

(* Fields of the answers, in terms of the calls.                           *)
LEMMA AnswersOfCalls ==
  /\ DOMAIN Answers = Done
  /\ \A d \in Done : Answers[d] = [key |-> call[d].key, rpm |-> call[d].rpm,
                                   stamp |-> call[d].stamp,
                                   allowed |-> result[d].allowed,
                                   remaining |-> result[d].remaining]
BY DEF Answers

LEMMA SameHistory ==
  ASSUME NEW k \in Keys
  PROVE  Exact!Decided(k) = Decided(k)
BY AnswersOfCalls DEF Exact!Decided, Decided

(* The calls that count for a timestamp in the memory of all answers.      *)
LEMMA RecentOfCalls ==
  ASSUME NEW k \in Keys, NEW stamp \in Int, IInv
  PROVE  Exact!Recent(k, stamp)
           = {d \in Decided(k) : /\ result[d].allowed
                                 /\ call[d].stamp > stamp - Window
                                 /\ ~Stale(d, k)}
<1>1. Decided(k) \subseteq Done
  BY DEF Decided
<1>2. \A d \in Done : call[d].stamp \in Int
  BY Numbers DEF IInv, Done
<1>3. ASSUME NEW d \in Decided(k)
      PROVE  (\A e \in Decided(k) : Answers[d].stamp > Answers[e].stamp - Window)
               <=> ~Stale(d, k)
  BY <1>1, <1>2, AnswersOfCalls, Numbers DEF Stale, IInv
<1>4. \A d \in Decided(k) : /\ Answers[d].allowed = result[d].allowed
                            /\ Answers[d].stamp = call[d].stamp
  BY <1>1, AnswersOfCalls
<1>5. QED
  BY <1>3, <1>4, SameHistory DEF Exact!Recent

(* What a waiting call finds in the entry is what a limiter that forgets   *)
(* nothing would count.                                                    *)
LEMMA ValidIsRecent ==
  ASSUME IInv, NEW c \in Calls, pc[c] = "waiting"
  PROVE  Valid(c) = Exact!Recent(call[c].key, call[c].stamp)
<1> PICK k \in Keys : k = call[c].key
  BY Numbers DEF IInv
<1>1. call[c].stamp \in Int
  BY Numbers DEF IInv
<1>2. ASSUME NEW d \in Valid(c)
      PROVE  /\ d \in Decided(k)
             /\ result[d].allowed
             /\ call[d].stamp > call[c].stamp - Window
             /\ ~Stale(d, k)
  <2>1. /\ d \in Admitted(k)
        /\ ~Stale(d, k)
        /\ call[d].stamp > call[c].stamp - Window
    BY DEF Valid, InWindow, IInv, EntriesAreFresh
  <2>2. d \in Done /\ call[d].key = k /\ result[d].allowed
    BY <2>1 DEF Admitted
  <2>3. call[d].rpm > 0
    BY <2>2 DEF IInv, DoneCalls
  <2>4. QED
    BY <2>1, <2>2, <2>3 DEF Decided
<1>3. ASSUME NEW d \in Decided(k),
             result[d].allowed,
             call[d].stamp > call[c].stamp - Window,
             ~Stale(d, k)
      PROVE  d \in Valid(c)
  <2>1. d \in Admitted(k) /\ call[d].stamp \in Int
    BY <1>3, Numbers DEF IInv, Decided, Admitted, Done
  <2>2. d \in entries[k].timestamps
    BY <1>1, <1>3, <2>1, ForgottenDoNotCount, Numbers DEF IInv
  <2>3. QED
    BY <1>3, <2>2 DEF Valid, InWindow
<1>4. QED
  BY <1>1, <1>2, <1>3, RecentOfCalls

-----------------------------------------------------------------------------
(* The calls that count are finitely many.                                 *)
LEMMA RecentIsFinite ==
  ASSUME NEW k \in Keys, NEW stamp
  PROVE  Cardinality(Exact!Recent(k, stamp)) \in Nat
<1>1. Exact!Recent(k, stamp) \in SUBSET Calls
  BY AnswersOfCalls DEF Exact!Recent, Exact!Decided, Done
<1>2. QED
  BY <1>1, SomeCalls

(* SlidingWindow counts as MemoryLimiter does.                             *)
LEMMA SameCardinality == \A S : Exact!Cardinality(S) = Cardinality(S)
BY Zenon DEF Exact!Cardinality, Cardinality

(* The verdict, by the number of calls that count.                         *)
LEMMA VerdictByCount ==
  ASSUME NEW k \in Keys, NEW rpm \in Int, NEW stamp \in Times,
         NEW count, count = Cardinality(Exact!Recent(k, stamp))
  PROVE  /\ count < rpm =>
              Exact!Verdict(k, rpm, stamp)
                = [key |-> k, rpm |-> rpm, stamp |-> stamp, allowed |-> TRUE,
                   remaining |-> rpm - count - 1]
         /\ ~(count < rpm) =>
              Exact!Verdict(k, rpm, stamp)
                = [key |-> k, rpm |-> rpm, stamp |-> stamp, allowed |-> FALSE,
                   remaining |-> 0]
<1>1. Exact!Verdict(k, rpm, stamp)
        = IF Cardinality(Exact!Recent(k, stamp)) < rpm
          THEN [key |-> k, rpm |-> rpm, stamp |-> stamp, allowed |-> TRUE,
                remaining |-> rpm - Cardinality(Exact!Recent(k, stamp)) - 1]
          ELSE [key |-> k, rpm |-> rpm, stamp |-> stamp, allowed |-> FALSE,
                remaining |-> 0]
  BY SameCardinality DEF Exact!Verdict
<1>2. QED
  BY <1>1

(* A call that returns with the verdict of SlidingWindow is an Answer.     *)
LEMMA ReturnRefines ==
  ASSUME IInv, NEW c \in Calls, DenyAtOnce(c) \/ Decide(c),
         NEW k \in Keys, NEW rpm \in Limits[k], NEW stamp \in Times,
         call'[c] = [key |-> k, rpm |-> rpm, stamp |-> stamp],
         [key |-> k, rpm |-> rpm, stamp |-> stamp,
          allowed |-> result'[c].allowed, remaining |-> result'[c].remaining]
           = Exact!Verdict(k, rpm, stamp)
  PROVE  Exact!Answer(c)
<1>1. /\ c \notin Done
      /\ Done' = Done \cup {c}
      /\ \A d \in Done : call'[d] = call[d] /\ result'[d] = result[d]
  BY OneReturned DEF IInv
<1>2. /\ Answers' = [d \in Done' |->
                       [key |-> call'[d].key, rpm |-> call'[d].rpm,
                        stamp |-> call'[d].stamp,
                        allowed |-> result'[d].allowed,
                        remaining |-> result'[d].remaining]]
  BY DEF Answers
<1>3. /\ c \notin DOMAIN Answers
      /\ DOMAIN Answers' = DOMAIN Answers \cup {c}
  BY <1>1, <1>2, AnswersOfCalls
<1>4. \A d \in DOMAIN Answers : Answers'[d] = Answers[d]
  BY <1>1, <1>2, AnswersOfCalls
<1>5. Answers'[c] = [key |-> k, rpm |-> rpm, stamp |-> stamp,
                     allowed |-> result'[c].allowed,
                     remaining |-> result'[c].remaining]
  BY <1>1, <1>2
<1>6. QED
  BY <1>3, <1>4, <1>5 DEF Exact!Answer

(* A limit that is not positive leaves no room, whatever was admitted.     *)
LEMMA DenyAtOnceRefines ==
  ASSUME IInv, NEW c \in Calls, DenyAtOnce(c)
  PROVE  Exact!Answer(c)
<1>0. TypeOK
  BY DEF IInv
<1> PICK k \in Keys, rpm \in Int :
      /\ rpm \in Limits[k] /\ rpm <= 0
      /\ Enter(c, k, rpm, "done")
      /\ Return(c, FALSE, 0, now + Window)
  BY LimiterAssumption DEF DenyAtOnce
<1>1. /\ call'[c] = [key |-> k, rpm |-> rpm, stamp |-> now]
      /\ now \in Times
  BY <1>0 DEF Enter, TypeOK
<1>2. result'[c].allowed = FALSE /\ result'[c].remaining = 0
  BY <1>0 DEF Return, TypeOK
<1>3. ~(Cardinality(Exact!Recent(k, now)) < rpm)
  BY RecentIsFinite
<1>4. Exact!Verdict(k, rpm, now)
        = [key |-> k, rpm |-> rpm, stamp |-> now, allowed |-> FALSE,
           remaining |-> 0]
  BY <1>1, <1>3, VerdictByCount
<1>5. QED
  BY <1>1, <1>2, <1>4, ReturnRefines

LEMMA DecideRefines ==
  ASSUME IInv, NEW c \in Calls, Decide(c)
  PROVE  Exact!Answer(c)
<1>1. pc[c] = "waiting" /\ call' = call
  BY DecideEffect
<1> PICK k \in Keys, rpm \in Int, stamp \in Times :
      /\ call[c] = [key |-> k, rpm |-> rpm, stamp |-> stamp]
      /\ rpm \in Limits[k]
  <2>1. call[c] \in Call /\ call[c].rpm \in Limits[call[c].key]
    BY <1>1, ValidCalls DEF IInv, WaitingCalls
  <2>2. QED
    BY <2>1 DEF Call
<1>2. Cardinality(Valid(c)) = Cardinality(Exact!Recent(k, stamp))
  BY <1>1, ValidIsRecent
<1> DEFINE count == Cardinality(Valid(c))
<1>3. /\ result'[c].allowed \in BOOLEAN
      /\ result'[c].allowed <=> count < rpm
      /\ count < rpm => result'[c].remaining = rpm - count - 1
      /\ ~(count < rpm) => result'[c].remaining = 0
  <2>1. call[c].rpm = rpm
    OBVIOUS
  <2>2. /\ result'[c].allowed = (count < call[c].rpm)
        /\ result'[c].remaining
             = IF count < call[c].rpm THEN call[c].rpm - count - 1 ELSE 0
    BY DecideEffect
  <2>3. result'[c].allowed \in BOOLEAN
    BY DecideEffect DEF Result
  <2>4. result'[c].allowed <=> count < call[c].rpm
    BY <2>2
  <2>5. QED
    BY <2>1, <2>2, <2>3, <2>4
<1>4. [key |-> k, rpm |-> rpm, stamp |-> stamp,
       allowed |-> result'[c].allowed, remaining |-> result'[c].remaining]
        = Exact!Verdict(k, rpm, stamp)
  <2>1. CASE count < rpm
    <3>1. result'[c].allowed = TRUE /\ result'[c].remaining = rpm - count - 1
      BY <1>3, <2>1
    <3>2. Exact!Verdict(k, rpm, stamp)
            = [key |-> k, rpm |-> rpm, stamp |-> stamp, allowed |-> TRUE,
               remaining |-> rpm - count - 1]
      BY <1>2, <2>1, VerdictByCount
    <3>3. QED
      BY <3>1, <3>2
  <2>2. CASE ~(count < rpm)
    <3>1. result'[c].allowed = FALSE /\ result'[c].remaining = 0
      BY <1>3, <2>2
    <3>2. Exact!Verdict(k, rpm, stamp)
            = [key |-> k, rpm |-> rpm, stamp |-> stamp, allowed |-> FALSE,
               remaining |-> 0]
      BY <1>2, <2>2, VerdictByCount
    <3>3. QED
      BY <3>1, <3>2
  <2>3. QED
    BY <2>1, <2>2
<1>5. QED
  BY <1>1, <1>4, ReturnRefines

(* Reading the clock, cleaning up, closing and waiting answer nobody.      *)
LEMMA QuietRefines ==
  ASSUME IInv,
         \/ \E c \in Calls : ReadClock(c)
         \/ Cleanup \/ Close \/ LoopReturns \/ Tick \/ UNCHANGED vars
  PROVE  Answers' = Answers
<1>1. /\ Done' = Done
      /\ \A d \in Done : call'[d] = call[d] /\ result'[d] = result[d]
  BY NothingReturned DEF IInv
<1>2. QED
  BY <1>1 DEF Answers

LEMMA InitRefines == Init => Exact!WindowInit
BY AnswersOfCalls DEF Init, Done, Exact!WindowInit

(* Every answer of the limiter, under any interleaving of calls and        *)
(* cleanup, is that of a limiter that keeps every admission for ever       *)
(* (memory.go:49-137).                                                     *)
THEOREM LimiterImplementsSlidingWindow == Spec => ImplementsSlidingWindow
<1>1. IInv /\ [Next]_vars => [Exact!WindowNext]_Answers
  BY DenyAtOnceRefines, DecideRefines, QuietRefines DEF Next, Exact!WindowNext
<1>2. QED
  BY <1>1, InitRefines, Invariance, PTL
  DEF Spec, ImplementsSlidingWindow, Exact!WindowSpec

=============================================================================

---------------------------- MODULE MemoryLimiter ----------------------------
(***************************************************************************)
(* MemoryRateLimiter (api/internal/ratelimiter/memory.go): the in-process  *)
(* sliding window limiter.  A call of AllowN reads the clock, then waits   *)
(* for the mutex, then decides, so calls may decide in another order than  *)
(* the one of their timestamps; a goroutine drops idle entries meanwhile.  *)
(***************************************************************************)
EXTENDS Integers, FiniteSets

CONSTANTS
  Keys,              (* "client:<id>" or an IP address.                    *)
  Calls,             (* Calls of AllowN, each made once.                   *)
  Limits,            (* The limits callers may pass for a key: a client's  *)
                     (* is a column an administrator may update.           *)
  Window,            (* windowDuration, in ticks of the model's clock.     *)
  EntryTTL,          (* entryTTL.                                          *)
  CleanupInterval,   (* cleanupInterval.                                   *)
  MaxHold,           (* Longest wait for the mutex; a premise, not code.   *)
  MaxTime            (* Bound on the clock.                                *)

ASSUME LimiterAssumption == /\ Limits \in [Keys -> SUBSET Int]
                            /\ IsFiniteSet(Calls)
                            /\ Window \in Nat \ {0}
                            /\ EntryTTL \in Nat
                            /\ CleanupInterval \in Nat
                            /\ MaxHold \in Nat
                            /\ MaxHold < Window
                            /\ Window + 2 * MaxHold <= EntryTTL + 1
                            /\ MaxHold < CleanupInterval
                            /\ MaxTime \in Nat

VARIABLES
  now,       (* The clock.                                                 *)
  pc,        (* Where each call is.                                        *)
  call,      (* Its key, its limit and the timestamp it read.              *)
  result,    (* What it returned, when, and in which turn.                 *)
  turn,      (* Calls that returned so far.                                *)
  entries,   (* rl.entries.                                                *)
  nextTick,  (* When the ticker fires next.                                *)
  loop       (* The cleanup goroutine.                                     *)

callVars == <<pc, call, result, turn>>
vars == <<now, pc, call, result, turn, entries, nextTick, loop>>

Times == 0..MaxTime

Call == [key : Keys, rpm : Int, stamp : Times]

Result == [allowed : BOOLEAN, remaining : Nat, resetAt : Nat, at : Times,
           turn : Nat]

NoResult == [allowed |-> FALSE, remaining |-> 0, resetAt |-> 0, at |-> 0,
             turn |-> 0]

(* The slice of timestamps is the set of the calls that appended them, in  *)
(* the order of their turns.                                               *)
Entry == [present : BOOLEAN, timestamps : SUBSET Calls, lastSeen : Times]

NoEntry == [present |-> FALSE, timestamps |-> {}, lastSeen |-> 0]

TypeOK ==
  /\ now \in Times
  /\ pc \in [Calls -> {"idle", "waiting", "done"}]
  /\ DOMAIN call = Calls
  /\ \A c \in Calls : pc[c] # "idle" => call[c] \in Call
  /\ result \in [Calls -> Result]
  /\ turn \in Nat
  /\ entries \in [Keys -> Entry]
  /\ nextTick \in Nat
  /\ loop \in {"running", "closing", "returned"}

Init ==
  /\ now = 0
  /\ pc = [c \in Calls |-> "idle"]
  /\ call = [c \in Calls |-> <<>>]
  /\ result = [c \in Calls |-> NoResult]
  /\ turn = 0
  /\ entries = [k \in Keys |-> NoEntry]
  /\ nextTick = CleanupInterval
  /\ loop = "running"

(* A caller calls AllowN, which reads the clock first.                     *)
Enter(c, k, rpm, label) ==
  /\ pc[c] = "idle"
  /\ pc' = [pc EXCEPT ![c] = label]
  /\ call' = [call EXCEPT ![c] = [key |-> k, rpm |-> rpm, stamp |-> now]]

Return(c, allowed, remaining, resetAt) ==
  /\ turn' = turn + 1
  /\ result' = [result EXCEPT ![c] =
                  [allowed |-> allowed, remaining |-> remaining,
                   resetAt |-> resetAt, at |-> now, turn |-> turn + 1]]

-----------------------------------------------------------------------------
(* AllowN.                                                                 *)

(* A limit that is not positive denies at once, without the mutex.         *)
DenyAtOnce(c) ==
  \E k \in Keys : \E rpm \in Limits[k] :
    /\ rpm <= 0
    /\ Enter(c, k, rpm, "done")
    /\ Return(c, FALSE, 0, now + Window)
    /\ UNCHANGED <<now, entries, nextTick, loop>>

(* The clock is read before the mutex is asked for.                        *)
ReadClock(c) ==
  \E k \in Keys : \E rpm \in Limits[k] :
    /\ rpm > 0
    /\ Enter(c, k, rpm, "waiting")
    /\ UNCHANGED <<now, result, turn, entries, nextTick, loop>>

(* Faulty variant: a timestamp on the edge of the window is kept.          *)
InWindowInclusive(ts, stamp) == ts >= stamp - Window

InWindow(ts, stamp) == ts > stamp - Window

Admits(count, rpm) == count < rpm

(* Faulty variant: refused calls are charged as well.                      *)
StampsRefused(valid, allowed, c) == valid \cup {c}

Stamped(valid, allowed, c) == IF allowed THEN valid \cup {c} ELSE valid

(* Faulty variant: a slot is held back for the next request.               *)
RemainingAfterNext(rpm, count) == rpm - (count + 1)

Remaining(rpm, count) == IF rpm > count THEN rpm - count ELSE 0

First(timestamps) ==
  CHOOSE d \in timestamps : \A e \in timestamps : result[d].turn <= result[e].turn

(* The critical section: getOrCreate, eviction, decision, result.          *)
Decide(c) ==
  LET k       == call[c].key
      rpm     == call[c].rpm
      stamp   == call[c].stamp
      valid   == {d \in entries[k].timestamps : InWindow(call[d].stamp, stamp)}
      allowed == Admits(Cardinality(valid), rpm)
      count   == Cardinality(valid) + (IF allowed THEN 1 ELSE 0)
      oldest  == IF valid = {} THEN stamp ELSE call[First(valid)].stamp
  IN  /\ pc[c] = "waiting"
      /\ pc' = [pc EXCEPT ![c] = "done"]
      /\ entries' = [entries EXCEPT ![k] =
                       [present |-> TRUE,
                        timestamps |-> Stamped(valid, allowed, c),
                        lastSeen |-> stamp]]
      /\ Return(c, allowed, Remaining(rpm, count), oldest + Window)
      /\ UNCHANGED <<now, call, nextTick, loop>>

-----------------------------------------------------------------------------
(* The cleanup goroutine.                                                  *)

(* Faulty variants: the age is not looked at; only empty entries go.       *)
AnyEntry(k) == entries[k].present
EmptyEntry(k) == entries[k].present /\ entries[k].timestamps = {}

Idle(k) == entries[k].present /\ entries[k].lastSeen < now - EntryTTL

Cleanup ==
  /\ loop # "returned"
  /\ now >= nextTick
  /\ nextTick' = nextTick + CleanupInterval
  /\ entries' = [k \in Keys |-> IF Idle(k) THEN NoEntry ELSE entries[k]]
  /\ UNCHANGED <<now, callVars, loop>>

(* Later calls of Close do nothing (closeOnce).                            *)
Close == /\ loop = "running"
         /\ loop' = "closing"
         /\ UNCHANGED <<now, callVars, entries, nextTick>>

LoopReturns == /\ loop = "closing"
               /\ loop' = "returned"
               /\ UNCHANGED <<now, callVars, entries, nextTick>>

(* Time passes; no wait for the mutex, a call's or the goroutine's, is     *)
(* longer than MaxHold.                                                    *)
Tick ==
  /\ now < MaxTime
  /\ \A c \in Calls : pc[c] = "waiting" => now < call[c].stamp + MaxHold
  /\ loop # "returned" => now < nextTick + MaxHold
  /\ now' = now + 1
  /\ UNCHANGED <<callVars, entries, nextTick, loop>>

Next ==
  \/ \E c \in Calls : DenyAtOnce(c) \/ ReadClock(c) \/ Decide(c)
  \/ Cleanup \/ Close \/ LoopReturns
  \/ Tick

Spec == Init /\ [][Next]_vars

-----------------------------------------------------------------------------
(* Properties.                                                             *)

Done == {c \in Calls : pc[c] = "done"}

Admitted(k) == {c \in Done : call[c].key = k /\ result[c].allowed}

(* The admissions in the interval of Window - MaxHold that ends with c.    *)
AdmittedBefore(c) ==
  {d \in Admitted(call[c].key) : /\ result[d].turn <= result[c].turn
                                 /\ result[d].at > result[c].at - (Window - MaxHold)}

(* However the calls overtake each other between the clock and the mutex   *)
(* (memory.go:54-57), and whatever cleanup drops (memory.go:128-137), a    *)
(* call is admitted only if the interval of Window - MaxHold that ends     *)
(* with it holds no more admissions than its limit, itself included.       *)
WindowBound ==
  \A c \in Done :
    result[c].allowed => Cardinality(AdmittedBefore(c)) <= call[c].rpm

(* ResetAt is a promise (memory.go:85-91): while the limit of a key does   *)
(* not change, a call whose timestamp is at or after the ResetAt of a      *)
(* refused one is admitted, if no other took the slot in between.          *)
ResetAtIsHonoured ==
  \A refused, retry \in Done :
    LET k == call[retry].key
        before == {m \in Done : /\ call[m].key = k
                                /\ result[m].turn < result[retry].turn}
    IN  /\ refused \in before
        /\ ~result[refused].allowed
        /\ call[retry].rpm > 0
        /\ \A m \in before : call[m].rpm = call[retry].rpm
        /\ call[retry].stamp >= result[refused].resetAt
        /\ \A m \in before : result[m].turn > result[refused].turn
                               => ~result[m].allowed
        => result[retry].allowed

(* While the goroutine runs, an entry outlives its last use by no more     *)
(* than entryTTL and one interval (memory.go:8-11): memory is bounded by   *)
(* the keys seen recently.                                                 *)
IdleEntriesAreDropped ==
  \A k \in Keys :
    loop = "running" /\ entries[k].present =>
      now <= entries[k].lastSeen + EntryTTL + CleanupInterval + MaxHold

(* Evicting timestamps (memory.go:63-70) and dropping entries              *)
(* (memory.go:128-137) go unnoticed: every answer is the one a limiter     *)
(* would give that forgets nothing.                                        *)
Answers ==
  [c \in Done |-> [key |-> call[c].key, rpm |-> call[c].rpm,
                   stamp |-> call[c].stamp, allowed |-> result[c].allowed,
                   remaining |-> result[c].remaining]]

Exact == INSTANCE SlidingWindow WITH answer <- Answers

ImplementsSlidingWindow == Exact!WindowSpec

(* "Sliding windows bound the rate continuously" (design-decisions.md:105):*)
(* where every caller passes the same limit for a key, no Window of the    *)
(* limiter's own timestamps holds more admitted calls than that limit.     *)
BoundedContinuously ==
  \A k \in Keys, t \in -Window..MaxTime : \A rpm \in Limits[k] :
    Limits[k] = {rpm} /\ rpm > 0 =>
      Cardinality({c \in Admitted(k) :
                     t < call[c].stamp /\ call[c].stamp <= t + Window})
        <= rpm

=============================================================================

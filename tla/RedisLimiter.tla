----------------------------- MODULE RedisLimiter -----------------------------
(***************************************************************************)
(* RedisRateLimiter (api/internal/ratelimiter/redis.go): the limiter that  *)
(* the replicas of the service share.  A replica stamps a call with its    *)
(* own clock and sends a script, which Redis runs in one step and expires  *)
(* by its clock.  The client library may send a script again when the      *)
(* connection breaks, and a script given up by its caller may still run.   *)
(***************************************************************************)
EXTENDS Integers, FiniteSets

CONSTANTS
  Replicas,  (* The processes that share one Redis.                        *)
  Skew,      (* How far each replica's clock is ahead of that of Redis.    *)
  Keys,      (* "rate:client:<id>" or "rate:<address>".                    *)
  Calls,     (* Calls of AllowN, each made once.                           *)
  Limits,    (* The limits callers may pass for a key.                     *)
  Window,    (* One minute, in ticks of the model's clock.                 *)
  MaxDelay,  (* Longest time from a call's clock to its end, and to any    *)
             (* run of its script; a premise, not code.                    *)
  MaxFaults, (* Bound on broken connections.                               *)
  MaxTime    (* Bound on the clock.                                        *)

(* Some two clocks are the furthest apart.                                 *)
ASSUME RedisAssumption == /\ Skew \in [Replicas -> Int]
                          /\ \E r, q \in Replicas : \A s, t \in Replicas :
                               Skew[s] - Skew[t] <= Skew[r] - Skew[q]
                          /\ Limits \in [Keys -> SUBSET Int]
                          /\ IsFiniteSet(Calls)
                          /\ Window \in Nat \ {0}
                          /\ MaxDelay \in Nat
                          /\ MaxFaults \in Nat
                          /\ MaxTime \in Nat

VARIABLES
  now,      (* The clock of Redis.                                         *)
  pc,       (* Where each call is.                                         *)
  call,     (* Its replica, key, limit and timestamp.                      *)
  reply,    (* What the last run on a connection still open returned.      *)
  result,   (* What AllowN returned.                                       *)
  zset,     (* The sorted set of each key.                                 *)
  expires,  (* When the key expires (PEXPIRE).                             *)
  strays,   (* Calls with a script under way that nobody waits for.        *)
  charged,  (* When a run last charged a call, -1 if never; history.       *)
  charges,  (* How often runs charged a key; history.                      *)
  faults    (* Broken connections so far.                                  *)

redisVars == <<zset, expires, charged, charges>>
vars == <<now, pc, call, reply, result, redisVars, strays, faults>>

Call == [replica : Replicas, key : Keys, rpm : Int, stamp : Int]

(* What the script returns, and how often the key had been charged then.   *)
Reply == [allowed : BOOLEAN, count : Nat, oldest : Int, charges : Nat]

NoReply == [allowed |-> FALSE, count |-> 0, oldest |-> 0, charges |-> 0]

Result == [allowed : BOOLEAN, remaining : Nat, resetAt : Int]

NoResult == [allowed |-> FALSE, remaining |-> 0, resetAt |-> 0]

TypeOK ==
  /\ now \in 0..MaxTime
  /\ pc \in [Calls -> {"idle", "waiting", "answering", "done", "failed"}]
  /\ DOMAIN call = Calls
  /\ \A c \in Calls : pc[c] # "idle" => call[c] \in Call
  /\ reply \in [Calls -> Reply]
  /\ result \in [Calls -> Result]
  /\ DOMAIN zset = Keys
  /\ \A k \in Keys : \A m \in zset[k] : m.member \in Calls /\ m.score \in Int
  /\ expires \in [Keys -> Int]
  /\ strays \subseteq Calls
  /\ charged \in [Calls -> Int]
  /\ charges \in [Keys -> Nat]
  /\ faults \in 0..MaxFaults

Init ==
  /\ now = 0
  /\ pc = [c \in Calls |-> "idle"]
  /\ call = [c \in Calls |-> <<>>]
  /\ reply = [c \in Calls |-> NoReply]
  /\ result = [c \in Calls |-> NoResult]
  /\ zset = [k \in Keys |-> {}]
  /\ expires = [k \in Keys |-> -1]
  /\ strays = {}
  /\ charged = [c \in Calls |-> -1]
  /\ charges = [k \in Keys |-> 0]
  /\ faults = 0

-----------------------------------------------------------------------------
(* The script.                                                             *)

(* Faulty variant: a member is drawn for every run and not for every call. *)
MemberPerRun(c) == <<c, charges>>

Member(c) == c

(* Faulty variant: ZREMRANGEBYSCORE with an exclusive end.                 *)
InWindowInclusive(score, stamp) == score >= stamp - Window

InWindow(score, stamp) == score > stamp - Window

(* Redis drops a key that it finds expired.                                *)
Stored(k) == IF now > expires[k] THEN {} ELSE zset[k]

Valid(c) == {m \in Stored(call[c].key) : InWindow(m.score, call[c].stamp)}

Admits(c) == Cardinality(Valid(c)) < call[c].rpm

(* Faulty variant: PEXPIRE for a new key only, as TTL-on-create would.     *)
ExpiryOnCreate(c) == IF Valid(c) = {} THEN now + Window ELSE expires[call[c].key]

Expiry(c) == now + Window

(* The sorted set after ZREMRANGEBYSCORE and ZADD.                         *)
Evicted(c) == IF Admits(c)
              THEN Valid(c) \cup {[member |-> Member(c), score |-> call[c].stamp]}
              ELSE Valid(c)

(* One run of the script for c.                                            *)
Script(c) ==
  LET k == call[c].key
  IN  /\ zset' = [zset EXCEPT ![k] = Evicted(c)]
      /\ IF Admits(c)
         THEN /\ expires' = [expires EXCEPT ![k] = Expiry(c)]
              /\ charged' = [charged EXCEPT ![c] = now]
              /\ charges' = [charges EXCEPT ![k] = @ + 1]
         ELSE UNCHANGED <<expires, charged, charges>>

(* The count is incremented for the new member and not taken again.        *)
Returned(c) ==
  [allowed |-> Admits(c),
   count   |-> Cardinality(Valid(c)) + (IF Admits(c) THEN 1 ELSE 0),
   oldest  |-> CHOOSE s \in {m.score : m \in Evicted(c)} :
                 \A m \in Evicted(c) : s <= m.score,
   charges |-> charges'[call[c].key]]

-----------------------------------------------------------------------------
(* AllowN.                                                                 *)

Enter(c, r, k, rpm, label) ==
  /\ pc[c] = "idle"
  /\ pc' = [pc EXCEPT ![c] = label]
  /\ call' = [call EXCEPT ![c] = [replica |-> r, key |-> k, rpm |-> rpm,
                                  stamp |-> now + Skew[r]]]

(* A limit that is not positive denies at once, without Redis.             *)
DenyAtOnce(c) ==
  \E r \in Replicas, k \in Keys : \E rpm \in Limits[k] :
    /\ rpm <= 0
    /\ Enter(c, r, k, rpm, "done")
    /\ result' = [result EXCEPT ![c] = [allowed |-> FALSE, remaining |-> 0,
                                        resetAt |-> now + Skew[r] + Window]]
    /\ UNCHANGED <<now, reply, redisVars, strays, faults>>

(* The replica reads its clock, draws the member and sends the script.     *)
Send(c) ==
  \E r \in Replicas, k \in Keys : \E rpm \in Limits[k] :
    /\ rpm > 0
    /\ Enter(c, r, k, rpm, "waiting")
    /\ UNCHANGED <<now, reply, result, redisVars, strays, faults>>

Run(c) ==
  /\ pc[c] = "waiting"
  /\ pc' = [pc EXCEPT ![c] = "answering"]
  /\ Script(c)
  /\ reply' = [reply EXCEPT ![c] = Returned(c)]
  /\ UNCHANGED <<now, call, result, strays, faults>>

(* Faulty variant: a slot is held back for the next request.               *)
RemainingAfterNext(rpm, count) == rpm - (count + 1)

Remaining(rpm, count) == IF rpm > count THEN rpm - count ELSE 0

Answer(c) ==
  /\ pc[c] = "answering"
  /\ pc' = [pc EXCEPT ![c] = "done"]
  /\ result' = [result EXCEPT ![c] =
                  [allowed |-> reply[c].allowed,
                   remaining |-> Remaining(call[c].rpm, reply[c].count),
                   resetAt |-> reply[c].oldest + Window]]
  /\ UNCHANGED <<now, call, reply, redisVars, strays, faults>>

-----------------------------------------------------------------------------
(* What the network does.                                                  *)

(* The connection breaks before the answer is read: the script or its      *)
(* answer is lost, but a script that left may still arrive.                *)
Breaks(c) ==
  /\ pc[c] \in {"waiting", "answering"}
  /\ faults < MaxFaults
  /\ faults' = faults + 1
  /\ \/ strays' = strays
     \/ pc[c] = "waiting" /\ strays' = strays \cup {c}
  /\ reply' = [reply EXCEPT ![c] = NoReply]
  /\ UNCHANGED <<now, call, result, redisVars>>

(* The client library sends the same script, member and all, once more.    *)
Resend(c) == Breaks(c) /\ pc' = [pc EXCEPT ![c] = "waiting"]

(* It gives up, or the two seconds are over: AllowN returns the error.     *)
Fail(c) == Breaks(c) /\ pc' = [pc EXCEPT ![c] = "failed"]

StrayRuns(c) ==
  /\ c \in strays
  /\ strays' = strays \ {c}
  /\ Script(c)
  /\ UNCHANGED <<now, pc, call, reply, result, faults>>

(* Time passes; MaxDelay after it read the clock a call has returned, as   *)
(* its context of two seconds sees to, and its scripts have all arrived.   *)
Tick ==
  /\ now < MaxTime
  /\ \A c \in Calls :
       pc[c] \in {"waiting", "answering"} \/ c \in strays
         => now < call[c].stamp - Skew[call[c].replica] + MaxDelay
  /\ now' = now + 1
  /\ UNCHANGED <<pc, call, reply, result, redisVars, strays, faults>>

Next ==
  \/ \E c \in Calls : \/ DenyAtOnce(c) \/ Send(c) \/ Run(c) \/ Answer(c)
                      \/ Resend(c) \/ Fail(c) \/ StrayRuns(c)
  \/ Tick

Spec == Init /\ [][Next]_vars

-----------------------------------------------------------------------------
(* Properties.                                                             *)

(* The script of c has just run and was heard.                             *)
Decided(c) == pc[c] = "waiting" /\ pc'[c] = "answering"

Charged(k) == {d \in Calls : charged[d] >= 0 /\ call[d].key = k}

(* How far timestamps may be off the clock of Redis, from each other.      *)
Slack == MaxDelay + (CHOOSE d \in {Skew[r] - Skew[q] : r, q \in Replicas} :
                       \A r, q \in Replicas : Skew[r] - Skew[q] <= d)

(* Whatever the skew of the replicas (redis.go:109), the scripts that come *)
(* late or twice (redis.go:118) and the expiry of keys (redis.go:41), a    *)
(* call is admitted only if no more calls than its limit were charged in   *)
(* the Window less that slack, itself included.                            *)
WindowBound ==
  [][\A c \in Calls :
       Decided(c) /\ reply'[c].allowed =>
         Cardinality({d \in Charged(call[c].key)' :
                        charged'[d] > now - (Window - Slack)}) <= call[c].rpm]_vars

(* A refusal is owed to as many calls as the limit that were charged and   *)
(* are in the window of the refused one: a script sent again takes no      *)
(* second slot, an evicted or expired timestamp none at all.  The call may *)
(* itself be one of them, when an earlier run admitted it unheard.         *)
RefusalIsEarned ==
  [][\A c \in Calls :
       Decided(c) /\ ~reply'[c].allowed =>
         Cardinality({d \in Charged(call[c].key) :
                        InWindow(call[d].stamp, call[c].stamp)}) >= call[c].rpm]_vars

(* ResetAt is a promise across replicas (redis.go:136-141): as long as the *)
(* limit of a key does not change, a call that its own replica stamps at   *)
(* or after the ResetAt of a refused one is admitted, if nobody was        *)
(* charged in between.                                                     *)
ResetAtIsHonoured ==
  [][\A refused, c \in Calls :
       LET k == call[c].key
       IN  /\ Decided(c)
           /\ pc[refused] = "done" /\ ~result[refused].allowed
           /\ call[refused].key = k
           /\ \A d \in Calls : pc[d] # "idle" /\ call[d].key = k
                                => call[d].rpm = call[c].rpm
           /\ charges[k] = reply[refused].charges
           /\ call[c].stamp >= result[refused].resetAt
           => reply'[c].allowed]_vars

=============================================================================

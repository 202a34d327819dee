---------------------------- MODULE SlidingWindow ----------------------------
(***************************************************************************)
(* What a rate limiter promises, without entries, eviction or expiry: the  *)
(* answers it gave are remembered for ever, and a call is admitted if and  *)
(* only if fewer calls than its limit were admitted in the Window that     *)
(* ends with the latest timestamp seen for its key.                        *)
(***************************************************************************)
EXTENDS Integers, FiniteSets

CONSTANTS Keys, Calls, Limits, Window, Times

VARIABLE answer  (* The answers given so far, by call.                     *)

(* The answered calls of a key that were not denied for their limit alone. *)
Decided(k) == {d \in DOMAIN answer : answer[d].key = k /\ answer[d].rpm > 0}

(* The admitted ones among them that count for a call stamped stamp.       *)
Recent(k, stamp) ==
  {d \in Decided(k) :
     /\ answer[d].allowed
     /\ answer[d].stamp > stamp - Window
     /\ \A e \in Decided(k) : answer[d].stamp > answer[e].stamp - Window}

Verdict(k, rpm, stamp) ==
  LET count == Cardinality(Recent(k, stamp))
      left  == rpm - count - 1
  IN  IF count < rpm
      THEN [key |-> k, rpm |-> rpm, stamp |-> stamp, allowed |-> TRUE,
            remaining |-> left]
      ELSE [key |-> k, rpm |-> rpm, stamp |-> stamp, allowed |-> FALSE,
            remaining |-> 0]

WindowInit == DOMAIN answer = {}

(* A call not answered yet gets its verdict; the others keep theirs.       *)
Answer(c) ==
  /\ c \notin DOMAIN answer
  /\ DOMAIN answer' = DOMAIN answer \cup {c}
  /\ \A d \in DOMAIN answer : answer'[d] = answer[d]
  /\ LET given == answer'[c]
     IN  /\ given.key \in Keys
         /\ given.rpm \in Limits[given.key]
         /\ given.stamp \in Times
         /\ given = Verdict(given.key, given.rpm, given.stamp)

WindowNext == \E c \in Calls : Answer(c)

WindowSpec == WindowInit /\ [][WindowNext]_answer

=============================================================================

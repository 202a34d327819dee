---------------------------- MODULE MCRedisLimiter ----------------------------
(***************************************************************************)
(* Instances of RedisLimiter for TLC: two replicas, one of which has a     *)
(* clock that is ahead, and a client whose limit changes between calls.    *)
(***************************************************************************)
EXTENDS RedisLimiter, TLC

CONSTANTS replica1, replica2, client

ClockAhead == [r \in {replica1, replica2} |-> IF r = replica1 THEN 0 ELSE 1]

ChangingLimits == [k \in {client} |-> {0, 1, 2}]

Symmetry == Permutations(Calls)

=============================================================================

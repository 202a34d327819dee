--------------------------- MODULE MCMemoryLimiter ---------------------------
(***************************************************************************)
(* Instances of MemoryLimiter for TLC: an anonymous key, whose limit the   *)
(* configuration sets, and a client whose limit an administrator changes   *)
(* between its calls.  The calls are interchangeable.                      *)
(***************************************************************************)
EXTENDS MemoryLimiter, TLC

CONSTANTS ip, client

ChangingLimits == [k \in {ip, client} |-> IF k = ip THEN {0} ELSE {1, 2}]

FixedLimits == [k \in {ip, client} |-> IF k = ip THEN {2} ELSE {0}]

Symmetry == Permutations(Calls)

=============================================================================

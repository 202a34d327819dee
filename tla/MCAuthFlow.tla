----------------------------- MODULE MCAuthFlow -----------------------------
(***************************************************************************)
(* Instances of AuthFlow for TLC.  Requests and addresses are              *)
(* interchangeable: no definition tells one from another.                  *)
(***************************************************************************)
EXTENDS AuthFlow, TLC

Symmetry == Permutations(Requests) \cup Permutations(Emails)

=============================================================================

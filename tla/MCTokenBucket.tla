---------------------------- MODULE MCTokenBucket ----------------------------
(***************************************************************************)
(* Instances of TokenBucket for TLC: calls are interchangeable.             *)
(***************************************************************************)
EXTENDS TokenBucket, TLC

CallSymmetry == Permutations(Calls)
=============================================================================

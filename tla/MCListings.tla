----------------------------- MODULE MCListings -----------------------------
(* Instances of Listings for TLC. *)
EXTENDS Listings, TLC

\* Writers are interchangeable.
Symmetry == Permutations(Writers)
=============================================================================

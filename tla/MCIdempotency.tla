---------------------------- MODULE MCIdempotency ----------------------------
(***************************************************************************)
(* Instances of Idempotency for TLC.                                        *)
(***************************************************************************)
EXTENDS Idempotency, TLC

CONSTANTS r1, r2, r3, r4, k1, b1, b2

\* A client retries (r1, r2), reuses its key for another body (r3).
RetryKeys == r1 :> k1 @@ r2 :> k1 @@ r3 :> k1
RetryBodies == r1 :> b1 @@ r2 :> b1 @@ r3 :> b2

\* Two attempts at one key, beside a request without a key and a huge one.
MixedKeys == r1 :> k1 @@ r2 :> k1 @@ r3 :> NoKey @@ r4 :> k1
MixedBodies == r1 :> b1 @@ r2 :> b1 @@ r3 :> b1 @@ r4 :> TooLarge
=============================================================================

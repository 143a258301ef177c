---------------------------- MODULE MCIdempotency ----------------------------
(***************************************************************************)
(* Instances of Idempotency: r1 and r2 are the same command sent twice, r3 *)
(* reuses their key for another, and r4 has a key of its own.              *)
(***************************************************************************)
EXTENDS Idempotency, TLC

CONSTANTS r1, r2, r3, r4, k1, k2, order, quote

KeysOfRequests == r1 :> k1 @@ r2 :> k1 @@ r3 :> k1 @@ r4 :> k2

Bodies == r1 :> order @@ r2 :> order @@ r3 :> quote @@ r4 :> order
==============================================================================

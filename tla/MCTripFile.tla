------------------------------ MODULE MCTripFile ------------------------------
(* A pickup and a delivery of two items, one requirement that is presented *)
(* twice and one that is not.                                              *)
EXTENDS TripFile, TLC

TwoStops == [s \in Stops |-> s]

Attempt == [r \in Requirements |-> IF r = "POD" THEN 2 ELSE 0]

(* Planned, loaded, delivered, rejected and damaged of one line. *)
Of(p, l, d, r, h) ==
    [planned |-> p, loaded |-> l, delivered |-> d, rejected |-> r, damaged |-> h, returned |-> 0]

(* All of one item; part of it beside all of the other, with a refusal; a  *)
(* shipment that was short from the origin on; a refused and a lost one;   *)
(* three that are not conserved; and no line at all.                       *)
SomeLines ==
    {[i \in {} |-> Of(0, 0, 0, 0, 0)],
     ("i1" :> Of(2, 2, 2, 0, 0)),
     ("i1" :> Of(2, 2, 1, 1, 0)) @@ ("i2" :> Of(1, 1, 1, 0, 0)),
     ("i1" :> Of(2, 1, 1, 0, 0)),
     ("i1" :> Of(1, 1, 0, 1, 0)) @@ ("i2" :> Of(1, 1, 0, 0, 1)),
     ("i1" :> Of(1, 0, 0, 0, 0)),
     ("i1" :> Of(2, 1, 2, 0, 0)),
     ("i1" :> Of(1, 2, 1, 0, 0)),
     ("i1" :> Of(1, 1, 2, -1, 0))}

SessionSymmetry == Permutations(Sessions) \cup Permutations(Actors)
==============================================================================

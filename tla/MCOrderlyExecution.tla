------------------------- MODULE MCOrderlyExecution --------------------------
(***************************************************************************)
(* The instance of OrderlyExecution: the constants of MCTripExecution and  *)
(* itineraries that pick up before they deliver.                           *)
(***************************************************************************)
EXTENDS MCTripExecution, OrderlyExecution

(* Plan A delivers twice; the others leave stop 2 out and pick up twice. *)
BusyItinerary ==
    [p \in Plans |-> IF p = pA THEN <<"pickup", "delivery", "delivery", "absent">>
                               ELSE <<"pickup", "absent", "delivery", "pickup">>]
==============================================================================

----------------------------- MODULE MCTripRaces -----------------------------
(* The instance of TripRaces: two trips of one order, one at its last      *)
(* delivery when the other is only planned.                                *)
EXTENDS TripRaces, TLC

CONSTANTS t1, t2, d1

OneAhead == t1 :> 1 @@ t2 :> 8

AtRest(t) ==
    /\ trip[t] = Course[Start[t]][1] /\ eventSeq[t] = Start[t]
    /\ \A s \in Sessions : session[s].on # t

(* Released at once, as the course has it, and nobody blocked since. *)
ReleasedSmoothly(t) ==
    /\ \E e \in outbox[t] : e = <<4, "TripReleased">>
    /\ {e \in outbox[t] : e[1] <= 4} = {<<n, Course[n][2]>> : n \in 1 .. 4}
    /\ blocked = {}
    /\ \A s \in Sessions : session[s].command \notin
          {"AssignResources", "ConfirmAssignment", "ReleaseTrip", "BlockResource"}

(***************************************************************************)
(* A bound: the trip ahead goes on when the other has been released        *)
(* smoothly, and before that the other has seven events at most.  The      *)
(* driver of the trip behind is d1, who may be blocked.                    *)
(***************************************************************************)
OneAfterTheOther ==
    /\ driver[t2] # d1
    /\ driver[t1] \in {d1, None}
    /\ ReleasedSmoothly(t1) \/ (AtRest(t2) /\ eventSeq[t1] <= 7)

SessionSymmetry == Permutations(Sessions)
==============================================================================

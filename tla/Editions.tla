------------------------------ MODULE Editions ------------------------------
(***************************************************************************)
(* What publishing promises of the editions of each work: one is in force  *)
(* at a time, the next one replaces it in the same step, and one that was  *)
(* replaced never comes back.  DocumentTemplates implements this.          *)
(***************************************************************************)
CONSTANTS Editions, WorkOf

VARIABLES inForce, retired      \* sets of editions

vars == <<inForce, retired>>

Init == inForce = {} /\ retired = {}

Publish(e) ==
    LET replaced == {f \in inForce : WorkOf[f] = WorkOf[e]}
    IN  /\ e \notin inForce \cup retired
        /\ inForce' = (inForce \ replaced) \cup {e}
        /\ retired' = retired \cup replaced

Next == \E e \in Editions : Publish(e)

Spec == Init /\ [][Next]_vars
==============================================================================

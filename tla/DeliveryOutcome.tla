---------------------------- MODULE DeliveryOutcome ----------------------------
(***************************************************************************)
(* What the quantities of a stop say: domain/delivery.ts.  A line is what  *)
(* was planned, loaded, delivered, rejected, damaged and returned of one   *)
(* item, in units of the sixth decimal (domain/decimal.ts compares and     *)
(* adds such integers).  The lines of a stop are a function from items:    *)
(* the index delivery_line_item_key forbids an item twice.                 *)
(***************************************************************************)
EXTENDS Functions, Integers

OutcomeKinds == {"completed", "partially_completed", "rejected", "failed"}

Line == [planned : Int, loaded : Int, delivered : Int, rejected : Int, damaged : Int,
         returned : Int]

(* validateQuantities: a negative quantity hides the other violations of   *)
(* its line.                                                               *)
Negative(line) == \E amount \in DOMAIN line : line[amount] < 0

Disposed(line) == line.delivered + line.rejected + line.damaged + line.returned

LineViolations(line) ==
    IF Negative(line) THEN {"negative"}
    ELSE {rule \in {"loaded_exceeds_planned", "conservation"} :
             \/ rule = "loaded_exceeds_planned" /\ line.loaded > line.planned
             \/ rule = "conservation" /\ Disposed(line) > line.loaded}

Conserved(lines) == \A i \in DOMAIN lines : LineViolations(lines[i]) = {}

(* sumDecimal over the lines. *)
Total(lines, amount) == SumFunction([i \in DOMAIN lines |-> lines[i][amount]])

(* What deriveDeliveryOutcome and derivePickupOutcome have in common: the  *)
(* amount that moved is measured against the plan.                         *)
Derived(lines, moved) ==
    IF Total(lines, moved) = 0
    THEN IF Total(lines, "rejected") > 0 THEN "rejected" ELSE "failed"
    ELSE IF \A i \in DOMAIN lines : lines[i][moved] = lines[i].planned THEN "completed"
                                                                      ELSE "partially_completed"

(* A mistake in the next definition: the delivery is measured against what *)
(* was loaded.                                                             *)
DeriveDeliveryOutcomeOfLoaded(lines) ==
    Derived([i \in DOMAIN lines |-> [lines[i] EXCEPT !.planned = lines[i].loaded]], "delivered")

DeriveDeliveryOutcome(lines) == Derived(lines, "delivered")

DerivePickupOutcome(lines) == Derived(lines, "loaded")

DeriveOutcome(kind, lines) ==
    IF kind = "pickup" THEN DerivePickupOutcome(lines) ELSE DeriveDeliveryOutcome(lines)

(* assessClosure: a stop without an outcome prevents the close, a          *)
(* requirement without evidence does not.  Completeness is rounded to ten  *)
(* thousandths.                                                            *)
CanClose(unresolved) == unresolved = {}

Whole == 10000

Completeness(satisfied, total) ==
    IF total = 0 THEN Whole ELSE (2 * satisfied * Whole + total) \div (2 * total)
-----------------------------------------------------------------------------
(* What an outcome tells its reader (docs/13 §9): the quantities are       *)
(* conserved; it is complete if something moved and nothing                *)
(* of any line is missing, and then nothing was rejected, damaged or       *)
(* returned where it was delivered; rejected or failed only if nothing     *)
(* moved, by whether the customer refused any; and a shipment that is      *)
(* short from the origin on is never complete for the customer.            *)
OutcomeTells(kind, outcome, lines) ==
    LET moved == IF kind = "pickup" THEN "loaded" ELSE "delivered"
        Something(amount) == \E i \in DOMAIN lines : lines[i][amount] > 0
    IN  /\ \A i \in DOMAIN lines :
               /\ \A amount \in DOMAIN lines[i] : lines[i][amount] >= 0
               /\ lines[i].loaded <= lines[i].planned
               /\ lines[i].delivered + lines[i].rejected + lines[i].damaged + lines[i].returned
                     <= lines[i].loaded
        /\ outcome = "completed" =>
               /\ Something(moved)
               /\ \A i \in DOMAIN lines :
                     /\ lines[i].loaded = lines[i].planned
                     /\ kind = "delivery" => /\ lines[i].delivered = lines[i].planned
                                             /\ lines[i].rejected = 0
                                             /\ lines[i].damaged = 0
                                             /\ lines[i].returned = 0
        /\ outcome = "partially_completed" =>
               /\ Something(moved)
               /\ \E i \in DOMAIN lines : lines[i][moved] < lines[i].planned
        /\ outcome = "rejected" => ~ Something(moved) /\ Something("rejected")
        /\ outcome = "failed" => ~ Something(moved) /\ ~ Something("rejected")
==============================================================================

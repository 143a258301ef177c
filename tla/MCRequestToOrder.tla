-------------------------- MODULE MCRequestToOrder ---------------------------
(* The instance of RequestToOrder: two requests of one customer.            *)
EXTENDS RequestToOrder, TLC

CONSTANTS q1, q2

QuotedTwiceAndOnce == q1 :> 2 @@ q2 :> 1

Price(margin) == [revenue |-> IF margin >= 10 THEN 10 ELSE 9, margin |-> margin]

TwoPrices == {Price(12), Price(8)}

Policy(threshold, makerChecker) ==
    [threshold_pct |-> threshold, requires_maker_checker |-> makerChecker]

ThreePolicies == {Policy(10, TRUE), Policy(15, TRUE), Policy(15, FALSE)}

(* Without a profile, enough for one order. *)
OneOrder == [default_limit |-> 10, block_on_hold |-> TRUE,
             include_uninvoiced_committed |-> TRUE]

(***************************************************************************)
(* A bound: versions, prices, exceptions and policies vary for the first   *)
(* request, and once there is a second one, which shares its credit, both  *)
(* are quoted alike.                                                       *)
(***************************************************************************)
AlikeTogether ==
    request[q2] # None =>
        /\ Len(quotes[q1]) <= 1
        /\ marginPolicy = Policy(10, TRUE)
        /\ \A r \in Requests : \A v \in DOMAIN quotes[r] :
              /\ quotes[r][v].price \in {Price(12), None}
              /\ quotes[r][v].exception = NoException

PeopleSymmetry == Permutations(Actors) \cup Permutations(Sessions)
==============================================================================

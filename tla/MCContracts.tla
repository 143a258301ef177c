----------------------------- MODULE MCContracts -----------------------------
(* Two versions of one contract, two sessions that may overtake each other. *)
EXTENDS Contracts, TLC

OneContract == [v \in Versions |-> CHOOSE c \in Contracts : TRUE]

SessionSymmetry ==
    Permutations(Sessions) \cup Permutations(Versions) \cup Permutations(Signatures)
        \cup Permutations(Actors)
==============================================================================

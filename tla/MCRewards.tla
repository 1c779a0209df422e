----------------------------- MODULE MCRewards ------------------------------
(***************************************************************************)
(* An instance of Rewards: two activations of one deal.                    *)
(***************************************************************************)
EXTENDS RewardsProps, TLC

CONSTANTS d1, a1, a2, p1, p2, y1, y2, r1, r2

SameDeal == [a \in Activations |-> d1]

\* Nothing tells the members of these sets apart.
Symmetry == Permutations(Activations) \cup Permutations(Passes)
            \cup Permutations(Payments) \cup Permutations(Refs)

=============================================================================

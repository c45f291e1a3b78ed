------------------------------ MODULE MCCredit ------------------------------
(* Two commands of two cases for one customer and subscription, and two    *)
(* workers that claim, crash and stall.                                    *)
EXTENDS Credit, TLC

Symmetry == Permutations(Commands) \cup Permutations(Workers)

=============================================================================

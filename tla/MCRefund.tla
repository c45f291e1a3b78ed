------------------------------ MODULE MCRefund ------------------------------
(* Refund on a small instance: two workers, which play a request, the      *)
(* recovery, the reconciler or a webhook as they come.                     *)
EXTENDS Refund, TLC

Symmetry == Permutations(Workers)

=============================================================================

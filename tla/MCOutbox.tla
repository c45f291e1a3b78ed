------------------------------ MODULE MCOutbox ------------------------------
(***************************************************************************)
(* Outbox for TLC.                                                         *)
(***************************************************************************)
EXTENDS Outbox, TLC

\* Runs of deliverOutbox are interchangeable.
Symmetry == Permutations(Workers)

=============================================================================

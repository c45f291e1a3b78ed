--------------------------- MODULE MCCancellation ---------------------------
(* Cancellation on a small instance: two workers, each of which runs the   *)
(* workflow or reconciles as it comes.                                     *)
EXTENDS Cancellation, TLC

=============================================================================

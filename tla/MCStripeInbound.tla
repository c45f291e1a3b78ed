-------------------------- MODULE MCStripeInbound --------------------------
(* A notification that is repeated, two requests that overlap, one sweep.   *)
EXTENDS StripeInbound, TLC

=============================================================================

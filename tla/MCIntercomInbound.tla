------------------------- MODULE MCIntercomInbound -------------------------
(* Two messages, one close, two sweeps and two requests that overlap.       *)
EXTENDS IntercomInbound, TLC

=============================================================================

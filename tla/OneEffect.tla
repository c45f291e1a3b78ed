----------------------------- MODULE OneEffect -----------------------------
(* What is promised of a command that changes something at a provider: it  *)
(* is sent at most once, its verdict is final, and a verdict that nothing   *)
(* happened stays true.                                                     *)
EXTENDS Naturals

CONSTANT Attributed  \* is the effect found again by the identity of the command

VARIABLES sent,      \* requests that may have changed something
          happened,  \* the provider carried one out
          verdict    \* "open", "done", "none" (nothing happened), "doubt" (given up)

Init == sent = 0 /\ happened = FALSE /\ verdict = "open"

Send ==
  /\ sent = 0 /\ verdict # "none"
  /\ sent' = 1 /\ happened' \in BOOLEAN
  /\ UNCHANGED verdict

\* A request that was given up is carried out after all.
Happen ==
  /\ sent = 1 /\ ~happened /\ verdict # "none"
  /\ happened' = TRUE
  /\ UNCHANGED <<sent, verdict>>

\* An effect that is not attributed may be that of somebody else.
Close ==
  /\ verdict = "open" /\ verdict' \in {"done", "none", "doubt"}
  /\ verdict' = "done" => happened \/ ~Attributed
  /\ verdict' = "none" => ~happened
  /\ UNCHANGED <<sent, happened>>

Next == Send \/ Happen \/ Close

Spec == Init /\ [][Next]_<<sent, happened, verdict>>

=============================================================================

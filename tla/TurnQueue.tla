----------------------------- MODULE TurnQueue -----------------------------
(***************************************************************************)
(* What the dispatch rows of one conversation promise, without leases,     *)
(* tokens, attempts, workers or crashes: a queue whose turns are held one  *)
(* at a time, in the order they were written, and are done for good.       *)
(***************************************************************************)
EXTENDS Naturals

CONSTANT MaxTurns  \* bound: customer messages of the conversation

Turns == 1..MaxTurns

\* Per turn: not written yet, waiting in the queue, held by the execution in
\* progress (or by the approval it waits for), or done.
VARIABLE phase

Init == phase = [t \in Turns |-> IF t = 1 THEN "waiting" ELSE "absent"]

\* A message is the next one of the conversation.  It may withdraw the turn
\* held at that moment, whose approval no longer applies.
Write(t) ==
  /\ phase[t] = "absent" /\ \A e \in 1..(t - 1) : phase[e] # "absent"
  /\ \E withdrawn \in SUBSET {e \in Turns : phase[e] = "held"} :
       phase' = [e \in Turns |-> IF e = t THEN "waiting"
                                 ELSE IF e \in withdrawn THEN "done" ELSE phase[e]]

\* Only the oldest turn that is not done can be taken.
Take(t) ==
  /\ phase[t] = "waiting" /\ \A e \in 1..(t - 1) : phase[e] = "done"
  /\ phase' = [phase EXCEPT ![t] = "held"]

Requeue(t) == phase[t] = "held" /\ phase' = [phase EXCEPT ![t] = "waiting"]

Finish(t) == phase[t] = "held" /\ phase' = [phase EXCEPT ![t] = "done"]

Next == \E t \in Turns : Write(t) \/ Take(t) \/ Requeue(t) \/ Finish(t)

Spec == Init /\ [][Next]_phase

=============================================================================

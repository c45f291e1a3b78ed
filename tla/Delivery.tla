------------------------------ MODULE Delivery ------------------------------
(***************************************************************************)
(* What the outbox promises about one conversation at a provider without   *)
(* idempotency keys: queued operations take effect at most once and in the *)
(* order they were queued, one that failed never took effect, and one whose*)
(* effect is in doubt is never tried again and holds back all later ones.  *)
(***************************************************************************)
EXTENDS Naturals

CONSTANT MaxRows  \* bound: operations queued for the conversation

Rows == 1..MaxRows

\* Per operation: absent, queued, done (delivered or withdrawn), failed or
\* doubtful; and how often it took effect.
VARIABLES fate, effects

Init == fate = [i \in Rows |-> "absent"] /\ effects = [i \in Rows |-> 0]

\* One or more operations are appended to the queue.
Queue(new) ==
  /\ new # {} /\ \A i \in new : fate[i] = "absent"
  /\ \A i \in new, e \in Rows : e < i /\ fate[e] = "absent" => e \in new
  /\ fate' = [i \in Rows |-> IF i \in new THEN "queued" ELSE fate[i]]
  /\ UNCHANGED effects

\* The effect of an operation in doubt may still be on its way.
TakeEffect(i) ==
  /\ fate[i] \in {"queued", "doubtful"} /\ effects[i] = 0
  /\ \A e \in 1..(i - 1) : fate[e] = "done"
  /\ effects' = [effects EXCEPT ![i] = 1]
  /\ UNCHANGED fate

\* Operations of a turn that is no longer current are withdrawn together; the
\* ones already under way become doubtful.
Withdraw(gone, doubtful) ==
  /\ \A i \in gone : fate[i] = "queued"
  /\ fate' = [i \in Rows |-> IF i \in doubtful THEN "doubtful"
                             ELSE IF i \in gone THEN "done" ELSE fate[i]]
  /\ UNCHANGED effects

Finish(i) ==
  /\ fate[i] \in {"queued", "doubtful"}
  /\ fate' = [fate EXCEPT ![i] = "done"] /\ UNCHANGED effects

Fail(i) ==
  /\ fate[i] = "queued" /\ effects[i] = 0
  /\ fate' = [fate EXCEPT ![i] = "failed"] /\ UNCHANGED effects

Next ==
  \/ \E i \in Rows : TakeEffect(i) \/ Finish(i) \/ Fail(i)
  \/ \E new \in SUBSET {i \in Rows : fate[i] = "absent"} : Queue(new)
  \/ \E gone \in SUBSET {i \in Rows : fate[i] = "queued"} :
       \E doubtful \in SUBSET gone : Withdraw(gone, doubtful)

Spec == Init /\ [][Next]_<<fate, effects>>

=============================================================================

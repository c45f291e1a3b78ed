----------------------------- MODULE MCDispatch -----------------------------
(***************************************************************************)
(* Dispatch for TLC: the symmetry of the safety runs, and the statement    *)
(* of the repository about the turn queue that its code does not keep.      *)
(***************************************************************************)
EXTENDS Dispatch, TLC

\* Requests are interchangeable, and so are the loops.
Symmetry == Permutations(Handlers) \cup Permutations(Loops)

\* case-store-cases.ts: a pending turn is activated after the prior turn is
\* terminal.  A queued turn is eventually taken, unless a turn before it is
\* suspended for a decision still to be given or still to be carried out.
QueuedTurnIsTaken ==
  \A t \in Turns :
    dstate[t] = "pending" ~>
      \/ dstate[t] # "pending"
      \/ caseStatus = "waiting_approval"
      \/ \E e \in decided : dstate[e] = "suspended"

=============================================================================

--------------------------- MODULE DispatchProofs ---------------------------
(***************************************************************************)
(* Theorems about Dispatch, for any number of turns, requests and loops.   *)
(***************************************************************************)
EXTENDS Dispatch, TLAPS

USE DEF Turns, Workers

-----------------------------------------------------------------------------
(* Type correctness.                                                       *)

\* Taking a lease keeps the types of the dispatch rows.
LEMMA TakeLeaseType ==
  ASSUME LeaseTypeOK, NEW w \in Workers, NEW t \in Turns, NEW n \in 0..1,
         TakeLease(w, t, n)
  PROVE  LeaseTypeOK'
  BY DEF LeaseTypeOK, TakeLease, Holding, Active

\* So does settling a dispatch.
LEMMA SettleLeaseType ==
  ASSUME LeaseTypeOK, NEW t, NEW s \in {"pending"} \cup Holding \cup Settled,
         SettleLease(t, s)
  PROVE  LeaseTypeOK'
  BY DEF LeaseTypeOK, SettleLease

\* And an action that does not touch them.
LEMMA LeaseUnchangedType ==
  ASSUME LeaseTypeOK, UNCHANGED leaseVars
  PROVE  LeaseTypeOK'
  BY DEF LeaseTypeOK, leaseVars

\* Moving a busy actor to another label keeps the types of the actors.
LEMMA GotoType ==
  ASSUME ActorTypeOK, NEW w \in Workers, pc[w] # "idle", NEW label \in PCs,
         Goto(w, label)
  PROVE  ActorTypeOK'
  BY DEF ActorTypeOK, Goto

\* So does giving an actor a turn and a path.
LEMMA BeginType ==
  ASSUME ActorTypeOK, NEW w \in Workers, NEW label \in PCs, NEW t \in Turns,
         NEW path \in {"start", "http", "recovery"}, Begin(w, label, t, path)
  PROVE  ActorTypeOK'
  BY DEF ActorTypeOK, Begin, TurnOutcomes, NoOutcome

\* And what it remembers of an outcome.
LEMMA GotoHoldingType ==
  ASSUME ActorTypeOK, NEW w \in Workers, pc[w] # "idle", NEW label \in PCs,
         NEW o \in TurnOutcomes, GotoHolding(w, label, o)
  PROVE  ActorTypeOK'
  BY DEF ActorTypeOK, GotoHolding

\* And sending it home.
LEMMA GoIdleType ==
  ASSUME ActorTypeOK, NEW w \in Workers, GoIdle(w)
  PROVE  ActorTypeOK'
  BY BoundsAssumption DEF GoIdle, PCs, ActorTypeOK, Begin, TurnOutcomes, NoOutcome

\* An action that leaves the case and the turns alone keeps their types.
LEMMA CaseUnchangedType ==
  ASSUME CaseTypeOK, FlagTypeOK, UNCHANGED <<turns, caseVars, turnVars, decided>>
  PROVE  CaseTypeOK' /\ FlagTypeOK'
<1>1. CaseTypeOK'
  BY DEF CaseTypeOK, caseVars, turnVars
<1>2. FlagTypeOK'
  BY Zenon DEF FlagTypeOK, caseVars
<1> QED
  BY <1>1, <1>2

\* A patched outcome is an outcome.
LEMMA PatchType ==
  ASSUME outcome \in [Turns -> TurnOutcomes], NEW t \in Turns, NEW s \in Statuses,
         NEW f \in Finals \cup {"none"}, PatchOutcome(t, s, f)
  PROVE  outcome' \in [Turns -> TurnOutcomes]
<1>1. [status |-> s, final |-> IF f = "none" THEN outcome[t].final ELSE f] \in TurnOutcomes
  BY DEF TurnOutcomes
<1> QED
  BY <1>1 DEF PatchOutcome

\* So are the outcomes once the displaced turn has kept what the case showed.
LEMMA KeptType ==
  ASSUME CaseTypeOK, KeepDisplaced
  PROVE  outcome' \in [Turns -> TurnOutcomes]
<1>1. CASE activeTurn # 0
  <2>1. activeTurn \in Turns
    BY <1>1, BoundsAssumption DEF CaseTypeOK
  <2> QED
    BY <1>1, <2>1, PatchType DEF KeepDisplaced, CaseTypeOK
<1>2. CASE activeTurn = 0
  BY <1>2 DEF KeepDisplaced, CaseTypeOK
<1> QED
  BY <1>1, <1>2

USE DEF PCs, Claimants, Inspecting, Executing, Running, Resuming, Outcomes

\* Every initial state has the declared types.
LEMMA InitType == Init => TypeOK
<1> SUFFICES ASSUME Init PROVE TypeOK
  OBVIOUS
<1>1. 1 \in Turns /\ 0 \in 0..MaxTurns /\ 0 \in 0..MaxFaults
  BY BoundsAssumption
<1>2. CaseTypeOK /\ faults \in 0..MaxFaults
  BY <1>1 DEF Init, CaseTypeOK, Statuses, TurnOutcomes, NoOutcome
<1>3. FlagTypeOK
  BY Zenon DEF Init, FlagTypeOK
<1>4. LeaseTypeOK /\ run \in [Turns -> Snapshots]
  BY DEF Init, LeaseTypeOK, Snapshots
<1>5. ActorTypeOK
  BY <1>1 DEF Init, ActorTypeOK, TurnOutcomes, NoOutcome
<1> QED
  BY <1>2, <1>3, <1>4, <1>5 DEF TypeOK

\* Every step of every actor keeps the declared types.
LEMMA TypeStep == TypeOK /\ [Next]_vars => TypeOK'
<1> SUFFICES ASSUME TypeOK, [Next]_vars PROVE TypeOK'
  OBVIOUS
<1> USE DEF TypeOK
<1>1. ASSUME NEW h \in Handlers, AppendFollowUp(h) PROVE TypeOK'
  <2>1. turns + 1 \in Turns
    BY <1>1, BoundsAssumption DEF AppendFollowUp, CaseTypeOK
  <2>2. FlagTypeOK'
    BY <1>1, Zenon DEF AppendFollowUp, FlagTypeOK, caseVars
  <2>3. /\ turns' \in Turns /\ decided' \in SUBSET Turns
        /\ outcome' \in [Turns -> TurnOutcomes]
        /\ reply' \in [Turns -> Finals \cup {"none"}]
    BY <1>1, <2>1, KeptType DEF AppendFollowUp, CaseTypeOK
  <2>4. caseStatus' \in Statuses /\ caseReply' \in Finals \cup {"none"}
    BY <1>1 DEF AppendFollowUp, CaseTypeOK, caseVars, Statuses
  <2>5. activeTurn' \in 0..MaxTurns /\ nativeTurn' \in 0..MaxTurns
    BY <1>1, BoundsAssumption DEF AppendFollowUp, CaseTypeOK, caseVars
  <2>6. CaseTypeOK'
    BY <2>3, <2>4, <2>5 DEF CaseTypeOK
  <2>7. LeaseTypeOK'
    BY <1>1 DEF AppendFollowUp, LeaseTypeOK, Holding, Settled
  <2>8. ActorTypeOK'
    BY <1>1, <2>1, BeginType DEF AppendFollowUp
  <2> QED
    BY <1>1, <2>2, <2>6, <2>7, <2>8 DEF AppendFollowUp
<1>2. ASSUME NEW h \in Handlers, ClaimForStart(h) PROVE TypeOK'
  <2>1. CaseTypeOK' /\ FlagTypeOK'
    BY <1>2, CaseUnchangedType DEF ClaimForStart
  <2>2. LeaseTypeOK'
    BY <1>2, LeaseUnchangedType, TakeLeaseType DEF ClaimForStart, ActorTypeOK
  <2>3. ActorTypeOK'
    BY <1>2, GotoType, GoIdleType DEF ClaimForStart
  <2> QED
    BY <1>2, <2>1, <2>2, <2>3 DEF ClaimForStart
<1>3. ASSUME NEW l \in Loops, NEW t \in Turns, SweepExhausted(l, t) PROVE TypeOK'
  <2>1. CaseTypeOK'
    BY <1>3, PatchType DEF SweepExhausted, CaseTypeOK, Statuses, turnVars
  <2>2. FlagTypeOK'
    BY <1>3, Zenon DEF SweepExhausted, FlagTypeOK
  <2>3. LeaseTypeOK'
    BY <1>3, LeaseUnchangedType, SettleLeaseType DEF SweepExhausted, Holding, Settled
  <2>4. ActorTypeOK'
    BY <1>3 DEF SweepExhausted, ActorTypeOK, actorVars
  <2> QED
    BY <1>3, <2>1, <2>2, <2>3, <2>4 DEF SweepExhausted
<1>4. ASSUME NEW l \in Loops, NEW t \in Turns, ClaimSelect(l, t) PROVE TypeOK'
  <2>1. CaseTypeOK' /\ FlagTypeOK'
    BY <1>4, CaseUnchangedType DEF ClaimSelect
  <2>2. LeaseTypeOK'
    BY <1>4 DEF ClaimSelect, LeaseTypeOK
  <2>3. ActorTypeOK'
    BY <1>4, BeginType DEF ClaimSelect, CaseTypeOK
  <2> QED
    BY <1>4, <2>1, <2>2, <2>3 DEF ClaimSelect
<1>5. ASSUME NEW l \in Loops, ClaimUpdate(l) PROVE TypeOK'
  <2>1. CaseTypeOK' /\ FlagTypeOK'
    BY <1>5, CaseUnchangedType DEF ClaimUpdate
  <2>2. LeaseTypeOK'
    BY <1>5, TakeLeaseType DEF ClaimUpdate, LeaseTypeOK, ActorTypeOK
  <2>3. ActorTypeOK'
    BY <1>5, GotoType, GoIdleType DEF ClaimUpdate
  <2> QED
    BY <1>5, <2>1, <2>2, <2>3 DEF ClaimUpdate
<1>6. ASSUME NEW l \in Loops, InspectSnapshot(l) PROVE TypeOK'
  <2>1. CaseTypeOK' /\ FlagTypeOK'
    BY <1>6, CaseUnchangedType DEF InspectSnapshot
  <2>2. LeaseTypeOK'
    BY <1>6, LeaseUnchangedType DEF InspectSnapshot
  <2>3. ActorTypeOK'
    BY <1>6, GotoType DEF InspectSnapshot, Snapshots, ActorTypeOK
  <2> QED
    BY <1>6, <2>1, <2>2, <2>3 DEF InspectSnapshot
<1>7. ASSUME NEW w \in Workers, Activate(w) PROVE TypeOK'
  <2>1. job[w] \in Turns
    BY <1>7 DEF Activate, ActorTypeOK
  <2>2. outcome' \in [Turns -> TurnOutcomes]
    BY <1>7, KeptType DEF Activate, CaseTypeOK
  <2>3. /\ activeTurn' \in 0..MaxTurns /\ nativeTurn' \in 0..MaxTurns
        /\ caseReply' \in Finals \cup {"none"}
    BY <1>7, <2>1, BoundsAssumption DEF Activate, CaseTypeOK
  <2>4. CaseTypeOK'
    BY <1>7, <2>2, <2>3 DEF Activate, CaseTypeOK, Statuses
  <2>5. FlagTypeOK'
    BY <1>7, Zenon DEF Activate, FlagTypeOK
  <2>6. LeaseTypeOK'
    BY <1>7 DEF Activate, LeaseTypeOK, Holding, Active
  <2>7. ActorTypeOK'
    BY <1>7, GotoType, GoIdleType DEF Activate
  <2> QED
    BY <1>7, <2>1, <2>2, <2>3, <2>4, <2>5, <2>6, <2>7 DEF Activate
<1>8. ASSUME NEW w \in Workers, Launch(w) PROVE TypeOK'
  <2>1. CaseTypeOK' /\ FlagTypeOK'
    BY <1>8, CaseUnchangedType DEF Launch
  <2>2. LeaseTypeOK'
    BY <1>8, LeaseUnchangedType DEF Launch
  <2>3. ActorTypeOK'
    BY <1>8, GotoType, GoIdleType DEF Launch
  <2> QED
    BY <1>8, <2>1, <2>2, <2>3 DEF Launch, Snapshots, ActorTypeOK
<1>9. ASSUME NEW w \in Workers, Relaunch(w) PROVE TypeOK'
  <2>1. CaseTypeOK' /\ FlagTypeOK'
    BY <1>9, CaseUnchangedType DEF Relaunch
  <2>2. LeaseTypeOK'
    BY <1>9, LeaseUnchangedType DEF Relaunch
  <2>3. ActorTypeOK'
    BY <1>9, GotoType, GoIdleType DEF Relaunch
  <2> QED
    BY <1>9, <2>1, <2>2, <2>3 DEF Relaunch
<1>10. ASSUME NEW w \in Workers, DraftResponse(w) PROVE TypeOK'
  <2>1. CaseTypeOK'
    BY <1>10 DEF DraftResponse, CaseTypeOK, Statuses, turnVars
  <2>2. FlagTypeOK'
    BY <1>10, Zenon DEF DraftResponse, FlagTypeOK
  <2>3. LeaseTypeOK'
    BY <1>10, LeaseUnchangedType DEF DraftResponse
  <2>4. ActorTypeOK'
    BY <1>10, GotoType DEF DraftResponse, Advance
  <2> QED
    BY <1>10, <2>1, <2>2, <2>3, <2>4 DEF DraftResponse, Snapshots, ActorTypeOK, Advance
<1>11. ASSUME NEW w \in Workers, NothingToApprove(w) PROVE TypeOK'
  <2>1. CaseTypeOK' /\ FlagTypeOK'
    BY <1>11, CaseUnchangedType DEF NothingToApprove
  <2>2. LeaseTypeOK'
    BY <1>11, LeaseUnchangedType DEF NothingToApprove
  <2>3. ActorTypeOK'
    BY <1>11, GotoType DEF NothingToApprove, Advance
  <2> QED
    BY <1>11, <2>1, <2>2, <2>3 DEF NothingToApprove, Snapshots, ActorTypeOK, Advance
<1>12. ASSUME NEW w \in Workers, RecoverDecision(w) PROVE TypeOK'
  <2>1. CaseTypeOK' /\ FlagTypeOK'
    BY <1>12, CaseUnchangedType DEF RecoverDecision
  <2>2. LeaseTypeOK'
    BY <1>12, LeaseUnchangedType DEF RecoverDecision
  <2>3. ActorTypeOK'
    BY <1>12, GotoType DEF RecoverDecision, Advance
  <2> QED
    BY <1>12, <2>1, <2>2, <2>3 DEF RecoverDecision, Snapshots, ActorTypeOK, Advance
<1>13. ASSUME NEW w \in Workers, PrepareCommand(w) PROVE TypeOK'
  <2>1. CaseTypeOK' /\ FlagTypeOK'
    BY <1>13, CaseUnchangedType DEF PrepareCommand
  <2>2. LeaseTypeOK'
    BY <1>13, LeaseUnchangedType DEF PrepareCommand
  <2>3. ActorTypeOK'
    BY <1>13, GotoType, GoIdleType DEF PrepareCommand
  <2> QED
    BY <1>13, <2>1, <2>2, <2>3 DEF PrepareCommand
<1>14. ASSUME NEW w \in Workers, WriteWaiting(w) PROVE TypeOK'
  <2>1. CaseTypeOK'
    BY <1>14 DEF WriteWaiting, CaseTypeOK, Statuses, turnVars, ActorTypeOK
  <2>2. FlagTypeOK'
    BY <1>14, Zenon DEF WriteWaiting, FlagTypeOK
  <2>3. LeaseTypeOK'
    BY <1>14, LeaseUnchangedType DEF WriteWaiting
  <2>4. ActorTypeOK'
    BY <1>14, GotoType, GoIdleType DEF WriteWaiting
  <2> QED
    BY <1>14, <2>1, <2>2, <2>3, <2>4 DEF WriteWaiting
<1>15. ASSUME NEW w \in Workers, SuspendRun(w) PROVE TypeOK'
  <2>1. CaseTypeOK' /\ FlagTypeOK'
    BY <1>15, CaseUnchangedType DEF SuspendRun
  <2>2. LeaseTypeOK'
    BY <1>15, LeaseUnchangedType DEF SuspendRun
  <2>3. ActorTypeOK'
    BY <1>15, GotoType, GoIdleType DEF SuspendRun
  <2> QED
    BY <1>15, <2>1, <2>2, <2>3 DEF SuspendRun, Snapshots, ActorTypeOK
<1>16. ASSUME NEW w \in Workers, AnswerGiven(w) PROVE TypeOK'
  <2>1. CaseTypeOK' /\ FlagTypeOK'
    BY <1>16, CaseUnchangedType DEF AnswerGiven
  <2>2. LeaseTypeOK'
    BY <1>16, LeaseUnchangedType DEF AnswerGiven
  <2>3. ActorTypeOK'
    BY <1>16, GotoType DEF AnswerGiven, Advance
  <2> QED
    BY <1>16, <2>1, <2>2, <2>3 DEF AnswerGiven, Snapshots, ActorTypeOK, Advance
<1>17. ASSUME NEW w \in Workers, NEW s \in Finals, FinalizeCaseAndEnqueue(w, s) PROVE TypeOK'
  <2>1. job[w] \in Turns /\ s \in Statuses
    BY <1>17 DEF FinalizeCaseAndEnqueue, ActorTypeOK, Statuses, Finals
  <2>5. CaseTypeOK'
    BY <1>17, <2>1, PatchType DEF FinalizeCaseAndEnqueue, CaseTypeOK, turnVars
  <2>2. FlagTypeOK'
    BY <1>17, Zenon DEF FinalizeCaseAndEnqueue, FlagTypeOK
  <2>3. LeaseTypeOK'
    BY <1>17, LeaseUnchangedType DEF FinalizeCaseAndEnqueue
  <2>4. ActorTypeOK'
    BY <1>17, GotoType, GoIdleType DEF FinalizeCaseAndEnqueue
  <2> QED
    BY <1>17, <2>2, <2>3, <2>4, <2>5 DEF FinalizeCaseAndEnqueue
<1>18. ASSUME NEW w \in Workers, SucceedRun(w) PROVE TypeOK'
  <2>1. CaseTypeOK' /\ FlagTypeOK'
    BY <1>18, CaseUnchangedType DEF SucceedRun
  <2>2. LeaseTypeOK'
    BY <1>18, LeaseUnchangedType DEF SucceedRun
  <2>3. ActorTypeOK'
    BY <1>18, GotoType, GoIdleType DEF SucceedRun
  <2> QED
    BY <1>18, <2>1, <2>2, <2>3 DEF SucceedRun, Snapshots, ActorTypeOK
<1>19. ASSUME NEW w \in Workers, FailRun(w) PROVE TypeOK'
  <2>1. CaseTypeOK' /\ FlagTypeOK'
    BY <1>19, CaseUnchangedType DEF FailRun
  <2>2. LeaseTypeOK'
    BY <1>19, LeaseUnchangedType DEF FailRun
  <2>3. ActorTypeOK'
    BY <1>19, GotoType, GoIdleType DEF FailRun
  <2> QED
    BY <1>19, <2>1, <2>2, <2>3 DEF FailRun, Snapshots, ActorTypeOK
<1>20. ASSUME NEW w \in Workers, RunRejects(w) PROVE TypeOK'
  <2>1. CaseTypeOK' /\ FlagTypeOK'
    BY <1>20, CaseUnchangedType DEF RunRejects
  <2>2. LeaseTypeOK'
    BY <1>20, LeaseUnchangedType DEF RunRejects
  <2>3. ActorTypeOK'
    BY <1>20, GotoType DEF RunRejects, ActorTypeOK
  <2> QED
    BY <1>20, <2>1, <2>2, <2>3 DEF RunRejects
<1>21. ASSUME NEW w \in Workers, CompleteDispatch(w) PROVE TypeOK'
  <2>1. CaseTypeOK' /\ FlagTypeOK'
    BY <1>21, CaseUnchangedType DEF CompleteDispatch
  <2>2. LeaseTypeOK'
    BY <1>21, LeaseUnchangedType, SettleLeaseType DEF CompleteDispatch, Complete, Holding, Settled
  <2>3. ActorTypeOK'
    BY <1>21, GoIdleType DEF CompleteDispatch, Complete
  <2> QED
    BY <1>21, <2>1, <2>2, <2>3 DEF CompleteDispatch
<1>22. ASSUME NEW w \in Workers, RetryDispatch(w) PROVE TypeOK'
  <2>1. CaseTypeOK' /\ FlagTypeOK'
    BY <1>22, CaseUnchangedType DEF RetryDispatch
  <2>2. LeaseTypeOK'
    BY <1>22, LeaseUnchangedType, SettleLeaseType DEF RetryDispatch, Holding, Settled
  <2>3. ActorTypeOK'
    BY <1>22, GotoType, GoIdleType DEF RetryDispatch
  <2> QED
    BY <1>22, <2>1, <2>2, <2>3 DEF RetryDispatch
<1>23. ASSUME NEW w \in Workers, FailDispatchAndCase(w) PROVE TypeOK'
  <2>5. job[w] \in Turns
    BY <1>23 DEF FailDispatchAndCase, ActorTypeOK
  <2>1. CaseTypeOK'
    BY <1>23, <2>5, PatchType DEF FailDispatchAndCase, CaseTypeOK, Statuses, turnVars
  <2>2. FlagTypeOK'
    BY <1>23, Zenon DEF FailDispatchAndCase, FlagTypeOK
  <2>3. LeaseTypeOK'
    BY <1>23, LeaseUnchangedType, SettleLeaseType DEF FailDispatchAndCase, Holding, Settled
  <2>4. ActorTypeOK'
    BY <1>23, GotoType, GoIdleType DEF FailDispatchAndCase
  <2> QED
    BY <1>23, <2>1, <2>2, <2>3, <2>4 DEF FailDispatchAndCase
<1>24. ASSUME NEW w \in Workers, Abandon(w) PROVE TypeOK'
  <2>1. CaseTypeOK' /\ FlagTypeOK'
    BY <1>24, CaseUnchangedType DEF Abandon
  <2>2. LeaseTypeOK'
    BY <1>24, LeaseUnchangedType DEF Abandon
  <2>3. ActorTypeOK'
    BY <1>24, GotoType, GoIdleType DEF Abandon
  <2> QED
    BY <1>24, <2>1, <2>2, <2>3 DEF Abandon
<1>25. ASSUME NEW h \in Handlers, ReviewCase(h) PROVE TypeOK'
  <2>1. CaseTypeOK' /\ FlagTypeOK'
    BY <1>25, CaseUnchangedType DEF ReviewCase
  <2>2. LeaseTypeOK'
    BY <1>25, LeaseUnchangedType DEF ReviewCase
  <2>3. ActorTypeOK'
    BY <1>25, BeginType DEF ReviewCase, CaseTypeOK
  <2> QED
    BY <1>25, <2>1, <2>2, <2>3 DEF ReviewCase
<1>26. ASSUME NEW h \in Handlers, RecordApprovalDecision(h) PROVE TypeOK'
  <2>1. job[h] \in Turns
    BY <1>26 DEF RecordApprovalDecision, ActorTypeOK
  <2>2. CaseTypeOK'
    BY <1>26, <2>1 DEF RecordApprovalDecision, CaseTypeOK, Statuses, turnVars
  <2>3. FlagTypeOK'
    BY <1>26, Zenon DEF RecordApprovalDecision, FlagTypeOK
  <2>4. LeaseTypeOK'
    BY <1>26, LeaseUnchangedType DEF RecordApprovalDecision
  <2>5. ActorTypeOK'
    BY <1>26, GotoType, GoIdleType DEF RecordApprovalDecision
  <2> QED
    BY <1>26, <2>1, <2>2, <2>3, <2>4, <2>5 DEF RecordApprovalDecision
<1>27. ASSUME NEW h \in Handlers, ClaimForResume(h) PROVE TypeOK'
  <2>1. CaseTypeOK' /\ FlagTypeOK'
    BY <1>27, CaseUnchangedType DEF ClaimForResume
  <2>2. LeaseTypeOK'
    BY <1>27, LeaseUnchangedType, TakeLeaseType DEF ClaimForResume, ActorTypeOK
  <2>3. ActorTypeOK'
    BY <1>27, GotoType, GoIdleType DEF ClaimForResume
  <2> QED
    BY <1>27, <2>1, <2>2, <2>3 DEF ClaimForResume
<1>28. ASSUME NEW l \in Loops, NEW t \in Turns, ClaimDecided(l, t) PROVE TypeOK'
  <2>1. CaseTypeOK' /\ FlagTypeOK'
    BY <1>28, CaseUnchangedType DEF ClaimDecided
  <2>2. LeaseTypeOK'
    BY <1>28, LeaseUnchangedType, TakeLeaseType DEF ClaimDecided, ActorTypeOK
  <2>3. ActorTypeOK'
    BY <1>28, BeginType DEF ClaimDecided, CaseTypeOK
  <2> QED
    BY <1>28, <2>1, <2>2, <2>3 DEF ClaimDecided
<1>29. ASSUME NEW w \in Workers, ResumeNativeTool(w) PROVE TypeOK'
  <2>1. CaseTypeOK' /\ FlagTypeOK'
    BY <1>29, CaseUnchangedType DEF ResumeNativeTool
  <2>2. LeaseTypeOK'
    BY <1>29, LeaseUnchangedType DEF ResumeNativeTool
  <2>3. ActorTypeOK'
    BY <1>29, GotoType, GoIdleType DEF ResumeNativeTool
  <2> QED
    BY <1>29, <2>1, <2>2, <2>3 DEF ResumeNativeTool
<1>30. ASSUME NEW w \in Workers, ResumeRun(w) PROVE TypeOK'
  <2>1. CaseTypeOK'
    BY <1>30 DEF ResumeRun, CaseTypeOK, Statuses, turnVars
  <2>2. FlagTypeOK'
    BY <1>30, Zenon DEF ResumeRun, FlagTypeOK
  <2>3. LeaseTypeOK'
    BY <1>30, LeaseUnchangedType DEF ResumeRun
  <2>4. ActorTypeOK'
    BY <1>30, GotoType, GoIdleType DEF ResumeRun
  <2> QED
    BY <1>30, <2>1, <2>2, <2>3, <2>4 DEF ResumeRun, Snapshots, ActorTypeOK
<1>31. ASSUME NEW w \in Workers, Crash(w) PROVE TypeOK'
  <2>1. CaseTypeOK' /\ FlagTypeOK'
    BY <1>31, CaseUnchangedType DEF Crash
  <2>2. LeaseTypeOK'
    BY <1>31 DEF Crash, LeaseTypeOK
  <2>3. ActorTypeOK'
    BY <1>31, GotoType, GoIdleType DEF Crash
  <2>4. faults' \in 0..MaxFaults
    BY <1>31, BoundsAssumption DEF Crash
  <2> QED
    BY <1>31, <2>1, <2>2, <2>3, <2>4 DEF Crash
<1>32. ASSUME NEW t \in Turns, Stall(t) PROVE TypeOK'
  <2>1. CaseTypeOK' /\ FlagTypeOK'
    BY <1>32, CaseUnchangedType DEF Stall
  <2>2. LeaseTypeOK'
    BY <1>32 DEF Stall, LeaseTypeOK
  <2>3. ActorTypeOK'
    BY <1>32 DEF Stall, ActorTypeOK, actorVars
  <2>4. faults' \in 0..MaxFaults
    BY <1>32, BoundsAssumption DEF Stall
  <2> QED
    BY <1>32, <2>1, <2>2, <2>3, <2>4 DEF Stall
<1>33. ASSUME NEW t \in Turns, OrphanExpires(t) PROVE TypeOK'
  <2>1. CaseTypeOK' /\ FlagTypeOK'
    BY <1>33, CaseUnchangedType DEF OrphanExpires
  <2>2. LeaseTypeOK'
    BY <1>33 DEF OrphanExpires, LeaseTypeOK
  <2>3. ActorTypeOK'
    BY <1>33 DEF OrphanExpires, ActorTypeOK, actorVars
  <2> QED
    BY <1>33, <2>1, <2>2, <2>3 DEF OrphanExpires
<1>35. ASSUME NEW l \in Loops, InspectCase(l) PROVE TypeOK'
  <2>1. CaseTypeOK' /\ FlagTypeOK'
    BY <1>35, CaseUnchangedType DEF InspectCase
  <2>2. LeaseTypeOK'
    BY <1>35, LeaseUnchangedType DEF InspectCase
  <2>3. ActorTypeOK'
    BY <1>35, GotoType DEF InspectCase, ActorTypeOK
  <2> QED
    BY <1>35, <2>1, <2>2, <2>3 DEF InspectCase
<1>36. ASSUME NEW l \in Loops, RecoveryThrows(l) PROVE TypeOK'
  <2>1. CaseTypeOK' /\ FlagTypeOK'
    BY <1>36, CaseUnchangedType DEF RecoveryThrows
  <2>2. LeaseTypeOK'
    BY <1>36, LeaseUnchangedType DEF RecoveryThrows
  <2>3. ActorTypeOK'
    BY <1>36, GotoType DEF RecoveryThrows
  <2> QED
    BY <1>36, <2>1, <2>2, <2>3 DEF RecoveryThrows
<1>37. ASSUME NEW w \in Workers, RecordTrace(w) PROVE TypeOK'
  <2>1. CaseTypeOK' /\ FlagTypeOK'
    BY <1>37, CaseUnchangedType DEF RecordTrace
  <2>2. LeaseTypeOK'
    BY <1>37, LeaseUnchangedType DEF RecordTrace
  <2>3. ActorTypeOK'
    BY <1>37, GotoType DEF RecordTrace
  <2> QED
    BY <1>37, <2>1, <2>2, <2>3 DEF RecordTrace
<1>38. ASSUME NEW w \in Workers, ReadOutcome(w) PROVE TypeOK'
  <2>1. CaseTypeOK' /\ FlagTypeOK'
    BY <1>38, CaseUnchangedType DEF ReadOutcome
  <2>2. LeaseTypeOK'
    BY <1>38, LeaseUnchangedType DEF ReadOutcome
  <2>3. ActorTypeOK'
    BY <1>38, GotoHoldingType DEF ReadOutcome, ActorTypeOK, CaseTypeOK
  <2> QED
    BY <1>38, <2>1, <2>2, <2>3 DEF ReadOutcome
<1>39. ASSUME NEW w \in Workers, RecordTurnTelemetry(w) PROVE TypeOK'
  <2>1. CaseTypeOK'
    BY <1>39 DEF RecordTurnTelemetry, CaseTypeOK, ActorTypeOK, caseVars
  <2>2. FlagTypeOK'
    BY <1>39, Zenon DEF RecordTurnTelemetry, FlagTypeOK, caseVars
  <2>3. LeaseTypeOK'
    BY <1>39, LeaseUnchangedType DEF RecordTurnTelemetry
  <2>4. ActorTypeOK'
    BY <1>39, GotoHoldingType DEF RecordTurnTelemetry, TurnOutcomes, NoOutcome
  <2> QED
    BY <1>39, <2>1, <2>2, <2>3, <2>4 DEF RecordTurnTelemetry
<1>40. ASSUME NEW w \in Workers, CloseFailedAttempt(w) PROVE TypeOK'
  <2>1. CaseTypeOK' /\ FlagTypeOK'
    BY <1>40, CaseUnchangedType DEF CloseFailedAttempt
  <2>2. LeaseTypeOK'
    BY <1>40, LeaseUnchangedType DEF CloseFailedAttempt
  <2>3. ActorTypeOK'
    BY <1>40, GotoType DEF CloseFailedAttempt
  <2> QED
    BY <1>40, <2>1, <2>2, <2>3 DEF CloseFailedAttempt, Snapshots, ActorTypeOK
<1>34. CASE UNCHANGED vars
  <2>1. UNCHANGED <<turns, caseVars, turnVars, decided>>
    BY <1>34 DEF vars
  <2>2. UNCHANGED <<leaseVars, run, actorVars, faults>>
    BY <1>34 DEF vars
  <2> QED
    BY <2>1, <2>2, CaseUnchangedType, LeaseUnchangedType DEF ActorTypeOK, actorVars
<1> QED
  BY <1>1, <1>2, <1>3, <1>4, <1>5, <1>6, <1>7, <1>8, <1>9, <1>10, <1>11,
     <1>12, <1>13, <1>14, <1>15, <1>16, <1>17, <1>18, <1>19, <1>20, <1>21,
     <1>22, <1>23, <1>24, <1>25, <1>26, <1>27, <1>28, <1>29, <1>30, <1>31,
     <1>32, <1>33, <1>34, <1>35, <1>36, <1>37, <1>38, <1>39, <1>40
  DEF Next, HandlerStep, Recover, LoopStep, Proceed, WorkflowStep

\* In every reachable state every variable has its declared type.
THEOREM TypeCorrect == Spec => []TypeOK
  BY InitType, TypeStep, PTL DEF Spec

-----------------------------------------------------------------------------
(* The inductive invariant behind the queue and the attempts.              *)

\* Exactly the turns not written yet have no dispatch row, and the rows are
\* taken in order.
QueueInv ==
  /\ \A t \in Turns : dstate[t] = "absent" <=> t > turns
  /\ TurnsAreSerial

\* A row that can still be claimed has an attempt left.  So has the row of a
\* loop whose SELECT saw an expired lease, as long as nobody renews the lease:
\* the UPDATE does not look at the attempts again.
AttemptsInv ==
  /\ AttemptsAreBounded
  /\ \A t \in Turns :
       /\ dstate[t] = "absent" => attempts[t] = 0
       /\ dstate[t] = "pending" => attempts[t] < MaxAttempts
  /\ \A l \in seenExpired : pc[l] = "selected" /\ attempts[job[l]] < MaxAttempts

IInv == TypeOK /\ QueueInv /\ AttemptsInv /\ ProjectionFollowsDispatch

-----------------------------------------------------------------------------
(* How a step can move a dispatch row.                                     *)

\* A queued row is claimed.
ClaimsPending(t) ==
  /\ dstate[t] = "pending" /\ NoOtherHolding(t) /\ NoEarlierPending(t)
  /\ dstate' = [dstate EXCEPT ![t] = "claimed"]

\* A row already held is taken over, started, requeued, suspended or settled.
MovesHeld(t) ==
  /\ dstate[t] \in Holding
  /\ \E s \in {"pending"} \cup Holding \cup Settled : dstate' = [dstate EXCEPT ![t] = s]

RowMove ==
  \/ UNCHANGED dstate
  \/ \E t \in Turns : ClaimsPending(t) \/ MovesHeld(t)

\* Every step other than the arrival of a message moves at most one row, from
\* the queue into a claim or from one that is held.
LEMMA RowMoves ==
  ASSUME TypeOK, [Next]_vars
  PROVE  (UNCHANGED turns /\ RowMove) \/ \E h \in Handlers : AppendFollowUp(h)
<1> USE DEF TypeOK, RowMove
<1>1. ASSUME NEW h \in Handlers, ClaimForStart(h) PROVE UNCHANGED turns /\ RowMove
  <2>1. job[h] \in Turns
    BY <1>1 DEF ClaimForStart, ActorTypeOK
  <2> QED
    BY <1>1, <2>1 DEF ClaimForStart, ClaimsPending, TakeLease, leaseVars
<1>2. ASSUME NEW l \in Loops, NEW t \in Turns, SweepExhausted(l, t)
      PROVE  UNCHANGED turns /\ RowMove
  BY <1>2 DEF SweepExhausted, MovesHeld, SettleLease, Exhausted, LeaseExpired, Holding, Settled
<1>3. ASSUME NEW l \in Loops, ClaimUpdate(l) PROVE UNCHANGED turns /\ RowMove
  <2>1. job[l] \in Turns
    BY <1>3 DEF ClaimUpdate, ActorTypeOK
  <2> QED
    BY <1>3, <2>1 DEF ClaimUpdate, ClaimsPending, MovesHeld, TakeLease, LeaseExpired, Holding, Active
<1>4. ASSUME NEW w \in Workers, Activate(w) PROVE UNCHANGED turns /\ RowMove
  BY <1>4 DEF Activate, Owns, MovesHeld, Holding, Active
<1>5. ASSUME NEW w \in Workers, CompleteDispatch(w) PROVE UNCHANGED turns /\ RowMove
  BY <1>5 DEF CompleteDispatch, Complete, OwnsLive, Owns, MovesHeld, SettleLease, leaseVars,
              Holding, Settled
<1>6. ASSUME NEW w \in Workers, RetryDispatch(w) PROVE UNCHANGED turns /\ RowMove
  BY <1>6 DEF RetryDispatch, Owns, MovesHeld, SettleLease, leaseVars, Holding
<1>7. ASSUME NEW w \in Workers, FailDispatchAndCase(w) PROVE UNCHANGED turns /\ RowMove
  BY <1>7 DEF FailDispatchAndCase, OwnsLive, Owns, MovesHeld, SettleLease, leaseVars, Holding,
              Settled
<1>8. ASSUME NEW h \in Handlers, ClaimForResume(h) PROVE UNCHANGED turns /\ RowMove
  <2>1. job[h] \in Turns
    BY <1>8 DEF ClaimForResume, ActorTypeOK
  <2> QED
    BY <1>8, <2>1 DEF ClaimForResume, Resumable, MovesHeld, TakeLease, leaseVars, Holding, Active
<1>9. ASSUME NEW l \in Loops, NEW t \in Turns, ClaimDecided(l, t)
      PROVE  UNCHANGED turns /\ RowMove
  BY <1>9 DEF ClaimDecided, Resumable, MovesHeld, TakeLease, Holding, Active
<1>10. CASE \E w \in Workers :
              \/ WorkflowStep(w) \/ Abandon(w) \/ ResumeNativeTool(w) \/ CloseFailedAttempt(w)
              \/ ResumeRun(w) \/ Crash(w)
  BY <1>10 DEF WorkflowStep, Launch, Relaunch, RecordTrace, ReadOutcome, RecordTurnTelemetry,
     CloseFailedAttempt, DraftResponse, NothingToApprove, RecoverDecision,
     PrepareCommand, WriteWaiting, SuspendRun, AnswerGiven, FinalizeCaseAndEnqueue, SucceedRun,
     FailRun, RunRejects, Abandon, ResumeNativeTool, ResumeRun, Crash, leaseVars
<1>11. CASE \/ \E h \in Handlers : ReviewCase(h) \/ RecordApprovalDecision(h)
            \/ \E l \in Loops : \/ \E t \in Turns : ClaimSelect(l, t)
                               \/ InspectCase(l) \/ InspectSnapshot(l) \/ RecoveryThrows(l)
            \/ \E t \in Turns : Stall(t) \/ OrphanExpires(t)
            \/ UNCHANGED vars
  BY <1>11 DEF ReviewCase, RecordApprovalDecision, ClaimSelect, InspectCase, InspectSnapshot,
     RecoveryThrows, Stall,
     OrphanExpires, vars, leaseVars
<1> QED
  BY <1>1, <1>2, <1>3, <1>4, <1>5, <1>6, <1>7, <1>8, <1>9, <1>10, <1>11
  DEF Next, HandlerStep, Recover, LoopStep, Proceed

-----------------------------------------------------------------------------
(* Turns are serial.                                                       *)

\* The queue invariant holds of the one turn of an initial state.
LEMMA InitQueue == Init => QueueInv
  BY DEF Init, QueueInv, TurnsAreSerial, Holding, Active, Settled

\* Every step keeps the rows in order.
LEMMA QueueStep == TypeOK /\ QueueInv /\ [Next]_vars => QueueInv'
<1> SUFFICES ASSUME TypeOK, QueueInv, [Next]_vars PROVE QueueInv'
  OBVIOUS
<1> USE DEF QueueInv, TurnsAreSerial, Holding, Active, Settled
<1>1. dstate \in [Turns -> {"absent", "pending"} \cup Holding \cup Settled] /\ turns \in Turns
  BY DEF TypeOK, LeaseTypeOK, CaseTypeOK
<1>2. CASE UNCHANGED <<turns, dstate>>
  BY <1>2
<1>3. ASSUME NEW t \in Turns, ClaimsPending(t), UNCHANGED turns PROVE QueueInv'
  BY <1>1, <1>3 DEF ClaimsPending, NoOtherHolding, NoEarlierPending
<1>4. ASSUME NEW t \in Turns, MovesHeld(t), UNCHANGED turns PROVE QueueInv'
  BY <1>1, <1>4 DEF MovesHeld
<1>5. ASSUME NEW h \in Handlers, AppendFollowUp(h) PROVE QueueInv'
  BY <1>1, <1>5, BoundsAssumption DEF AppendFollowUp
<1> QED
  BY <1>2, <1>3, <1>4, <1>5, RowMoves DEF RowMove

\* For any number of turns, requests, loops, crashes and stalls, turns are
\* executed one at a time in the order they were written, and an actor that is
\* not idle works on a turn.
THEOREM Serial == Spec => []QueueIsSerial
<1>1. Init => TypeOK /\ QueueInv
  BY InitType, InitQueue
<1>2. TypeOK /\ QueueInv /\ [Next]_vars => TypeOK' /\ QueueInv'
  BY TypeStep, QueueStep
<1>3. TypeOK /\ QueueInv => QueueIsSerial
  BY DEF QueueInv, QueueIsSerial
<1> QED
  BY <1>1, <1>2, <1>3, PTL DEF Spec

\* A settled row is never moved again, by any actor.
THEOREM SettledForGood == Spec => SettledStaysSettled
<1>1. ASSUME TypeOK, QueueInv, [Next]_vars
      PROVE  \A t \in Turns : dstate[t] \in Settled => dstate'[t] = dstate[t]
  <2>1. dstate \in [Turns -> {"absent", "pending"} \cup Holding \cup Settled]
    BY <1>1 DEF TypeOK, LeaseTypeOK
  <2>2. CASE RowMove
    BY <2>1, <2>2 DEF RowMove, ClaimsPending, MovesHeld, Holding, Active, Settled
  <2>3. ASSUME NEW h \in Handlers, AppendFollowUp(h)
        PROVE  \A t \in Turns : dstate[t] \in Settled => dstate'[t] = dstate[t]
    BY <1>1, <2>1, <2>3, BoundsAssumption
    DEF AppendFollowUp, QueueInv, TypeOK, CaseTypeOK, Settled
  <2> QED
    BY <1>1, <2>2, <2>3, RowMoves
<1>2. Init => TypeOK /\ QueueInv
  BY InitType, InitQueue
<1>3. TypeOK /\ QueueInv /\ [Next]_vars => TypeOK' /\ QueueInv'
  BY TypeStep, QueueStep
<1>4. TypeOK /\ QueueInv /\ [Next]_vars
        => [\A t \in Turns : dstate[t] \in Settled => dstate'[t] = dstate[t]]_vars
  BY <1>1
<1> QED
  BY <1>2, <1>3, <1>4, PTL DEF Spec, SettledStaysSettled

-----------------------------------------------------------------------------
(* The dispatch rows implement TurnQueue.                                  *)

\* An initial state is an initial queue.
LEMMA InitImplements == Init => Queue!Init
  BY DEF Init, QueuePhase, QueuePhase, Queue!Init, Queue!Turns, Holding, Active

\* A step is a step of the queue, or none.
LEMMA StepImplements == TypeOK /\ QueueInv /\ [Next]_vars => [Queue!Next]_QueuePhase
<1> SUFFICES ASSUME TypeOK, QueueInv, [Next]_vars PROVE [Queue!Next]_QueuePhase
  OBVIOUS
<1> USE DEF QueuePhase, Queue!Turns, Holding, Active, Settled
<1>1. dstate \in [Turns -> {"absent", "pending"} \cup Holding \cup Settled] /\ turns \in Turns
  BY DEF TypeOK, LeaseTypeOK, CaseTypeOK
<1>2. UNCHANGED dstate => UNCHANGED QueuePhase
  OBVIOUS
<1>3. ASSUME NEW t \in Turns, ClaimsPending(t), UNCHANGED turns PROVE Queue!Take(t)
  <2>1. QueuePhase[t] = "waiting" /\ QueuePhase' = [QueuePhase EXCEPT ![t] = "held"]
    BY <1>1, <1>3 DEF ClaimsPending
  <2>2. \A e \in 1..(t - 1) : QueuePhase[e] = "done"
    BY <1>1, <1>3, BoundsAssumption DEF ClaimsPending, NoOtherHolding, NoEarlierPending, QueueInv
  <2> QED
    BY <2>1, <2>2 DEF Queue!Take
<1>4. ASSUME NEW t \in Turns, MovesHeld(t)
      PROVE  UNCHANGED QueuePhase \/ Queue!Requeue(t) \/ Queue!Finish(t)
  <2>1. QueuePhase[t] = "held"
    BY <1>1, <1>4 DEF MovesHeld
  <2>2. PICK s \in {"pending"} \cup Holding \cup Settled : dstate' = [dstate EXCEPT ![t] = s]
    BY <1>4 DEF MovesHeld
  <2>3. QueuePhase' = [QueuePhase EXCEPT ![t] = IF s = "pending" THEN "waiting"
                                      ELSE IF s \in Holding THEN "held" ELSE "done"]
    BY <1>1, <2>2
  <2>4. CASE s \in Holding
    BY <2>1, <2>3, <2>4
  <2>5. CASE s \notin Holding
    BY <2>1, <2>2, <2>3, <2>5 DEF Queue!Requeue, Queue!Finish
  <2> QED
    BY <2>4, <2>5
<1>5. ASSUME NEW h \in Handlers, AppendFollowUp(h) PROVE Queue!Write(turns + 1)
  <2> DEFINE t == turns + 1
             withdrawn == {e \in Turns : dstate'[e] = "completed" /\ dstate[e] = "suspended"}
  <2>1. t \in Turns /\ dstate[t] = "absent" /\ \A e \in 1..(t - 1) : dstate[e] # "absent"
    BY <1>1, <1>5, BoundsAssumption DEF AppendFollowUp, QueueInv
  <2>2. QueuePhase[t] = "absent" /\ \A e \in 1..(t - 1) : QueuePhase[e] # "absent"
    BY <1>1, <2>1, BoundsAssumption
  <2>3. withdrawn \in SUBSET {e \in Turns : QueuePhase[e] = "held"}
    BY <1>1
  <2>4. QueuePhase' = [e \in Turns |-> IF e = t THEN "waiting"
                                  ELSE IF e \in withdrawn THEN "done" ELSE QueuePhase[e]]
    BY <1>1, <1>5, <2>1 DEF AppendFollowUp
  <2> QED
    BY <2>2, <2>3, <2>4 DEF Queue!Write
<1>6. ASSUME NEW h \in Handlers, AppendFollowUp(h) PROVE turns + 1 \in Turns
  BY <1>1, <1>6, BoundsAssumption DEF AppendFollowUp
<1>7. ASSUME UNCHANGED turns, RowMove PROVE Queue!Next \/ UNCHANGED QueuePhase
  <2> HIDE DEF QueuePhase
  <2>1. UNCHANGED dstate => UNCHANGED QueuePhase
    BY <1>2
  <2> QED
    BY <2>1, <1>3, <1>4, <1>7 DEF RowMove, Queue!Next
<1>8. ASSUME NEW h \in Handlers, AppendFollowUp(h) PROVE Queue!Next
  <2> HIDE DEF QueuePhase
  <2> QED
    BY <1>5, <1>6, <1>8 DEF Queue!Next
<1> HIDE DEF QueuePhase
<1> QED
  BY <1>7, <1>8, RowMoves

\* The turn queue of a conversation, with everything that claims, moves and
\* drops its rows, is an in-order queue of turns done for good.
THEOREM Implements == Spec => ImplementsTurnQueue
<1>1. TypeOK /\ QueueInv /\ [Next]_vars => TypeOK' /\ QueueInv'
  BY TypeStep, QueueStep
<1> QED
  BY InitType, InitQueue, InitImplements, StepImplements, <1>1, PTL
  DEF Spec, ImplementsTurnQueue, Queue!Spec

-----------------------------------------------------------------------------
(* Attempts are bounded.                                                   *)

\* Before anything is claimed every row has all its attempts.
LEMMA InitAttempts == Init => AttemptsInv
  BY BoundsAssumption DEF Init, AttemptsInv, AttemptsAreBounded

\* Taking a lease spends an attempt the row still has, or none.
LEMMA TakeLeaseAttempts ==
  ASSUME LeaseTypeOK, ActorTypeOK, AttemptsInv,
         NEW w \in Workers, NEW t \in Turns, NEW n \in 0..1,
         TakeLease(w, t, n), n = 1 => attempts[t] < MaxAttempts,
         \A l \in seenExpired' : pc'[l] = pc[l] /\ job'[l] = job[l]
  PROVE  AttemptsInv'
<1> USE BoundsAssumption DEF LeaseTypeOK, AttemptsInv, AttemptsAreBounded
<1>1. ASSUME NEW e \in Turns
      PROVE  /\ attempts'[e] <= MaxAttempts
             /\ dstate'[e] = "absent" => attempts'[e] = 0
             /\ dstate'[e] = "pending" => attempts'[e] < MaxAttempts
  BY DEF TakeLease
<1>2. ASSUME NEW l \in seenExpired'
      PROVE  pc'[l] = "selected" /\ attempts'[job'[l]] < MaxAttempts
  <2>1. l \in seenExpired /\ job[l] # t
    BY DEF TakeLease
  <2>2. pc[l] = "selected" /\ attempts[job[l]] < MaxAttempts /\ l \in Workers
    BY <2>1
  <2>3. job[l] \in Turns
    BY <2>2 DEF ActorTypeOK
  <2>4. attempts'[job[l]] = attempts[job[l]]
    BY <2>1, <2>3 DEF TakeLease
  <2> QED
    BY <2>2, <2>4
<1> QED
  BY <1>1, <1>2

\* A step that changes neither the attempts nor what the loops saw, and
\* requeues nothing that is out of attempts, keeps the invariant.
LEMMA AttemptsUnchanged ==
  ASSUME LeaseTypeOK, ActorTypeOK, AttemptsInv, UNCHANGED <<attempts, seenExpired>>,
         \A t \in Turns : \/ dstate'[t] = dstate[t]
                          \/ dstate'[t] \notin {"absent", "pending"}
                          \/ dstate'[t] = "pending" /\ attempts[t] < MaxAttempts,
         \A l \in seenExpired : pc'[l] = pc[l] /\ job'[l] = job[l]
  PROVE  AttemptsInv'
  BY DEF AttemptsInv, AttemptsAreBounded

\* An actor that is not a loop about to claim moves on without disturbing
\* what the loops saw.
LEMMA OthersMove ==
  ASSUME ActorTypeOK, AttemptsInv, LeaseTypeOK, NEW w \in Workers,
         pc[w] # "selected" \/ w \notin Loops,
         \/ \E label : Goto(w, label) \/ \E o : GotoHolding(w, label, o)
         \/ \E label, t, path : Begin(w, label, t, path)
  PROVE  \A l \in seenExpired : pc'[l] = pc[l] /\ job'[l] = job[l]
  BY DEF ActorTypeOK, AttemptsInv, LeaseTypeOK, Goto, GotoHolding, Begin

\* Every step spends attempts only while there are some left.
LEMMA AttemptsStep == TypeOK /\ QueueInv /\ AttemptsInv /\ [Next]_vars => AttemptsInv'
<1> SUFFICES ASSUME TypeOK, QueueInv, AttemptsInv, [Next]_vars PROVE AttemptsInv'
  OBVIOUS
<1> USE BoundsAssumption DEF TypeOK
<1>1. ASSUME NEW h \in Handlers, AppendFollowUp(h) PROVE AttemptsInv'
  <2>1. \A t \in Turns : \/ dstate'[t] = dstate[t] \/ dstate'[t] = "completed"
                         \/ dstate'[t] = "pending" /\ attempts[t] < MaxAttempts
    BY <1>1 DEF AppendFollowUp, QueueInv, AttemptsInv, CaseTypeOK
  <2>2. \A l \in seenExpired : pc'[l] = pc[l] /\ job'[l] = job[l]
    BY <1>1, OthersMove DEF AppendFollowUp
  <2> QED
    BY <1>1, <2>1, <2>2, AttemptsUnchanged DEF AppendFollowUp
<1>2. ASSUME NEW h \in Handlers, ClaimForStart(h) PROVE AttemptsInv'
  <2>1. \A l \in seenExpired : pc'[l] = pc[l] /\ job'[l] = job[l]
    BY <1>2, OthersMove DEF ClaimForStart, GoIdle
  <2>2. CASE UNCHANGED leaseVars
    BY <2>1, <2>2, AttemptsUnchanged DEF leaseVars
  <2>3. CASE dstate[job[h]] = "pending" /\ TakeLease(h, job[h], 1)
    <3>1. job[h] \in Turns /\ attempts[job[h]] < MaxAttempts
      BY <1>2, <2>3 DEF ClaimForStart, ActorTypeOK, AttemptsInv
    <3>2. \A l \in seenExpired' : pc'[l] = pc[l] /\ job'[l] = job[l]
      BY <2>1, <2>3 DEF TakeLease
    <3> QED
      BY <2>3, <3>1, <3>2, TakeLeaseAttempts
  <2> QED
    BY <1>2, <2>2, <2>3 DEF ClaimForStart
<1>3. ASSUME NEW l \in Loops, NEW t \in Turns, SweepExhausted(l, t) PROVE AttemptsInv'
  BY <1>3, AttemptsUnchanged DEF SweepExhausted, SettleLease, LeaseTypeOK, actorVars
<1>4. ASSUME NEW l \in Loops, NEW t \in Turns, ClaimSelect(l, t) PROVE AttemptsInv'
  <2>1. \A m \in seenExpired : pc'[m] = pc[m] /\ job'[m] = job[m]
    BY <1>4, OthersMove DEF ClaimSelect
  <2>2. \A m \in seenExpired' : pc'[m] = "selected" /\ attempts[job'[m]] < MaxAttempts
    BY <1>4, <2>1 DEF ClaimSelect, Begin, AttemptsRemain, AttemptsInv, ActorTypeOK
  <2> QED
    BY <1>4, <2>2 DEF ClaimSelect, AttemptsInv, AttemptsAreBounded
<1>5. ASSUME NEW l \in Loops, ClaimUpdate(l) PROVE AttemptsInv'
  <2>1. \A m \in seenExpired : m # l => pc'[m] = pc[m] /\ job'[m] = job[m]
    BY <1>5 DEF ClaimUpdate, Goto, GoIdle, Begin, ActorTypeOK, LeaseTypeOK
  <2>2. CASE UNCHANGED <<dstate, attempts, owner, live>> /\ seenExpired' = seenExpired \ {l}
    BY <2>1, <2>2 DEF AttemptsInv, AttemptsAreBounded
  <2>3. CASE /\ TakeLease(l, job[l], 1)
             /\ dstate[job[l]] = "pending" \/ l \in seenExpired
    <3>1. job[l] \in Turns /\ attempts[job[l]] < MaxAttempts
      BY <1>5, <2>3 DEF ClaimUpdate, ActorTypeOK, AttemptsInv
    <3>2. \A m \in seenExpired' : pc'[m] = pc[m] /\ job'[m] = job[m]
      BY <2>1, <2>3 DEF TakeLease
    <3> QED
      BY <2>3, <3>1, <3>2, TakeLeaseAttempts
  <2> QED
    BY <1>5, <2>2, <2>3 DEF ClaimUpdate
<1>6. ASSUME NEW w \in Workers, Activate(w) PROVE AttemptsInv'
  <2>1. \A l \in seenExpired : pc'[l] = pc[l] /\ job'[l] = job[l]
    BY <1>6, OthersMove DEF Activate
  <2> QED
    BY <1>6, <2>1, AttemptsUnchanged DEF Activate, LeaseTypeOK
<1>7. ASSUME NEW w \in Workers, CompleteDispatch(w) PROVE AttemptsInv'
  <2>1. \A l \in seenExpired : pc'[l] = pc[l] /\ job'[l] = job[l]
    BY <1>7, OthersMove DEF CompleteDispatch, Complete, GoIdle
  <2> QED
    BY <1>7, <2>1, AttemptsUnchanged
    DEF CompleteDispatch, Complete, SettleLease, leaseVars, LeaseTypeOK
<1>8. ASSUME NEW w \in Workers, RetryDispatch(w) PROVE AttemptsInv'
  <2>1. \A l \in seenExpired : pc'[l] = pc[l] /\ job'[l] = job[l]
    BY <1>8, OthersMove DEF RetryDispatch, GoIdle
  <2> QED
    BY <1>8, <2>1, AttemptsUnchanged
    DEF RetryDispatch, AttemptsRemain, SettleLease, leaseVars, LeaseTypeOK
<1>9. ASSUME NEW w \in Workers, FailDispatchAndCase(w) PROVE AttemptsInv'
  <2>1. \A l \in seenExpired : pc'[l] = pc[l] /\ job'[l] = job[l]
    BY <1>9, OthersMove DEF FailDispatchAndCase, GoIdle
  <2> QED
    BY <1>9, <2>1, AttemptsUnchanged DEF FailDispatchAndCase, SettleLease, leaseVars, LeaseTypeOK
<1>10. ASSUME NEW h \in Handlers, ClaimForResume(h) PROVE AttemptsInv'
  <2>1. \A l \in seenExpired : pc'[l] = pc[l] /\ job'[l] = job[l]
    BY <1>10, OthersMove DEF ClaimForResume, GoIdle
  <2>2. CASE UNCHANGED leaseVars
    BY <2>1, <2>2, AttemptsUnchanged DEF leaseVars
  <2>3. CASE TakeLease(h, job[h], 0)
    <3>1. job[h] \in Turns
      BY <1>10 DEF ClaimForResume, ActorTypeOK
    <3>2. \A l \in seenExpired' : pc'[l] = pc[l] /\ job'[l] = job[l]
      BY <2>1, <2>3 DEF TakeLease
    <3> QED
      BY <2>3, <3>1, <3>2, TakeLeaseAttempts
  <2> QED
    BY <1>10, <2>2, <2>3 DEF ClaimForResume
<1>11. ASSUME NEW l \in Loops, NEW t \in Turns, ClaimDecided(l, t) PROVE AttemptsInv'
  <2>1. \A m \in seenExpired : pc'[m] = pc[m] /\ job'[m] = job[m]
    BY <1>11, OthersMove DEF ClaimDecided
  <2>2. \A m \in seenExpired' : pc'[m] = pc[m] /\ job'[m] = job[m]
    BY <1>11, <2>1 DEF ClaimDecided, TakeLease
  <2> QED
    BY <1>11, <2>2, TakeLeaseAttempts DEF ClaimDecided
<1>12. ASSUME NEW w \in Workers, Crash(w) PROVE AttemptsInv'
  <2>1. \A l \in seenExpired : l # w => pc'[l] = pc[l] /\ job'[l] = job[l]
    BY <1>12 DEF Crash, GoIdle, Begin, ActorTypeOK
  <2> QED
    BY <1>12, <2>1 DEF Crash, AttemptsInv, AttemptsAreBounded
<1>13. ASSUME NEW w \in Workers,
              \/ WorkflowStep(w) \/ Abandon(w)
              \/ ResumeNativeTool(w) \/ CloseFailedAttempt(w) \/ ResumeRun(w)
       PROVE  AttemptsInv'
  <2>1. UNCHANGED leaseVars /\ pc[w] # "selected" /\ \E label, t, path, o :
          Goto(w, label) \/ GotoHolding(w, label, o) \/ Begin(w, label, t, path)
    BY <1>13, ZenonT(30) DEF WorkflowStep, Launch, Relaunch, RecordTrace, ReadOutcome,
       RecordTurnTelemetry, CloseFailedAttempt, DraftResponse, NothingToApprove,
       RecoverDecision, PrepareCommand, WriteWaiting, SuspendRun, AnswerGiven,
       FinalizeCaseAndEnqueue, SucceedRun, FailRun, RunRejects, Abandon, ResumeNativeTool,
       ResumeRun, Advance, GoIdle
  <2>2. \A l \in seenExpired : pc'[l] = pc[l] /\ job'[l] = job[l]
    BY <2>1, OthersMove
  <2> QED
    BY <2>1, <2>2, AttemptsUnchanged DEF leaseVars
<1>14. ASSUME NEW h \in Handlers, ReviewCase(h) \/ RecordApprovalDecision(h) PROVE AttemptsInv'
  <2>1. \A l \in seenExpired : pc'[l] = pc[l] /\ job'[l] = job[l]
    BY <1>14, OthersMove DEF ReviewCase, RecordApprovalDecision, GoIdle
  <2> QED
    BY <1>14, <2>1, AttemptsUnchanged DEF ReviewCase, RecordApprovalDecision, leaseVars
<1>15. ASSUME NEW l \in Loops, InspectCase(l) \/ InspectSnapshot(l) \/ RecoveryThrows(l)
       PROVE  AttemptsInv'
  <2>1. \A m \in seenExpired : pc'[m] = pc[m] /\ job'[m] = job[m]
    BY <1>15, OthersMove DEF InspectCase, InspectSnapshot, RecoveryThrows
  <2> QED
    BY <1>15, <2>1, AttemptsUnchanged DEF InspectCase, InspectSnapshot, RecoveryThrows, leaseVars
<1>16. CASE (\E t \in Turns : Stall(t) \/ OrphanExpires(t)) \/ UNCHANGED vars
  BY <1>16, AttemptsUnchanged DEF Stall, OrphanExpires, vars, leaseVars, actorVars
<1> QED
  BY <1>1, <1>2, <1>3, <1>4, <1>5, <1>6, <1>7, <1>8, <1>9, <1>10, <1>11, <1>12, <1>13, <1>14,
     <1>15, <1>16
  DEF Next, HandlerStep, Recover, LoopStep, Proceed

\* However stale a SELECT is when its UPDATE runs, and whoever else claims,
\* retries or resumes a turn, it is claimed at most MaxAttempts times.
THEOREM Bounded == Spec => []AttemptsAreBounded
<1>1. TypeOK /\ QueueInv /\ AttemptsInv /\ [Next]_vars => TypeOK' /\ QueueInv' /\ AttemptsInv'
  BY TypeStep, QueueStep, AttemptsStep
<1>2. AttemptsInv => AttemptsAreBounded
  BY DEF AttemptsInv
<1> QED
  BY InitType, InitQueue, InitAttempts, <1>1, <1>2, PTL DEF Spec

-----------------------------------------------------------------------------
(* The case shows the turn that is executed.                               *)

\* At most one turn is held.
LEMMA OneHeld ==
  ASSUME TypeOK, QueueInv, NEW t \in Turns, NEW e \in Turns,
         dstate[t] \in Holding, dstate[e] \in Holding
  PROVE  t = e
<1>1. ~(t < e) /\ ~(e < t)
  BY DEF QueueInv, TurnsAreSerial, Holding, Active, Settled
<1> QED
  BY <1>1, BoundsAssumption

\* A step that starts no dispatch and leaves the active turn alone keeps the
\* projection.
LEMMA ProjectionUnchanged ==
  ASSUME ProjectionFollowsDispatch, activeTurn' \in {0, activeTurn},
         \A t \in Turns : dstate'[t] = "started" => dstate[t] = "started"
  PROVE  ProjectionFollowsDispatch'
  BY DEF ProjectionFollowsDispatch

\* Every step keeps the projection on the turn that is executed.
LEMMA ProjectionStep ==
  TypeOK /\ QueueInv /\ ProjectionFollowsDispatch /\ [Next]_vars => ProjectionFollowsDispatch'
<1> SUFFICES ASSUME TypeOK, QueueInv, ProjectionFollowsDispatch, [Next]_vars
             PROVE  ProjectionFollowsDispatch'
  OBVIOUS
<1>1. dstate \in [Turns -> {"absent", "pending"} \cup Holding \cup Settled]
  BY DEF TypeOK, LeaseTypeOK
<1>2. ASSUME NEW h \in Handlers, AppendFollowUp(h) PROVE ProjectionFollowsDispatch'
  BY <1>2, ProjectionUnchanged DEF AppendFollowUp, caseVars
<1>3. ASSUME NEW w \in Workers, Activate(w) PROVE ProjectionFollowsDispatch'
  <2>1. job[w] \in Turns /\ dstate[job[w]] = "claimed"
    BY <1>3 DEF Activate, Owns
  <2>2. \A t \in Turns : dstate'[t] = "started" => t = job[w]
    BY <1>1, <1>3, <2>1, OneHeld DEF Activate, Holding, Active
  <2> QED
    BY <1>3, <2>2 DEF Activate, ProjectionFollowsDispatch
<1>4. ASSUME NEW w \in Workers, WriteWaiting(w) PROVE ProjectionFollowsDispatch'
  <2>1. job[w] \in Turns /\ dstate[job[w]] \in Active
    BY <1>4 DEF WriteWaiting, OwnsLive, Owns
  <2>2. \A t \in Turns : dstate'[t] = "started" => t = job[w]
    BY <1>4, <2>1, OneHeld DEF WriteWaiting, leaseVars, Holding, Active
  <2> QED
    BY <1>4, <2>2 DEF WriteWaiting, ProjectionFollowsDispatch
<1>5. ASSUME NEW w \in Workers, CompleteDispatch(w) \/ RetryDispatch(w) \/ FailDispatchAndCase(w)
      PROVE  ProjectionFollowsDispatch'
  <2>1. \A t \in Turns : dstate'[t] = "started" => dstate[t] = "started"
    BY <1>1, <1>5 DEF CompleteDispatch, Complete, RetryDispatch, FailDispatchAndCase,
       SettleLease, leaseVars
  <2> QED
    BY <1>5, <2>1, ProjectionUnchanged
    DEF CompleteDispatch, RetryDispatch, FailDispatchAndCase, caseVars
<1>6. ASSUME NEW h \in Handlers, ClaimForStart(h) \/ ClaimForResume(h)
      PROVE  ProjectionFollowsDispatch'
  <2>1. \A t \in Turns : dstate'[t] = "started" => dstate[t] = "started"
    BY <1>1, <1>6 DEF ClaimForStart, ClaimForResume, TakeLease, leaseVars
  <2> QED
    BY <1>6, <2>1, ProjectionUnchanged DEF ClaimForStart, ClaimForResume, caseVars
<1>7. ASSUME NEW l \in Loops, (\E t \in Turns : SweepExhausted(l, t) \/ ClaimDecided(l, t))
                              \/ ClaimUpdate(l)
      PROVE  ProjectionFollowsDispatch'
  <2>1. \A t \in Turns : dstate'[t] = "started" => dstate[t] = "started"
    BY <1>1, <1>7 DEF SweepExhausted, ClaimDecided, ClaimUpdate, TakeLease, SettleLease
  <2> QED
    BY <1>7, <2>1, ProjectionUnchanged DEF SweepExhausted, ClaimDecided, ClaimUpdate, caseVars
<1>8. CASE \E w \in Workers :
             \/ Launch(w) \/ Relaunch(w) \/ RecordTrace(w) \/ ReadOutcome(w)
             \/ RecordTurnTelemetry(w) \/ DraftResponse(w) \/ NothingToApprove(w)
             \/ CloseFailedAttempt(w) \/ RecoverDecision(w) \/ PrepareCommand(w) \/ SuspendRun(w) \/ AnswerGiven(w)
             \/ (\E s \in Finals : FinalizeCaseAndEnqueue(w, s)) \/ SucceedRun(w) \/ FailRun(w)
             \/ RunRejects(w) \/ Abandon(w) \/ ResumeNativeTool(w) \/ ResumeRun(w) \/ Crash(w)
  <2>1. UNCHANGED <<activeTurn, dstate>>
    BY <1>8 DEF Launch, Relaunch, RecordTrace, ReadOutcome, RecordTurnTelemetry,
       CloseFailedAttempt, DraftResponse, NothingToApprove, RecoverDecision,
       PrepareCommand, SuspendRun, AnswerGiven, FinalizeCaseAndEnqueue, SucceedRun, FailRun,
       RunRejects, Abandon, ResumeNativeTool, ResumeRun, Crash, caseVars, leaseVars
  <2> QED
    BY <2>1, ProjectionUnchanged
<1>9. CASE \/ \E h \in Handlers : ReviewCase(h) \/ RecordApprovalDecision(h)
           \/ \E l \in Loops : \/ \E t \in Turns : ClaimSelect(l, t)
                              \/ InspectCase(l) \/ InspectSnapshot(l) \/ RecoveryThrows(l)
           \/ \E t \in Turns : Stall(t) \/ OrphanExpires(t)
           \/ UNCHANGED vars
  <2>1. UNCHANGED <<activeTurn, dstate>>
    BY <1>9 DEF ReviewCase, RecordApprovalDecision, ClaimSelect, InspectCase, InspectSnapshot,
       RecoveryThrows, Stall,
       OrphanExpires, vars, caseVars, leaseVars
  <2> QED
    BY <2>1, ProjectionUnchanged
<1> QED
  BY <1>2, <1>3, <1>4, <1>5, <1>6, <1>7, <1>8, <1>9
  DEF Next, HandlerStep, Recover, LoopStep, Proceed, WorkflowStep

\* No turn's draft, command or response is ever shown while another turn's
\* dispatch is started.
THEOREM Projected == Spec => []ProjectionFollowsDispatch
<1>1. Init => ProjectionFollowsDispatch
  BY DEF Init, ProjectionFollowsDispatch
<1>2. TypeOK /\ QueueInv /\ ProjectionFollowsDispatch /\ [Next]_vars
        => TypeOK' /\ QueueInv' /\ ProjectionFollowsDispatch'
  BY TypeStep, QueueStep, ProjectionStep
<1> QED
  BY InitType, InitQueue, <1>1, <1>2, PTL DEF Spec

-----------------------------------------------------------------------------
(* Stale executions are silent.                                            *)

\* A step that takes an executing actor anywhere is a step of that actor.
LEMMA OwnStep ==
  ASSUME ActorTypeOK, NEW v \in Workers, NEW w \in Workers, pc'[w] # pc[w],
         \/ \E label : Goto(v, label) \/ \E o : GotoHolding(v, label, o)
         \/ \E label, t, path : Begin(v, label, t, path)
  PROVE  v = w
  BY DEF ActorTypeOK, Goto, GotoHolding, Begin

\* An execution that has lost its lease changes neither the case nor the outbox
\* nor the queue; all it may still do to an outcome is what recordTurnTelemetry
\* does, and to that of its own turn only.
THEOREM Silent == Spec => StaleExecutionIsSilent
<1> DEFINE Held(w) == job[w] \in Turns /\ dstate[job[w]] \in Active /\ owner[job[w]] = w
           Stale(w) == /\ pc[w] \in Executing \cup Outcomes /\ pc'[w] # pc[w]
                       /\ ~(Held(w) /\ (live[job[w]] \/ pc[w] = "gotFailure"))
           Silence(w) == /\ UNCHANGED <<caseVars, reply, dstate>>
                         /\ \/ UNCHANGED outcome
                            \/ /\ pc[w] = "telemetry"
                               /\ outcome' = [outcome EXCEPT ![job[w]] = saw[w]]
<1>1. ASSUME TypeOK, [Next]_vars, NEW w \in Workers, Stale(w)
      PROVE  Silence(w)
  <2> USE <1>1 DEF TypeOK
  <2>1. ~OwnsLive(w) /\ (pc[w] = "gotFailure" => ~Owns(w))
    BY Zenon DEF OwnsLive, Owns
  <2>2. ASSUME NEW v \in Workers, RecordTrace(v) \/ DraftResponse(v) \/ WriteWaiting(v)
                                  \/ \E s \in Finals : FinalizeCaseAndEnqueue(v, s)
        PROVE  FALSE
    <3>1. v = w
      BY <2>2, OwnStep DEF RecordTrace, DraftResponse, WriteWaiting, FinalizeCaseAndEnqueue, Advance
    <3> QED
      BY <2>1, <2>2, <3>1 DEF RecordTrace, DraftResponse, WriteWaiting, FinalizeCaseAndEnqueue
  <2>3. ASSUME NEW v \in Workers, CompleteDispatch(v) \/ FailDispatchAndCase(v)
        PROVE  Silence(w)
    <3>1. v = w
      BY <2>3, OwnStep DEF CompleteDispatch, Complete, FailDispatchAndCase, GoIdle
    <3> QED
      BY <2>1, <2>3, <3>1 DEF CompleteDispatch, Complete, FailDispatchAndCase, caseVars,
         turnVars, leaseVars
  <2>4. ASSUME NEW v \in Workers, RetryDispatch(v)
        PROVE  Silence(w)
    <3>1. v = w
      BY <2>4, OwnStep DEF RetryDispatch, GoIdle
    <3> QED
      BY <2>1, <2>4, <3>1 DEF RetryDispatch, leaseVars, turnVars
  <2>5. ASSUME NEW v \in Workers, Activate(v) \/ ResumeRun(v) PROVE FALSE
    <3>1. v = w
      BY <2>5, OwnStep DEF Activate, ResumeRun, GoIdle
    <3> QED
      BY <1>1, <2>5, <3>1 DEF Activate, ResumeRun
  <2>6. ASSUME NEW h \in Handlers, AppendFollowUp(h) \/ ReviewCase(h) \/ HandlerStep(h)
        PROVE  FALSE
    <3>1. h = w
      BY <2>6, OwnStep DEF AppendFollowUp, ReviewCase, HandlerStep, ClaimForStart,
         RecordApprovalDecision, ClaimForResume, GoIdle
    <3> QED
      BY <1>1, <2>6, <3>1 DEF AppendFollowUp, ReviewCase, HandlerStep, ClaimForStart,
         RecordApprovalDecision, ClaimForResume
  <2>7. ASSUME NEW l \in Loops, NEW t \in Turns, SweepExhausted(l, t) PROVE FALSE
    BY <1>1, <2>7 DEF SweepExhausted, actorVars
  <2>8. ASSUME NEW l \in Loops, (\E t \in Turns : ClaimSelect(l, t) \/ ClaimDecided(l, t))
                                \/ LoopStep(l)
        PROVE  FALSE
    <3>1. l = w
      BY <2>8, OwnStep DEF ClaimSelect, ClaimDecided, LoopStep, ClaimUpdate, InspectCase,
         InspectSnapshot, RecoveryThrows, GoIdle
    <3> QED
      BY <1>1, <2>8, <3>1 DEF ClaimSelect, ClaimDecided, LoopStep, ClaimUpdate,
         InspectCase, InspectSnapshot, RecoveryThrows
  <2>9. CASE \E v \in Workers :
               \/ Launch(v) \/ Relaunch(v) \/ ReadOutcome(v) \/ CloseFailedAttempt(v)
               \/ NothingToApprove(v) \/ RecoverDecision(v)
               \/ PrepareCommand(v) \/ SuspendRun(v) \/ AnswerGiven(v) \/ SucceedRun(v)
               \/ FailRun(v) \/ RunRejects(v) \/ Abandon(v) \/ ResumeNativeTool(v) \/ Crash(v)
    BY <2>9 DEF Launch, Relaunch, ReadOutcome, CloseFailedAttempt, NothingToApprove, RecoverDecision, PrepareCommand, SuspendRun,
       AnswerGiven, SucceedRun, FailRun, RunRejects, Abandon, ResumeNativeTool, Crash, leaseVars, turnVars
  <2>10. CASE (\E t \in Turns : Stall(t) \/ OrphanExpires(t)) \/ UNCHANGED vars
    BY <2>10 DEF Stall, OrphanExpires, vars, leaseVars, turnVars
  <2>11. ASSUME NEW v \in Workers, RecordTurnTelemetry(v) PROVE Silence(w)
    <3>1. v = w
      BY <2>11, OwnStep DEF RecordTurnTelemetry
    <3> QED
      BY <2>11, <3>1 DEF RecordTurnTelemetry, leaseVars
  <2> QED
    BY <2>2, <2>3, <2>4, <2>5, <2>6, <2>7, <2>8, <2>9, <2>10, <2>11
    DEF Next, Recover, Proceed, WorkflowStep
<1>2. TypeOK /\ [Next]_vars
        => [\A w \in Workers :
              LET t == job[w]
                  held == t \in Turns /\ dstate[t] \in Active /\ owner[t] = w
              IN  /\ pc[w] \in Executing \cup Outcomes /\ pc'[w] # pc[w]
                  /\ ~(held /\ (live[t] \/ pc[w] = "gotFailure"))
                  => /\ UNCHANGED <<caseVars, reply, dstate>>
                     /\ \/ UNCHANGED outcome
                        \/ pc[w] = "telemetry" /\ outcome' = [outcome EXCEPT ![t] = saw[w]]]_vars
  BY <1>1, Zenon
<1> QED
  BY InitType, TypeStep, <1>2, PTL DEF Spec, StaleExecutionIsSilent

-----------------------------------------------------------------------------
(* A reply is final.                                                       *)

\* Only the finalization writes a reply, and it compares the one that it finds:
\* no retry, restart or second recovery changes what a turn has answered.
THEOREM ReplyForGood == Spec => ReplyIsFinal
<1>1. ASSUME TypeOK, [Next]_vars, NEW t \in Turns, reply[t] # "none"
      PROVE  reply'[t] = reply[t]
  <2>1. ASSUME NEW w \in Workers, NEW s \in Finals, FinalizeCaseAndEnqueue(w, s)
        PROVE  reply'[t] = reply[t]
    <3>1. reply \in [Turns -> Finals \cup {"none"}] /\ reply' = [reply EXCEPT ![job[w]] = s]
          /\ ReplayAgrees(job[w], s)
      BY <1>1, <2>1 DEF TypeOK, CaseTypeOK, FinalizeCaseAndEnqueue
    <3>2. CASE job[w] = t
      BY <1>1, <3>1, <3>2 DEF ReplayAgrees
    <3>3. CASE job[w] # t
      BY <3>1, <3>3
    <3> QED
      BY <3>2, <3>3
  <2>2. CASE \E w \in Workers :
               \/ Activate(w) \/ Launch(w) \/ Relaunch(w) \/ RecordTrace(w) \/ ReadOutcome(w)
               \/ RecordTurnTelemetry(w) \/ DraftResponse(w) \/ NothingToApprove(w)
               \/ CloseFailedAttempt(w) \/ RecoverDecision(w) \/ PrepareCommand(w) \/ WriteWaiting(w) \/ SuspendRun(w)
               \/ AnswerGiven(w) \/ SucceedRun(w) \/ FailRun(w) \/ RunRejects(w)
               \/ CompleteDispatch(w) \/ RetryDispatch(w) \/ FailDispatchAndCase(w) \/ Abandon(w)
               \/ ResumeNativeTool(w) \/ ResumeRun(w) \/ Crash(w)
    <3>1. UNCHANGED reply
      BY <2>2 DEF Activate, Launch, Relaunch, RecordTrace, ReadOutcome, RecordTurnTelemetry,
         CloseFailedAttempt, DraftResponse, NothingToApprove, RecoverDecision,
         PrepareCommand, WriteWaiting, SuspendRun, AnswerGiven, SucceedRun, FailRun, RunRejects,
         CompleteDispatch, RetryDispatch, FailDispatchAndCase, Abandon, ResumeNativeTool, ResumeRun,
         Crash, turnVars
    <3> QED
      BY <3>1
  <2>3. CASE \/ \E h \in Handlers : AppendFollowUp(h) \/ ReviewCase(h) \/ HandlerStep(h)
             \/ \E l \in Loops : LoopStep(l) \/ \E u \in Turns :
                  SweepExhausted(l, u) \/ ClaimSelect(l, u) \/ ClaimDecided(l, u)
             \/ \E u \in Turns : Stall(u) \/ OrphanExpires(u)
             \/ UNCHANGED vars
    <3>1. UNCHANGED reply
      BY <2>3 DEF AppendFollowUp, ReviewCase, HandlerStep, ClaimForStart, RecordApprovalDecision,
         ClaimForResume, LoopStep, ClaimUpdate, InspectCase, InspectSnapshot, RecoveryThrows,
         SweepExhausted, ClaimSelect,
         ClaimDecided, Stall, OrphanExpires, vars, turnVars
    <3> QED
      BY <3>1
  <2> QED
    BY <1>1, <2>1, <2>2, <2>3 DEF Next, Recover, Proceed, WorkflowStep
<1>2. TypeOK /\ [Next]_vars => [\A t \in Turns : reply[t] # "none" => reply'[t] = reply[t]]_vars
  BY <1>1
<1> QED
  BY InitType, TypeStep, <1>2, PTL DEF Spec, ReplyIsFinal

==============================================================================

-------------------------- MODULE CancellationProofs --------------------------
(***************************************************************************)
(* Theorems about Cancellation, for any number of workers, any bound on    *)
(* faults, any authority and any earlier effect.                           *)
(***************************************************************************)
EXTENDS Cancellation, TLAPS

-----------------------------------------------------------------------------
(* The inductive invariant.                                                *)

\* Steps of the worker whose compare and set took the command, before its POST
\* and up to the end of the tool.
Before == {"trusted", "preflight", "fence", "posting"}
Command == Before \cup {"refused", "posted"}

\* One worker has the command, which no "confirmed-no-effect" ends before it
\* does; what was posted or is late is known to be so.
OneCommand ==
  /\ posts <= 1
  /\ \A w, v \in Workers : pc[w] \in Command /\ pc[v] \in Command => w = v
  /\ status \in {"absent", "prepared"} => posts = 0 /\ \A w \in Workers : pc[w] \notin Command
  /\ posts = 0 => ~mine /\ ~late
  /\ \A w \in Workers : pc[w] \in Before => posts = 0
  /\ \A w \in Workers : pc[w] = "refused" => ~mine /\ ~late
  /\ late => ~mine
  /\ status = "failed" => ~mine /\ ~late /\ \A w \in Workers : pc[w] \notin Command

\* Whatever says that the subscription is cancelled learned it from Stripe.
LearnedFromStripe ==
  /\ mine => cancels
  /\ status = "scheduled" => cancels
  /\ caseEffect = "own" => cancels
  /\ \A w \in Workers : pc[w] \in {"posted", "scheduled", "found"} => cancels
  /\ \A w \in Workers : reply[w] = "scheduled" => cancels

\* Steps of the workflow step that schedules.
Scheduling == Command \cup {"schedule", "prepare", "claim", "doubt", "threw", "scheduled"}

\* Nobody works for the run but the owner of the dispatch, at its step.
OneRunner ==
  /\ \A w \in Workers : pc[w] \in FlowPCs => Owns(w)
  /\ \A w \in Workers : pc[w] \in Scheduling => run = "schedule"
  /\ \A w \in Workers : pc[w] \in {"resolve", "finalize"} => run = "resolve"
  /\ \A w \in Workers : pc[w] = "done" => run = "success"
  /\ dstate = "completed" => run = "success"

\* A row exists only for a command, and a tool that was started has one.
Commanded ==
  /\ status # "absent" => authority = "explicit"
  /\ \A w \in Workers : pc[w] \in Scheduling \ {"schedule", "threw"} => authority = "explicit"

\* A cancellation that the tool scheduled, and the reconciler did not announce,
\* is on its way to the customer.
OnItsWay ==
  status = "scheduled" /\ "cancellation-final" \notin told =>
    /\ run = "resolve" => caseEffect = "own"
    /\ run = "success" => "final-scheduled" \in told
    /\ \A w \in Workers : pc[w] \notin Command \cup {"claim", "doubt", "threw"}
    /\ \A w \in Workers : pc[w] = "finalize" => reply[w] = "scheduled"

\* Without a stall.
Prompt ==
  stalls = 0 =>
    /\ OneRunner /\ OnItsWay
    /\ \A w \in Workers : pc[w] = "claim" => status = "prepared"

IInv ==
  /\ TypeOK /\ ReceiptIsDecision /\ OneCommand /\ LearnedFromStripe /\ ToldIsScheduled
  /\ Commanded /\ Prompt

-----------------------------------------------------------------------------
(* Type correctness.                                                       *)

PCs == {"idle"} \cup FlowPCs \cup ReconcilerPCs
Texts == {"none", "safe", "scheduled", "earlier"}
Statuses == {"absent", "prepared"} \cup Doubt \cup Terminal

AttemptTypeOK ==
  status \in Statuses /\ {effect, rlive} \subseteq BOOLEAN /\ rtoken \in Workers \cup {NoWorker}
DispatchTypeOK ==
  dstate \in {"held", "completed", "failed"} /\ owner \in Workers \cup {NoWorker}
CaseTypeOK ==
  /\ shows \in Shown \cup {"reset"}
  /\ caseStatus \in Finals \cup {"processing", "new"}
  /\ caseReply \in Texts \cup {"review"}
  /\ caseEffect \in {"none", "own", "earlier"}
RecordTypeOK ==
  /\ outcome \in [reply : Texts \cup {"review"}, status : Finals \cup {"none"}]
  /\ told \subseteq {"final-safe", "final-scheduled", "final-earlier",
                     "cancellation-final", "cancellation-failed"}
StripeTypeOK == posts \in Nat /\ {mine, late, cancels} \subseteq BOOLEAN
RunTypeOK == run \in {"schedule", "resolve", "success", "failed"} /\ authority \in Authorities
WorkerTypeOK == pc \in [Workers -> PCs] /\ reply \in [Workers -> Texts]
FaultTypeOK == old \in BOOLEAN /\ {crashes, stalls} \subseteq 0..MaxFaults

\* The parts are the type invariant of the module.
LEMMA TypeParts ==
  TypeOK <=> /\ AttemptTypeOK /\ DispatchTypeOK /\ CaseTypeOK /\ RecordTypeOK
             /\ StripeTypeOK /\ RunTypeOK /\ WorkerTypeOK /\ FaultTypeOK
  BY DEF TypeOK, AttemptTypeOK, DispatchTypeOK, CaseTypeOK, RecordTypeOK, StripeTypeOK,
     RunTypeOK, WorkerTypeOK, FaultTypeOK, PCs, Texts, Statuses

\* What is left alone keeps its type.
LEMMA UnchangedType ==
  /\ AttemptTypeOK /\ UNCHANGED attemptVars => AttemptTypeOK'
  /\ DispatchTypeOK /\ UNCHANGED dispatchVars => DispatchTypeOK'
  /\ CaseTypeOK /\ UNCHANGED caseVars => CaseTypeOK'
  /\ RecordTypeOK /\ UNCHANGED recordVars => RecordTypeOK'
  /\ StripeTypeOK /\ UNCHANGED stripeVars => StripeTypeOK'
  /\ RunTypeOK /\ UNCHANGED <<run, authority>> => RunTypeOK'
  /\ FaultTypeOK /\ UNCHANGED <<old, crashes, stalls>> => FaultTypeOK'
  /\ WorkerTypeOK /\ UNCHANGED <<pc, reply>> => WorkerTypeOK'
<1>1. AttemptTypeOK /\ UNCHANGED attemptVars => AttemptTypeOK'
  BY DEF AttemptTypeOK, attemptVars
<1>2. DispatchTypeOK /\ UNCHANGED dispatchVars => DispatchTypeOK'
  BY DEF DispatchTypeOK, dispatchVars
<1>3. CaseTypeOK /\ UNCHANGED caseVars => CaseTypeOK'
  BY DEF CaseTypeOK, caseVars
<1>4. RecordTypeOK /\ UNCHANGED recordVars => RecordTypeOK'
  BY DEF RecordTypeOK, recordVars
<1>5. StripeTypeOK /\ UNCHANGED stripeVars => StripeTypeOK'
  BY DEF StripeTypeOK, stripeVars
<1>6. /\ RunTypeOK /\ UNCHANGED <<run, authority>> => RunTypeOK'
      /\ FaultTypeOK /\ UNCHANGED <<old, crashes, stalls>> => FaultTypeOK'
      /\ WorkerTypeOK /\ UNCHANGED <<pc, reply>> => WorkerTypeOK'
  BY DEF RunTypeOK, FaultTypeOK, WorkerTypeOK
<1> QED
  BY <1>1, <1>2, <1>3, <1>4, <1>5, <1>6

\* The ways a worker moves keep the types of the workers.
LEMMA GotoType ==
  ASSUME WorkerTypeOK, NEW w \in Workers, NEW label \in PCs, Goto(w, label)
  PROVE  WorkerTypeOK'
  BY DEF WorkerTypeOK, Goto

LEMMA GoIdleType ==
  ASSUME WorkerTypeOK, NEW w \in Workers, GoIdle(w)
  PROVE  WorkerTypeOK'
  BY DEF WorkerTypeOK, GoIdle, PCs, Texts

\* The writes of the attempt keep theirs.
LEMMA FinalizeType ==
  ASSUME AttemptTypeOK, NEW to \in {"scheduled", "unknown"}, FinalizeAttempt(to)
  PROVE  AttemptTypeOK'
<1>1. CASE MayFinalize(to)
  <2>1. effect' \in BOOLEAN
    BY <1>1, Zenon DEF FinalizeAttempt, AttemptTypeOK
  <2> QED
    BY <1>1, <2>1 DEF FinalizeAttempt, AttemptTypeOK, Statuses, Doubt, Terminal
<1>2. CASE ~MayFinalize(to)
  BY <1>2, UnchangedType DEF FinalizeAttempt
<1> QED
  BY <1>1, <1>2

LEMMA SettleType ==
  ASSUME AttemptTypeOK, CaseTypeOK, RecordTypeOK, NEW to \in Terminal, NEW token, Settle(to, token)
  PROVE  AttemptTypeOK' /\ CaseTypeOK' /\ RecordTypeOK'
<1>1. CASE MaySettle(token)
  <2>1. effect' \in BOOLEAN
    BY <1>1, Zenon DEF Settle, AttemptTypeOK
  <2>2. AttemptTypeOK'
    BY <1>1, <2>1 DEF Settle, AttemptTypeOK, Statuses
  <2>3. RecordTypeOK'
    <3>1. outcome' \in [reply : Texts \cup {"review"}, status : Finals \cup {"none"}]
      BY <1>1 DEF Settle, Texts, Finals
    <3>2. told' \subseteq told \cup {"cancellation-final", "cancellation-failed"}
      BY <1>1 DEF Settle
    <3> QED
      BY <3>1, <3>2 DEF RecordTypeOK
  <2>4. CaseTypeOK'
    BY <1>1 DEF Settle, CaseTypeOK, caseVars, Texts, Finals
  <2> QED
    BY <2>2, <2>3, <2>4
<1>2. CASE ~MaySettle(token)
  BY <1>2, UnchangedType DEF Settle
<1> QED
  BY <1>1, <1>2

LEMMA EscalateType ==
  ASSUME CaseTypeOK, RunTypeOK, WorkerTypeOK, NEW w \in Workers, EscalateStep(w),
         UNCHANGED authority
  PROVE  CaseTypeOK' /\ RunTypeOK' /\ WorkerTypeOK'
<1>1. WorkerTypeOK'
  BY GotoType DEF EscalateStep, PCs, FlowPCs
<1>2. CASE Owns(w)
  BY <1>1, <1>2 DEF EscalateStep, CaseTypeOK, RunTypeOK, Finals
<1>3. CASE ~Owns(w)
  BY <1>1, <1>3, UnchangedType DEF EscalateStep, RunTypeOK
<1> QED
  BY <1>2, <1>3

LEMMA InitType == Init => TypeOK
<1> SUFFICES ASSUME Init PROVE TypeOK
  OBVIOUS
<1>1. AttemptTypeOK /\ DispatchTypeOK /\ CaseTypeOK /\ RecordTypeOK
  BY EarlierEffectsAssumption
  DEF Init, AttemptTypeOK, DispatchTypeOK, CaseTypeOK, RecordTypeOK, Statuses, Shown, Texts
<1>2. StripeTypeOK /\ RunTypeOK
  BY DEF Init, StripeTypeOK, RunTypeOK
<1>3. WorkerTypeOK
  BY DEF Init, WorkerTypeOK, PCs, FlowPCs, Texts
<1>4. FaultTypeOK
  <2>1. 0 \in 0..MaxFaults
    BY CancellationBoundAssumption
  <2> QED
    BY <2>1 DEF Init, FaultTypeOK
<1> QED
  BY <1>1, <1>2, <1>3, <1>4, TypeParts

\* The steps of the workflow keep the declared types.
LEMMA FlowType ==
  ASSUME TypeOK, NEW w \in Workers, Flow(w)
  PROVE  TypeOK'
<1> USE DEF PCs, FlowPCs, ReconcilerPCs
<1>0. /\ AttemptTypeOK /\ DispatchTypeOK /\ CaseTypeOK /\ RecordTypeOK
      /\ StripeTypeOK /\ RunTypeOK /\ WorkerTypeOK /\ FaultTypeOK
  BY TypeParts
<1> SUFFICES
      /\ AttemptTypeOK' /\ DispatchTypeOK' /\ CaseTypeOK' /\ RecordTypeOK'
      /\ StripeTypeOK' /\ RunTypeOK' /\ WorkerTypeOK' /\ FaultTypeOK'
  BY DEF TypeOK, AttemptTypeOK, DispatchTypeOK, CaseTypeOK, RecordTypeOK, StripeTypeOK,
     RunTypeOK, WorkerTypeOK, FaultTypeOK, Texts, Statuses
<1>1. CASE ClaimDispatch(w)
  <2>1. WorkerTypeOK'
    BY <1>0, <1>1, GotoType DEF ClaimDispatch, RunTypeOK
  <2>2. DispatchTypeOK'
    BY <1>0, <1>1 DEF ClaimDispatch, DispatchTypeOK
  <2> QED
    BY <1>0, <1>1, <2>1, <2>2, UnchangedType DEF ClaimDispatch, faultVars
<1>2. CASE ScheduleStep(w)
  <2>1. CaseTypeOK' /\ RunTypeOK' /\ WorkerTypeOK'
    <3>1. CASE EscalateStep(w)
      BY <1>0, <1>2, <3>1, EscalateType DEF ScheduleStep
    <3>2. CASE Goto(w, IF shows \notin Shown THEN "failing" ELSE "prepare") /\ UNCHANGED <<caseVars, run>>
      BY <1>0, <1>2, <3>2, GotoType, UnchangedType DEF ScheduleStep
    <3> QED
      BY <1>2, <3>1, <3>2 DEF ScheduleStep
  <2> QED
    BY <1>0, <1>2, <2>1, UnchangedType DEF ScheduleStep, faultVars
<1>3. CASE Prepare(w) \/ ClaimMutation(w)
  <2>1. WorkerTypeOK'
    BY <1>0, <1>3, GotoType DEF Prepare, ClaimMutation
  <2>2. AttemptTypeOK'
    BY <1>0, <1>3 DEF Prepare, ClaimMutation, AttemptTypeOK, Statuses, Doubt
  <2> QED
    BY <1>0, <1>3, <2>1, <2>2, UnchangedType DEF Prepare, ClaimMutation, faultVars
<1>4. CASE Trusted(w) \/ Fence(w)
  <2>1. WorkerTypeOK'
    BY <1>0, <1>4, GotoType DEF Trusted, Fence
  <2> QED
    BY <1>0, <1>4, <2>1, UnchangedType DEF Trusted, Fence, faultVars
<1>5. CASE Preflight(w) \/ RecordRefusal(w)
  <2>1. WorkerTypeOK'
    BY <1>0, <1>5, GotoType DEF Preflight, RecordRefusal
  <2>2. AttemptTypeOK' /\ CaseTypeOK' /\ RecordTypeOK'
    <3>1. CASE Settle("failed", NoWorker)
      BY <1>0, <3>1, SettleType DEF Terminal
    <3>2. CASE UNCHANGED <<attemptVars, caseVars, recordVars>>
      BY <1>0, <3>2, UnchangedType
    <3> QED
      BY <1>5, <3>1, <3>2 DEF Preflight, RecordRefusal
  <2> QED
    BY <1>0, <1>5, <2>1, <2>2, UnchangedType DEF Preflight, RecordRefusal, faultVars
<1>6. CASE Post(w)
  <2>1. WorkerTypeOK'
    BY <1>0, <1>6, GotoType DEF Post
  <2>2. posts' \in Nat
    BY <1>0, <1>6 DEF Post, StripeTypeOK
  <2>3. mine' \in BOOLEAN /\ cancels' \in BOOLEAN /\ late' \in BOOLEAN
    BY <1>0, <1>6, Zenon DEF Post, StripeTypeOK
  <2> QED
    BY <1>0, <1>6, <2>1, <2>2, <2>3, UnchangedType DEF Post, StripeTypeOK, faultVars
<1>7. CASE RecordScheduled(w) \/ RecordDoubt(w)
  <2>1. WorkerTypeOK'
    BY <1>0, <1>7, GotoType DEF RecordScheduled, RecordDoubt
  <2>2. AttemptTypeOK'
    BY <1>0, <1>7, FinalizeType DEF RecordScheduled, RecordDoubt
  <2> QED
    BY <1>0, <1>7, <2>1, <2>2, UnchangedType DEF RecordScheduled, RecordDoubt, faultVars
<1>8. CASE ProjectEffect(w)
  <2>1. WorkerTypeOK'
    BY <1>0, <1>8, GotoType DEF ProjectEffect
  <2>2. CaseTypeOK' /\ RunTypeOK'
    BY <1>0, <1>8 DEF ProjectEffect, CaseTypeOK, RunTypeOK, Shown, caseVars
  <2> QED
    BY <1>0, <1>8, <2>1, <2>2, UnchangedType DEF ProjectEffect, faultVars
<1>9. CASE ToolThrew(w)
  <2>1. CaseTypeOK' /\ RunTypeOK' /\ WorkerTypeOK'
    BY <1>0, <1>9, EscalateType DEF ToolThrew
  <2> QED
    BY <1>0, <1>9, <2>1, UnchangedType DEF ToolThrew, faultVars
<1>10. CASE ResolveStep(w)
  <2>1. Answer \in Texts
    BY DEF Answer, Texts
  <2>2. WorkerTypeOK'
    BY <1>0, <1>10, <2>1, GotoType DEF ResolveStep, WorkerTypeOK
  <2> QED
    BY <1>0, <1>10, <2>2, UnchangedType DEF ResolveStep, faultVars
<1>11. CASE FinalizeCase(w)
  <2>1. WorkerTypeOK' /\ reply[w] \in Texts
    BY <1>0, <1>11, GotoType DEF FinalizeCase, WorkerTypeOK
  <2>2. CASE UNCHANGED <<caseVars, recordVars, run>>
    BY <1>0, <1>11, <2>1, <2>2, UnchangedType DEF FinalizeCase, faultVars
  <2>3. CASE /\ caseReply' = reply[w] /\ caseStatus' = Verdict(reply[w])
             /\ outcome' = [reply |-> reply[w], status |-> Verdict(reply[w])]
             /\ told' = told \cup {Row(reply[w])} /\ run' = "success"
             /\ UNCHANGED <<shows, caseEffect>>
    <3>1. Verdict(reply[w]) \in Finals
      BY DEF Verdict, Finals
    <3>2. CaseTypeOK'
      BY <1>0, <2>1, <2>3, <3>1 DEF CaseTypeOK
    <3>3. RecordTypeOK'
      BY <1>0, <2>1, <2>3, <3>1 DEF RecordTypeOK, Row
    <3>4. RunTypeOK'
      BY <1>0, <1>11, <2>3 DEF FinalizeCase, RunTypeOK
    <3> QED
      BY <1>0, <1>11, <2>1, <3>2, <3>3, <3>4, UnchangedType DEF FinalizeCase, faultVars
  <2> QED
    BY <1>11, <2>2, <2>3 DEF FinalizeCase
<1>12. CASE CompleteDispatch(w)
  <2>1. WorkerTypeOK'
    BY <1>0, <1>12, GoIdleType DEF CompleteDispatch
  <2>2. DispatchTypeOK'
    BY <1>0, <1>12 DEF CompleteDispatch, DispatchTypeOK, dispatchVars
  <2> QED
    BY <1>0, <1>12, <2>1, <2>2, UnchangedType DEF CompleteDispatch, faultVars
<1>13. CASE FailRun(w)
  <2>1. WorkerTypeOK'
    BY <1>0, <1>13, GoIdleType DEF FailRun
  <2>2. RunTypeOK'
    BY <1>0, <1>13 DEF FailRun, RunTypeOK
  <2>3. DispatchTypeOK'
    BY <1>0, <1>13 DEF FailRun, DispatchTypeOK, dispatchVars
  <2>4. CaseTypeOK'
    BY <1>0, <1>13 DEF FailRun, CaseTypeOK, caseVars, Finals
  <2>5. RecordTypeOK'
    <3>1. CASE UNCHANGED recordVars
      BY <1>0, <3>1, UnchangedType
    <3>2. CASE /\ outcome' = [reply |-> IF caseReply = "none" THEN outcome.reply ELSE caseReply,
                              status |-> "escalated"]
               /\ UNCHANGED told
      <4>1. outcome.reply \in Texts \cup {"review"} /\ caseReply \in Texts \cup {"review"}
        BY <1>0 DEF RecordTypeOK, CaseTypeOK
      <4> QED
        BY <1>0, <3>2, <4>1 DEF RecordTypeOK, Finals
    <3> QED
      BY <1>13, <3>1, <3>2 DEF FailRun
  <2> QED
    BY <1>0, <1>13, <2>1, <2>2, <2>3, <2>4, <2>5, UnchangedType DEF FailRun, faultVars
<1> QED
  BY <1>1, <1>2, <1>3, <1>4, <1>5, <1>6, <1>7, <1>8, <1>9, <1>10, <1>11, <1>12, <1>13 DEF Flow

\* So does every step.
LEMMA TypeStep == TypeOK /\ [Next]_vars => TypeOK'
<1> USE DEF PCs, FlowPCs, ReconcilerPCs
<1> SUFFICES ASSUME TypeOK, [Next]_vars PROVE TypeOK'
  OBVIOUS
<1>0. /\ AttemptTypeOK /\ DispatchTypeOK /\ CaseTypeOK /\ RecordTypeOK
      /\ StripeTypeOK /\ RunTypeOK /\ WorkerTypeOK /\ FaultTypeOK
  BY TypeParts
<1> DEFINE Goal ==
      /\ AttemptTypeOK' /\ DispatchTypeOK' /\ CaseTypeOK' /\ RecordTypeOK'
      /\ StripeTypeOK' /\ RunTypeOK' /\ WorkerTypeOK' /\ FaultTypeOK'
<1>1. Goal => TypeOK'
  BY DEF TypeOK, AttemptTypeOK, DispatchTypeOK, CaseTypeOK, RecordTypeOK, StripeTypeOK,
     RunTypeOK, WorkerTypeOK, FaultTypeOK, Texts, Statuses
<1>2. ASSUME NEW w \in Workers, Reconcile(w) PROVE Goal
  <2>1. CASE ClaimAttempt(w)
    <3>1. WorkerTypeOK'
      BY <1>0, <2>1, GotoType DEF ClaimAttempt
    <3>2. AttemptTypeOK'
      BY <1>0, <2>1 DEF ClaimAttempt, AttemptTypeOK
    <3> QED
      BY <1>0, <2>1, <3>1, <3>2, UnchangedType DEF ClaimAttempt, faultVars
  <2>2. CASE Query(w) \/ SettleFound(w)
    <3>1. WorkerTypeOK'
      BY <1>0, <2>2, GotoType, GoIdleType DEF Query, SettleFound
    <3>2. AttemptTypeOK' /\ CaseTypeOK' /\ RecordTypeOK'
      <4>1. ASSUME NEW to \in Terminal, Settle(to, w)
            PROVE  AttemptTypeOK' /\ CaseTypeOK' /\ RecordTypeOK'
        BY <1>0, <4>1, SettleType
      <4>2. CASE UNCHANGED <<attemptVars, caseVars, recordVars>>
        BY <1>0, <4>2, UnchangedType
      <4> QED
        BY <2>2, <4>1, <4>2 DEF Query, SettleFound, Terminal
    <3> QED
      BY <1>0, <2>2, <3>1, <3>2, UnchangedType DEF Query, SettleFound, faultVars
  <2>3. CASE Reschedule(w)
    <3>1. WorkerTypeOK'
      BY <1>0, <2>3, GoIdleType DEF Reschedule
    <3>2. AttemptTypeOK'
      BY <1>0, <2>3 DEF Reschedule, AttemptTypeOK, Statuses, Doubt
    <3> QED
      BY <1>0, <2>3, <3>1, <3>2, UnchangedType DEF Reschedule, faultVars
  <2> QED
    BY <1>2, <2>1, <2>2, <2>3 DEF Reconcile
<1>3. CASE FollowUp
  <2>1. CaseTypeOK' /\ RecordTypeOK'
    BY <1>0, <1>3 DEF FollowUp, CaseTypeOK, RecordTypeOK, Texts
  <2> QED
    BY <1>0, <1>1, <1>3, <2>1, UnchangedType DEF FollowUp, faultVars
<1>4. CASE LatePost \/ ScheduledElsewhere
  <2>1. mine' \in BOOLEAN /\ cancels' \in BOOLEAN /\ late' \in BOOLEAN
    BY <1>0, <1>4, Zenon DEF LatePost, ScheduledElsewhere, StripeTypeOK
  <2>2. StripeTypeOK'
    BY <1>0, <1>4, <2>1 DEF LatePost, ScheduledElsewhere, StripeTypeOK
  <2> QED
    BY <1>0, <1>1, <1>4, <2>2, UnchangedType DEF LatePost, ScheduledElsewhere, faultVars
<1>5. CASE DayPasses
  <2>1. FaultTypeOK'
    BY <1>0, <1>5 DEF DayPasses, FaultTypeOK, faultVars
  <2> QED
    BY <1>0, <1>1, <1>5, <2>1, UnchangedType DEF DayPasses
<1>6. ASSUME NEW busy, Stalls(busy), UNCHANGED old PROVE FaultTypeOK'
  BY <1>0, <1>6, CancellationBoundAssumption DEF Stalls, FaultTypeOK
<1>7. CASE AttemptLeaseExpires
  <2>1. AttemptTypeOK' /\ FaultTypeOK'
    BY <1>0, <1>6, <1>7 DEF AttemptLeaseExpires, AttemptTypeOK
  <2> QED
    BY <1>0, <1>1, <1>7, <2>1, UnchangedType DEF AttemptLeaseExpires
<1>8. CASE DispatchLeaseExpires
  <2>1. DispatchTypeOK' /\ FaultTypeOK'
    BY <1>0, <1>6, <1>8 DEF DispatchLeaseExpires, DispatchTypeOK
  <2> QED
    BY <1>0, <1>1, <1>8, <2>1, UnchangedType DEF DispatchLeaseExpires
<1>9. ASSUME NEW w \in Workers, Crash(w) PROVE Goal
  <2>1. WorkerTypeOK'
    BY <1>0, <1>9, GoIdleType DEF Crash
  <2>2. FaultTypeOK'
    BY <1>0, <1>9, CancellationBoundAssumption DEF Crash, FaultTypeOK
  <2> QED
    BY <1>0, <1>9, <2>1, <2>2, UnchangedType DEF Crash
<1>10. CASE UNCHANGED vars
  BY <1>0, <1>1, <1>10, UnchangedType DEF vars, faultVars, attemptVars, dispatchVars, caseVars,
     recordVars, stripeVars
<1> QED
  BY <1>1, <1>2, <1>3, <1>4, <1>5, <1>7, <1>8, <1>9, <1>10, FlowType DEF Next

-----------------------------------------------------------------------------
(* Who moves, and what a step may do.                                      *)

Moves(w) == Flow(w) \/ Reconcile(w) \/ Crash(w)

StaysPut(w) == \A v \in Workers \ {w} : pc'[v] = pc[v] /\ reply'[v] = reply[v]

Elsewhere ==
  FollowUp \/ LatePost \/ ScheduledElsewhere \/ DayPasses \/ AttemptLeaseExpires \/ DispatchLeaseExpires

\* One worker moves, or time, the customer or Stripe.
LEMMA OneWorkerMoves ==
  ASSUME TypeOK, [Next]_vars
  PROVE  \/ \E w \in Workers : Moves(w) /\ StaysPut(w)
         \/ Elsewhere /\ UNCHANGED <<pc, reply>>
         \/ UNCHANGED vars
<1>1. ASSUME NEW w \in Workers, Moves(w) PROVE StaysPut(w)
  <2>1. ASSUME NEW label, Goto(w, label) PROVE StaysPut(w)
    BY <2>1 DEF TypeOK, Goto, StaysPut
  <2>2. ASSUME GoIdle(w) PROVE StaysPut(w)
    BY <2>2 DEF TypeOK, GoIdle, StaysPut
  <2>3. CASE ResolveStep(w)
    BY <2>1, <2>3 DEF ResolveStep, TypeOK, StaysPut
  <2>4. CASE ScheduleStep(w) \/ ToolThrew(w)
    BY <2>1, <2>4 DEF ScheduleStep, ToolThrew, EscalateStep
  <2>5. CASE ClaimDispatch(w) \/ Prepare(w) \/ ClaimMutation(w) \/ Trusted(w) \/ Preflight(w) \/ Fence(w)
    BY <2>1, <2>5 DEF ClaimDispatch, Prepare, ClaimMutation, Trusted, Preflight, Fence
  <2>6. CASE Post(w) \/ RecordRefusal(w) \/ RecordScheduled(w) \/ RecordDoubt(w) \/ ProjectEffect(w) \/ FinalizeCase(w)
    BY <2>1, <2>6 DEF Post, RecordRefusal, RecordScheduled, RecordDoubt, ProjectEffect, FinalizeCase
  <2>7. CASE CompleteDispatch(w) \/ FailRun(w) \/ Reconcile(w) \/ Crash(w)
    BY <2>1, <2>2, <2>7 DEF CompleteDispatch, FailRun, Reconcile, ClaimAttempt, Query, SettleFound, Reschedule, Crash
  <2> QED
    BY <1>1, <2>3, <2>4, <2>5, <2>6, <2>7 DEF Moves, Flow
<1>2. Elsewhere => UNCHANGED <<pc, reply>>
  BY DEF Elsewhere, FollowUp, LatePost, ScheduledElsewhere, DayPasses, AttemptLeaseExpires, DispatchLeaseExpires
<1> QED
  BY <1>1, <1>2 DEF Next, Moves, Elsewhere

\* The receipt is written with the decision that it reports.
LEMMA ReceiptStep == TypeOK /\ ReceiptIsDecision /\ [Next]_vars => ReceiptIsDecision'
<1> SUFFICES ASSUME TypeOK, ReceiptIsDecision, [Next]_vars PROVE ReceiptIsDecision'
  OBVIOUS
<1> USE DEF ReceiptIsDecision, attemptVars
<1>1. ASSUME NEW to \in {"scheduled", "unknown"}, FinalizeAttempt(to) PROVE ReceiptIsDecision'
  BY <1>1, Zenon DEF FinalizeAttempt, MayFinalize, TypeOK
<1>2. ASSUME NEW to, NEW token, Settle(to, token) PROVE ReceiptIsDecision'
  <2>1. CASE MaySettle(token)
    <3>1. ~effect
      BY <2>1 DEF MaySettle, Doubt
    <3>2. status' = to /\ effect' = (effect \/ to = "scheduled")
      BY <1>2, <2>1 DEF Settle
    <3> QED
      BY <3>1, <3>2, Zenon
  <2>2. CASE ~MaySettle(token)
    BY <1>2, <2>2 DEF Settle
  <2> QED
    BY <2>1, <2>2
<1>3. UNCHANGED <<effect, status>> => ReceiptIsDecision'
  OBVIOUS
<1>4. ASSUME NEW w \in Workers, Flow(w) PROVE ReceiptIsDecision'
  <2>1. CASE ClaimDispatch(w) \/ ScheduleStep(w) \/ Trusted(w) \/ Fence(w) \/ Post(w) \/ ProjectEffect(w) \/ ToolThrew(w)
    BY <1>3, <2>1 DEF ClaimDispatch, ScheduleStep, Trusted, Fence, Post, ProjectEffect, ToolThrew
  <2>2. CASE ResolveStep(w) \/ FinalizeCase(w) \/ CompleteDispatch(w) \/ FailRun(w)
    BY <1>3, <2>2 DEF ResolveStep, FinalizeCase, CompleteDispatch, FailRun
  <2>3. CASE Prepare(w) \/ ClaimMutation(w)
    BY <2>3 DEF Prepare, ClaimMutation, Claimable
  <2>4. CASE Preflight(w) \/ RecordRefusal(w)
    BY <1>2, <1>3, <2>4 DEF Preflight, RecordRefusal
  <2>5. CASE RecordScheduled(w) \/ RecordDoubt(w)
    BY <1>1, <2>5 DEF RecordScheduled, RecordDoubt
  <2> QED
    BY <1>4, <2>1, <2>2, <2>3, <2>4, <2>5 DEF Flow
<1>5. ASSUME NEW w \in Workers, Reconcile(w) \/ Crash(w) PROVE ReceiptIsDecision'
  <2>1. CASE ClaimAttempt(w) \/ Crash(w)
    BY <1>3, <2>1 DEF ClaimAttempt, Crash
  <2>2. CASE Query(w) \/ SettleFound(w)
    BY <1>2, <1>3, <2>2 DEF Query, SettleFound
  <2>3. CASE Reschedule(w)
    BY <2>3 DEF Reschedule, Doubt
  <2> QED
    BY <1>5, <2>1, <2>2, <2>3 DEF Reconcile
<1>6. CASE Elsewhere \/ UNCHANGED vars
  BY <1>3, <1>6 DEF Elsewhere, vars, FollowUp, LatePost, ScheduledElsewhere, DayPasses, AttemptLeaseExpires, DispatchLeaseExpires
<1> QED
  BY <1>4, <1>5, <1>6 DEF Next, Elsewhere

\* What happens to the row without a POST, and what decides it.
RowMoves ==
  \/ UNCHANGED status
  \/ status = "absent" /\ status' = "prepared"
  \/ status = "prepared" /\ status' = "claimed"
  \/ status \in Doubt /\ status' \in {"unknown", "quarantined"}
  \/ status \in Doubt /\ status' = "scheduled" /\ cancels
  \/ status \in Doubt /\ status' = "failed"

\* A row is never reopened, and only the holder of the command records that it
\* had no effect, when its own POST was not sent or refused.
LEMMA RowStep ==
  ASSUME IInv, [Next]_vars
  PROVE  /\ RowMoves
         /\ status' = "failed" /\ status # "failed" =>
              \E w \in Workers : pc[w] \in {"preflight", "refused"} /\ pc'[w] = "doubt" /\ StaysPut(w)
         /\ status' # "prepared" /\ status = "prepared" =>
              \E w \in Workers : pc[w] = "claim" /\ pc'[w] = "trusted" /\ StaysPut(w)
<1> DEFINE Goal ==
      /\ RowMoves
      /\ status' = "failed" /\ status # "failed" =>
           \E w \in Workers : pc[w] \in {"preflight", "refused"} /\ pc'[w] = "doubt" /\ StaysPut(w)
      /\ status' # "prepared" /\ status = "prepared" =>
           \E w \in Workers : pc[w] = "claim" /\ pc'[w] = "trusted" /\ StaysPut(w)
<1>0. TypeOK /\ LearnedFromStripe
  BY DEF IInv
<1>1. UNCHANGED status => Goal
  BY DEF RowMoves
<1>2. ASSUME NEW w \in Workers, Moves(w), StaysPut(w) PROVE Goal
  <2>0. ASSUME NEW label, Goto(w, label) PROVE pc'[w] = label
    BY <1>0, <2>0 DEF Goto, TypeOK
  <2>1. CASE ClaimDispatch(w) \/ ScheduleStep(w) \/ Trusted(w) \/ Fence(w) \/ Post(w) \/ ProjectEffect(w) \/ ToolThrew(w)
    BY <1>1, <2>1 DEF ClaimDispatch, ScheduleStep, Trusted, Fence, Post, ProjectEffect, ToolThrew, attemptVars
  <2>2. CASE ResolveStep(w) \/ FinalizeCase(w) \/ CompleteDispatch(w) \/ FailRun(w) \/ ClaimAttempt(w) \/ Crash(w)
    BY <1>1, <2>2 DEF ResolveStep, FinalizeCase, CompleteDispatch, FailRun, ClaimAttempt, Crash, attemptVars
  <2>3. CASE Prepare(w)
    BY <2>3 DEF Prepare, RowMoves
  <2>4. CASE ClaimMutation(w)
    BY <1>2, <2>0, <2>4 DEF ClaimMutation, Claimable, RowMoves
  <2>5. CASE Preflight(w) \/ RecordRefusal(w)
    <3>1. CASE Settle("failed", NoWorker) /\ Goto(w, "doubt") /\ pc[w] \in {"preflight", "refused"}
      BY <1>1, <1>2, <2>0, <3>1 DEF Settle, MaySettle, RowMoves, attemptVars, Doubt
    <3> QED
      BY <1>1, <2>5, <3>1 DEF Preflight, RecordRefusal, attemptVars
  <2>6. CASE RecordScheduled(w)
    BY <1>0, <1>1, <2>6 DEF RecordScheduled, FinalizeAttempt, MayFinalize, LearnedFromStripe, RowMoves, attemptVars, Doubt
  <2>7. CASE RecordDoubt(w)
    BY <1>1, <2>7 DEF RecordDoubt, FinalizeAttempt, MayFinalize, RowMoves, attemptVars, Doubt
  <2>8. CASE Query(w)
    BY <1>1, <2>8 DEF Query, Settle, MaySettle, RowMoves, attemptVars, Doubt
  <2>9. CASE SettleFound(w)
    BY <1>0, <1>1, <2>9 DEF SettleFound, Settle, MaySettle, LearnedFromStripe, RowMoves, attemptVars, Doubt
  <2>10. CASE Reschedule(w)
    BY <1>1, <2>10 DEF Reschedule, RowMoves, Doubt
  <2> QED
    BY <1>2, <2>1, <2>2, <2>3, <2>4, <2>5, <2>6, <2>7, <2>8, <2>9, <2>10 DEF Moves, Flow, Reconcile
<1>3. CASE Elsewhere \/ UNCHANGED vars
  BY <1>1, <1>3 DEF Elsewhere, vars, FollowUp, LatePost, ScheduledElsewhere, DayPasses, AttemptLeaseExpires, DispatchLeaseExpires, attemptVars
<1> QED
  BY <1>0, <1>2, <1>3, OneWorkerMoves

\* Stripe changes with a POST, with a POST that was given up, or for others.
StripeMoves ==
  \/ UNCHANGED <<posts, mine, late>>
  \/ /\ \E w \in Workers : /\ pc[w] = "posting" /\ StaysPut(w)
                           /\ \/ mine' /\ pc'[w] = "posted" /\ UNCHANGED late
                              \/ mine' = mine /\ pc'[w] = "refused" /\ UNCHANGED late
                              \/ pc'[w] = "doubt" /\ (late' => mine' = mine)
     /\ posts' = posts + 1 /\ UNCHANGED status
  \/ late /\ ~late' /\ UNCHANGED <<posts, status, pc>>

LEMMA StripeStep ==
  ASSUME TypeOK, [Next]_vars
  PROVE  /\ StripeMoves
         /\ cancels => cancels'
         /\ mine' => mine \/ cancels'
         /\ {mine', late', cancels'} \subseteq BOOLEAN
<1> DEFINE Goal == StripeMoves /\ (cancels => cancels') /\ (mine' => mine \/ cancels')
<1>1. UNCHANGED stripeVars => Goal
  BY DEF stripeVars, StripeMoves
<1>2. ASSUME NEW w \in Workers, Moves(w), StaysPut(w) PROVE Goal
  <2>0. ASSUME NEW label, Goto(w, label) PROVE pc'[w] = label
    BY <2>0 DEF Goto, TypeOK
  <2>1. CASE ClaimDispatch(w) \/ ScheduleStep(w) \/ Trusted(w) \/ Fence(w) \/ ProjectEffect(w) \/ ToolThrew(w) \/ Prepare(w) \/ ClaimMutation(w)
    BY <1>1, <2>1 DEF ClaimDispatch, ScheduleStep, Trusted, Fence, ProjectEffect, ToolThrew, Prepare, ClaimMutation
  <2>2. CASE ResolveStep(w) \/ FinalizeCase(w) \/ CompleteDispatch(w) \/ FailRun(w) \/ Reconcile(w) \/ Crash(w)
    BY <1>1, <2>2 DEF ResolveStep, FinalizeCase, CompleteDispatch, FailRun, Reconcile, ClaimAttempt, Query, SettleFound, Reschedule, Crash
  <2>3. CASE Preflight(w) \/ RecordRefusal(w) \/ RecordScheduled(w) \/ RecordDoubt(w)
    BY <1>1, <2>3 DEF Preflight, RecordRefusal, RecordScheduled, RecordDoubt
  <2>4. CASE Post(w)
    <3>1. PICK happens \in BOOLEAN :
            /\ mine' = (mine \/ happens) /\ cancels' = (cancels \/ happens)
            /\ \/ happens /\ Goto(w, "posted") /\ UNCHANGED late
               \/ Refused(happens) /\ Goto(w, "refused") /\ UNCHANGED late
               \/ late' = ~happens /\ Goto(w, "doubt")
      BY <2>4 DEF Post
    <3>2. posts' = posts + 1 /\ UNCHANGED status /\ pc[w] = "posting"
      BY <2>4 DEF Post, attemptVars
    <3>3. (cancels => cancels') /\ (mine' => mine \/ cancels')
      BY <3>1, Zenon
    <3>4. mine \in BOOLEAN
      BY DEF TypeOK
    <3>5. \/ mine' /\ pc'[w] = "posted" /\ UNCHANGED late
          \/ mine' = mine /\ pc'[w] = "refused" /\ UNCHANGED late
          \/ pc'[w] = "doubt" /\ (late' => mine' = mine)
      <4>1. CASE happens /\ Goto(w, "posted") /\ UNCHANGED late
        BY <2>0, <3>1, <4>1
      <4>2. CASE Refused(happens) /\ Goto(w, "refused") /\ UNCHANGED late
        BY <2>0, <3>1, <3>4, <4>2 DEF Refused
      <4>3. CASE late' = ~happens /\ Goto(w, "doubt")
        BY <2>0, <3>1, <3>4, <4>3
      <4> QED
        BY <3>1, <4>1, <4>2, <4>3
    <3> QED
      BY <1>2, <3>2, <3>3, <3>5 DEF StripeMoves
  <2> QED
    BY <1>2, <2>1, <2>2, <2>3, <2>4 DEF Moves, Flow
<1>3. ASSUME LatePost PROVE Goal
  BY <1>3, Zenon DEF LatePost, StripeMoves, attemptVars
<1>4. ASSUME ScheduledElsewhere PROVE Goal
  <2>1. UNCHANGED <<posts, mine, late>> /\ cancels'
    BY <1>4, Zenon DEF ScheduledElsewhere
  <2> QED
    BY <2>1, Zenon DEF StripeMoves
<1>5. ASSUME FollowUp \/ DayPasses \/ AttemptLeaseExpires \/ DispatchLeaseExpires \/ UNCHANGED vars
      PROVE  Goal
  <2>1. UNCHANGED stripeVars
    BY <1>5 DEF FollowUp, DayPasses, AttemptLeaseExpires, DispatchLeaseExpires, vars
  <2> QED
    BY <1>1, <2>1, Zenon
<1>6. TypeOK'
  BY TypeStep
<1>7. {mine', late', cancels'} \subseteq BOOLEAN
  BY <1>6 DEF TypeOK
<1> QED
  BY <1>2, <1>3, <1>4, <1>5, <1>7, OneWorkerMoves DEF Elsewhere

-----------------------------------------------------------------------------
(* One command.                                                            *)

\* The command is entered by the compare and set and left with the POST.
LEMMA CommandStep ==
  ASSUME IInv, NEW w \in Workers, Moves(w)
  PROVE  /\ pc'[w] \in Command =>
              \/ pc[w] \in Command
              \/ pc[w] = "claim" /\ pc'[w] = "trusted" /\ status = "prepared" /\ status' = "claimed"
                 /\ UNCHANGED <<posts, mine, late>>
         /\ pc'[w] \in Before /\ pc[w] \in Command => pc[w] \in Before /\ UNCHANGED <<posts, mine, late>>
         /\ pc'[w] = "refused" => pc[w] = "posting" /\ mine' = mine /\ late' = late
         /\ pc[w] \in {"preflight", "refused"} => UNCHANGED <<posts, mine, late>>
<1> USE DEF Command, Before, stripeVars
<1>0. TypeOK
  BY DEF IInv
<1>1. ASSUME NEW label, Goto(w, label) PROVE pc'[w] = label
  BY <1>0, <1>1 DEF Goto, TypeOK
<1>2. ASSUME GoIdle(w) PROVE pc'[w] = "idle"
  BY <1>0, <1>2 DEF GoIdle, TypeOK
<1>3. CASE ClaimDispatch(w) \/ ScheduleStep(w) \/ ToolThrew(w)
  BY <1>0, <1>1, <1>3 DEF ClaimDispatch, ScheduleStep, ToolThrew, EscalateStep, TypeOK
<1>4. CASE Prepare(w) \/ ClaimMutation(w) \/ Trusted(w) \/ Preflight(w) \/ Fence(w)
  BY <1>1, <1>4 DEF Prepare, ClaimMutation, Claimable, Trusted, Preflight, Fence
<1>5. CASE Post(w)
  <2>1. pc[w] = "posting" /\ pc'[w] \in {"posted", "refused", "doubt"}
    BY <1>1, <1>5 DEF Post
  <2>2. CASE pc'[w] = "refused"
    <3>1. PICK happens \in BOOLEAN :
            mine' = (mine \/ happens) /\ Refused(happens) /\ Goto(w, "refused") /\ UNCHANGED late
      BY <1>1, <1>5, <2>2 DEF Post
    <3>2. mine' = mine
      BY <1>0, <3>1 DEF Refused, TypeOK
    <3> QED
      BY <2>1, <2>2, <3>1, <3>2
  <2> QED
    BY <2>1, <2>2
<1>6. CASE RecordRefusal(w) \/ RecordScheduled(w) \/ RecordDoubt(w) \/ ProjectEffect(w) \/ FinalizeCase(w)
  BY <1>1, <1>6 DEF RecordRefusal, RecordScheduled, RecordDoubt, ProjectEffect, FinalizeCase
<1>7. CASE ResolveStep(w)
  BY <1>0, <1>1, <1>7 DEF ResolveStep, TypeOK
<1>8. CASE CompleteDispatch(w) \/ FailRun(w) \/ Crash(w)
  BY <1>2, <1>8 DEF CompleteDispatch, FailRun, Crash
<1>9. CASE Reconcile(w)
  BY <1>1, <1>2, <1>9 DEF Reconcile, ClaimAttempt, Query, SettleFound, Reschedule
<1> QED
  BY <1>3, <1>4, <1>5, <1>6, <1>7, <1>8, <1>9 DEF Moves, Flow

LEMMA OneCommandStep == IInv /\ [Next]_vars => OneCommand'
<1> SUFFICES ASSUME IInv, [Next]_vars PROVE OneCommand'
  OBVIOUS
<1> USE DEF Command, Before
<1>0. TypeOK /\ OneCommand /\ {mine, late} \subseteq BOOLEAN /\ posts \in Nat /\ {mine', late'} \subseteq BOOLEAN
  BY StripeStep DEF IInv, TypeOK
\* A worker has the command that had it, or has just taken it.
<1>1. ASSUME NEW v \in Workers, pc'[v] \in Command
      PROVE  \/ pc[v] \in Command
             \/ pc[v] = "claim" /\ status = "prepared" /\ status' = "claimed" /\ StaysPut(v)
                /\ UNCHANGED <<posts, mine, late>>
  <2>1. CASE UNCHANGED pc
    BY <1>1, <2>1
  <2>2. ASSUME NEW w \in Workers, Moves(w), StaysPut(w)
        PROVE  \/ pc[v] \in Command
               \/ pc[v] = "claim" /\ status = "prepared" /\ status' = "claimed" /\ StaysPut(v)
                  /\ UNCHANGED <<posts, mine, late>>
    BY <1>1, <2>2, CommandStep DEF StaysPut
  <2> QED
    BY <1>0, <2>1, <2>2, OneWorkerMoves DEF vars
<1>2. StripeMoves
  BY <1>0, StripeStep
<1>3. RowMoves
  BY RowStep
<1>4. posts' <= 1
  <2>1. ASSUME NEW w \in Workers, pc[w] = "posting" PROVE posts = 0
    BY <1>0, <2>1 DEF OneCommand
  <2> QED
    BY <1>0, <1>2, <2>1 DEF StripeMoves, OneCommand
<1>5. \A w, v \in Workers : pc'[w] \in Command /\ pc'[v] \in Command => w = v
  <2> SUFFICES ASSUME NEW w \in Workers, NEW v \in Workers,
                      pc'[w] \in Command, pc'[v] \in Command, w # v
               PROVE  FALSE
    OBVIOUS
  <2>1. CASE status = "prepared"
    BY <1>0, <1>1, <2>1 DEF OneCommand, StaysPut
  <2>2. CASE status # "prepared"
    BY <1>0, <1>1, <2>2 DEF OneCommand
  <2> QED
    BY <2>1, <2>2
<1>6. status' \in {"absent", "prepared"} => posts' = 0 /\ \A w \in Workers : pc'[w] \notin Command
  <2> SUFFICES ASSUME status' \in {"absent", "prepared"}
               PROVE  posts' = 0 /\ \A w \in Workers : pc'[w] \notin Command
    OBVIOUS
  <2>1. status \in {"absent", "prepared"}
    BY <1>3 DEF RowMoves
  <2>2. posts = 0 /\ ~late /\ \A w \in Workers : pc[w] \notin Command
    BY <1>0, <2>1 DEF OneCommand
  <2>3. \A w \in Workers : pc'[w] \notin Command
    BY <1>1, <2>2
  <2> QED
    BY <1>2, <2>2, <2>3 DEF StripeMoves
<1>7. posts' = 0 => ~mine' /\ ~late'
  BY <1>0, <1>2 DEF StripeMoves, OneCommand
<1>8. ASSUME NEW v \in Workers, pc'[v] \in Before PROVE posts' = 0
  <2>1. CASE pc[v] = "claim" /\ status = "prepared" /\ UNCHANGED <<posts, mine, late>>
    BY <1>0, <2>1 DEF OneCommand
  <2>2. CASE pc[v] \in Command /\ Elsewhere /\ UNCHANGED <<pc, reply>>
    <3>1. posts = 0
      BY <1>0, <1>8, <2>2 DEF OneCommand
    <3> QED
      BY <1>0, <1>2, <2>2, <3>1 DEF StripeMoves, OneCommand
  <2>3. CASE pc[v] \in Command /\ UNCHANGED vars
    BY <1>0, <1>8, <2>3 DEF OneCommand, vars, stripeVars
  <2>4. ASSUME NEW w \in Workers, Moves(w), StaysPut(w), pc[v] \in Command PROVE posts' = 0
    <3>1. CASE w = v
      BY <1>0, <1>8, <2>4, <3>1, CommandStep DEF OneCommand
    <3>2. CASE w # v
      <4>1. pc'[v] = pc[v] /\ posts = 0 /\ ~late
        BY <1>0, <1>8, <2>4, <3>2 DEF StaysPut, OneCommand
      <4>2. ASSUME NEW u \in Workers, pc[u] = "posting" PROVE u = v
        BY <1>0, <2>4, <4>2 DEF OneCommand
      <4> QED
        BY <1>2, <1>8, <4>1, <4>2 DEF StripeMoves
    <3> QED
      BY <3>1, <3>2
  <2> QED
    BY <1>0, <1>1, <1>8, <2>1, <2>2, <2>3, <2>4, OneWorkerMoves
<1>9. ASSUME NEW v \in Workers, pc'[v] = "refused" PROVE ~mine' /\ ~late'
  <2>1. CASE pc[v] = "posting" /\ UNCHANGED <<mine, late>>
    BY <1>0, <2>1 DEF OneCommand
  <2>2. CASE pc[v] = "refused"
    <3>1. ~mine /\ ~late
      BY <1>0, <2>2 DEF OneCommand
    <3>2. ASSUME NEW u \in Workers PROVE pc[u] # "posting"
      BY <1>0, <2>2, <3>2 DEF OneCommand
    <3> QED
      BY <1>2, <3>1, <3>2 DEF StripeMoves
  <2>3. ASSUME NEW w \in Workers, Moves(w), StaysPut(w)
        PROVE  (pc[v] = "posting" /\ UNCHANGED <<mine, late>>) \/ pc[v] = "refused"
    BY <1>9, <2>3, CommandStep DEF StaysPut
  <2> QED
    BY <1>0, <1>9, <2>1, <2>2, <2>3, OneWorkerMoves DEF vars
<1>10. late' => ~mine'
  BY <1>0, <1>2 DEF StripeMoves, OneCommand
<1>11. status' = "failed" => ~mine' /\ ~late' /\ \A w \in Workers : pc'[w] \notin Command
  <2> SUFFICES ASSUME status' = "failed"
               PROVE  ~mine' /\ ~late' /\ \A w \in Workers : pc'[w] \notin Command
    OBVIOUS
  <2>1. CASE status = "failed"
    <3>1. ~mine /\ ~late /\ \A w \in Workers : pc[w] \notin Command
      BY <1>0, <2>1 DEF OneCommand
    <3>2. \A w \in Workers : pc'[w] \notin Command
      BY <1>1, <2>1, <3>1
    <3> QED
      BY <1>2, <3>1, <3>2 DEF StripeMoves
  <2>2. CASE status # "failed"
    <3>1. PICK w \in Workers : pc[w] \in {"preflight", "refused"} /\ pc'[w] = "doubt" /\ StaysPut(w)
      BY <2>2, RowStep
    <3>2. ~mine /\ ~late /\ \A u \in Workers : pc[u] # "posting"
      BY <1>0, <3>1 DEF OneCommand
    <3>3. ~mine' /\ ~late'
      BY <1>2, <3>2 DEF StripeMoves
    <3>4. ASSUME NEW v \in Workers PROVE pc'[v] \notin Command
      BY <1>0, <3>1, <3>4 DEF OneCommand, StaysPut
    <3> QED
      BY <3>3, <3>4
  <2> QED
    BY <2>1, <2>2
<1> QED
  BY <1>4, <1>5, <1>6, <1>7, <1>8, <1>9, <1>10, <1>11 DEF OneCommand

-----------------------------------------------------------------------------
(* What is known of the subscription, and of the command.                  *)

LEMMA KnowsStep ==
  ASSUME IInv, NEW w \in Workers, Moves(w)
  PROVE  /\ caseEffect' = "own" => caseEffect = "own" \/ cancels
         /\ pc'[w] \in {"posted", "scheduled", "found"} => cancels \/ mine'
         /\ reply'[w] = "scheduled" => cancels
<1> DEFINE Goal == /\ caseEffect' = "own" => caseEffect = "own" \/ cancels
                   /\ pc'[w] \in {"posted", "scheduled", "found"} => cancels \/ mine'
                   /\ reply'[w] = "scheduled" => cancels
<1>0. TypeOK /\ LearnedFromStripe /\ ReceiptIsDecision
  BY DEF IInv
<1>1. ASSUME NEW label, Goto(w, label)
      PROVE  pc'[w] = label /\ (reply'[w] = "scheduled" => cancels)
  BY <1>0, <1>1 DEF Goto, TypeOK, LearnedFromStripe
<1>2. ASSUME GoIdle(w) PROVE pc'[w] = "idle" /\ reply'[w] = "none"
  BY <1>0, <1>2 DEF GoIdle, TypeOK
<1>3. CASE ClaimDispatch(w) \/ ScheduleStep(w) \/ ToolThrew(w) \/ FinalizeCase(w)
  BY <1>0, <1>1, <1>3 DEF ClaimDispatch, ScheduleStep, ToolThrew, FinalizeCase, EscalateStep, TypeOK, caseVars
<1>4. CASE Prepare(w) \/ ClaimMutation(w) \/ Trusted(w) \/ Fence(w)
  BY <1>0, <1>1, <1>4 DEF Prepare, Replayable, ClaimMutation, Trusted, Fence, LearnedFromStripe, ReceiptIsDecision, caseVars
<1>5. CASE Preflight(w) \/ RecordRefusal(w)
  BY <1>1, <1>5 DEF Preflight, RecordRefusal, Settle, caseVars
<1>6. CASE Post(w)
  <2>1. pc'[w] = "posted" => mine'
    BY <1>0, <1>1, <1>6 DEF Post
  <2>2. pc'[w] \in {"posted", "refused", "doubt"} /\ (reply'[w] = "scheduled" => cancels) /\ UNCHANGED caseEffect
    BY <1>1, <1>6 DEF Post, caseVars
  <2> QED
    BY <2>1, <2>2
<1>7. CASE RecordScheduled(w) \/ RecordDoubt(w) \/ ProjectEffect(w)
  BY <1>0, <1>1, <1>7 DEF RecordScheduled, RecordDoubt, ProjectEffect, LearnedFromStripe, caseVars
<1>8. CASE ResolveStep(w)
  <2>1. Answer = "scheduled" => caseEffect = "own"
    BY DEF Answer
  <2>2. CASE reply' = [reply EXCEPT ![w] = Answer] /\ pc' = [pc EXCEPT ![w] = "finalize"]
    BY <1>0, <1>8, <2>1, <2>2 DEF ResolveStep, TypeOK, LearnedFromStripe, caseVars
  <2>3. CASE Goto(w, "failing")
    BY <1>1, <1>8, <2>3 DEF ResolveStep, caseVars
  <2> QED
    BY <1>8, <2>2, <2>3 DEF ResolveStep
<1>9. CASE CompleteDispatch(w) \/ FailRun(w) \/ Crash(w)
  BY <1>2, <1>9 DEF CompleteDispatch, FailRun, Crash, caseVars
<1>10. CASE ClaimAttempt(w) \/ Reschedule(w)
  BY <1>1, <1>2, <1>10 DEF ClaimAttempt, Reschedule, caseVars
<1>11. CASE Query(w) \/ SettleFound(w)
  BY <1>0, <1>1, <1>2, <1>11 DEF Query, SettleFound, Settle, LearnedFromStripe, caseVars
<1> QED
  BY <1>3, <1>4, <1>5, <1>6, <1>7, <1>8, <1>9, <1>10, <1>11 DEF Moves, Flow, Reconcile

\* What the workflow, the tool or the reconciler takes for cancelled is.
LEMMA LearnedStep == IInv /\ [Next]_vars => LearnedFromStripe'
<1> SUFFICES ASSUME IInv, [Next]_vars PROVE LearnedFromStripe'
  OBVIOUS
<1>0. TypeOK /\ LearnedFromStripe
  BY DEF IInv
<1>1. (cancels => cancels') /\ (mine' => cancels')
  BY <1>0, StripeStep DEF LearnedFromStripe
<1>2. status' = "scheduled" => cancels'
  BY <1>0, <1>1, RowStep DEF RowMoves, LearnedFromStripe
<1>3. ASSUME NEW w \in Workers, Moves(w), StaysPut(w)
      PROVE  LearnedFromStripe'
  <2>1. caseEffect' = "own" => cancels'
    BY <1>0, <1>1, <1>3, KnowsStep DEF LearnedFromStripe
  <2>2. ASSUME NEW v \in Workers
        PROVE  /\ pc'[v] \in {"posted", "scheduled", "found"} => cancels'
               /\ reply'[v] = "scheduled" => cancels'
    BY <1>0, <1>1, <1>3, KnowsStep DEF LearnedFromStripe, StaysPut
  <2> QED
    BY <1>1, <1>2, <2>1, <2>2 DEF LearnedFromStripe
<1>4. CASE (Elsewhere \/ UNCHANGED vars) /\ UNCHANGED <<pc, reply>>
  <2>1. UNCHANGED caseEffect
    BY <1>4 DEF Elsewhere, FollowUp, LatePost, ScheduledElsewhere, DayPasses, AttemptLeaseExpires, DispatchLeaseExpires, vars, caseVars
  <2> QED
    BY <1>0, <1>1, <1>2, <1>4, <2>1 DEF LearnedFromStripe
<1> QED
  BY <1>0, <1>3, <1>4, OneWorkerMoves DEF vars

\* Nobody announces a cancellation that Stripe has not had.
LEMMA ToldStep == IInv /\ [Next]_vars => ToldIsScheduled'
<1> SUFFICES ASSUME IInv, [Next]_vars PROVE ToldIsScheduled'
  OBVIOUS
<1> DEFINE Rows == {"final-scheduled", "cancellation-final"}
           Goal == (told' \ told) \cap Rows # {} => cancels
<1> USE DEF recordVars
<1>0. TypeOK /\ LearnedFromStripe /\ ToldIsScheduled
  BY DEF IInv
<1>1. UNCHANGED told => Goal
  OBVIOUS
<1>2. ASSUME NEW w \in Workers, Moves(w) PROVE Goal
  <2>1. CASE ClaimDispatch(w) \/ ScheduleStep(w) \/ Prepare(w) \/ ClaimMutation(w) \/ Trusted(w) \/ Fence(w) \/ Post(w)
    BY <1>1, <2>1 DEF ClaimDispatch, ScheduleStep, Prepare, ClaimMutation, Trusted, Fence, Post
  <2>2. CASE RecordScheduled(w) \/ RecordDoubt(w) \/ ProjectEffect(w) \/ ToolThrew(w) \/ ResolveStep(w)
    BY <1>1, <2>2 DEF RecordScheduled, RecordDoubt, ProjectEffect, ToolThrew, ResolveStep
  <2>3. CASE CompleteDispatch(w) \/ FailRun(w) \/ ClaimAttempt(w) \/ Reschedule(w) \/ Crash(w)
    BY <1>1, <2>3 DEF CompleteDispatch, FailRun, ClaimAttempt, Reschedule, Crash
  <2>4. CASE Preflight(w) \/ RecordRefusal(w) \/ Query(w)
    BY <1>1, <2>4 DEF Preflight, RecordRefusal, Query, Settle
  <2>5. CASE SettleFound(w)
    BY <1>0, <2>5 DEF SettleFound, LearnedFromStripe
  <2>6. CASE FinalizeCase(w)
    <3>1. reply[w] # "scheduled" => Row(reply[w]) \notin Rows
      BY DEF Row
    <3>2. UNCHANGED told \/ told' = told \cup {Row(reply[w])}
      BY <2>6 DEF FinalizeCase
    <3>3. reply[w] = "scheduled" => cancels
      BY <1>0 DEF LearnedFromStripe
    <3> QED
      BY <3>1, <3>2, <3>3
  <2> QED
    BY <1>2, <2>1, <2>2, <2>3, <2>4, <2>5, <2>6 DEF Moves, Flow, Reconcile
<1>3. ASSUME Elsewhere \/ UNCHANGED vars PROVE Goal
  BY <1>1, <1>3 DEF Elsewhere, FollowUp, LatePost, ScheduledElsewhere, DayPasses, AttemptLeaseExpires, DispatchLeaseExpires, vars
<1>4. cancels => cancels'
  BY <1>0, StripeStep
<1>5. told' \cap Rows # {} => told \cap Rows # {} \/ (told' \ told) \cap Rows # {}
  OBVIOUS
<1>6. Goal
  BY <1>0, <1>2, <1>3, OneWorkerMoves
<1> QED
  BY <1>0, <1>4, <1>5, <1>6 DEF ToldIsScheduled

\* Only an explicit request has a command.
LEMMA CommandedStep == IInv /\ [Next]_vars => Commanded' /\ authority' = authority
<1> SUFFICES ASSUME IInv, [Next]_vars PROVE Commanded' /\ authority' = authority
  OBVIOUS
<1> DEFINE Tool == Scheduling \ {"schedule", "threw"}
<1>0. TypeOK /\ Commanded
  BY DEF IInv
<1>1. ASSUME NEW w \in Workers, Moves(w)
      PROVE  /\ authority' = authority
             /\ pc'[w] \in Tool => pc[w] \in Tool \/ authority = "explicit"
             /\ status' # "absent" => status # "absent" \/ pc[w] \in Tool
  <2> USE DEF Scheduling, Command, Before
  <2>1. ASSUME NEW label, Goto(w, label) PROVE pc'[w] = label
    BY <1>0, <2>1 DEF Goto, TypeOK
  <2>2. ASSUME GoIdle(w) PROVE pc'[w] = "idle"
    BY <1>0, <2>2 DEF GoIdle, TypeOK
  <2>3. CASE ClaimDispatch(w) \/ ScheduleStep(w) \/ ToolThrew(w) \/ ProjectEffect(w) \/ FinalizeCase(w)
    BY <1>0, <2>1, <2>3 DEF ClaimDispatch, ScheduleStep, ToolThrew, EscalateStep, ProjectEffect, FinalizeCase, TypeOK, attemptVars
  <2>4. CASE Prepare(w) \/ ClaimMutation(w) \/ Trusted(w) \/ Fence(w)
    BY <2>1, <2>4 DEF Prepare, ClaimMutation, Trusted, Fence
  <2>5. CASE Preflight(w) \/ RecordRefusal(w) \/ Post(w) \/ RecordScheduled(w) \/ RecordDoubt(w)
    BY <2>1, <2>5 DEF Preflight, RecordRefusal, Post, RecordScheduled, RecordDoubt
  <2>6. CASE ResolveStep(w)
    BY <1>0, <2>1, <2>6 DEF ResolveStep, TypeOK, attemptVars
  <2>7. CASE CompleteDispatch(w) \/ FailRun(w) \/ Crash(w)
    BY <2>2, <2>7 DEF CompleteDispatch, FailRun, Crash, attemptVars
  <2>8. CASE ClaimAttempt(w) \/ Reschedule(w)
    BY <2>1, <2>2, <2>8 DEF ClaimAttempt, Reschedule, Doubt
  <2>9. CASE Query(w) \/ SettleFound(w)
    BY <2>1, <2>2, <2>9 DEF Query, SettleFound, Settle, MaySettle, Doubt, attemptVars
  <2> QED
    BY <1>1, <2>3, <2>4, <2>5, <2>6, <2>7, <2>8, <2>9 DEF Moves, Flow, Reconcile
<1>2. ASSUME NEW w \in Workers, Moves(w), StaysPut(w) PROVE Commanded' /\ authority' = authority
  BY <1>0, <1>1, <1>2 DEF Commanded, StaysPut
<1>3. CASE (Elsewhere \/ UNCHANGED vars) /\ UNCHANGED <<pc, reply>>
  <2>1. UNCHANGED <<authority, status>>
    BY <1>3 DEF Elsewhere, FollowUp, LatePost, ScheduledElsewhere, DayPasses, AttemptLeaseExpires, DispatchLeaseExpires, vars, attemptVars
  <2> QED
    BY <1>0, <1>3, <2>1 DEF Commanded
<1> QED
  BY <1>0, <1>2, <1>3, OneWorkerMoves DEF vars

-----------------------------------------------------------------------------
(* The way to the customer, when no worker stalls.                         *)

\* Whoever works for the run owns the dispatch, and nobody else changes either.
LEMMA RunnerMoves ==
  ASSUME IInv, OneRunner, NEW w \in Workers, Moves(w)
  PROVE  /\ pc'[w] \in FlowPCs => Owns(w)'
         /\ pc'[w] \in Scheduling => run' = "schedule"
         /\ pc'[w] \in {"resolve", "finalize"} => run' = "resolve"
         /\ pc'[w] = "done" => run' = "success"
         /\ dstate' = "completed" => run' = "success"
         /\ pc[w] \in FlowPCs \/ UNCHANGED run
         /\ pc[w] \in FlowPCs \/ owner = NoWorker \/ UNCHANGED dispatchVars
<1> DEFINE Goal == /\ pc'[w] \in FlowPCs => Owns(w)'
                   /\ pc'[w] \in Scheduling => run' = "schedule"
                   /\ pc'[w] \in {"resolve", "finalize"} => run' = "resolve"
                   /\ pc'[w] = "done" => run' = "success"
                   /\ dstate' = "completed" => run' = "success"
                   /\ pc[w] \in FlowPCs \/ UNCHANGED run
                   /\ pc[w] \in FlowPCs \/ owner = NoWorker \/ UNCHANGED dispatchVars
<1> USE DEF FlowPCs, Scheduling, Command, Before, dispatchVars
<1>0. TypeOK
  BY DEF IInv
<1>1. ASSUME NEW label, Goto(w, label) PROVE pc'[w] = label
  BY <1>0, <1>1 DEF Goto, TypeOK
<1>2. ASSUME GoIdle(w) PROVE pc'[w] = "idle"
  BY <1>0, <1>2 DEF GoIdle, TypeOK
<1>3. pc[w] \in FlowPCs => Owns(w)
  BY DEF OneRunner
<1>4. UNCHANGED dispatchVars => (Owns(w)' <=> Owns(w))
  BY DEF Owns
<1>5. CASE ClaimDispatch(w)
  <2>1. dstate' = "held" /\ owner' = w /\ owner = NoWorker /\ UNCHANGED run
    BY <1>5 DEF ClaimDispatch
  <2>2. pc'[w] = CASE run = "success" -> "done" [] run = "failed" -> "failing" [] OTHER -> run
    BY <1>1, <1>5 DEF ClaimDispatch
  <2>3. run \in {"schedule", "resolve", "success", "failed"}
    BY <1>0 DEF TypeOK
  <2> QED
    BY <2>1, <2>2, <2>3 DEF Owns
<1>6. CASE ScheduleStep(w) \/ ToolThrew(w)
  <2>1. pc[w] \in {"schedule", "threw"} /\ UNCHANGED dispatchVars
    BY <1>6 DEF ScheduleStep, ToolThrew
  <2>2. \/ pc'[w] \in {"failing", "prepare"} /\ UNCHANGED run
        \/ pc'[w] = "resolve" /\ run' = "resolve"
    BY <1>1, <1>6 DEF ScheduleStep, ToolThrew, EscalateStep
  <2> QED
    BY <1>3, <1>4, <2>1, <2>2 DEF OneRunner, Owns
<1>7. CASE Prepare(w) \/ ClaimMutation(w) \/ Trusted(w) \/ Preflight(w) \/ Fence(w) \/ Post(w)
           \/ RecordRefusal(w) \/ RecordScheduled(w) \/ RecordDoubt(w)
  <2>1. pc[w] \in Scheduling /\ UNCHANGED <<dstate, owner, run>>
    BY <1>7 DEF Prepare, ClaimMutation, Trusted, Preflight, Fence, Post, RecordRefusal, RecordScheduled, RecordDoubt
  <2>2. pc'[w] \in Scheduling
    BY <1>1, <1>7 DEF Prepare, ClaimMutation, Trusted, Preflight, Fence, Post, RecordRefusal, RecordScheduled, RecordDoubt
  <2> QED
    BY <1>3, <1>4, <2>1, <2>2 DEF OneRunner, Owns
<1>8. CASE ProjectEffect(w) \/ FinalizeCase(w)
  <2>1. pc[w] \in {"scheduled", "finalize"} /\ UNCHANGED dispatchVars
    BY <1>8 DEF ProjectEffect, FinalizeCase
  <2>2. \/ pc'[w] = "threw" /\ UNCHANGED run /\ ~Owns(w)
        \/ pc'[w] = "failing" /\ UNCHANGED run
        \/ pc'[w] = "resolve" /\ run' = "resolve"
        \/ pc'[w] = "done" /\ run' = "success"
    BY <1>1, <1>8 DEF ProjectEffect, FinalizeCase
  <2> QED
    BY <1>3, <1>4, <2>1, <2>2 DEF OneRunner, Owns
<1>9. CASE ResolveStep(w)
  <2>1. pc[w] = "resolve" /\ UNCHANGED <<dstate, owner, run>>
    BY <1>9 DEF ResolveStep
  <2>2. pc'[w] \in {"finalize", "failing"}
    BY <1>0, <1>1, <1>9 DEF ResolveStep, TypeOK
  <2> QED
    BY <1>3, <1>4, <2>1, <2>2 DEF OneRunner, Owns
<1>10. CASE CompleteDispatch(w)
  <2>1. pc'[w] = "idle" /\ run' = run /\ pc[w] = "done"
    BY <1>2, <1>10 DEF CompleteDispatch
  <2> QED
    BY <2>1 DEF OneRunner
<1>11. CASE FailRun(w)
  <2>1. pc'[w] = "idle" /\ pc[w] = "failing" /\ dstate' # "completed"
    BY <1>2, <1>3, <1>11 DEF FailRun, Owns
  <2> QED
    BY <2>1
<1>12. CASE Reconcile(w) \/ Crash(w)
  <2>1. pc'[w] \in {"idle", "query", "found", "missing"}
    BY <1>1, <1>2, <1>12 DEF Reconcile, ClaimAttempt, Query, SettleFound, Reschedule, Crash
  <2>2. UNCHANGED <<dstate, owner, run>>
    BY <1>12 DEF Reconcile, ClaimAttempt, Query, SettleFound, Reschedule, Crash
  <2> QED
    BY <2>1, <2>2 DEF OneRunner
<1> QED
  BY <1>5, <1>6, <1>7, <1>8, <1>9, <1>10, <1>11, <1>12 DEF Moves, Flow

\* A lease that ends under its worker is a stall.
LEMMA StallsCount ==
  ASSUME TypeOK, [Next]_vars, stalls' = 0
  PROVE  /\ stalls = 0
         /\ DispatchLeaseExpires => pc[owner] \notin FlowPCs
<1>1. stalls \in Nat
  BY CancellationBoundAssumption DEF TypeOK
<1>2. ASSUME NEW busy, Stalls(busy) PROVE stalls = 0 /\ ~busy
  BY <1>1, <1>2 DEF Stalls
<1>3. CASE AttemptLeaseExpires \/ DispatchLeaseExpires
  BY <1>2, <1>3 DEF AttemptLeaseExpires, DispatchLeaseExpires
<1>4. CASE FollowUp \/ LatePost \/ ScheduledElsewhere \/ DayPasses \/ UNCHANGED vars
  <2>1. UNCHANGED stalls
    BY <1>4 DEF FollowUp, LatePost, ScheduledElsewhere, DayPasses, vars, faultVars
  <2>2. ~DispatchLeaseExpires
    BY <1>4 DEF DispatchLeaseExpires, FollowUp, LatePost, ScheduledElsewhere, DayPasses, vars, dispatchVars
  <2> QED
    BY <2>1, <2>2
<1>5. ASSUME NEW w \in Workers, Moves(w) PROVE stalls = 0
  <2>1. CASE ClaimDispatch(w) \/ ScheduleStep(w) \/ Prepare(w) \/ ClaimMutation(w) \/ Trusted(w) \/ Preflight(w) \/ Fence(w) \/ Post(w)
    BY <2>1 DEF ClaimDispatch, ScheduleStep, Prepare, ClaimMutation, Trusted, Preflight, Fence, Post, faultVars
  <2>2. CASE RecordRefusal(w) \/ RecordScheduled(w) \/ RecordDoubt(w) \/ ProjectEffect(w) \/ ToolThrew(w) \/ ResolveStep(w)
    BY <2>2 DEF RecordRefusal, RecordScheduled, RecordDoubt, ProjectEffect, ToolThrew, ResolveStep, faultVars
  <2>3. CASE FinalizeCase(w) \/ CompleteDispatch(w) \/ FailRun(w) \/ Reconcile(w) \/ Crash(w)
    BY <2>3 DEF FinalizeCase, CompleteDispatch, FailRun, Reconcile, ClaimAttempt, Query, SettleFound, Reschedule, Crash, faultVars
  <2> QED
    BY <1>5, <2>1, <2>2, <2>3 DEF Moves, Flow
<1>6. DispatchLeaseExpires => pc[owner] \notin FlowPCs
  BY <1>2 DEF DispatchLeaseExpires
<1> QED
  BY <1>3, <1>4, <1>5, <1>6 DEF Next, Moves

LEMMA OneRunnerStep ==
  ASSUME IInv, OneRunner, [Next]_vars, stalls' = 0
  PROVE  OneRunner'
<1>0. TypeOK
  BY DEF IInv
<1>1. ASSUME NEW w \in Workers, Moves(w), StaysPut(w) PROVE OneRunner'
  <2>1. ASSUME NEW v \in Workers, v # w, pc'[v] \in FlowPCs
        PROVE  Owns(v)' /\ UNCHANGED <<run, dstate>> /\ pc[v] = pc'[v]
    <3>1. pc[v] = pc'[v] /\ Owns(v)
      BY <1>1, <2>1 DEF StaysPut, OneRunner
    <3>2. pc[w] \notin FlowPCs /\ owner # NoWorker
      BY <2>1, <3>1, CancellationWorkersAssumption DEF OneRunner, Owns
    <3>3. UNCHANGED <<run, dispatchVars>>
      BY <1>1, <3>2, RunnerMoves
    <3> QED
      BY <3>1, <3>3 DEF Owns, dispatchVars
  <2>2. dstate' = "completed" => run' = "success"
    BY <1>1, RunnerMoves
  <2>3. ASSUME NEW v \in Workers
        PROVE  /\ pc'[v] \in FlowPCs => Owns(v)'
               /\ pc'[v] \in Scheduling => run' = "schedule"
               /\ pc'[v] \in {"resolve", "finalize"} => run' = "resolve"
               /\ pc'[v] = "done" => run' = "success"
    <3>1. CASE v = w
      BY <1>1, <3>1, RunnerMoves
    <3>2. CASE v # w
      BY <2>1, <3>2 DEF OneRunner, FlowPCs, Scheduling, Command, Before
    <3> QED
      BY <3>1, <3>2
  <2> QED
    BY <2>2, <2>3 DEF OneRunner, Owns
<1>2. CASE DispatchLeaseExpires
  <2>1. ASSUME NEW v \in Workers PROVE pc[v] \notin FlowPCs
    BY <1>0, <1>2, <2>1, StallsCount DEF OneRunner, Owns
  <2>2. UNCHANGED <<dstate, run, pc>>
    BY <1>2 DEF DispatchLeaseExpires
  <2> QED
    BY <2>1, <2>2 DEF OneRunner, FlowPCs, Scheduling, Command, Before
<1>3. CASE FollowUp \/ LatePost \/ ScheduledElsewhere \/ DayPasses \/ AttemptLeaseExpires \/ UNCHANGED vars
  <2>1. UNCHANGED <<dstate, owner, run, pc>>
    BY <1>3 DEF FollowUp, LatePost, ScheduledElsewhere, DayPasses, AttemptLeaseExpires, vars, dispatchVars
  <2> QED
    BY <2>1 DEF OneRunner, Owns
<1> QED
  BY <1>0, <1>1, <1>2, <1>3, OneWorkerMoves DEF Elsewhere

\* What an outcome of the cancellation leads to, step by step.
LEMMA WayMoves ==
  ASSUME IInv, OneRunner, OnItsWay, NEW w \in Workers, Moves(w)
  PROVE  /\ told \subseteq told'
         /\ caseEffect = "own" => caseEffect' = "own"
         /\ status' = "scheduled" /\ status # "scheduled" =>
              \/ "cancellation-final" \in told'
              \/ pc[w] = "posted" /\ pc'[w] = "scheduled" /\ UNCHANGED run
         /\ status = "scheduled" /\ "cancellation-final" \notin told =>
              /\ run' = "resolve" /\ run # "resolve" => caseEffect' = "own"
              /\ run' = "success" /\ run # "success" => "final-scheduled" \in told'
              /\ pc'[w] \notin Command \cup {"claim", "doubt", "threw"}
              /\ pc'[w] = "finalize" => reply'[w] = "scheduled"
<1> DEFINE Way == status = "scheduled" /\ "cancellation-final" \notin told
           New == status' = "scheduled" /\ status # "scheduled"
           Goal == /\ told \subseteq told'
                   /\ caseEffect = "own" => caseEffect' = "own"
                   /\ New => \/ "cancellation-final" \in told'
                             \/ pc[w] = "posted" /\ pc'[w] = "scheduled" /\ UNCHANGED run
                   /\ Way => /\ run' = "resolve" /\ run # "resolve" => caseEffect' = "own"
                             /\ run' = "success" /\ run # "success" => "final-scheduled" \in told'
                             /\ pc'[w] \notin Command \cup {"claim", "doubt", "threw"}
                             /\ pc'[w] = "finalize" => reply'[w] = "scheduled"
<1> USE DEF Command, Before, caseVars, recordVars, attemptVars
<1>0. TypeOK /\ Commanded /\ ReceiptIsDecision
  BY DEF IInv
<1>1. ASSUME NEW label, Goto(w, label) PROVE pc'[w] = label /\ UNCHANGED reply
  BY <1>0, <1>1 DEF Goto, TypeOK
<1>2. ASSUME GoIdle(w) PROVE pc'[w] = "idle"
  BY <1>0, <1>2 DEF GoIdle, TypeOK
<1>3. Way => /\ pc[w] \notin Command \cup {"claim", "doubt", "threw"}
             /\ authority = "explicit"
             /\ run = "resolve" => caseEffect = "own"
             /\ pc[w] = "finalize" => reply[w] = "scheduled"
  BY <1>0 DEF OnItsWay, Commanded
<1>4. pc[w] \in FlowPCs => Owns(w)
  BY DEF OneRunner
<1>5. CASE ClaimDispatch(w)
  <2>1. pc'[w] \in {"done", "failing", "schedule", "resolve"}
    BY <1>0, <1>1, <1>5 DEF ClaimDispatch, TypeOK
  <2> QED
    BY <1>5, <2>1 DEF ClaimDispatch
<1>6. CASE ScheduleStep(w)
  <2>1. UNCHANGED <<caseEffect, told, status>> /\ pc'[w] \in {"failing", "prepare", "resolve"}
    BY <1>1, <1>6 DEF ScheduleStep, EscalateStep
  <2>2. authority = "explicit" => UNCHANGED run
    BY <1>6 DEF ScheduleStep
  <2> QED
    BY <1>3, <2>1, <2>2
<1>7. CASE ToolThrew(w)
  BY <1>1, <1>3, <1>7 DEF ToolThrew, EscalateStep
<1>8. CASE Prepare(w)
  <2>1. UNCHANGED <<caseEffect, told, run>> /\ ~New
    BY <1>8 DEF Prepare
  <2>2. Way => pc'[w] = "scheduled"
    BY <1>0, <1>1, <1>4, <1>8 DEF Prepare, Replayable, ReceiptIsDecision, FlowPCs
  <2> QED
    BY <2>1, <2>2
<1>9. CASE ClaimMutation(w) \/ Trusted(w) \/ Fence(w) \/ Post(w)
  BY <1>1, <1>3, <1>9 DEF ClaimMutation, Claimable, Trusted, Fence, Post
<1>10. CASE Preflight(w) \/ RecordRefusal(w)
  <2>1. pc[w] \in Command /\ UNCHANGED run
    BY <1>10 DEF Preflight, RecordRefusal
  <2>2. told \subseteq told' /\ (caseEffect = "own" => caseEffect' = "own") /\ ~New
    BY <1>10 DEF Preflight, RecordRefusal, Settle
  <2> QED
    BY <1>3, <2>1, <2>2
<1>11. CASE RecordScheduled(w) \/ RecordDoubt(w)
  <2>1. pc[w] \in Command \cup {"doubt"} /\ UNCHANGED <<run, told, caseEffect>>
    BY <1>11 DEF RecordScheduled, RecordDoubt
  <2>2. New => pc[w] = "posted" /\ pc'[w] = "scheduled"
    BY <1>1, <1>11 DEF RecordScheduled, RecordDoubt, FinalizeAttempt
  <2> QED
    BY <1>3, <2>1, <2>2
<1>12. CASE ProjectEffect(w)
  BY <1>1, <1>4, <1>12 DEF ProjectEffect, FlowPCs
<1>13. CASE ResolveStep(w)
  <2>1. UNCHANGED <<caseEffect, told, status, run>> /\ pc[w] = "resolve"
    BY <1>13 DEF ResolveStep
  <2>2. Way => Answer = "scheduled"
    BY <1>3, <2>1 DEF Answer, OneRunner
  <2>3. CASE reply' = [reply EXCEPT ![w] = Answer] /\ pc' = [pc EXCEPT ![w] = "finalize"]
    BY <1>0, <2>1, <2>2, <2>3 DEF TypeOK
  <2>4. CASE Goto(w, "failing")
    BY <1>1, <2>1, <2>4
  <2> QED
    BY <1>13, <2>3, <2>4 DEF ResolveStep
<1>14. CASE FinalizeCase(w)
  <2>1. pc[w] = "finalize" /\ UNCHANGED <<caseEffect, status>> /\ pc'[w] \in {"done", "failing"}
    BY <1>1, <1>14 DEF FinalizeCase
  <2>2. \/ told' = told \cup {Row(reply[w])} /\ run' = "success"
        \/ UNCHANGED <<told, run>>
    BY <1>14 DEF FinalizeCase
  <2>3. Way => Row(reply[w]) = "final-scheduled"
    BY <1>3, <2>1 DEF Row
  <2> QED
    BY <2>1, <2>2, <2>3
<1>15. CASE CompleteDispatch(w) \/ Crash(w) \/ ClaimAttempt(w) \/ Reschedule(w)
  BY <1>1, <1>2, <1>15 DEF CompleteDispatch, Crash, ClaimAttempt, Reschedule
<1>16. CASE FailRun(w)
  <2>1. UNCHANGED <<caseEffect, told, status>> /\ run' \in {run, "failed"} /\ pc'[w] = "idle"
    BY <1>2, <1>16 DEF FailRun
  <2> QED
    BY <2>1
<1>17. CASE Query(w) \/ SettleFound(w)
  <2>1. pc'[w] \in {"idle", "missing", "found"} /\ UNCHANGED run
    BY <1>1, <1>2, <1>17 DEF Query, SettleFound
  <2>2. told \subseteq told' /\ (caseEffect = "own" => caseEffect' = "own")
    BY <1>17 DEF Query, SettleFound, Settle
  <2>3. New => "cancellation-final" \in told'
    BY <1>17 DEF Query, SettleFound, Settle
  <2> QED
    BY <2>1, <2>2, <2>3
<1> QED
  BY <1>5, <1>6, <1>7, <1>8, <1>9, <1>10, <1>11, <1>12, <1>13, <1>14, <1>15, <1>16, <1>17
  DEF Moves, Flow, Reconcile

LEMMA PromptStep == IInv /\ [Next]_vars => Prompt'
<1> SUFFICES ASSUME IInv, [Next]_vars, stalls' = 0
             PROVE  OneRunner' /\ OnItsWay' /\ \A w \in Workers : pc'[w] = "claim" => status' = "prepared"
  BY DEF Prompt, OneRunner, OnItsWay, Owns
<1> USE DEF Command, Before
<1>0. TypeOK /\ OneRunner /\ OnItsWay /\ \A w \in Workers : pc[w] = "claim" => status = "prepared"
  BY StallsCount DEF IInv, Prompt
<1>1. OneRunner'
  BY <1>0, OneRunnerStep
<1>2. ASSUME NEW w \in Workers, NEW v \in Workers, pc[w] \in FlowPCs, pc[v] \in FlowPCs PROVE w = v
  BY <1>0, <1>2 DEF OneRunner, Owns
<1>3. ASSUME NEW v \in Workers, pc'[v] = "claim" PROVE status' = "prepared"
  <2>1. CASE pc[v] = "claim"
    <3>1. ASSUME NEW u \in Workers, pc[u] = "claim" PROVE u = v
      BY <1>2, <2>1, <3>1 DEF FlowPCs
    <3> QED
      BY <1>0, <1>3, <2>1, <3>1, RowStep
  <2>2. CASE pc[v] # "claim"
    <3>1. PICK w \in Workers : Moves(w) /\ StaysPut(w)
      BY <1>0, <1>3, <2>2, OneWorkerMoves DEF vars
    <3>2. w = v
      BY <1>3, <2>2, <3>1 DEF StaysPut
    <3>3. ASSUME NEW label, Goto(v, label) PROVE label = "claim"
      BY <1>0, <1>3, <3>3 DEF Goto, TypeOK
    <3>4. ~GoIdle(v)
      BY <1>0, <1>3 DEF GoIdle, TypeOK
    <3>5. Prepare(v)
      <4>1. ~ClaimDispatch(v)
        BY <1>0, <3>3 DEF ClaimDispatch, TypeOK
      <4>2. ~(ScheduleStep(v) \/ ToolThrew(v) \/ ClaimMutation(v) \/ Trusted(v) \/ Preflight(v) \/ Fence(v) \/ Post(v))
        BY <3>3 DEF ScheduleStep, ToolThrew, EscalateStep, ClaimMutation, Trusted, Preflight, Fence, Post
      <4>3. ~(RecordRefusal(v) \/ RecordScheduled(v) \/ RecordDoubt(v) \/ ProjectEffect(v) \/ FinalizeCase(v))
        BY <3>3 DEF RecordRefusal, RecordScheduled, RecordDoubt, ProjectEffect, FinalizeCase
      <4>4. ~ResolveStep(v)
        BY <1>0, <1>3, <3>3 DEF ResolveStep, TypeOK
      <4>5. ~(CompleteDispatch(v) \/ FailRun(v) \/ Reconcile(v) \/ Crash(v))
        BY <3>3, <3>4 DEF CompleteDispatch, FailRun, Reconcile, ClaimAttempt, Query, SettleFound, Reschedule, Crash
      <4> QED
        BY <3>1, <3>2, <4>1, <4>2, <4>3, <4>4, <4>5 DEF Moves, Flow
    <3> QED
      BY <3>3, <3>5 DEF Prepare
  <2> QED
    BY <2>1, <2>2
<1>4. OnItsWay'
  <2> SUFFICES ASSUME status' = "scheduled", "cancellation-final" \notin told'
               PROVE  /\ run' = "resolve" => caseEffect' = "own"
                      /\ run' = "success" => "final-scheduled" \in told'
                      /\ \A v \in Workers : pc'[v] \notin Command \cup {"claim", "doubt", "threw"}
                      /\ \A v \in Workers : pc'[v] = "finalize" => reply'[v] = "scheduled"
    BY DEF OnItsWay
  <2>1. CASE (Elsewhere \/ UNCHANGED vars) /\ UNCHANGED <<pc, reply>>
    <3>1. UNCHANGED <<status, told, run, caseEffect>>
      BY <2>1 DEF Elsewhere, FollowUp, LatePost, ScheduledElsewhere, DayPasses, AttemptLeaseExpires, DispatchLeaseExpires, vars, attemptVars, caseVars, recordVars
    <3> QED
      BY <1>0, <2>1, <3>1 DEF OnItsWay
  <2>2. ASSUME NEW w \in Workers, Moves(w), StaysPut(w)
        PROVE  /\ run' = "resolve" => caseEffect' = "own"
               /\ run' = "success" => "final-scheduled" \in told'
               /\ \A v \in Workers : pc'[v] \notin Command \cup {"claim", "doubt", "threw"}
               /\ \A v \in Workers : pc'[v] = "finalize" => reply'[v] = "scheduled"
    <3>1. CASE status = "scheduled"
      <4>1. "cancellation-final" \notin told
        BY <1>0, <2>2, WayMoves
      <4>2. /\ run' = "resolve" => caseEffect' = "own"
            /\ run' = "success" => "final-scheduled" \in told'
        BY <1>0, <2>2, <3>1, <4>1, WayMoves DEF OnItsWay
      <4>3. ASSUME NEW v \in Workers
            PROVE  /\ pc'[v] \notin Command \cup {"claim", "doubt", "threw"}
                   /\ pc'[v] = "finalize" => reply'[v] = "scheduled"
        <5>1. CASE v = w
          BY <1>0, <2>2, <3>1, <4>1, <5>1, WayMoves
        <5>2. CASE v # w
          BY <1>0, <2>2, <3>1, <4>1, <5>2 DEF OnItsWay, StaysPut
        <5> QED
          BY <5>1, <5>2
      <4> QED
        BY <4>2, <4>3
    <3>2. CASE status # "scheduled"
      <4>1. pc[w] = "posted" /\ pc'[w] = "scheduled" /\ UNCHANGED run
        BY <1>0, <2>2, <3>2, WayMoves
      <4>2. run' = "schedule"
        BY <1>0, <4>1 DEF OneRunner, Scheduling
      <4>3. ASSUME NEW v \in Workers, v # w PROVE pc'[v] \notin FlowPCs
        <5>1. pc[w] \in FlowPCs /\ pc[v] = pc'[v]
          BY <2>2, <4>1, <4>3 DEF FlowPCs, StaysPut
        <5> QED
          BY <1>2, <4>3, <5>1
      <4> QED
        BY <4>1, <4>2, <4>3 DEF FlowPCs
    <3> QED
      BY <3>1, <3>2
  <2> QED
    BY <1>0, <2>1, <2>2, OneWorkerMoves DEF vars
<1> QED
  BY <1>1, <1>3, <1>4

-----------------------------------------------------------------------------
(* The invariant is inductive.                                             *)

LEMMA InitInvariant == Init => IInv
<1> SUFFICES ASSUME Init PROVE IInv
  OBVIOUS
<1> USE DEF Command, Before, Scheduling
<1>1. TypeOK
  BY InitType
<1>2. ReceiptIsDecision /\ OneCommand /\ ToldIsScheduled
  BY DEF Init, ReceiptIsDecision, OneCommand, ToldIsScheduled
<1>3. LearnedFromStripe
  BY EarlierEffectsAssumption DEF Init, LearnedFromStripe
<1>4. Commanded
  BY DEF Init, Commanded
<1>5. Prompt
  BY DEF Init, Prompt, OneRunner, OnItsWay, Owns, FlowPCs
<1> QED
  BY <1>1, <1>2, <1>3, <1>4, <1>5 DEF IInv

LEMMA InvariantStep == IInv /\ [Next]_vars => IInv'
<1> SUFFICES ASSUME IInv, [Next]_vars PROVE IInv'
  OBVIOUS
<1>1. TypeOK' /\ ReceiptIsDecision'
  BY TypeStep, ReceiptStep DEF IInv
<1> QED
  BY <1>1, OneCommandStep, LearnedStep, ToldStep, CommandedStep, PromptStep DEF IInv

LEMMA Invariant == Spec => []IInv
  BY InitInvariant, InvariantStep, PTL DEF Spec

-----------------------------------------------------------------------------
(* The theorems.                                                           *)

\* case-store-cancellation.ts, resolve-support-case-finalize.ts: receipt,
\* decision and what the customer is told agree, however many workers run the
\* workflow, reconcile, crash or stall.
THEOREM OneStory == Spec => []AnswersAgree
<1>1. IInv => ScheduledIsTold
  BY DEF IInv, Prompt, OneRunner, OnItsWay, ScheduledIsTold
<1>2. IInv => AnswersAgree
  BY <1>1 DEF IInv, AnswersAgree
<1> QED
  BY <1>2, Invariant, PTL

\* tools/schedule-subscription-cancellation.ts and its reconciler implement
\* OneEffect: the command is posted at most once, its verdict is final, and a
\* command that is recorded as without effect never has one.
THEOREM CancelledOnce == Spec => OneCancellation
<1>1. Init => Promise!Init
  BY DEF Init, Promise!Init, Verdicts
<1>2. IInv /\ [Next]_vars => [Promise!Next]_<<posts, mine, Verdicts>>
  <2> SUFFICES ASSUME IInv, [Next]_vars
               PROVE  Promise!Next \/ UNCHANGED <<posts, mine, Verdicts>>
    OBVIOUS
  <2>0. TypeOK /\ OneCommand /\ mine \in BOOLEAN /\ mine' \in BOOLEAN /\ posts \in Nat
    BY StripeStep DEF IInv, TypeOK
  <2>1. CASE UNCHANGED <<posts, mine, late>>
    <3>1. UNCHANGED status => UNCHANGED Verdicts
      BY DEF Verdicts
    <3>2. CASE status' = "failed" /\ status # "failed"
      <4>1. ~mine /\ Verdicts' = "none"
        BY <2>0, <3>2, RowStep DEF OneCommand, Command, Before, Verdicts
      <4>2. Verdicts = "open"
        BY <3>2, RowStep DEF RowMoves, Verdicts, Doubt
      <4> QED
        BY <2>1, <4>1, <4>2 DEF Promise!Next, Promise!Close
    <3>3. CASE status' # "failed" /\ status' # status
      <4>1. Verdicts = "open" /\ Verdicts' \in {"open", "done", "doubt"}
        BY <3>3, RowStep DEF RowMoves, Verdicts, Doubt
      <4> QED
        BY <2>1, <4>1 DEF Promise!Next, Promise!Close
    <3> QED
      BY <2>1, <3>1, <3>2, <3>3
  <2>2. CASE /\ \E w \in Workers : pc[w] = "posting"
             /\ posts' = posts + 1 /\ UNCHANGED status
    <3>1. posts = 0 /\ status # "failed"
      BY <2>0, <2>2 DEF OneCommand, Command, Before
    <3>2. posts' = 1 /\ Verdicts # "none" /\ UNCHANGED Verdicts
      BY <2>2, <3>1 DEF Verdicts
    <3> QED
      BY <2>0, <3>1, <3>2 DEF Promise!Next, Promise!Send
  <2>3. CASE late /\ UNCHANGED <<posts, status>>
    <3>1. posts = 1 /\ ~mine /\ status # "failed"
      BY <2>0, <2>3 DEF OneCommand
    <3>2. Verdicts # "none" /\ UNCHANGED Verdicts
      BY <2>3, <3>1 DEF Verdicts
    <3>3. CASE mine'
      <4>1. mine' = TRUE /\ mine = FALSE
        BY <2>0, <3>1, <3>3
      <4> QED
        BY <2>3, <3>1, <3>2, <4>1 DEF Promise!Next, Promise!Happen
    <3>4. CASE ~mine'
      <4>1. mine' = mine
        BY <2>0, <3>1, <3>4
      <4> QED
        BY <2>3, <3>2, <4>1
    <3> QED
      BY <3>3, <3>4
  <2>4. StripeMoves
    BY <2>0, StripeStep
  <2> QED
    BY <2>1, <2>2, <2>3, <2>4 DEF StripeMoves
<1> QED
  BY <1>1, <1>2, Invariant, PTL DEF Spec, OneCancellation, Promise!Spec

==============================================================================

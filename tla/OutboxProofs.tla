----------------------------- MODULE OutboxProofs -----------------------------
(***************************************************************************)
(* Theorems about Outbox, for any number of workers, turns, rows and       *)
(* faults.  Those about the delivery of rows at most once hold for both    *)
(* providers; the refinement of Delivery is what Intercom needs.           *)
(***************************************************************************)
EXTENDS Outbox, TLAPS

-----------------------------------------------------------------------------
(* The inductive invariant.                                                *)

\* A worker has a row of the conversation, and adapter steps are Intercom's.
JobIsRow ==
  /\ \A w \in Workers : pc[w] # "idle" => job[w] \in Rows
  /\ \A w \in Workers : pc[w] \in {"sweeping", "renewed", "started", "fence", "ambiguous"}
       => Provider = "intercom"

\* Only a row at work has an owner.
OwnerIsActive == \A i \in Rows : owner[i] # NoWorker => ostate[i] \in Active

\* Rows are queued one after the other.
QueueIsDense == \A i \in Rows : ostate[i] = "absent" <=> i > size

\* Whatever may be at the provider has nothing open before it.
InOrder == \A i \in Rows : ostate[i] \in Active \cup {"uncertain"} => HeadOfLine(i)

\* A note or close that is still to be sent belongs to the turn on display.
ManualIsCurrent ==
  \A i \in Rows : op[i] \in Manual /\ ostate[i] \in Unsettled =>
    /\ activeTurn = origin[i] /\ activeTurn # 0
    /\ status \in Finals /\ dispatch = "idle" /\ served = turns

\* From the mark 'started' on, a row has one sender, up to its last step.
BeforePost == {"started", "fence", "posting"}
Sending == BeforePost \cup {"refused", "ambiguous", "withdrawn", "receipt", "late",
                            "reopen", "reopenFence", "reopenPost"}

Senders ==
  /\ \A w \in Workers : pc[w] \in Sending =>
       ostate[job[w]] = "uncertain" \/ (ostate[job[w]] = "started" /\ owner[job[w]] = w)
  /\ \A w, v \in Workers : pc[w] \in Sending /\ pc[v] \in Sending /\ job[w] = job[v] => w = v

\* A row that may be posted has not been carried out.
NotYetApplied ==
  /\ \A w \in Workers : pc[w] \in BeforePost \cup {"refused"} => applied[job[w]] = 0
  /\ \A i \in Rows : ostate[i] \in {"absent", "pending", "claimed", "failed"} => applied[i] = 0

IInv ==
  /\ TypeOK /\ JobIsRow /\ OwnerIsActive /\ QueueIsDense /\ InOrder /\ ManualIsCurrent
  /\ AtMostOnce
  /\ Provider = "intercom" => Senders /\ NotYetApplied

-----------------------------------------------------------------------------
(* Type correctness.                                                       *)

RowStates == Unsettled \cup {"absent", "delivered", "superseded", "failed", "uncertain"}

CaseTypeOK ==
  /\ turns \in Turns /\ served \in Turns
  /\ dispatch \in {"idle", "running", "suspended"}
  /\ activeTurn \in 0..MaxTurns
  /\ status \in Finals \cup {"open", "waiting_approval"}
PlanTypeOK ==
  /\ size \in 0..MaxRows
  /\ op \in [Rows -> Manual \cup {"none", "reply", "status"}]
  /\ origin \in [Rows -> 0..MaxTurns]
  /\ wants \in [Rows -> Finals \cup {"none"}]
RowTypeOK ==
  /\ ostate \in [Rows -> RowStates]
  /\ attempts \in [Rows -> Nat]
  /\ owner \in [Rows -> Workers \cup {NoWorker}]
  /\ live \in [Rows -> BOOLEAN]
QueueTypeOK == deferred \in SUBSET Rows /\ fresh \in SUBSET Workers
RemoteTypeOK == applied \in [Rows -> Nat] /\ remote \in {"open", "closed"}
WorkerTypeOK ==
  pc \in [Workers -> PCs] /\ job \in [Workers -> Nat] /\ counted \in [Workers -> Nat]

\* The parts are the type invariant of the module.
LEMMA TypeParts ==
  TypeOK <=> /\ CaseTypeOK /\ PlanTypeOK /\ RowTypeOK /\ QueueTypeOK /\ RemoteTypeOK
             /\ WorkerTypeOK /\ faults \in 0..MaxFaults
  BY DEF TypeOK, CaseTypeOK, PlanTypeOK, RowTypeOK, QueueTypeOK, RemoteTypeOK, WorkerTypeOK, RowStates

\* What is left alone keeps its type.
LEMMA UnchangedType ==
  /\ CaseTypeOK /\ UNCHANGED caseVars => CaseTypeOK'
  /\ PlanTypeOK /\ UNCHANGED planVars => PlanTypeOK'
  /\ RowTypeOK /\ UNCHANGED <<ostate, attempts, owner, live>> => RowTypeOK'
  /\ QueueTypeOK /\ UNCHANGED <<deferred, fresh>> => QueueTypeOK'
  /\ RemoteTypeOK /\ UNCHANGED remoteVars => RemoteTypeOK'
  /\ WorkerTypeOK /\ UNCHANGED workerVars => WorkerTypeOK'
<1>1. /\ CaseTypeOK /\ UNCHANGED caseVars => CaseTypeOK'
      /\ PlanTypeOK /\ UNCHANGED planVars => PlanTypeOK'
  BY DEF CaseTypeOK, caseVars, PlanTypeOK, planVars
<1>2. /\ RowTypeOK /\ UNCHANGED <<ostate, attempts, owner, live>> => RowTypeOK'
      /\ QueueTypeOK /\ UNCHANGED <<deferred, fresh>> => QueueTypeOK'
  BY DEF RowTypeOK, QueueTypeOK
<1>3. /\ RemoteTypeOK /\ UNCHANGED remoteVars => RemoteTypeOK'
      /\ WorkerTypeOK /\ UNCHANGED workerVars => WorkerTypeOK'
  BY DEF RemoteTypeOK, remoteVars, WorkerTypeOK, workerVars
<1> QED
  BY <1>1, <1>2, <1>3

LEMMA GotoType ==
  ASSUME WorkerTypeOK, NEW w \in Workers, NEW label \in PCs, Goto(w, label)
  PROVE  WorkerTypeOK'
  BY DEF WorkerTypeOK, Goto

LEMMA SettleType ==
  ASSUME RowTypeOK, NEW i \in Nat, NEW s \in RowStates, Settle(i, s)
  PROVE  RowTypeOK'
  BY DEF RowTypeOK, Settle

\* The operations of a batch, and what they become as rows.
Batch(rows) == \E n \in 1..2 : rows \in [1..n -> Manual \cup {"reply", "status"}]

LEMMA Batches ==
  Batch(FinalOperations) /\ Batch(<<"note", "close">>)
<1>1. \A a \in Manual \cup {"reply", "status"} : <<a>> \in [1..1 -> Manual \cup {"reply", "status"}]
  OBVIOUS
<1>2. \A a, b \in Manual \cup {"reply", "status"} :
        <<a, b>> \in [1..2 -> Manual \cup {"reply", "status"}]
  OBVIOUS
<1> QED
  BY <1>1, <1>2 DEF Batch, FinalOperations, Manual

LEMMA EnqueueEffect ==
  ASSUME TypeOK, NEW rows, Batch(rows), NEW s \in Finals, Enqueue(rows, s)
  PROVE  \E n \in 1..2 :
           /\ size + n <= MaxRows /\ size' = size + n /\ DOMAIN rows = 1..n
           /\ \A i \in Rows : IF i > size /\ i <= size + n
                              THEN /\ ostate'[i] = "pending" /\ origin'[i] = activeTurn
                                   /\ op'[i] \in Manual \cup {"reply", "status"} /\ wants'[i] = s
                                   /\ op'[i] = rows[i - size]
                              ELSE /\ ostate'[i] = ostate[i] /\ origin'[i] = origin[i]
                                   /\ op'[i] = op[i] /\ wants'[i] = wants[i]
           /\ PlanTypeOK' /\ ostate' \in [Rows -> RowStates]
<1> DEFINE n == CHOOSE k \in 1..2 : DOMAIN rows = 1..k
           new == (size + 1)..(size + n)
<1>1. \E k \in 1..2 : DOMAIN rows = 1..k
  BY DEF Batch
<1>2. n \in 1..2 /\ DOMAIN rows = 1..n
  BY <1>1
<1>3. \A k \in 1..n : rows[k] \in Manual \cup {"reply", "status"}
  <2>1. PICK m \in 1..2 : rows \in [1..m -> Manual \cup {"reply", "status"}]
    BY DEF Batch
  <2> QED
    BY <1>2, <2>1
<1> HIDE DEF n
<1>4. size \in Nat /\ MaxRows \in Nat /\ n \in Nat
  BY <1>2, OutboxBoundsAssumption DEF TypeOK
<1>5. /\ size + n <= MaxRows /\ size' = size + n
      /\ op' = [i \in Rows |-> IF i \in new THEN rows[i - size] ELSE op[i]]
      /\ origin' = [i \in Rows |-> IF i \in new THEN activeTurn ELSE origin[i]]
      /\ wants' = [i \in Rows |-> IF i \in new THEN s ELSE wants[i]]
      /\ ostate' = [i \in Rows |-> IF i \in new THEN "pending" ELSE ostate[i]]
  BY DEF Enqueue, n
<1>6. \A i \in Rows : i \in new <=> i > size /\ i <= size + n
  BY <1>4 DEF Rows
<1>7. \A i \in new : rows[i - size] \in Manual \cup {"reply", "status"}
  <2> SUFFICES ASSUME NEW i \in new PROVE i - size \in 1..n
    BY <1>3
  <2> QED
    BY <1>4
<1> HIDE DEF new
<1>8. PlanTypeOK'
  <2>1. size' \in 0..MaxRows
    BY <1>4, <1>5
  <2>2. op' \in [Rows -> Manual \cup {"none", "reply", "status"}]
    BY <1>5, <1>7 DEF TypeOK
  <2>3. origin' \in [Rows -> 0..MaxTurns] /\ wants' \in [Rows -> Finals \cup {"none"}]
    BY <1>5 DEF TypeOK
  <2> QED
    BY <2>1, <2>2, <2>3 DEF PlanTypeOK
<1>9. ostate' \in [Rows -> RowStates]
  BY <1>5 DEF TypeOK, RowStates, Unsettled
<1>10. \A i \in Rows : IF i > size /\ i <= size + n
                       THEN /\ ostate'[i] = "pending" /\ origin'[i] = activeTurn
                            /\ op'[i] \in Manual \cup {"reply", "status"} /\ wants'[i] = s
                            /\ op'[i] = rows[i - size]
                       ELSE /\ ostate'[i] = ostate[i] /\ origin'[i] = origin[i]
                            /\ op'[i] = op[i] /\ wants'[i] = wants[i]
  BY <1>5, <1>6, <1>7
<1> QED
  BY <1>2, <1>5, <1>8, <1>9, <1>10

LEMMA InitType == Init => TypeOK
<1> SUFFICES ASSUME Init PROVE TypeOK
  OBVIOUS
<1>1. CaseTypeOK /\ PlanTypeOK
  BY OutboxBoundsAssumption DEF Init, CaseTypeOK, PlanTypeOK, Turns
<1>2. RowTypeOK /\ QueueTypeOK /\ RemoteTypeOK
  BY DEF Init, RowTypeOK, QueueTypeOK, RemoteTypeOK, RowStates
<1>3. WorkerTypeOK /\ faults \in 0..MaxFaults
  BY OutboxBoundsAssumption DEF Init, WorkerTypeOK, PCs
<1> QED
  BY <1>1, <1>2, <1>3, TypeParts

\* The steps of the case keep the declared types.
LEMMA CaseStepType == TypeOK /\ CaseStep => TypeOK'
<1> SUFFICES ASSUME TypeOK, CaseStep PROVE TypeOK'
  OBVIOUS
<1>0. /\ CaseTypeOK /\ PlanTypeOK /\ RowTypeOK /\ QueueTypeOK /\ RemoteTypeOK
      /\ WorkerTypeOK /\ faults \in 0..MaxFaults
  BY TypeParts
<1> SUFFICES
      /\ CaseTypeOK' /\ PlanTypeOK' /\ RowTypeOK' /\ QueueTypeOK' /\ RemoteTypeOK'
      /\ WorkerTypeOK' /\ faults' \in 0..MaxFaults
  BY DEF TypeOK, CaseTypeOK, PlanTypeOK, RowTypeOK, QueueTypeOK, RemoteTypeOK, WorkerTypeOK, RowStates
<1>1. CASE ActivateTurn \/ AskApproval \/ Decide \/ FailDispatchAndCase
  <2>1. CaseTypeOK'
    <3>1. CASE ActivateTurn
      <4>1. served + 1 \in Turns /\ served + 1 \in 0..MaxTurns
        BY <1>0, <3>1, OutboxBoundsAssumption DEF ActivateTurn, CaseTypeOK, Turns
      <4> QED
        BY <1>0, <3>1, <4>1 DEF ActivateTurn, CaseTypeOK
    <3>2. CASE AskApproval \/ Decide \/ FailDispatchAndCase
      BY <1>0, <3>2 DEF AskApproval, Decide, FailDispatchAndCase, CaseTypeOK, Finals
    <3> QED
      BY <1>1, <3>1, <3>2
  <2>2. UNCHANGED <<planVars, ostate, attempts, owner, live, deferred, fresh, remoteVars, workerVars, faults>>
    BY <1>1 DEF ActivateTurn, AskApproval, Decide, FailDispatchAndCase, rowVars
  <2> QED
    BY <1>0, <2>1, <2>2, UnchangedType
<1>2. ASSUME NEW rows, Batch(rows), NEW s \in Finals, Enqueue(rows, s),
             UNCHANGED <<turns, served, activeTurn, attempts, owner, live, deferred, fresh,
                         remoteVars, workerVars, faults>>,
             dispatch' \in {"idle", dispatch}, status' \in Finals
      PROVE  /\ CaseTypeOK' /\ PlanTypeOK' /\ RowTypeOK' /\ QueueTypeOK' /\ RemoteTypeOK'
             /\ WorkerTypeOK' /\ faults' \in 0..MaxFaults
  <2>1. PlanTypeOK' /\ ostate' \in [Rows -> RowStates]
    BY <1>2, EnqueueEffect
  <2>2. RowTypeOK'
    BY <1>0, <1>2, <2>1 DEF RowTypeOK
  <2>3. CaseTypeOK'
    BY <1>0, <1>2 DEF CaseTypeOK
  <2> QED
    BY <1>0, <1>2, <2>1, <2>2, <2>3, UnchangedType
<1>3. CASE ResolveManually
  <2>1. Enqueue(<<"note", "close">>, "resolved") /\ "resolved" \in Finals /\ status' = "resolved"
    BY <1>3 DEF ResolveManually, Finals
  <2> QED
    BY <1>2, <1>3, <2>1, Batches DEF ResolveManually
<1>4. ASSUME NEW s \in Finals, FinalizeCaseAndEnqueue(s)
      PROVE  /\ CaseTypeOK' /\ PlanTypeOK' /\ RowTypeOK' /\ QueueTypeOK' /\ RemoteTypeOK'
             /\ WorkerTypeOK' /\ faults' \in 0..MaxFaults
  BY <1>2, <1>4, Batches DEF FinalizeCaseAndEnqueue
<1>5. CASE AppendFollowUp
  <2>1. turns' \in Turns
    BY <1>0, <1>5, OutboxBoundsAssumption DEF AppendFollowUp, CaseTypeOK, Turns
  <2>2. CaseTypeOK'
    <3>1. activeTurn' \in 0..MaxTurns
      BY <1>0, <1>5, OutboxBoundsAssumption DEF AppendFollowUp, CaseTypeOK
    <3>2. status' \in Finals \cup {"open", "waiting_approval"} /\ dispatch' \in {"idle", "running", "suspended"}
      BY <1>0, <1>5 DEF AppendFollowUp, CaseTypeOK
    <3> QED
      BY <1>0, <1>5, <2>1, <3>1, <3>2 DEF AppendFollowUp, CaseTypeOK
  <2>3. live' \in [Rows -> BOOLEAN]
    BY <1>5, Zenon DEF AppendFollowUp
  <2>4. ostate' \in [Rows -> RowStates] /\ owner' \in [Rows -> Workers \cup {NoWorker}]
    BY <1>0, <1>5 DEF AppendFollowUp, RowTypeOK, RowStates
  <2>5. RowTypeOK'
    BY <1>0, <1>5, <2>3, <2>4 DEF AppendFollowUp, RowTypeOK
  <2>6. RemoteTypeOK'
    BY <1>0, <1>5 DEF AppendFollowUp, RemoteTypeOK
  <2> QED
    BY <1>0, <1>5, <2>2, <2>5, <2>6, UnchangedType DEF AppendFollowUp
<1> QED
  BY <1>1, <1>3, <1>4, <1>5 DEF CaseStep

\* So do the steps of a worker.
LEMMA WorkerStepType ==
  ASSUME TypeOK, JobIsRow, NEW w \in Workers, Sweep(w) \/ Deliver(w) \/ Heartbeat(w) \/ Crash(w)
  PROVE  TypeOK'
<1> USE DEF PCs
<1>0. /\ CaseTypeOK /\ PlanTypeOK /\ RowTypeOK /\ QueueTypeOK /\ RemoteTypeOK
      /\ WorkerTypeOK /\ faults \in 0..MaxFaults
  BY TypeParts
<1> SUFFICES
      /\ CaseTypeOK' /\ PlanTypeOK' /\ RowTypeOK' /\ QueueTypeOK' /\ RemoteTypeOK'
      /\ WorkerTypeOK' /\ faults' \in 0..MaxFaults
  BY DEF TypeOK, CaseTypeOK, PlanTypeOK, RowTypeOK, QueueTypeOK, RemoteTypeOK, WorkerTypeOK, RowStates
<1>1. job[w] \in Nat /\ \A i : Outdated(i) \subseteq Workers
  BY <1>0 DEF WorkerTypeOK, QueueTypeOK, Outdated
<1>2. ASSUME NEW i \in Rows, SeeInterrupted(w, i) \/ SweepExhausted(w, i) \/ ClaimSelect(w, i)
      PROVE  /\ CaseTypeOK' /\ PlanTypeOK' /\ RowTypeOK' /\ QueueTypeOK' /\ RemoteTypeOK'
             /\ WorkerTypeOK' /\ faults' \in 0..MaxFaults
  <2>1. CASE SeeInterrupted(w, i)
    <3>1. /\ pc' = [pc EXCEPT ![w] = "sweeping"] /\ job' = [job EXCEPT ![w] = i]
          /\ UNCHANGED counted /\ i \in Nat
      BY <2>1 DEF SeeInterrupted, Rows
    <3>2. WorkerTypeOK'
      BY <1>0, <3>1 DEF WorkerTypeOK
    <3> QED
      BY <1>0, <2>1, <3>2, UnchangedType DEF SeeInterrupted, rowVars
  <2>2. CASE SweepExhausted(w, i)
    <3>1. RowTypeOK'
      BY <1>0, <2>2, SettleType DEF SweepExhausted, RowStates, Rows
    <3> QED
      BY <1>0, <2>2, <3>1, UnchangedType DEF SweepExhausted
  <2>3. CASE ClaimSelect(w, i)
    <3>1. WorkerTypeOK'
      <4>1. attempts[i] + 1 \in Nat /\ i \in Nat
        BY <1>0, <1>2 DEF RowTypeOK, Rows
      <4> QED
        BY <1>0, <2>3, <4>1 DEF ClaimSelect, WorkerTypeOK
    <3>2. QueueTypeOK'
      BY <1>0, <2>3 DEF ClaimSelect, QueueTypeOK
    <3> QED
      BY <1>0, <2>3, <3>1, <3>2, UnchangedType DEF ClaimSelect
  <2> QED
    BY <1>2, <2>1, <2>2, <2>3
<1>3. CASE MarkInterrupted(w) \/ QuarantineEffect(w)
  <2>1. WorkerTypeOK'
    BY <1>0, <1>3, GotoType DEF MarkInterrupted, QuarantineEffect, GoIdle
  <2>2. RowTypeOK' /\ status' \in {status, "escalated"}
    <3>1. CASE Quarantine(job[w])
      BY <1>0, <1>1, <3>1, SettleType DEF Quarantine, RowStates
    <3>2. CASE UNCHANGED <<ostate, attempts, owner, live, status>>
      BY <1>0, <3>2, UnchangedType
    <3> QED
      BY <1>3, <3>1, <3>2 DEF MarkInterrupted, QuarantineEffect
  <2>3. CaseTypeOK'
    BY <1>0, <1>3, <2>2 DEF MarkInterrupted, QuarantineEffect, CaseTypeOK, Finals
  <2> QED
    BY <1>0, <1>3, <2>1, <2>2, <2>3, UnchangedType DEF MarkInterrupted, QuarantineEffect
<1>4. CASE ClaimUpdate(w)
  <2>1. WorkerTypeOK'
    BY <1>0, <1>4, GotoType DEF ClaimUpdate, GoIdle
  <2>2. QueueTypeOK'
    BY <1>0, <1>1, <1>4 DEF ClaimUpdate, QueueTypeOK
  <2>3. RowTypeOK'
    <3>1. CASE UNCHANGED <<ostate, attempts, owner, live>>
      BY <1>0, <3>1, UnchangedType
    <3>2. CASE /\ ostate' = [ostate EXCEPT ![job[w]] = "claimed"]
               /\ attempts' = [attempts EXCEPT ![job[w]] = @ + 1]
               /\ owner' = [owner EXCEPT ![job[w]] = w]
               /\ live' = [live EXCEPT ![job[w]] = TRUE]
      <4>0. job[w] \in Rows /\ attempts[job[w]] + 1 \in Nat
        BY <1>0, <1>4 DEF JobIsRow, ClaimUpdate, RowTypeOK
      <4>1. attempts' \in [Rows -> Nat] /\ live' \in [Rows -> BOOLEAN]
        BY <1>0, <3>2, <4>0 DEF RowTypeOK
      <4>2. ostate' \in [Rows -> RowStates] /\ owner' \in [Rows -> Workers \cup {NoWorker}]
        BY <1>0, <3>2 DEF RowTypeOK, RowStates, Unsettled, Active
      <4> QED
        BY <4>1, <4>2 DEF RowTypeOK
    <3> QED
      BY <1>4, <3>1, <3>2 DEF ClaimUpdate
  <2> QED
    BY <1>0, <1>4, <2>1, <2>2, <2>3, UnchangedType DEF ClaimUpdate
<1>5. CASE ReadOwnerCase(w) \/ ReadConversation(w) \/ CheckFence(w) \/ ReconcileLateReceipt(w)
           \/ ReadBeforeReopen(w) \/ CheckReopenFence(w)
  <2>1. WorkerTypeOK'
    BY <1>0, <1>5, GotoType DEF ReadOwnerCase, ReadConversation, OutcomeOfError, CheckFence, ReconcileLateReceipt, ReadBeforeReopen, CheckReopenFence
  <2> QED
    BY <1>0, <1>5, <2>1, UnchangedType DEF ReadOwnerCase, ReadConversation, CheckFence, ReconcileLateReceipt, ReadBeforeReopen, CheckReopenFence, rowVars
<1>6. CASE SupersedeOutbox(w) \/ CompleteOutbox(w) \/ SupersedeAfterFence(w)
  <2>1. WorkerTypeOK'
    BY <1>0, <1>6, GotoType DEF SupersedeOutbox, CompleteOutbox, SupersedeAfterFence, GoIdle
  <2>2. RowTypeOK'
    BY <1>0, <1>1, <1>6, SettleType, UnchangedType DEF SupersedeOutbox, CompleteOutbox, SupersedeAfterFence, RowStates
  <2> QED
    BY <1>0, <1>6, <2>1, <2>2, UnchangedType DEF SupersedeOutbox, CompleteOutbox, SupersedeAfterFence
<1>7. CASE RenewOutboxLease(w) \/ Heartbeat(w)
  <2>1. WorkerTypeOK'
    BY <1>0, <1>7, GotoType, UnchangedType DEF RenewOutboxLease, Heartbeat, GoIdle
  <2>2. RowTypeOK'
    BY <1>0, <1>7 DEF RenewOutboxLease, Heartbeat, Renew, RowTypeOK
  <2>3. QueueTypeOK'
    BY <1>0, <1>1, <1>7 DEF RenewOutboxLease, Heartbeat, Renew, QueueTypeOK
  <2> QED
    BY <1>0, <1>7, <2>1, <2>2, <2>3, UnchangedType DEF RenewOutboxLease, Heartbeat
<1>8. CASE MarkOutboxStarted(w)
  <2>1. WorkerTypeOK'
    BY <1>0, <1>8, GotoType DEF MarkOutboxStarted, GoIdle
  <2>2. RowTypeOK'
    BY <1>0, <1>8 DEF MarkOutboxStarted, RowTypeOK, RowStates, Unsettled, Active
  <2> QED
    BY <1>0, <1>8, <2>1, <2>2, UnchangedType DEF MarkOutboxStarted
<1>9. CASE PostIsApplied(w) \/ PostIsNotApplied(w) \/ LoseReceipt(w) \/ Reopen(w)
  <2>1. OutcomeOfError("applied") \in PCs /\ OutcomeOfError("none") \in PCs
    BY DEF OutcomeOfError
  <2>2. WorkerTypeOK'
    BY <1>0, <1>9, <2>1, GotoType DEF PostIsApplied, PostIsNotApplied, LoseReceipt, Reopen
  <2>3. RemoteTypeOK'
    BY <1>0, <1>9 DEF PostIsApplied, PostIsNotApplied, LoseReceipt, Reopen, RemoteTypeOK, remoteVars, Desired
  <2> QED
    BY <1>0, <1>9, <2>2, <2>3, UnchangedType DEF PostIsApplied, PostIsNotApplied, LoseReceipt, Reopen, rowVars
<1>10. CASE RetryOutbox(w)
  <2>1. WorkerTypeOK'
    BY <1>0, <1>10, GotoType DEF RetryOutbox, GoIdle
  <2>2. CASE UNCHANGED rowVars
    BY <1>0, <1>10, <2>1, <2>2, UnchangedType DEF RetryOutbox, rowVars
  <2>3. CASE /\ owner[job[w]] = w /\ (Settle(job[w], "failed") \/ Settle(job[w], "pending"))
             /\ deferred' \in {deferred, deferred \cup {job[w]}}
             /\ fresh' \in {fresh, Outdated(job[w])}
    <3>1. RowTypeOK'
      BY <1>0, <1>1, <2>3, SettleType DEF RowStates, Unsettled
    <3>2. job[w] \in Rows
      BY <1>10 DEF JobIsRow, RetryOutbox
    <3>3. QueueTypeOK'
      BY <1>0, <1>1, <2>3, <3>2 DEF QueueTypeOK
    <3> QED
      BY <1>0, <1>10, <2>1, <3>1, <3>3, UnchangedType DEF RetryOutbox
  <2> QED
    BY <1>10, <2>2, <2>3 DEF RetryOutbox
<1>11. CASE Crash(w)
  <2>1. WorkerTypeOK'
    BY <1>0, <1>11, GotoType DEF Crash, GoIdle
  <2>2. QueueTypeOK' /\ faults' \in 0..MaxFaults
    BY <1>0, <1>11, OutboxBoundsAssumption DEF Crash, QueueTypeOK
  <2> QED
    BY <1>0, <1>11, <2>1, <2>2, UnchangedType DEF Crash
<1> QED
  BY <1>2, <1>3, <1>4, <1>5, <1>6, <1>7, <1>8, <1>9, <1>10, <1>11 DEF Sweep, Deliver

LEMMA TypeStep == TypeOK /\ JobIsRow /\ [Next]_vars => TypeOK'
<1> SUFFICES ASSUME TypeOK, JobIsRow, [Next]_vars PROVE TypeOK'
  OBVIOUS
<1>0. /\ CaseTypeOK /\ PlanTypeOK /\ RowTypeOK /\ QueueTypeOK /\ RemoteTypeOK
      /\ WorkerTypeOK /\ faults \in 0..MaxFaults
  BY TypeParts
<1> DEFINE Goal == /\ CaseTypeOK' /\ PlanTypeOK' /\ RowTypeOK' /\ QueueTypeOK' /\ RemoteTypeOK'
                   /\ WorkerTypeOK' /\ faults' \in 0..MaxFaults
<1>1. Goal => TypeOK'
  BY DEF TypeOK, CaseTypeOK, PlanTypeOK, RowTypeOK, QueueTypeOK, RemoteTypeOK, WorkerTypeOK, RowStates
<1>2. ASSUME NEW i \in Rows, RetryIsDue(i) PROVE Goal
  <2>1. QueueTypeOK'
    BY <1>0, <1>2 DEF RetryIsDue, QueueTypeOK
  <2> QED
    BY <1>0, <1>2, <2>1, UnchangedType DEF RetryIsDue
<1>3. ASSUME NEW i \in Rows, Stall(i) \/ OrphanExpires(i) PROVE Goal
  <2>1. RowTypeOK'
    BY <1>0, <1>3 DEF Stall, OrphanExpires, RowTypeOK
  <2>2. faults' \in 0..MaxFaults
    BY <1>0, <1>3, OutboxBoundsAssumption DEF Stall, OrphanExpires
  <2> QED
    BY <1>0, <1>3, <2>1, <2>2, UnchangedType DEF Stall, OrphanExpires
<1>4. CASE UNCHANGED vars
  BY <1>0, <1>1, <1>4, UnchangedType DEF vars, rowVars
<1> QED
  BY <1>1, <1>2, <1>3, <1>4, CaseStepType, WorkerStepType DEF Next

-----------------------------------------------------------------------------
(* Who moves, and what a step may do.                                      *)

Moves(w) == Sweep(w) \/ Deliver(w) \/ Heartbeat(w) \/ Crash(w)
TimePasses == \E i \in Rows : RetryIsDue(i) \/ Stall(i) \/ OrphanExpires(i)

StaysPut(w) == \A v \in Workers \ {w} : pc'[v] = pc[v] /\ job'[v] = job[v]

LEMMA GotoMoves ==
  ASSUME TypeOK, NEW w \in Workers, NEW label, Goto(w, label)
  PROVE  pc'[w] = label /\ job' = job /\ StaysPut(w)
  BY DEF Goto, TypeOK, StaysPut

\* One worker moves, or the case, or time.
LEMMA OneWorkerMoves ==
  ASSUME TypeOK, [Next]_vars
  PROVE  \/ \E w \in Workers : Moves(w) /\ StaysPut(w)
         \/ CaseStep /\ UNCHANGED <<pc, job, applied>>
         \/ TimePasses /\ UNCHANGED <<pc, job, applied, ostate, owner, caseVars, planVars>>
         \/ UNCHANGED vars
<1>1. ASSUME NEW w \in Workers, Moves(w) PROVE StaysPut(w)
  <2>1. CASE Sweep(w)
    BY <2>1 DEF Sweep, SeeInterrupted, SweepExhausted, ClaimSelect, workerVars, TypeOK, StaysPut
  <2>2. CASE MarkInterrupted(w) \/ ClaimUpdate(w) \/ ReadOwnerCase(w) \/ SupersedeOutbox(w) \/ RenewOutboxLease(w)
    BY <2>2, GotoMoves DEF MarkInterrupted, ClaimUpdate, ReadOwnerCase, SupersedeOutbox, RenewOutboxLease, GoIdle
  <2>3. CASE MarkOutboxStarted(w) \/ ReadConversation(w) \/ CheckFence(w) \/ PostIsApplied(w) \/ PostIsNotApplied(w) \/ LoseReceipt(w)
    BY <2>3, GotoMoves DEF MarkOutboxStarted, ReadConversation, CheckFence, PostIsApplied, PostIsNotApplied, LoseReceipt, GoIdle
  <2>4. CASE CompleteOutbox(w) \/ RetryOutbox(w) \/ QuarantineEffect(w) \/ SupersedeAfterFence(w) \/ ReconcileLateReceipt(w)
    BY <2>4, GotoMoves DEF CompleteOutbox, RetryOutbox, QuarantineEffect, SupersedeAfterFence, ReconcileLateReceipt, GoIdle
  <2>5. CASE ReadBeforeReopen(w) \/ CheckReopenFence(w) \/ Reopen(w) \/ Crash(w)
    BY <2>5, GotoMoves DEF ReadBeforeReopen, CheckReopenFence, Reopen, Crash, GoIdle
  <2>6. CASE Heartbeat(w)
    BY <2>6 DEF Heartbeat, workerVars, StaysPut
  <2> QED
    BY <1>1, <2>1, <2>2, <2>3, <2>4, <2>5, <2>6 DEF Moves, Deliver
<1>2. CaseStep => UNCHANGED <<pc, job, applied>>
  BY DEF CaseStep, ActivateTurn, AskApproval, Decide, FailDispatchAndCase, AppendFollowUp, ResolveManually,
     FinalizeCaseAndEnqueue, workerVars, remoteVars
<1>3. TimePasses => UNCHANGED <<pc, job, applied, ostate, owner, caseVars, planVars>>
  BY DEF TimePasses, RetryIsDue, Stall, OrphanExpires, workerVars, remoteVars
<1> QED
  BY <1>1, <1>2, <1>3 DEF Next, Moves, TimePasses

\* What may become of a row.  The worker that settles it does so with its last step.
Closes(i, from, to) == ostate[i] \in from /\ ostate'[i] \in to /\ owner'[i] = NoWorker

SenderSettles(w, i) ==
  /\ job[w] = i /\ pc'[w] = "idle" /\ StaysPut(w)
  /\ \/ pc[w] = "receipt" /\ owner[i] = w /\ Closes(i, Active, {"delivered"})
     \/ pc[w] = "refused" /\ owner[i] = w /\ Closes(i, Active, {"pending", "failed"})
     \/ pc[w] = "withdrawn" /\ Closes(i, {"uncertain"}, {"superseded"})

RowMoves(i) ==
  \/ UNCHANGED <<ostate[i], owner[i]>>
  \/ ostate[i] = "absent" /\ ostate'[i] = "pending" /\ i <= size' /\ UNCHANGED owner[i]
  \/ /\ ostate[i] \in {"pending", "claimed"} /\ ostate'[i] = "claimed" /\ HeadOfLine(i)
     /\ \E w \in Workers : pc[w] = "selected" /\ pc'[w] = "claimed" /\ owner'[i] = w /\ StaysPut(w)
  \/ /\ ostate[i] = "claimed" /\ ostate'[i] = "started" /\ UNCHANGED owner[i]
     /\ \E w \in Workers : owner[i] = w /\ job[w] = i /\ pc[w] = "renewed" /\ pc'[w] = "started" /\ StaysPut(w)
  \/ Closes(i, {"claimed"}, {"failed", "superseded"})
  \/ Closes(i, {"pending"}, {"superseded"})
  \/ Closes(i, {"started"}, {"uncertain"})
  \/ \E w \in Workers : SenderSettles(w, i)

LEMMA RowStep ==
  ASSUME TypeOK, JobIsRow, OwnerIsActive, QueueIsDense, [Next]_vars, NEW i \in Rows
  PROVE  RowMoves(i)
<1>0. ostate \in [Rows -> RowStates] /\ owner \in [Rows -> Workers \cup {NoWorker}]
  BY DEF TypeOK, RowStates
<1>1. UNCHANGED <<ostate, owner>> => RowMoves(i)
  BY DEF RowMoves
<1>2. ASSUME NEW k \in Rows, NEW s, Settle(k, s)
      PROVE  IF k = i THEN ostate'[i] = s /\ owner'[i] = NoWorker ELSE UNCHANGED <<ostate[i], owner[i]>>
  BY <1>0, <1>2 DEF Settle
<1>3. ASSUME NEW w \in Workers, Moves(w), StaysPut(w) PROVE RowMoves(i)
  <2>0. pc[w] # "idle" => job[w] \in Rows
    BY DEF JobIsRow
  <2>1. ASSUME NEW k \in Rows, SweepExhausted(w, k) PROVE RowMoves(i)
    BY <1>2, <2>1 DEF SweepExhausted, Exhausted, RowMoves, Closes
  <2>2. CASE MarkInterrupted(w) \/ QuarantineEffect(w)
    <3>1. CASE ostate[job[w]] = "started" /\ Settle(job[w], "uncertain") /\ job[w] \in Rows
      BY <1>2, <3>1 DEF RowMoves, Closes
    <3> QED
      BY <1>1, <2>0, <2>2, <3>1 DEF MarkInterrupted, QuarantineEffect, Quarantine
  <2>3. CASE ClaimUpdate(w)
    <3>1. CASE /\ ostate[job[w]] \in {"pending", "claimed"} /\ HeadOfLine(job[w])
               /\ ostate' = [ostate EXCEPT ![job[w]] = "claimed"]
               /\ owner' = [owner EXCEPT ![job[w]] = w]
               /\ pc[w] = "selected" /\ pc'[w] = "claimed"
      <4>1. CASE job[w] = i
        BY <1>0, <1>3, <3>1, <4>1 DEF RowMoves
      <4>2. CASE job[w] # i
        BY <1>0, <3>1, <4>2 DEF RowMoves
      <4> QED
        BY <4>1, <4>2
    <3> QED
      BY <1>1, <2>3, <3>1, GotoMoves DEF ClaimUpdate, Reclaimable
  <2>4. CASE SupersedeOutbox(w)
    <3>1. CASE ostate[job[w]] = "claimed" /\ Settle(job[w], "superseded") /\ job[w] \in Rows
      BY <1>2, <3>1 DEF RowMoves, Closes
    <3> QED
      BY <1>1, <2>0, <2>4, <3>1 DEF SupersedeOutbox
  <2>5. CASE MarkOutboxStarted(w)
    <3>1. CASE /\ Owns(w) /\ ostate[job[w]] = "claimed" /\ UNCHANGED owner
               /\ ostate' = [ostate EXCEPT ![job[w]] = "started"]
               /\ pc[w] = "renewed" /\ pc'[w] = "started"
      <4>1. CASE job[w] = i
        BY <1>0, <1>3, <3>1, <4>1 DEF RowMoves, Owns
      <4>2. CASE job[w] # i
        BY <1>0, <3>1, <4>2 DEF RowMoves
      <4> QED
        BY <4>1, <4>2
    <3> QED
      BY <1>1, <2>5, <3>1, GotoMoves DEF MarkOutboxStarted
  <2>6. CASE CompleteOutbox(w)
    <3>1. CASE Owns(w) /\ Settle(job[w], "delivered") /\ pc[w] = "receipt" /\ pc'[w] = "idle" /\ job[w] \in Rows
      BY <1>2, <1>3, <3>1 DEF RowMoves, SenderSettles, Closes, Owns
    <3> QED
      BY <1>1, <2>0, <2>6, <3>1, GotoMoves DEF CompleteOutbox, GoIdle
  <2>7. CASE RetryOutbox(w)
    <3>1. CASE /\ owner[job[w]] = w /\ pc[w] = "refused" /\ pc'[w] = "idle" /\ job[w] \in Rows
               /\ Settle(job[w], "failed") \/ Settle(job[w], "pending")
      <4>1. ostate[job[w]] \in Active
        BY <3>1, OutboxWorkersAssumption DEF OwnerIsActive
      <4> QED
        BY <1>2, <1>3, <3>1, <4>1 DEF RowMoves, SenderSettles, Closes
    <3>2. CASE UNCHANGED rowVars
      BY <1>1, <3>2 DEF rowVars
    <3>3. pc[w] = "refused" /\ pc'[w] = "idle"
      BY <2>7, GotoMoves DEF RetryOutbox, GoIdle
    <3> QED
      BY <2>0, <2>7, <3>1, <3>2, <3>3 DEF RetryOutbox
  <2>8. CASE SupersedeAfterFence(w)
    <3>1. CASE ostate[job[w]] = "uncertain" /\ Settle(job[w], "superseded") /\ pc[w] = "withdrawn" /\ pc'[w] = "idle" /\ job[w] \in Rows
      BY <1>2, <1>3, <3>1 DEF RowMoves, SenderSettles, Closes
    <3> QED
      BY <1>1, <2>0, <2>8, <3>1, GotoMoves DEF SupersedeAfterFence, GoIdle
  <2>9. CASE ReadOwnerCase(w) \/ ReadConversation(w) \/ CheckFence(w) \/ PostIsApplied(w) \/ PostIsNotApplied(w) \/ LoseReceipt(w) \/ RenewOutboxLease(w)
    BY <1>1, <2>9 DEF ReadOwnerCase, ReadConversation, CheckFence, PostIsApplied, PostIsNotApplied, LoseReceipt, RenewOutboxLease, rowVars
  <2>10. CASE ReconcileLateReceipt(w) \/ ReadBeforeReopen(w) \/ CheckReopenFence(w) \/ Reopen(w) \/ Heartbeat(w) \/ Crash(w)
    BY <1>1, <2>10 DEF ReconcileLateReceipt, ReadBeforeReopen, CheckReopenFence, Reopen, Heartbeat, Crash, rowVars
  <2>11. ASSUME NEW k \in Rows, SeeInterrupted(w, k) \/ ClaimSelect(w, k) PROVE RowMoves(i)
    BY <1>1, <2>11 DEF SeeInterrupted, ClaimSelect, rowVars
  <2> QED
    BY <1>3, <2>1, <2>2, <2>3, <2>4, <2>5, <2>6, <2>7, <2>8, <2>9, <2>10, <2>11 DEF Moves, Deliver, Sweep
<1>4. CASE CaseStep
  <2>1. ASSUME NEW rows, NEW s \in Finals, Batch(rows), Enqueue(rows, s), UNCHANGED owner PROVE RowMoves(i)
    <3>1. ostate'[i] = ostate[i] \/ (ostate'[i] = "pending" /\ i > size /\ i <= size')
      BY <2>1, EnqueueEffect
    <3>2. i > size => ostate[i] = "absent"
      BY DEF QueueIsDense
    <3> QED
      BY <2>1, <3>1, <3>2 DEF RowMoves
  <2>2. CASE ResolveManually
    BY <2>1, <2>2, Batches DEF ResolveManually, Finals
  <2>3. ASSUME NEW s \in Finals, FinalizeCaseAndEnqueue(s) PROVE RowMoves(i)
    BY <2>1, <2>3, Batches DEF FinalizeCaseAndEnqueue
  <2>4. CASE AppendFollowUp
    <3>1. i \in Withdrawn => ostate[i] \in {"pending", "claimed", "started"}
      BY DEF Withdrawn, Unsettled, Active
    <3>2. /\ ostate'[i] = IF i \notin Withdrawn THEN ostate[i]
                          ELSE IF ostate[i] = "started" THEN "uncertain" ELSE "superseded"
          /\ owner'[i] = IF i \in Withdrawn THEN NoWorker ELSE owner[i]
      BY <2>4 DEF AppendFollowUp
    <3> QED
      BY <3>1, <3>2 DEF RowMoves, Closes
  <2>5. CASE ActivateTurn \/ AskApproval \/ Decide \/ FailDispatchAndCase
    BY <1>1, <2>5 DEF ActivateTurn, AskApproval, Decide, FailDispatchAndCase, rowVars
  <2> QED
    BY <1>4, <2>2, <2>3, <2>4, <2>5 DEF CaseStep
<1>5. CASE UNCHANGED vars
  BY <1>1, <1>5 DEF vars, rowVars
<1> QED
  BY <1>1, <1>3, <1>4, <1>5, OneWorkerMoves

\* The adapter steps of a worker: it enters them with the mark 'started', and
\* what it has not posted yet stays as it was.
LEMMA SenderStep ==
  ASSUME TypeOK, JobIsRow, NEW w \in Workers, Moves(w)
  PROVE  /\ pc'[w] # "idle" => job'[w] \in Rows
         /\ pc'[w] \in {"sweeping", "renewed", "started", "fence", "ambiguous"} => Provider = "intercom"
         /\ Provider = "intercom" /\ pc'[w] \in Sending =>
              /\ job'[w] = job[w]
              /\ \/ pc[w] \in Sending
                 \/ pc[w] = "renewed" /\ pc'[w] = "started" /\ UNCHANGED <<applied, owner>>
                    /\ Owns(w) /\ ostate[job[w]] = "claimed" /\ ostate'[job[w]] = "started"
         /\ Provider = "intercom" /\ pc[w] \in Sending /\ pc'[w] \in BeforePost \cup {"refused"} =>
              pc[w] \in BeforePost \cup {"refused"} /\ UNCHANGED applied
<1> DEFINE Goal ==
      /\ pc'[w] # "idle" => job'[w] \in Rows
      /\ pc'[w] \in {"sweeping", "renewed", "started", "fence", "ambiguous"} => Provider = "intercom"
      /\ Provider = "intercom" /\ pc'[w] \in Sending =>
           /\ job'[w] = job[w]
           /\ \/ pc[w] \in Sending
              \/ pc[w] = "renewed" /\ pc'[w] = "started" /\ UNCHANGED <<applied, owner>>
                 /\ Owns(w) /\ ostate[job[w]] = "claimed" /\ ostate'[job[w]] = "started"
      /\ Provider = "intercom" /\ pc[w] \in Sending /\ pc'[w] \in BeforePost \cup {"refused"} =>
           pc[w] \in BeforePost \cup {"refused"} /\ UNCHANGED applied
<1> USE DEF Sending, BeforePost
<1>0. /\ pc[w] # "idle" => job[w] \in Rows
      /\ pc[w] \in {"sweeping", "renewed", "started", "fence", "ambiguous"} => Provider = "intercom"
  BY DEF JobIsRow
<1>1. ASSUME NEW i \in Rows, SeeInterrupted(w, i) \/ SweepExhausted(w, i) \/ ClaimSelect(w, i) PROVE Goal
  BY <1>0, <1>1 DEF SeeInterrupted, SweepExhausted, ClaimSelect, workerVars, TypeOK
<1>2. CASE MarkInterrupted(w) \/ ClaimUpdate(w) \/ ReadOwnerCase(w) \/ SupersedeOutbox(w) \/ RenewOutboxLease(w)
  <2>1. /\ pc[w] \in {"sweeping", "selected", "claimed", "stale", "checked"} /\ job' = job
        /\ \/ pc'[w] \in {"idle", "claimed", "stale", "checked"}
           \/ pc'[w] = "renewed" /\ Provider = "intercom"
           \/ pc'[w] = "posting" /\ Provider # "intercom"
    BY <1>2, GotoMoves DEF MarkInterrupted, ClaimUpdate, ReadOwnerCase, SupersedeOutbox, RenewOutboxLease, GoIdle
  <2> QED
    BY <1>0, <2>1
<1>3. CASE MarkOutboxStarted(w)
  <2>1. pc[w] = "renewed" /\ job' = job /\ pc'[w] \in {"started", "idle"} /\ UNCHANGED <<owner, applied>>
    BY <1>3, GotoMoves DEF MarkOutboxStarted, GoIdle, remoteVars
  <2>2. pc'[w] = "started" => Owns(w) /\ ostate[job[w]] = "claimed" /\ ostate' = [ostate EXCEPT ![job[w]] = "started"]
    BY <1>3, GotoMoves DEF MarkOutboxStarted, GoIdle
  <2> QED
    BY <1>0, <2>1, <2>2 DEF TypeOK
<1>4. CASE ReadConversation(w) \/ CheckFence(w) \/ PostIsNotApplied(w)
  <2>1. job' = job /\ UNCHANGED applied /\ pc[w] \in BeforePost
    BY <1>4, GotoMoves DEF ReadConversation, CheckFence, PostIsNotApplied, remoteVars
  <2>2. /\ pc'[w] \in {"refused", "receipt", "fence", "posting", "withdrawn", OutcomeOfError("none")}
        /\ pc'[w] = "fence" => pc[w] = "started"
    BY <1>4, GotoMoves DEF ReadConversation, CheckFence, PostIsNotApplied, OutcomeOfError
  <2>3. OutcomeOfError("none") \in {"ambiguous", "refused"} /\ (OutcomeOfError("none") = "ambiguous" => Provider = "intercom")
    BY DEF OutcomeOfError
  <2> QED
    BY <1>0, <2>1, <2>2, <2>3
<1>5. CASE PostIsApplied(w) \/ LoseReceipt(w)
  <2>1. job' = job /\ pc[w] \in {"posting", "receipt"} /\ pc'[w] \in {"receipt", OutcomeOfError("applied")}
    BY <1>5, GotoMoves DEF PostIsApplied, LoseReceipt
  <2> QED
    BY <1>0, <2>1 DEF OutcomeOfError
<1>6. CASE CompleteOutbox(w) \/ RetryOutbox(w) \/ QuarantineEffect(w) \/ SupersedeAfterFence(w) \/ ReconcileLateReceipt(w)
  <2>1. job' = job /\ pc[w] \in Sending /\ pc'[w] \in {"idle", "late", "reopen", "withdrawn"}
    BY <1>6, GotoMoves DEF CompleteOutbox, RetryOutbox, QuarantineEffect, SupersedeAfterFence, ReconcileLateReceipt, GoIdle
  <2> QED
    BY <1>0, <2>1
<1>7. CASE ReadBeforeReopen(w) \/ CheckReopenFence(w) \/ Reopen(w)
  <2>1. job' = job /\ pc[w] \in Sending /\ pc'[w] \in {"idle", "withdrawn", "reopenFence", "reopenPost"}
    BY <1>7, GotoMoves DEF ReadBeforeReopen, CheckReopenFence, Reopen
  <2> QED
    BY <1>0, <2>1
<1>8. CASE Crash(w)
  BY <1>8, GotoMoves DEF Crash, GoIdle
<1>9. CASE Heartbeat(w)
  BY <1>0, <1>9 DEF Heartbeat, workerVars, remoteVars
<1> QED
  BY <1>1, <1>2, <1>3, <1>4, <1>5, <1>6, <1>7, <1>8, <1>9 DEF Moves, Sweep, Deliver

\* Only a POST has an effect, and it leaves the rows alone.
Posts(w) ==
  /\ pc[w] = "posting" /\ StaysPut(w) /\ job'[w] = job[w] /\ UNCHANGED ostate
  /\ pc'[w] \in {"receipt", OutcomeOfError("applied")}
  /\ applied' = [applied EXCEPT ![job[w]] = IF Provider = "local" THEN 1 ELSE @ + 1]

LEMMA AppliedStep ==
  ASSUME TypeOK, [Next]_vars
  PROVE  UNCHANGED applied \/ \E w \in Workers : Posts(w)
<1>1. ASSUME NEW w \in Workers, Moves(w), StaysPut(w) PROVE UNCHANGED applied \/ Posts(w)
  <2>1. CASE PostIsApplied(w)
    BY <1>1, <2>1, GotoMoves DEF PostIsApplied, Posts, rowVars
  <2>2. CASE Sweep(w)
    BY <2>2 DEF Sweep, SeeInterrupted, SweepExhausted, ClaimSelect, remoteVars
  <2>3. CASE MarkInterrupted(w) \/ ClaimUpdate(w) \/ ReadOwnerCase(w) \/ SupersedeOutbox(w) \/ RenewOutboxLease(w)
    BY <2>3 DEF MarkInterrupted, ClaimUpdate, ReadOwnerCase, SupersedeOutbox, RenewOutboxLease, remoteVars
  <2>4. CASE MarkOutboxStarted(w) \/ ReadConversation(w) \/ CheckFence(w) \/ PostIsNotApplied(w) \/ LoseReceipt(w) \/ CompleteOutbox(w) \/ RetryOutbox(w)
    BY <2>4 DEF MarkOutboxStarted, ReadConversation, CheckFence, PostIsNotApplied, LoseReceipt, CompleteOutbox, RetryOutbox, remoteVars
  <2>5. CASE QuarantineEffect(w) \/ SupersedeAfterFence(w) \/ ReconcileLateReceipt(w) \/ ReadBeforeReopen(w) \/ CheckReopenFence(w) \/ Reopen(w) \/ Heartbeat(w) \/ Crash(w)
    BY <2>5 DEF QuarantineEffect, SupersedeAfterFence, ReconcileLateReceipt, ReadBeforeReopen, CheckReopenFence, Reopen, Heartbeat, Crash, remoteVars
  <2> QED
    BY <1>1, <2>1, <2>2, <2>3, <2>4, <2>5 DEF Moves, Deliver
<1> QED
  BY <1>1, OneWorkerMoves DEF vars, remoteVars

-----------------------------------------------------------------------------
(* The queue.                                                              *)

LEMMA JobIsRowStep == IInv /\ [Next]_vars => JobIsRow'
<1> SUFFICES ASSUME IInv, [Next]_vars PROVE JobIsRow'
  OBVIOUS
<1>0. TypeOK /\ JobIsRow
  BY DEF IInv
<1>1. ASSUME NEW w \in Workers, Moves(w), StaysPut(w) PROVE JobIsRow'
  BY <1>0, <1>1, SenderStep DEF JobIsRow, StaysPut
<1>2. UNCHANGED <<pc, job>> => JobIsRow'
  BY <1>0 DEF JobIsRow
<1> QED
  BY <1>0, <1>1, <1>2, OneWorkerMoves DEF vars, workerVars

LEMMA OwnerStep == IInv /\ [Next]_vars => OwnerIsActive'
<1> SUFFICES ASSUME IInv, [Next]_vars, NEW i \in Rows, owner'[i] # NoWorker
             PROVE  ostate'[i] \in Active
  BY DEF OwnerIsActive
<1>1. (owner[i] # NoWorker => ostate[i] \in Active) /\ RowMoves(i)
  BY RowStep DEF IInv, OwnerIsActive
<1> QED
  BY <1>1 DEF RowMoves, SenderSettles, Closes, Active

\* New rows are appended, and no row becomes absent.
LEMMA DenseStep == IInv /\ [Next]_vars => QueueIsDense'
<1> SUFFICES ASSUME IInv, [Next]_vars, NEW i \in Rows
             PROVE  ostate'[i] = "absent" <=> i > size'
  BY DEF QueueIsDense
<1>0. TypeOK /\ (ostate[i] = "absent" <=> i > size) /\ RowMoves(i) /\ size \in Nat /\ i \in Nat
  <2>1. size \in Nat /\ i \in Nat
    BY OutboxBoundsAssumption DEF IInv, TypeOK, Rows
  <2> QED
    BY <2>1, RowStep DEF IInv, QueueIsDense
<1>1. CASE UNCHANGED size
  <2>1. ASSUME ostate[i] = "absent" PROVE ostate'[i] = "absent"
    BY <1>0, <1>1, <2>1 DEF RowMoves, SenderSettles, Closes, Active
  <2>2. ASSUME ostate[i] # "absent" PROVE ostate'[i] # "absent"
    BY <1>0, <2>2 DEF RowMoves, SenderSettles, Closes
  <2> QED
    BY <1>0, <1>1, <2>1, <2>2
<1>2. CASE size' # size
  <2>1. PICK rows : Batch(rows) /\ \E s \in Finals : Enqueue(rows, s)
    <3>1. CaseStep
      <4>1. ASSUME NEW w \in Workers, Moves(w) PROVE UNCHANGED size
        BY <4>1 DEF Moves, Sweep, SeeInterrupted, SweepExhausted, ClaimSelect, Deliver, MarkInterrupted, ClaimUpdate,
           ReadOwnerCase, SupersedeOutbox, RenewOutboxLease, MarkOutboxStarted, ReadConversation, CheckFence,
           PostIsApplied, PostIsNotApplied, LoseReceipt, CompleteOutbox, RetryOutbox, QuarantineEffect, SupersedeAfterFence,
           ReconcileLateReceipt, ReadBeforeReopen, CheckReopenFence, Reopen, Heartbeat, Crash, planVars
      <4> QED
        BY <1>0, <1>2, <4>1, OneWorkerMoves DEF planVars, vars
    <3>2. ResolveManually \/ \E s \in Finals : FinalizeCaseAndEnqueue(s)
      BY <1>2, <3>1 DEF CaseStep, ActivateTurn, AskApproval, Decide, FailDispatchAndCase, AppendFollowUp, planVars
    <3> QED
      BY <3>2, Batches DEF ResolveManually, FinalizeCaseAndEnqueue, Finals
  <2>2. PICK n \in 1..2 :
          size' = size + n /\ IF i > size /\ i <= size + n THEN ostate'[i] = "pending" ELSE ostate'[i] = ostate[i]
    BY <1>0, <2>1, EnqueueEffect
  <2> QED
    BY <1>0, <2>2
<1> QED
  BY <1>1, <1>2

\* An operation that is passed over stays passed over.
LEMMA PassedStays ==
  ASSUME IInv, [Next]_vars, NEW i \in Rows, HeadOfLine(i)
  PROVE  HeadOfLine(i)'
<1> SUFFICES ASSUME NEW e \in 1..(i - 1) PROVE Passed(e)'
  BY DEF HeadOfLine
<1>1. e \in Rows
  BY OutboxBoundsAssumption DEF Rows
<1>2. Passed(e) /\ RowMoves(e)
  BY <1>1, RowStep DEF IInv, HeadOfLine
<1>3. owner[e] = NoWorker
  BY <1>1, <1>2 DEF IInv, OwnerIsActive, Passed, Active
<1> QED
  BY <1>2, <1>3 DEF RowMoves, SenderSettles, Closes, Passed, Active

\* Only the head of the line is claimed.
LEMMA InOrderStep == IInv /\ [Next]_vars => InOrder'
<1> SUFFICES ASSUME IInv, [Next]_vars, NEW i \in Rows, ostate'[i] \in Active \cup {"uncertain"}
             PROVE  HeadOfLine(i)'
  BY DEF InOrder
<1>1. RowMoves(i)
  BY RowStep DEF IInv
<1>2. HeadOfLine(i)
  BY <1>1 DEF IInv, InOrder, RowMoves, SenderSettles, Closes, Active
<1> QED
  BY <1>2, PassedStays

-----------------------------------------------------------------------------
(* Manual rows and their turn.                                             *)

\* Workers leave the plan and the turns alone, and can only escalate the case.
LEMMA CaseStays ==
  ASSUME TypeOK, NEW w \in Workers, Moves(w)
  PROVE  UNCHANGED <<turns, served, dispatch, activeTurn, planVars>> /\ status' \in {status, "escalated"}
<1>1. CASE Sweep(w)
  BY <1>1 DEF Sweep, SeeInterrupted, SweepExhausted, ClaimSelect, caseVars
<1>2. CASE MarkInterrupted(w) \/ QuarantineEffect(w)
  BY <1>2 DEF MarkInterrupted, QuarantineEffect, Quarantine
<1>3. CASE ClaimUpdate(w) \/ ReadOwnerCase(w) \/ SupersedeOutbox(w) \/ RenewOutboxLease(w) \/ MarkOutboxStarted(w)
  BY <1>3 DEF ClaimUpdate, ReadOwnerCase, SupersedeOutbox, RenewOutboxLease, MarkOutboxStarted, caseVars
<1>4. CASE ReadConversation(w) \/ CheckFence(w) \/ PostIsApplied(w) \/ PostIsNotApplied(w) \/ LoseReceipt(w) \/ CompleteOutbox(w) \/ RetryOutbox(w)
  BY <1>4 DEF ReadConversation, CheckFence, PostIsApplied, PostIsNotApplied, LoseReceipt, CompleteOutbox, RetryOutbox, caseVars
<1>5. CASE SupersedeAfterFence(w) \/ ReconcileLateReceipt(w) \/ ReadBeforeReopen(w) \/ CheckReopenFence(w) \/ Reopen(w) \/ Heartbeat(w) \/ Crash(w)
  BY <1>5 DEF SupersedeAfterFence, ReconcileLateReceipt, ReadBeforeReopen, CheckReopenFence, Reopen, Heartbeat, Crash, caseVars
<1> QED
  BY <1>1, <1>2, <1>3, <1>4, <1>5 DEF Moves, Deliver

LEMMA ManualStep == IInv /\ [Next]_vars => ManualIsCurrent'
<1> SUFFICES ASSUME IInv, [Next]_vars, NEW i \in Rows, op'[i] \in Manual, ostate'[i] \in Unsettled
             PROVE  /\ activeTurn' = origin'[i] /\ activeTurn' # 0
                    /\ status' \in Finals /\ dispatch' = "idle" /\ served' = turns'
  BY DEF ManualIsCurrent
<1> DEFINE Current == /\ activeTurn = origin[i] /\ activeTurn # 0
                      /\ status \in Finals /\ dispatch = "idle" /\ served = turns
<1>0. TypeOK
  BY DEF IInv
<1>1. op[i] \in Manual /\ ostate[i] \in Unsettled => Current
  BY DEF IInv, ManualIsCurrent
<1>2. ASSUME UNCHANGED size PROVE ostate[i] \in Unsettled
  <2>1. ostate[i] = "absent" => ~(i <= size')
    BY <1>2, OutboxBoundsAssumption DEF IInv, QueueIsDense, TypeOK, Rows
  <2> QED
    BY <2>1, RowStep DEF IInv, RowMoves, SenderSettles, Closes, Unsettled, Active
<1>3. ASSUME UNCHANGED <<turns, served, dispatch, activeTurn, planVars>>, status' \in {status, "escalated"}
      PROVE  /\ activeTurn' = origin'[i] /\ activeTurn' # 0
             /\ status' \in Finals /\ dispatch' = "idle" /\ served' = turns'
  BY <1>1, <1>2, <1>3 DEF planVars, Finals
<1>4. CASE CaseStep
  <2>1. CASE ActivateTurn \/ AskApproval \/ Decide \/ FailDispatchAndCase
    <3>1. UNCHANGED <<op, ostate>>
      BY <2>1 DEF ActivateTurn, AskApproval, Decide, FailDispatchAndCase, planVars, rowVars
    <3>2. Current
      BY <1>1, <3>1
    <3>3. served \in Nat /\ turns \in Nat
      BY <1>0, OutboxBoundsAssumption DEF TypeOK, Turns
    <3> QED
      BY <2>1, <3>2, <3>3 DEF ActivateTurn, AskApproval, Decide, FailDispatchAndCase
  <2>2. CASE AppendFollowUp
    <3>1. i \notin Withdrawn /\ ostate[i] \in Unsettled /\ UNCHANGED op
      BY <2>2 DEF AppendFollowUp, Withdrawn, Unsettled, Active, planVars
    <3>2. Current /\ op[i] \in Manual
      BY <1>1, <3>1
    <3> QED
      BY <3>1, <3>2 DEF Withdrawn
  <2>3. CASE ResolveManually
    <3>1. PICK n \in 1..2 : IF i > size /\ i <= size + n
                            THEN origin'[i] = activeTurn
                            ELSE ostate'[i] = ostate[i] /\ origin'[i] = origin[i] /\ op'[i] = op[i]
      BY <1>0, <2>3, EnqueueEffect, Batches DEF ResolveManually, Finals
    <3>2. activeTurn = origin'[i]
      BY <1>1, <3>1
    <3> QED
      BY <2>3, <3>2 DEF ResolveManually, Finals
  <2>4. ASSUME NEW s \in Finals, FinalizeCaseAndEnqueue(s) PROVE FALSE
    <3>1. PICK n \in 1..2 :
            /\ DOMAIN FinalOperations = 1..n /\ size \in Nat
            /\ IF i > size /\ i <= size + n
               THEN op'[i] = FinalOperations[i - size]
               ELSE ostate'[i] = ostate[i] /\ op'[i] = op[i]
      <4>1. size \in Nat
        BY <1>0, OutboxBoundsAssumption DEF TypeOK
      <4> QED
        BY <1>0, <2>4, <4>1, EnqueueEffect, Batches DEF FinalizeCaseAndEnqueue
    <3>2. \A k \in DOMAIN FinalOperations : FinalOperations[k] \notin Manual
      BY DEF FinalOperations, Manual
    <3>3. i > size /\ i <= size + n => i - size \in 1..n
      BY <3>1, OutboxBoundsAssumption DEF Rows
    <3> QED
      BY <1>1, <2>4, <3>1, <3>2, <3>3 DEF FinalizeCaseAndEnqueue
  <2> QED
    BY <1>4, <2>1, <2>2, <2>3, <2>4 DEF CaseStep
<1>5. CASE TimePasses /\ UNCHANGED <<caseVars, planVars>>
  BY <1>3, <1>5 DEF caseVars
<1>6. CASE UNCHANGED vars
  BY <1>3, <1>6 DEF vars, caseVars
<1> QED
  BY <1>0, <1>3, <1>4, <1>5, <1>6, CaseStays, OneWorkerMoves

-----------------------------------------------------------------------------
(* One sender, one effect.                                                 *)

\* The mark 'started' is the only way to become a sender.
Enters(w) ==
  /\ pc[w] = "renewed" /\ pc'[w] = "started" /\ UNCHANGED <<applied, owner>>
  /\ owner[job[w]] = w /\ ostate[job[w]] = "claimed" /\ ostate'[job[w]] = "started"

LEMMA WhoSends ==
  ASSUME IInv, [Next]_vars, Provider = "intercom", NEW w \in Workers, pc'[w] \in Sending
  PROVE  /\ job'[w] = job[w] /\ job[w] \in Rows
         /\ pc[w] \in Sending \/ Enters(w)
         /\ pc[w] \in Sending /\ pc'[w] \in BeforePost \cup {"refused"} => pc[w] \in BeforePost \cup {"refused"}
<1>0. TypeOK /\ JobIsRow
  BY DEF IInv
<1>1. CASE pc'[w] = pc[w] /\ job'[w] = job[w]
  BY <1>0, <1>1 DEF JobIsRow, Sending, BeforePost
<1>2. CASE Moves(w)
  BY <1>0, <1>2, SenderStep DEF JobIsRow, Sending, BeforePost, Enters, Owns
<1> QED
  BY <1>0, <1>1, <1>2, OneWorkerMoves DEF StaysPut, vars, workerVars

LEMMA SendersStep == IInv /\ [Next]_vars /\ Provider = "intercom" => Senders'
<1> SUFFICES ASSUME IInv, [Next]_vars, Provider = "intercom" PROVE Senders'
  OBVIOUS
<1>0. Senders
  BY DEF IInv
<1>1. ASSUME NEW w \in Workers, pc'[w] \in Sending
      PROVE  ostate'[job'[w]] = "uncertain" \/ (ostate'[job'[w]] = "started" /\ owner'[job'[w]] = w)
  <2>1. job'[w] = job[w] /\ job[w] \in Rows
    BY <1>1, WhoSends
  <2>2. CASE Enters(w)
    BY <2>1, <2>2 DEF Enters
  <2>3. CASE pc[w] \in Sending
    <3>1. ostate[job[w]] = "uncertain" \/ (ostate[job[w]] = "started" /\ owner[job[w]] = w)
      BY <1>0, <2>3 DEF Senders
    <3>2. ASSUME NEW v \in Workers PROVE ~SenderSettles(v, job[w])
      <4>1. SUFFICES ASSUME SenderSettles(v, job[w]) PROVE FALSE
        OBVIOUS
      <4>2. pc[v] \in Sending /\ job[v] = job[w]
        BY <4>1 DEF SenderSettles, Sending, BeforePost
      <4>3. v = w
        BY <1>0, <2>3, <4>2 DEF Senders
      <4> QED
        BY <1>1, <4>1, <4>3 DEF SenderSettles, Sending, BeforePost
    <3>3. RowMoves(job[w])
      BY <2>1, RowStep DEF IInv
    <3> QED
      BY <2>1, <3>1, <3>2, <3>3 DEF RowMoves, Closes
  <2> QED
    BY <1>1, <2>2, <2>3, WhoSends
<1>2. ASSUME NEW w \in Workers, NEW v \in Workers, pc'[w] \in Sending, pc'[v] \in Sending, job'[w] = job'[v]
      PROVE  w = v
  <2>1. job[w] = job[v] /\ (pc[w] \in Sending \/ Enters(w)) /\ (pc[v] \in Sending \/ Enters(v))
    BY <1>2, WhoSends
  <2> QED
    BY <1>0, <2>1 DEF Senders, Enters
<1> QED
  BY <1>1, <1>2 DEF Senders

LEMMA NotYetStep == IInv /\ [Next]_vars /\ Provider = "intercom" => NotYetApplied'
<1> SUFFICES ASSUME IInv, [Next]_vars, Provider = "intercom" PROVE NotYetApplied'
  OBVIOUS
<1>0. TypeOK /\ JobIsRow /\ Senders /\ NotYetApplied
  BY DEF IInv
<1>1. ASSUME NEW w \in Workers, pc'[w] \in BeforePost \cup {"refused"}
      PROVE  applied'[job'[w]] = 0
  <2>1. /\ job'[w] = job[w] /\ job[w] \in Rows
        /\ Enters(w) \/ pc[w] \in BeforePost \cup {"refused"}
    BY <1>1, WhoSends DEF Sending
  <2>2. CASE Enters(w)
    BY <1>0, <2>1, <2>2 DEF Enters, NotYetApplied
  <2>3. CASE pc[w] \in BeforePost \cup {"refused"}
    <3>1. applied[job[w]] = 0
      BY <1>0, <2>3 DEF NotYetApplied
    <3>2. ASSUME NEW v \in Workers, Posts(v) PROVE job[v] # job[w]
      <4>1. v # w
        BY <1>1, <3>2 DEF Posts, OutcomeOfError, BeforePost
      <4> QED
        BY <1>0, <2>3, <3>2, <4>1 DEF Posts, Senders, Sending, BeforePost
    <3> QED
      BY <1>0, <2>1, <3>1, <3>2, AppliedStep DEF Posts, TypeOK
  <2> QED
    BY <2>1, <2>2, <2>3
<1>2. ASSUME NEW i \in Rows, ostate'[i] \in {"absent", "pending", "claimed", "failed"}
      PROVE  applied'[i] = 0
  <2>1. ASSUME NEW v \in Workers, Posts(v) PROVE applied'[i] = 0
    <3>1. ostate[job[v]] \in {"uncertain", "started"}
      BY <1>0, <2>1 DEF Posts, Senders, Sending, BeforePost
    <3>2. job[v] # i /\ applied[i] = 0
      BY <1>0, <1>2, <2>1, <3>1 DEF Posts, NotYetApplied
    <3> QED
      BY <1>0, <2>1, <3>2 DEF Posts, TypeOK
  <2>2. CASE UNCHANGED applied
    <3>1. RowMoves(i)
      BY RowStep DEF IInv
    <3>2. ostate[i] \in {"absent", "pending", "claimed", "failed"} => applied[i] = 0
      BY <1>0 DEF NotYetApplied
    <3>3. ASSUME NEW v \in Workers, SenderSettles(v, i) PROVE applied[i] = 0
      BY <1>0, <1>2, <3>3 DEF SenderSettles, Closes, NotYetApplied
    <3> QED
      BY <1>2, <2>2, <3>1, <3>2, <3>3 DEF RowMoves, Closes
  <2> QED
    BY <1>0, <2>1, <2>2, AppliedStep
<1> QED
  BY <1>1, <1>2 DEF NotYetApplied

LEMMA AtMostOnceStep == IInv /\ [Next]_vars => AtMostOnce'
<1> SUFFICES ASSUME IInv, [Next]_vars, NEW i \in Rows PROVE applied'[i] <= 1
  BY DEF AtMostOnce
<1>0. TypeOK /\ applied[i] <= 1 /\ applied[i] \in Nat
  BY DEF IInv, AtMostOnce, TypeOK
<1>1. ASSUME NEW w \in Workers, Posts(w) PROVE applied'[i] <= 1
  <2>1. Provider = "local" \/ applied[job[w]] = 0
    BY <1>1, ProviderAssumption DEF IInv, Posts, NotYetApplied, BeforePost
  <2> QED
    BY <1>0, <1>1, <2>1 DEF Posts, TypeOK
<1> QED
  BY <1>0, <1>1, AppliedStep

-----------------------------------------------------------------------------
(* The invariant is inductive.                                             *)

LEMMA InitInvariant == Init => IInv
<1> SUFFICES ASSUME Init PROVE IInv
  OBVIOUS
<1>1. TypeOK
  BY InitType
<1>2. JobIsRow /\ OwnerIsActive /\ InOrder /\ ManualIsCurrent /\ AtMostOnce
  BY DEF Init, JobIsRow, OwnerIsActive, InOrder, ManualIsCurrent, AtMostOnce, Active, Manual
<1>3. QueueIsDense
  BY OutboxBoundsAssumption DEF Init, QueueIsDense, Rows
<1>4. Senders /\ NotYetApplied
  BY DEF Init, Senders, NotYetApplied, Sending, BeforePost
<1> QED
  BY <1>1, <1>2, <1>3, <1>4 DEF IInv

LEMMA InvariantStep == IInv /\ [Next]_vars => IInv'
<1> SUFFICES ASSUME IInv, [Next]_vars PROVE IInv'
  OBVIOUS
<1>1. TypeOK'
  BY TypeStep DEF IInv
<1>2. JobIsRow' /\ OwnerIsActive' /\ QueueIsDense' /\ InOrder' /\ ManualIsCurrent' /\ AtMostOnce'
  BY JobIsRowStep, OwnerStep, DenseStep, InOrderStep, ManualStep, AtMostOnceStep
<1>3. Provider = "intercom" => Senders' /\ NotYetApplied'
  BY SendersStep, NotYetStep
<1> QED
  BY <1>1, <1>2, <1>3 DEF IInv

LEMMA Invariant == Spec => []IInv
  BY InitInvariant, InvariantStep, PTL DEF Spec

-----------------------------------------------------------------------------
(* The theorems about rows and their effects.                              *)

\* runtime/outbox.ts, case-store-outbox.ts: for any number of concurrent runs
\* of deliverOutbox, no operation is carried out twice.
THEOREM EffectAtMostOnce == Spec => []QueueIsSound
<1>1. IInv => QueueIsSound
  BY DEF IInv, QueueIsSound
<1> QED
  BY <1>1, Invariant, PTL

\* completeOutbox, appendFollowUp: a staff note or close that counts as
\* delivered was written for the turn that the case still shows.
THEOREM DeliveredForItsTurn == Spec => ManualDeliveryIsCurrent
<1>1. ASSUME IInv, [Next]_vars
      PROVE  [\A i \in Rows : op[i] \in Manual /\ ostate[i] # "delivered" /\ ostate'[i] = "delivered"
                                => activeTurn = origin[i]]_vars
  <2> SUFFICES ASSUME NEW i \in Rows, op[i] \in Manual, ostate[i] # "delivered", ostate'[i] = "delivered"
               PROVE  activeTurn = origin[i]
    OBVIOUS
  <2>1. RowMoves(i)
    BY <1>1, RowStep DEF IInv
  <2>2. ostate[i] \in Unsettled
    BY <2>1 DEF RowMoves, SenderSettles, Closes, Unsettled
  <2> QED
    BY <1>1, <2>2 DEF IInv, ManualIsCurrent
<1> QED
  BY <1>1, Invariant, PTL DEF Spec, ManualDeliveryIsCurrent

\* reconcileLateManualOutbox: nobody lets go of a close that reached Intercom
\* after its turn was over while the conversation is still closed by it.
THEOREM StaleCloseReopens == Spec => StaleCloseIsUndone
<1> DEFINE Let(w) == LET i == job[w] IN
                     /\ op[i] = "close" /\ applied[i] = 1 /\ ostate[i] = "uncertain"
                     /\ pc[w] # "withdrawn" /\ pc'[w] = "withdrawn"
                     => remote' = "open" \/ status = "resolved" \/ activeTurn = origin[i]
<1>1. ASSUME IInv, [Next]_vars PROVE [\A w \in Workers : Let(w)]_vars
  <2> SUFFICES ASSUME NEW w \in Workers, op[job[w]] = "close", applied[job[w]] = 1,
                      ostate[job[w]] = "uncertain", pc[w] # "withdrawn", pc'[w] = "withdrawn"
               PROVE  remote' = "open" \/ status = "resolved" \/ activeTurn = origin[job[w]]
    OBVIOUS
  <2>0. TypeOK
    BY <1>1 DEF IInv
  <2>1. Moves(w)
    BY <1>1, <2>0, OneWorkerMoves DEF StaysPut, vars, workerVars
  <2>2. ASSUME NEW label, Goto(w, label) PROVE label = "withdrawn"
    BY <2>0, <2>2, GotoMoves
  <2>3. CASE Sweep(w) \/ Heartbeat(w)
    BY <2>0, <2>3 DEF Sweep, SeeInterrupted, SweepExhausted, ClaimSelect, Heartbeat, workerVars, TypeOK
  <2>4. CASE MarkInterrupted(w) \/ ClaimUpdate(w) \/ ReadOwnerCase(w) \/ SupersedeOutbox(w) \/ RenewOutboxLease(w) \/ MarkOutboxStarted(w)
    BY <2>2, <2>4 DEF MarkInterrupted, ClaimUpdate, ReadOwnerCase, SupersedeOutbox, RenewOutboxLease, MarkOutboxStarted, GoIdle
  <2>5. CASE ReadConversation(w) \/ PostIsApplied(w) \/ PostIsNotApplied(w) \/ LoseReceipt(w)
    BY <2>2, <2>5 DEF ReadConversation, PostIsApplied, PostIsNotApplied, LoseReceipt, OutcomeOfError
  <2>6. CASE CheckFence(w)
    <3>1. applied[job[w]] = 0
      BY <1>1, <2>6 DEF CheckFence, IInv, JobIsRow, NotYetApplied, BeforePost
    <3> QED
      BY <3>1
  <2>7. CASE CompleteOutbox(w) \/ RetryOutbox(w) \/ QuarantineEffect(w) \/ SupersedeAfterFence(w) \/ Crash(w)
    BY <2>2, <2>7 DEF CompleteOutbox, RetryOutbox, QuarantineEffect, SupersedeAfterFence, Crash, GoIdle
  <2>8. CASE ReconcileLateReceipt(w) \/ CheckReopenFence(w)
    BY <2>2, <2>8 DEF ReconcileLateReceipt, CheckReopenFence, NeedsReopen
  <2>9. CASE ReadBeforeReopen(w)
    BY <2>2, <2>9 DEF ReadBeforeReopen, remoteVars
  <2>10. CASE Reopen(w)
    BY <2>2, <2>10 DEF Reopen
  <2> QED
    BY <2>1, <2>3, <2>4, <2>5, <2>6, <2>7, <2>8, <2>9, <2>10 DEF Moves, Deliver
<1> QED
  BY <1>1, Invariant, PTL DEF Spec, StaleCloseIsUndone

-----------------------------------------------------------------------------
(* The refinement of Delivery.                                             *)

FateOf(s) ==
  CASE s = "absent" -> "absent"
    [] s \in Unsettled -> "queued"
    [] s \in {"delivered", "superseded"} -> "done"
    [] s = "failed" -> "failed"
    [] OTHER -> "doubtful"

LEMMA Fates ==
  /\ Fate = [i \in Rows |-> FateOf(ostate[i])]
  /\ Fate' = [i \in Rows |-> FateOf(ostate'[i])]
  BY DEF Fate, FateOf

\* A worker changes one row at a time.
LEMMA OneRowChanges ==
  ASSUME TypeOK, JobIsRow, NEW w \in Workers, Moves(w)
  PROVE  \E k \in Rows : \A i \in Rows \ {k} : ostate'[i] = ostate[i]
<1> DEFINE Goal == \E k \in Rows : \A i \in Rows \ {k} : ostate'[i] = ostate[i]
<1>0. pc[w] # "idle" => job[w] \in Rows
  BY DEF JobIsRow
<1>1. ASSUME NEW k \in Rows, NEW s, Settle(k, s) \/ ostate' = [ostate EXCEPT ![k] = s] \/ UNCHANGED ostate
      PROVE  Goal
  BY <1>1 DEF Settle, TypeOK
<1>2. CASE Sweep(w)
  BY <1>1, <1>2 DEF Sweep, SeeInterrupted, SweepExhausted, ClaimSelect, rowVars
<1>3. CASE MarkInterrupted(w) \/ ClaimUpdate(w) \/ ReadOwnerCase(w) \/ SupersedeOutbox(w) \/ RenewOutboxLease(w) \/ MarkOutboxStarted(w)
  BY <1>0, <1>1, <1>3 DEF MarkInterrupted, Quarantine, ClaimUpdate, ReadOwnerCase, SupersedeOutbox, RenewOutboxLease, MarkOutboxStarted, rowVars
<1>4. CASE ReadConversation(w) \/ CheckFence(w) \/ PostIsApplied(w) \/ PostIsNotApplied(w) \/ LoseReceipt(w) \/ CompleteOutbox(w) \/ RetryOutbox(w)
  BY <1>0, <1>1, <1>4 DEF ReadConversation, CheckFence, PostIsApplied, PostIsNotApplied, LoseReceipt, CompleteOutbox, RetryOutbox, rowVars
<1>5. CASE QuarantineEffect(w) \/ SupersedeAfterFence(w) \/ ReconcileLateReceipt(w) \/ ReadBeforeReopen(w) \/ CheckReopenFence(w) \/ Reopen(w)
  BY <1>0, <1>1, <1>5 DEF QuarantineEffect, Quarantine, SupersedeAfterFence, ReconcileLateReceipt, ReadBeforeReopen, CheckReopenFence, Reopen, rowVars
<1>6. CASE Heartbeat(w) \/ Crash(w)
  <2>1. pc[w] # "idle" /\ UNCHANGED ostate
    BY <1>6 DEF Heartbeat, Crash
  <2> QED
    BY <1>0, <1>1, <2>1
<1> QED
  BY <1>2, <1>3, <1>4, <1>5, <1>6 DEF Moves, Deliver

\* A POST takes effect in its place.
LEMMA PostTakesEffect ==
  ASSUME IInv, Provider = "intercom", NEW w \in Workers, Posts(w)
  PROVE  Delivered!Next
<1> DEFINE i == job[w]
<1>1. i \in Rows /\ i \in Nat
  BY OutboxBoundsAssumption DEF IInv, JobIsRow, Posts, Rows
<1>2. ostate[i] \in {"uncertain", "started"} /\ applied[i] = 0
  BY DEF IInv, Posts, Senders, NotYetApplied, Sending, BeforePost
<1>3. Fate[i] \in {"queued", "doubtful"}
  BY <1>1, <1>2, Fates DEF FateOf, Unsettled, Active
<1>4. ASSUME NEW e \in 1..(i - 1) PROVE Fate[e] = "done"
  <2>1. e \in Rows
    BY <1>1, OutboxBoundsAssumption DEF Rows
  <2>2. Passed(e)
    BY <1>1, <1>2 DEF IInv, InOrder, HeadOfLine, Active
  <2> QED
    BY <2>1, <2>2, Fates DEF FateOf, Passed, Unsettled, Active
<1>5. applied' = [applied EXCEPT ![i] = 1] /\ UNCHANGED Fate
  BY <1>1, <1>2, Fates DEF Posts, IInv, TypeOK
<1>6. Delivered!TakeEffect(i)
  BY <1>2, <1>3, <1>4, <1>5 DEF Delivered!TakeEffect
<1> QED
  BY <1>1, <1>6 DEF Delivered!Next, Delivered!Rows, Rows

\* What else a worker does to a row is what Delivery lets happen to it.
LEMMA WorkerImplements ==
  ASSUME IInv, [Next]_vars, Provider = "intercom", UNCHANGED applied, NEW w \in Workers, Moves(w)
  PROVE  Delivered!Next \/ UNCHANGED <<Fate, applied>>
<1>0. TypeOK /\ JobIsRow /\ NotYetApplied
  BY DEF IInv
<1>1. PICK k \in Rows : \A i \in Rows \ {k} : ostate'[i] = ostate[i]
  BY <1>0, OneRowChanges
<1>2. RowMoves(k)
  BY RowStep DEF IInv
<1>3. Fate' = [Fate EXCEPT ![k] = FateOf(ostate'[k])] /\ Fate[k] = FateOf(ostate[k])
  BY <1>1, Fates
<1>4. Delivered!Rows = Rows
  BY DEF Delivered!Rows, Rows
<1> USE DEF FateOf, Unsettled, Active
<1>5. ASSUME FateOf(ostate'[k]) = FateOf(ostate[k]) PROVE UNCHANGED <<Fate, applied>>
  BY <1>3, <1>5, Fates
<1>6. ASSUME ostate[k] \in Unsettled \cup {"uncertain"}, ostate'[k] \in {"delivered", "superseded"}
      PROVE  Delivered!Next
  <2>1. Delivered!Finish(k)
    BY <1>0, <1>3, <1>6 DEF Delivered!Finish
  <2> QED
    BY <1>4, <2>1 DEF Delivered!Next
<1>7. ASSUME ostate[k] \in Unsettled, ostate'[k] = "failed", applied[k] = 0 PROVE Delivered!Next
  <2>1. Delivered!Fail(k)
    BY <1>0, <1>3, <1>7 DEF Delivered!Fail
  <2> QED
    BY <1>4, <2>1 DEF Delivered!Next
<1>8. ASSUME ostate[k] = "started", ostate'[k] = "uncertain" PROVE Delivered!Next
  <2>1. Fate[k] = "queued" /\ FateOf(ostate'[k]) = "doubtful"
    BY <1>3, <1>8
  <2>2. Fate' = [i \in Rows |-> IF i \in {k} THEN "doubtful" ELSE Fate[i]]
    BY <1>3, <2>1, Fates
  <2>3. Delivered!Withdraw({k}, {k})
    BY <1>4, <2>1, <2>2 DEF Delivered!Withdraw
  <2>4. {k} \in SUBSET {i \in Delivered!Rows : Fate[i] = "queued"}
    BY <1>4, <2>1
  <2> QED
    BY <2>3, <2>4 DEF Delivered!Next
<1>9. ostate[k] # "absent" \/ UNCHANGED ostate[k]
  <2>1. UNCHANGED size
    BY <1>0, CaseStays DEF planVars
  <2>2. ostate[k] = "absent" => ~(k <= size')
    BY <1>0, <2>1, OutboxBoundsAssumption DEF IInv, QueueIsDense, TypeOK, Rows
  <2> QED
    BY <1>2, <2>2 DEF RowMoves, SenderSettles, Closes
<1>10. ASSUME NEW v \in Workers, SenderSettles(v, k) PROVE Delivered!Next \/ UNCHANGED <<Fate, applied>>
  <2>1. pc[v] = "refused" => applied[k] = 0
    BY <1>0, <1>10 DEF SenderSettles, NotYetApplied
  <2> QED
    BY <1>5, <1>6, <1>7, <1>10, <2>1 DEF SenderSettles, Closes
<1>11. CASE Closes(k, {"claimed"}, {"failed", "superseded"})
  <2>1. applied[k] = 0
    BY <1>0, <1>11 DEF Closes, NotYetApplied
  <2> QED
    BY <1>6, <1>7, <1>11, <2>1 DEF Closes
<1>12. CASE Closes(k, {"pending"}, {"superseded"}) \/ Closes(k, {"started"}, {"uncertain"})
  BY <1>6, <1>8, <1>12 DEF Closes
<1>13. CASE \/ UNCHANGED ostate[k]
            \/ ostate[k] \in {"pending", "claimed"} /\ ostate'[k] = "claimed"
            \/ ostate[k] = "claimed" /\ ostate'[k] = "started"
  BY <1>5, <1>13
<1> QED
  BY <1>2, <1>9, <1>10, <1>11, <1>12, <1>13 DEF RowMoves

\* A batch of operations is queued, and a follow-up withdraws operations.
LEMMA CaseImplements ==
  ASSUME IInv, CaseStep, UNCHANGED applied
  PROVE  Delivered!Next \/ UNCHANGED <<Fate, applied>>
<1>0. TypeOK /\ QueueIsDense
  BY DEF IInv
<1>1. Delivered!Rows = Rows
  BY DEF Delivered!Rows, Rows
<1> USE DEF FateOf, Unsettled, Active
<1>2. ASSUME NEW rows, NEW s \in Finals, Batch(rows), Enqueue(rows, s) PROVE Delivered!Next
  <2>1. PICK n \in 1..2 :
          /\ size + n <= MaxRows
          /\ \A i \in Rows : IF i > size /\ i <= size + n THEN ostate'[i] = "pending" ELSE ostate'[i] = ostate[i]
    BY <1>0, <1>2, EnqueueEffect
  <2>2. size \in Nat
    BY <1>0, OutboxBoundsAssumption DEF TypeOK
  <2> DEFINE new == {i \in Rows : i > size /\ i <= size + n}
  <2>3. size + 1 \in new
    BY <2>1, <2>2, OutboxBoundsAssumption DEF Rows
  <2>4. \A i \in Rows : Fate[i] = "absent" <=> i > size
    BY <1>0, Fates DEF QueueIsDense
  <2>5. \A i \in new, e \in Rows : e < i /\ Fate[e] = "absent" => e \in new
    BY <2>2, <2>4, OutboxBoundsAssumption DEF Rows
  <2>6. Fate' = [i \in Rows |-> IF i \in new THEN "queued" ELSE Fate[i]]
    BY <2>1, Fates
  <2>7. \A i \in new : Fate[i] = "absent"
    BY <2>4
  <2> HIDE DEF new
  <2>8. Delivered!Queue(new)
    BY <1>1, <2>3, <2>5, <2>6, <2>7 DEF Delivered!Queue
  <2>9. new \in SUBSET {i \in Rows : Fate[i] = "absent"}
    BY <2>7 DEF new
  <2> QED
    BY <1>1, <2>8, <2>9 DEF Delivered!Next
<1>3. CASE ResolveManually
  BY <1>2, <1>3, Batches DEF ResolveManually, Finals
<1>4. ASSUME NEW s \in Finals, FinalizeCaseAndEnqueue(s) PROVE Delivered!Next
  BY <1>2, <1>4, Batches DEF FinalizeCaseAndEnqueue
<1>5. CASE AppendFollowUp
  <2> DEFINE gone == Withdrawn
             doubtful == {i \in Withdrawn : ostate[i] = "started"}
  <2>1. gone \subseteq Rows /\ \A i \in gone : Fate[i] = "queued"
    BY Fates DEF Withdrawn
  <2>2. ostate' = [i \in Rows |-> IF i \notin gone THEN ostate[i]
                                  ELSE IF ostate[i] = "started" THEN "uncertain" ELSE "superseded"]
    BY <1>5 DEF AppendFollowUp
  <2> HIDE DEF gone
  <2>3. doubtful = {i \in gone : ostate[i] = "started"}
    BY DEF gone
  <2>4. Fate' = [i \in Rows |-> IF i \in doubtful THEN "doubtful" ELSE IF i \in gone THEN "done" ELSE Fate[i]]
    BY <2>1, <2>2, <2>3, Fates
  <2> HIDE DEF doubtful
  <2>5. Delivered!Withdraw(gone, doubtful)
    BY <1>1, <2>1, <2>4 DEF Delivered!Withdraw
  <2>6. gone \in SUBSET {i \in Rows : Fate[i] = "queued"} /\ doubtful \in SUBSET gone
    BY <2>1, <2>3
  <2> QED
    BY <1>1, <2>5, <2>6 DEF Delivered!Next
<1>6. CASE ActivateTurn \/ AskApproval \/ Decide \/ FailDispatchAndCase
  <2>1. UNCHANGED ostate
    BY <1>6 DEF ActivateTurn, AskApproval, Decide, FailDispatchAndCase, rowVars
  <2> QED
    BY <2>1, Fates
<1> QED
  BY <1>3, <1>4, <1>5, <1>6 DEF CaseStep

\* Whatever happens is a step of Delivery, or nothing to it.
LEMMA DeliveryStep ==
  ASSUME IInv, [Next]_vars, Provider = "intercom"
  PROVE  Delivered!Next \/ UNCHANGED <<Fate, applied>>
<1>0. TypeOK
  BY DEF IInv
<1>1. CASE \E w \in Workers : Posts(w)
  BY <1>1, PostTakesEffect
<1>2. CASE UNCHANGED applied /\ \E w \in Workers : Moves(w)
  BY <1>2, WorkerImplements
<1>3. CASE CaseStep /\ UNCHANGED applied
  BY <1>3, CaseImplements
<1>4. CASE UNCHANGED <<ostate, applied>>
  BY <1>4, Fates
<1> QED
  BY <1>0, <1>1, <1>2, <1>3, <1>4, AppliedStep, OneWorkerMoves DEF vars, rowVars, remoteVars

\* case-store-outbox.ts with the Intercom provider: the rows of a conversation
\* are carried out in order and at most once, a failed one had no effect, and
\* one in doubt is never posted again and holds back the rest.
THEOREM OutboxDelivers ==
  ASSUME Provider = "intercom"
  PROVE  Spec => ImplementsDelivery
<1>1. Init => Delivered!Init
  <2> SUFFICES ASSUME Init PROVE Delivered!Init
    OBVIOUS
  <2>1. \A i \in Rows : ostate[i] = "absent"
    BY DEF Init
  <2>2. FateOf("absent") = "absent"
    BY DEF FateOf, Unsettled, Active
  <2>3. Fate = [i \in Rows |-> "absent"]
    BY <2>1, <2>2, Fates
  <2>4. applied = [i \in Rows |-> 0]
    BY DEF Init
  <2>5. Delivered!Rows = Rows
    BY DEF Delivered!Rows, Rows
  <2> QED
    BY <2>3, <2>4, <2>5 DEF Delivered!Init
<1>2. IInv /\ [Next]_vars => [Delivered!Next]_<<Fate, applied>>
  BY DeliveryStep
<1> QED
  BY <1>1, <1>2, Invariant, PTL DEF Spec, ImplementsDelivery, Delivered!Spec

-----------------------------------------------------------------------------
(* Each row is a command of OneEffect, as cancellations and credits are.   *)

RowVerdict(i) ==
  CASE Fate[i] = "failed" -> "none" [] Fate[i] = "done" -> "done" [] OTHER -> "open"

\* The receipt of a status row may stand for a state somebody else brought
\* about: nothing is attributed.
RowPromise(i) == INSTANCE OneEffect WITH
  Attributed <- FALSE, sent <- applied[i], happened <- applied[i] = 1,
  verdict <- RowVerdict(i)

\* Every step of Delivery is one of each of its rows, or nothing to it.
LEMMA RowPromiseStep ==
  ASSUME TypeOK, TypeOK', NEW i \in Rows, Delivered!Next
  PROVE  RowPromise(i)!Next \/ UNCHANGED <<applied[i], applied[i] = 1, RowVerdict(i)>>
<1>0. Delivered!Rows = Rows /\ i \in Nat
  BY OutboxBoundsAssumption DEF Delivered!Rows, Rows
<1>1. applied[i] \in Nat /\ applied'[i] \in Nat
  BY DEF TypeOK
<1>2. /\ Fate \in [Rows -> {"absent", "queued", "done", "failed", "doubtful"}]
      /\ RowVerdict(i) \in {"open", "done", "none"}
  BY DEF Fate, RowVerdict
<1>3. ASSUME NEW k \in Rows, Delivered!TakeEffect(k)
      PROVE  RowPromise(i)!Next \/ UNCHANGED <<applied[i], applied[i] = 1, RowVerdict(i)>>
  <2>1. UNCHANGED Fate /\ applied' = [applied EXCEPT ![k] = 1]
    BY <1>3 DEF Delivered!TakeEffect
  <2>2. UNCHANGED RowVerdict(i)
    BY <2>1 DEF RowVerdict
  <2>3. CASE k = i
    <3>1. applied[i] = 0 /\ applied'[i] = 1
      BY <1>3, <2>1, <2>3 DEF Delivered!TakeEffect, TypeOK
    <3>2. RowVerdict(i) = "open"
      BY <1>2, <1>3, <2>3 DEF Delivered!TakeEffect, RowVerdict
    <3>3. RowPromise(i)!Send
      BY <2>2, <3>1, <3>2 DEF RowPromise!Send
    <3> QED
      BY <3>3 DEF RowPromise!Next
  <2>4. CASE k # i
    BY <2>1, <2>2, <2>4 DEF TypeOK
  <2> QED
    BY <2>3, <2>4
<1>4. ASSUME UNCHANGED applied, Fate'[i] = Fate[i]
      PROVE  UNCHANGED <<applied[i], applied[i] = 1, RowVerdict(i)>>
  BY <1>4 DEF RowVerdict
<1>5. ASSUME UNCHANGED applied, Fate[i] \in {"absent", "queued"}, Fate'[i] \in {"queued", "doubtful"}
      PROVE  UNCHANGED <<applied[i], applied[i] = 1, RowVerdict(i)>>
  BY <1>5 DEF RowVerdict
<1>6. ASSUME UNCHANGED applied, Fate[i] \in {"queued", "doubtful"}, Fate'[i] = "done"
      PROVE  RowPromise(i)!Next
  <2>1. RowVerdict(i) = "open" /\ RowVerdict(i)' = "done"
    BY <1>6 DEF RowVerdict
  <2>2. RowPromise(i)!Close
    BY <1>6, <2>1 DEF RowPromise!Close
  <2> QED
    BY <2>2 DEF RowPromise!Next
<1>7. ASSUME UNCHANGED applied, Fate[i] = "queued", applied[i] = 0, Fate'[i] = "failed"
      PROVE  RowPromise(i)!Next
  <2>1. RowVerdict(i) = "open" /\ RowVerdict(i)' = "none"
    BY <1>7 DEF RowVerdict
  <2>2. RowPromise(i)!Close
    BY <1>7, <2>1 DEF RowPromise!Close
  <2> QED
    BY <2>2 DEF RowPromise!Next
<1>8. ASSUME NEW k \in Rows, Delivered!Finish(k) \/ Delivered!Fail(k)
      PROVE  RowPromise(i)!Next \/ UNCHANGED <<applied[i], applied[i] = 1, RowVerdict(i)>>
  BY <1>2, <1>4, <1>6, <1>7, <1>8 DEF Delivered!Finish, Delivered!Fail
<1>9. ASSUME NEW new \in SUBSET {k \in Rows : Fate[k] = "absent"}, Delivered!Queue(new)
      PROVE  UNCHANGED <<applied[i], applied[i] = 1, RowVerdict(i)>>
  BY <1>0, <1>4, <1>5, <1>9 DEF Delivered!Queue
<1>10. ASSUME NEW gone \in SUBSET {k \in Rows : Fate[k] = "queued"}, NEW doubtful \in SUBSET gone,
              Delivered!Withdraw(gone, doubtful)
       PROVE  RowPromise(i)!Next \/ UNCHANGED <<applied[i], applied[i] = 1, RowVerdict(i)>>
  BY <1>0, <1>4, <1>5, <1>6, <1>10 DEF Delivered!Withdraw
<1> QED
  BY <1>0, <1>3, <1>8, <1>9, <1>10 DEF Delivered!Next

\* runtime/outbox.ts with the Intercom provider: an operation on a conversation
\* is sent at most once, and what became of its row is final; a row that failed
\* never had an effect, not even by a POST given up earlier.
THEOREM EachRowIsOneEffect ==
  ASSUME Provider = "intercom"
  PROVE  Spec => \A i \in Rows : RowPromise(i)!Spec
<1> SUFFICES ASSUME NEW i \in Rows PROVE Spec => RowPromise(i)!Spec
  OBVIOUS
<1>1. Init => RowPromise(i)!Init
  BY DEF Init, RowPromise!Init, RowVerdict, Fate
<1>2. IInv /\ [Next]_vars => [RowPromise(i)!Next]_<<applied[i], applied[i] = 1, RowVerdict(i)>>
  <2> SUFFICES ASSUME IInv, [Next]_vars
               PROVE  RowPromise(i)!Next \/ UNCHANGED <<applied[i], applied[i] = 1, RowVerdict(i)>>
    OBVIOUS
  <2>1. TypeOK /\ TypeOK'
    BY TypeStep DEF IInv
  <2>2. CASE UNCHANGED <<Fate, applied>>
    BY <2>2 DEF RowVerdict
  <2> QED
    BY <2>1, <2>2, DeliveryStep, RowPromiseStep
<1> QED
  BY <1>1, <1>2, Invariant, PTL DEF Spec, RowPromise!Spec

\* claimOutbox's ORDER BY and NOT EXISTS, behind which a POST may be given up
\* and carried out later: when an operation shows at Intercom, every operation
\* queued before it is settled, and stays so.
CarriedOutInOrder == \A i \in Rows : applied[i] > 0 => HeadOfLine(i)

THEOREM EffectsAreOrdered ==
  ASSUME Provider = "intercom"
  PROVE  Spec => []CarriedOutInOrder
<1> DEFINE Inv == IInv /\ CarriedOutInOrder
<1>1. Init => Inv
  BY InitInvariant DEF Init, CarriedOutInOrder
<1>2. Inv /\ [Next]_vars => Inv'
  <2> SUFFICES ASSUME Inv, [Next]_vars PROVE Inv'
    OBVIOUS
  <2>1. IInv' /\ TypeOK
    BY InvariantStep DEF IInv
  <2>2. \A e \in Rows : Passed(e) <=> Fate[e] = "done"
    BY <2>1, Fates DEF Passed, FateOf, TypeOK, Unsettled, Active
  <2>3. \A e \in Rows : Passed(e)' <=> Fate'[e] = "done"
    BY <2>1, Fates DEF Passed, FateOf, IInv, TypeOK, Unsettled, Active
  <2>4. \A i \in Rows : \A e \in 1..(i - 1) : e \in Rows
    BY OutboxBoundsAssumption DEF Rows
  <2>5. \A i \in Rows : HeadOfLine(i) => HeadOfLine(i)'
    <3>1. ASSUME NEW e \in Rows, Fate[e] = "done" PROVE Fate'[e] = "done"
      <4>0. DOMAIN Fate = Rows /\ Delivered!Rows = Rows
        BY DEF Fate, Delivered!Rows, Rows
      <4>1. CASE UNCHANGED Fate
        BY <3>1, <4>1
      <4>2. ASSUME NEW k \in Rows, Delivered!TakeEffect(k) \/ Delivered!Finish(k) \/ Delivered!Fail(k)
            PROVE  Fate'[e] = "done"
        BY <3>1, <4>0, <4>2 DEF Delivered!TakeEffect, Delivered!Finish, Delivered!Fail
      <4>3. ASSUME NEW new \in SUBSET {k \in Rows : Fate[k] = "absent"}, Delivered!Queue(new)
            PROVE  Fate'[e] = "done"
        BY <3>1, <4>0, <4>3 DEF Delivered!Queue
      <4>4. ASSUME NEW gone \in SUBSET {k \in Rows : Fate[k] = "queued"},
                   NEW doubtful \in SUBSET gone, Delivered!Withdraw(gone, doubtful)
            PROVE  Fate'[e] = "done"
        BY <3>1, <4>0, <4>4 DEF Delivered!Withdraw
      <4> QED
        BY <2>1, <4>0, <4>1, <4>2, <4>3, <4>4, DeliveryStep DEF Delivered!Next
    <3> QED
      BY <2>2, <2>3, <2>4, <3>1 DEF HeadOfLine
  <2>6. ASSUME NEW i \in Rows, applied'[i] > 0, ~(applied[i] > 0) PROVE HeadOfLine(i)
    <3>1. \A e \in 1..(i - 1) : Fate[e] = "done"
      BY <2>1, <2>6, DeliveryStep
         DEF Delivered!Next, Delivered!TakeEffect, Delivered!Finish, Delivered!Fail, Delivered!Queue,
             Delivered!Withdraw, Delivered!Rows, Rows, TypeOK
    <3> QED
      BY <2>2, <2>4, <3>1 DEF HeadOfLine
  <2>7. CarriedOutInOrder'
    BY <2>5, <2>6 DEF CarriedOutInOrder
  <2> QED
    BY <2>1, <2>7
<1>3. Inv => CarriedOutInOrder
  OBVIOUS
<1> QED
  BY <1>1, <1>2, <1>3, PTL DEF Spec

-----------------------------------------------------------------------------
(* The case that the outbox reads is a queue of turns, as Dispatch is.     *)

TurnPhase ==
  [t \in Turns |-> CASE t > turns -> "absent"
                     [] t <= turns /\ t > served -> "waiting"
                     [] t = served /\ dispatch # "idle" -> "held"
                     [] OTHER -> "done"]

CaseQueue == INSTANCE TurnQueue WITH phase <- TurnPhase

LEMMA TurnStep ==
  ASSUME TypeOK, served <= turns, CaseStep
  PROVE  /\ CaseQueue!Next \/ UNCHANGED TurnPhase
         /\ served' <= turns'
<1>0. /\ turns \in Nat /\ served \in Nat /\ served \in Turns /\ MaxTurns \in Nat
      /\ CaseQueue!Turns = Turns /\ Turns = 1..MaxTurns
      /\ dispatch \in {"idle", "running", "suspended"}
  BY OutboxBoundsAssumption DEF TypeOK, Turns, CaseQueue!Turns
<1>1. CASE ActivateTurn
  <2>1. turns' = turns /\ served' = served + 1 /\ dispatch = "idle" /\ dispatch' = "running" /\ served < turns
    BY <1>1 DEF ActivateTurn
  <2>2. served + 1 \in Turns
    BY <1>0, <2>1 DEF TypeOK
  <2>3. TurnPhase' = [TurnPhase EXCEPT ![served + 1] = "held"]
    <3>1. \A t \in Turns : TurnPhase'[t] = IF t = served + 1 THEN "held" ELSE TurnPhase[t]
      BY <1>0, <2>1, <2>2 DEF TurnPhase
    <3>2. DOMAIN TurnPhase = Turns /\ TurnPhase' = [t \in Turns |-> TurnPhase'[t]]
      BY DEF TurnPhase
    <3> QED
      BY <2>2, <3>1, <3>2
  <2>4. TurnPhase[served + 1] = "waiting" /\ \A e \in 1..served : TurnPhase[e] = "done"
    BY <1>0, <2>1, <2>2 DEF TurnPhase
  <2>5. CaseQueue!Take(served + 1)
    BY <1>0, <2>3, <2>4 DEF CaseQueue!Take
  <2> QED
    BY <1>0, <2>1, <2>2, <2>5 DEF CaseQueue!Next
<1>2. ASSUME UNCHANGED <<turns, served>>, dispatch # "idle", dispatch' = "idle"
      PROVE  CaseQueue!Next /\ served' <= turns'
  <2>1. TurnPhase' = [TurnPhase EXCEPT ![served] = "done"] /\ TurnPhase[served] = "held"
    <3>1. \A t \in Turns : TurnPhase'[t] = IF t = served THEN "done" ELSE TurnPhase[t]
      BY <1>0, <1>2 DEF TurnPhase
    <3>2. TurnPhase[served] = "held"
      BY <1>0, <1>2 DEF TurnPhase
    <3> QED
      BY <3>1, <3>2 DEF TurnPhase
  <2>2. CaseQueue!Finish(served)
    BY <2>1 DEF CaseQueue!Finish
  <2> QED
    BY <1>0, <1>2, <2>2 DEF CaseQueue!Next
<1>3. CASE FailDispatchAndCase \/ \E s \in Finals : FinalizeCaseAndEnqueue(s)
  BY <1>2, <1>3 DEF FailDispatchAndCase, FinalizeCaseAndEnqueue
<1>4. CASE AskApproval \/ Decide \/ ResolveManually
  <2>1. UNCHANGED <<turns, served>> /\ (dispatch' = "idle" <=> dispatch = "idle")
    BY <1>4 DEF AskApproval, Decide, ResolveManually
  <2> QED
    BY <1>0, <2>1 DEF TurnPhase
<1>5. CASE AppendFollowUp
  <2>1. /\ turns < MaxTurns /\ turns' = turns + 1 /\ served' = served
        /\ dispatch' = dispatch \/ dispatch' = "idle"
    BY <1>5 DEF AppendFollowUp
  <2> DEFINE withdrawn == IF dispatch' = dispatch THEN {} ELSE {served}
  <2>2. turns + 1 \in Turns /\ TurnPhase[turns + 1] = "absent"
    BY <1>0, <2>1 DEF TurnPhase
  <2>3. \A e \in 1..turns : TurnPhase[e] # "absent"
    BY <1>0, <2>1 DEF TurnPhase
  <2>4. withdrawn \in SUBSET {e \in Turns : TurnPhase[e] = "held"}
    BY <1>0, <2>1 DEF TurnPhase
  <2>5. TurnPhase' = [e \in Turns |-> IF e = turns + 1 THEN "waiting"
                                      ELSE IF e \in withdrawn THEN "done" ELSE TurnPhase[e]]
    BY <1>0, <2>1 DEF TurnPhase
  <2> HIDE DEF withdrawn
  <2>6. CaseQueue!Write(turns + 1)
    BY <1>0, <2>2, <2>3, <2>4, <2>5 DEF CaseQueue!Write
  <2> QED
    BY <1>0, <2>1, <2>2, <2>6 DEF CaseQueue!Next
<1> QED
  BY <1>1, <1>3, <1>4, <1>5 DEF CaseStep

\* The reduction of the case: its turns, which Outbox follows from the
\* activation of the first one on, take the steps of the queue that Dispatch
\* implements, whatever the workers of the outbox do to the case.
THEOREM CaseIsATurnQueue ==
  Spec => /\ TurnPhase = [t \in Turns |-> IF t = 1 THEN "held" ELSE "absent"]
          /\ [][CaseQueue!Next]_TurnPhase
<1> DEFINE Inv == IInv /\ served <= turns
<1>1. Init => Inv /\ TurnPhase = [t \in Turns |-> IF t = 1 THEN "held" ELSE "absent"]
  <2> SUFFICES ASSUME Init
               PROVE  Inv /\ TurnPhase = [t \in Turns |-> IF t = 1 THEN "held" ELSE "absent"]
    OBVIOUS
  <2>1. turns = 1 /\ served = 1 /\ dispatch = "running"
    BY DEF Init
  <2> QED
    BY <2>1, InitInvariant, OutboxBoundsAssumption DEF TurnPhase, Turns
<1>2. Inv /\ [Next]_vars => Inv' /\ [CaseQueue!Next]_TurnPhase
  <2> SUFFICES ASSUME Inv, [Next]_vars PROVE Inv' /\ (CaseQueue!Next \/ UNCHANGED TurnPhase)
    OBVIOUS
  <2>1. IInv' /\ TypeOK
    BY InvariantStep DEF IInv
  <2>2. CASE CaseStep
    BY <2>1, <2>2, TurnStep
  <2>3. CASE UNCHANGED <<turns, served, dispatch>>
    BY <2>1, <2>3 DEF TurnPhase
  <2>4. CASE \E w \in Workers : Moves(w)
    BY <2>1, <2>3, <2>4, CaseStays
  <2> QED
    BY <2>1, <2>2, <2>3, <2>4, OneWorkerMoves DEF vars, rowVars, remoteVars, caseVars
<1> QED
  BY <1>1, <1>2, PTL DEF Spec

==============================================================================

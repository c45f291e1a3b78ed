----------------------------- MODULE RefundProofs -----------------------------
(***************************************************************************)
(* Theorems about Refund, for any number of workers, any bound on faults   *)
(* and any answers of Stripe to a POST.                                    *)
(***************************************************************************)
EXTENDS Refund, TLAPS

-----------------------------------------------------------------------------
(* The inductive invariant.                                                *)

Paid == {"succeeded", "reversed"}

\* Steps from which a POST may still follow without another look at the clock.
Posters == Posting \cup {"preflight", "account"}

\* Stripe creates one refund while it keeps the key.  It forgets the key only
\* when nobody can use it any more: the window is closed, no POST is late, and
\* no worker is between its look at the window and its POST.
PostedOnce ==
  /\ refunds <= 1
  /\ refunds = 0 => answer = "none" /\ remote = "none"
  /\ refunds = 1 /\ answer = "none" =>
       ~window /\ ~late /\ \A w \in Workers : pc[w] \notin Posters
  /\ status = "absent" => window

\* Nobody records, or holds, a success that Stripe has not had.
LearnedFromStripe ==
  /\ answer # "none" => remote # "none"
  /\ answer = "succeeded" => remote \in Paid
  /\ status = "succeeded" => remote \in Paid
  /\ known => remote # "none"
  /\ \A w \in Workers : pc[w] \in {"retrieve", "reread"} => known
  /\ \A w \in Workers : pc[w] \in {"received", "recorded", "failing", "recovered", "hook"}
       => got[w] # "none" /\ remote # "none"
  /\ \A w \in Workers : got[w] = "succeeded" => remote \in Paid

\* The paid refund came back: the turn has the other answer, for good.
Reversed == status = "failed" /\ outcome.reply = "review" /\ caseReply # "issued"

\* A worker that acts on a success acts on a ledger that had it.
SuccessIsRecorded ==
  /\ \A w \in Workers : pc[w] = "failing" => got[w] = "failed"
  /\ \A w \in Workers : pc[w] = "finalizing" => got[w] \in {"succeeded", "failed"}
  /\ \A w \in Workers : pc[w] \in {"recorded", "projecting"} /\ got[w] = "succeeded"
       => status \in Terminal
  /\ \A w \in Workers : pc[w] = "finalizing" /\ got[w] = "succeeded"
       => status = "succeeded" \/ Reversed
  /\ shows = "reset" => caseReply = "none"

\* What was announced was paid, and is in the ledger or was corrected.
Announced ==
  told \cap IssuedRows # {} =>
    /\ remote \in Paid
    /\ status = "succeeded" \/ (status = "failed" /\ "refund-failed" \in told)

IInv ==
  /\ TypeOK /\ EffectMatchesLedger /\ PostedOnce /\ LearnedFromStripe
  /\ SuccessIsRecorded /\ Announced

-----------------------------------------------------------------------------
(* Type correctness.                                                       *)

PCs == {"idle"} \cup ToolPCs \cup FlowPCs \cup OtherPCs
Statuses == Terminal \cup Open \cup {"absent", "pending"}

FlagTypeOK == {known, noEffect, request} \subseteq BOOLEAN
LedgerTypeOK == status \in Statuses /\ {rowner, first} \subseteq Workers \cup {NoWorker}
LeaseTypeOK ==
  dstate \in {"held", "suspended", "completed", "failed"} /\ owner \in Workers \cup {NoWorker}
CaseTypeOK ==
  /\ shows \in Shown \cup {"reset"}
  /\ caseStatus \in Finals \cup {"processing", "new"}
  /\ caseReply \in {"none", "issued", "review"}
  /\ {result, projected} \subseteq Issued \cup {"none", "pending", "failed"}
RecordTypeOK ==
  /\ outcome \in [reply : {"none", "issued", "review"}, status : Finals \cup {"none"}]
  /\ effect \in Issued \cup {"none"}
  /\ told \subseteq IssuedRows \cup Corrections
StripeTypeOK ==
  /\ refunds \in Nat /\ remote \in Answers \cup {"none", "reversed"}
  /\ answer \in Answers \cup {"none"}
  /\ {late, window} \subseteq BOOLEAN
SnapshotTypeOK == {native, run} \subseteq {"waiting", "consumed", "resumed"}
WorkerTypeOK ==
  /\ pc \in [Workers -> PCs]
  /\ via \in [Workers -> {"http", "recovery", "blind"}]
  /\ got \in [Workers -> Answers \cup {"none"}]
  /\ kind \in [Workers -> Issued]
  /\ seen \in [Workers -> Shown \cup {"reset"}]

\* The parts are the type invariant of the module.
LEMMA TypeParts ==
  TypeOK <=> /\ FlagTypeOK /\ LedgerTypeOK /\ LeaseTypeOK /\ CaseTypeOK /\ RecordTypeOK
             /\ StripeTypeOK /\ SnapshotTypeOK /\ WorkerTypeOK /\ faults \in 0..MaxFaults
  BY DEF TypeOK, FlagTypeOK, LedgerTypeOK, LeaseTypeOK, CaseTypeOK, RecordTypeOK,
     StripeTypeOK, SnapshotTypeOK, WorkerTypeOK, PCs, Statuses

\* What is left alone keeps its type.
LEMMA UnchangedType ==
  /\ FlagTypeOK /\ LedgerTypeOK /\ UNCHANGED ledgerVars => FlagTypeOK' /\ LedgerTypeOK'
  /\ LeaseTypeOK /\ UNCHANGED leaseVars => LeaseTypeOK'
  /\ CaseTypeOK /\ UNCHANGED caseVars => CaseTypeOK'
  /\ RecordTypeOK /\ UNCHANGED recordVars => RecordTypeOK'
  /\ StripeTypeOK /\ UNCHANGED stripeVars => StripeTypeOK'
  /\ SnapshotTypeOK /\ UNCHANGED snapshotVars => SnapshotTypeOK'
  /\ WorkerTypeOK /\ UNCHANGED workerVars => WorkerTypeOK'
<1>1. FlagTypeOK /\ LedgerTypeOK /\ UNCHANGED ledgerVars => FlagTypeOK' /\ LedgerTypeOK'
  BY DEF FlagTypeOK, LedgerTypeOK, ledgerVars
<1>2. LeaseTypeOK /\ UNCHANGED leaseVars => LeaseTypeOK'
  BY DEF LeaseTypeOK, leaseVars
<1>3. CaseTypeOK /\ UNCHANGED caseVars => CaseTypeOK'
  BY DEF CaseTypeOK, caseVars
<1>4. RecordTypeOK /\ UNCHANGED recordVars => RecordTypeOK'
  BY DEF RecordTypeOK, recordVars
<1>5. StripeTypeOK /\ UNCHANGED stripeVars => StripeTypeOK'
  BY DEF StripeTypeOK, stripeVars
<1>6. SnapshotTypeOK /\ UNCHANGED snapshotVars => SnapshotTypeOK'
  BY DEF SnapshotTypeOK, snapshotVars
<1>7. WorkerTypeOK /\ UNCHANGED workerVars => WorkerTypeOK'
  BY DEF WorkerTypeOK, workerVars
<1> QED
  BY <1>1, <1>2, <1>3, <1>4, <1>5, <1>6, <1>7

\* The ways a worker moves keep the types of the workers.
LEMMA GotoType ==
  ASSUME WorkerTypeOK, NEW w \in Workers, NEW label \in PCs,
         Goto(w, label) \/ GotoFrom(w, label)
  PROVE  WorkerTypeOK'
  BY DEF WorkerTypeOK, Goto, GotoFrom, Shown

LEMMA GoIdleType ==
  ASSUME WorkerTypeOK, NEW w \in Workers, GoIdle(w)
  PROVE  WorkerTypeOK'
  BY DEF WorkerTypeOK, GoIdle, Shown, Issued, PCs

LEMMA LearnType ==
  ASSUME WorkerTypeOK, NEW w \in Workers, NEW label \in PCs,
         NEW what \in Answers \cup {"none"}, NEW how \in Issued, Learn(w, label, what, how)
  PROVE  WorkerTypeOK'
  BY DEF WorkerTypeOK, Learn

\* The statements on the ledger, the dispatch, the case and the record keep theirs.
LEMMA UpdateAttemptType ==
  ASSUME FlagTypeOK, LedgerTypeOK, NEW to \in Statuses, NEW knows \in BOOLEAN,
         UpdateAttempt(to, knows)
  PROVE  FlagTypeOK' /\ LedgerTypeOK'
<1>1. CASE MayUpdate(to)
  <2>1. LedgerTypeOK'
    BY <1>1 DEF UpdateAttempt, ReleaseAttempt, LedgerTypeOK
  <2>2. known' \in BOOLEAN /\ noEffect' \in BOOLEAN /\ request' \in BOOLEAN
    BY <1>1, Zenon DEF UpdateAttempt, FlagTypeOK
  <2> QED
    BY <2>1, <2>2 DEF FlagTypeOK
<1>2. CASE ~MayUpdate(to)
  BY <1>2, UnchangedType DEF UpdateAttempt
<1> QED
  BY <1>1, <1>2

LEMMA RescheduleType ==
  ASSUME FlagTypeOK, LedgerTypeOK, NEW to \in Statuses, NEW knows \in BOOLEAN,
         NEW w \in Workers, Reschedule(w, to, knows)
  PROVE  FlagTypeOK' /\ LedgerTypeOK'
<1>1. CASE OwnsAttempt(w) /\ status \notin Terminal
  <2>1. LedgerTypeOK'
    BY <1>1 DEF Reschedule, ReleaseAttempt, LedgerTypeOK
  <2>2. known' \in BOOLEAN /\ noEffect' \in BOOLEAN /\ request' \in BOOLEAN
    BY <1>1, Zenon DEF Reschedule, FlagTypeOK
  <2> QED
    BY <2>1, <2>2 DEF FlagTypeOK
<1>2. CASE ~(OwnsAttempt(w) /\ status \notin Terminal)
  BY <1>2, UnchangedType DEF Reschedule
<1> QED
  BY <1>1, <1>2

LEMMA CompleteDispatchType ==
  ASSUME LeaseTypeOK, NEW to \in {"suspended", "completed", "failed"}, NEW w \in Workers,
         CompleteDispatch(w, to)
  PROVE  LeaseTypeOK'
  BY DEF CompleteDispatch, LeaseTypeOK, leaseVars

LEMMA FailDispatchType ==
  ASSUME LeaseTypeOK, CaseTypeOK, RecordTypeOK, NEW w \in Workers, FailDispatchAndCase(w)
  PROVE  LeaseTypeOK' /\ CaseTypeOK' /\ RecordTypeOK'
<1>1. CASE OwnsDispatch(w)
  <2>1. LeaseTypeOK'
    BY <1>1, CompleteDispatchType DEF FailDispatchAndCase
  <2>2. CaseTypeOK'
    BY <1>1 DEF FailDispatchAndCase, CaseTypeOK, Finals
  <2>3. RecordTypeOK'
    BY <1>1 DEF FailDispatchAndCase, CaseTypeOK, RecordTypeOK, Finals
  <2> QED
    BY <2>1, <2>2, <2>3
<1>2. CASE ~OwnsDispatch(w)
  BY <1>2, UnchangedType DEF FailDispatchAndCase
<1> QED
  BY <1>1, <1>2

LEMMA FinalizeType ==
  ASSUME FlagTypeOK, LedgerTypeOK, CaseTypeOK, RecordTypeOK,
         NEW to \in Terminal, NEW how \in Issued, FinalizeIfAllowed(to, how)
  PROVE  FlagTypeOK' /\ LedgerTypeOK' /\ CaseTypeOK' /\ RecordTypeOK'
<1>1. CASE CanFinalize(to)
  <2>0. Finalize(to, how)
    BY <1>1 DEF FinalizeIfAllowed
  <2>1. LedgerTypeOK'
    BY <2>0 DEF Finalize, ReleaseAttempt, LedgerTypeOK, Statuses
  <2>2. FlagTypeOK'
    BY <2>0 DEF Finalize, FlagTypeOK
  <2>3. CaseTypeOK'
    BY <2>0 DEF Finalize, Projection, CaseTypeOK, caseVars, Finals, Issued
  <2>4. RecordTypeOK'
    <3>1. CASE UNCHANGED recordVars
      BY <3>1, UnchangedType
    <3>2. CASE /\ effect' \in {effect, how, "none"}
               /\ \/ Record("issued", "resolved", "refund-final")
                  \/ Record("review", "escalated", "refund-failed")
      <4>1. effect' \in Issued \cup {"none"}
        BY <3>2 DEF RecordTypeOK
      <4>2. told' \subseteq IssuedRows \cup Corrections
        BY <3>2 DEF Record, RecordTypeOK, IssuedRows, Corrections
      <4>3. outcome' \in [reply : {"none", "issued", "review"}, status : Finals \cup {"none"}]
        BY <3>2 DEF Record, Finals
      <4> QED
        BY <4>1, <4>2, <4>3 DEF RecordTypeOK
    <3> QED
      BY <2>0, <3>1, <3>2 DEF Finalize, recordVars
  <2> QED
    BY <2>1, <2>2, <2>3, <2>4
<1>2. CASE ~CanFinalize(to)
  BY <1>2, UnchangedType DEF FinalizeIfAllowed
<1> QED
  BY <1>1, <1>2

\* An effect that is found, and its projection.
LEMMA FindType ==
  ASSUME WorkerTypeOK, RecordTypeOK, effect # "none", NEW w \in Workers, NEW label \in PCs,
         Find(w, label)
  PROVE  WorkerTypeOK'
  BY DEF Find, WorkerTypeOK, RecordTypeOK

LEMMA ProjectEffectType ==
  ASSUME CaseTypeOK, WorkerTypeOK, NEW w \in Workers, ProjectEffect(w)
  PROVE  CaseTypeOK' /\ WorkerTypeOK'
<1>1. CASE OwnsDispatch(w)
  <2>1. CaseTypeOK'
    BY <1>1 DEF ProjectEffect, CaseTypeOK, WorkerTypeOK, Shown
  <2>2. {"returned", "resuming"} \subseteq PCs /\ "executed" \in Issued /\ "turn" \in Shown
    BY DEF PCs, FlowPCs, Issued, Shown
  <2>3. WorkerTypeOK'
    BY <1>1, <2>2 DEF ProjectEffect, WorkerTypeOK
  <2> QED
    BY <2>1, <2>3
<1>2. CASE ~OwnsDispatch(w)
  BY <1>2, GoIdleType, UnchangedType DEF ProjectEffect
<1> QED
  BY <1>1, <1>2

\* So does a POST that Stripe carries out, refuses or delays.
LEMMA PostType ==
  ASSUME StripeTypeOK, WorkerTypeOK, NEW w \in Workers, NEW from \in PCs, NEW received \in PCs,
         NEW refused \in PCs, NEW doubtful \in PCs, Post(w, from, received, refused, doubtful)
  PROVE  StripeTypeOK' /\ WorkerTypeOK'
<1>1. ASSUME NEW state \in PostAnswers, Accept(state)
      PROVE  refunds' \in Nat /\ remote' \in Answers \cup {"none", "reversed"}
             /\ answer' \in Answers \cup {"none"}
  BY <1>1, PostAnswersAssumption DEF Accept, StripeTypeOK, Answers
<1>2. StripeTypeOK'
  BY <1>1 DEF Post, StripeTypeOK, stripeVars
<1>3. WorkerTypeOK'
  BY GotoType, LearnType, PostAnswersAssumption DEF Post, Answers, Issued
<1> QED
  BY <1>2, <1>3

\* Every initial state has the declared types.
LEMMA InitType == Init => TypeOK
<1> SUFFICES ASSUME Init PROVE TypeOK
  OBVIOUS
<1>1. FlagTypeOK /\ LedgerTypeOK /\ LeaseTypeOK
  BY DEF Init, FlagTypeOK, LedgerTypeOK, LeaseTypeOK, Statuses
<1>2. CaseTypeOK /\ RecordTypeOK
  BY DEF Init, CaseTypeOK, RecordTypeOK, Shown, Issued, Finals
<1>3. StripeTypeOK /\ SnapshotTypeOK
  BY DEF Init, StripeTypeOK, SnapshotTypeOK
<1>5. faults \in 0..MaxFaults
  BY RefundBoundAssumption DEF Init
<1>4. WorkerTypeOK
  BY DEF Init, WorkerTypeOK, PCs, ToolPCs, Shown, Issued
<1> QED
  BY <1>1, <1>2, <1>3, <1>4, <1>5, TypeParts

USE DEF ToolPCs, FlowPCs, OtherPCs

\* The steps of the native tool keep the declared types.
LEMMA ToolType ==
  ASSUME TypeOK, LearnedFromStripe, NEW w \in Workers, Tool(w)
  PROVE  TypeOK'
<1> USE DEF PCs
<1>0. /\ FlagTypeOK /\ LedgerTypeOK /\ LeaseTypeOK /\ CaseTypeOK /\ RecordTypeOK
      /\ StripeTypeOK /\ SnapshotTypeOK /\ WorkerTypeOK /\ faults \in 0..MaxFaults
  BY TypeParts
<1> SUFFICES
      /\ FlagTypeOK' /\ LedgerTypeOK' /\ LeaseTypeOK' /\ CaseTypeOK' /\ RecordTypeOK'
      /\ StripeTypeOK' /\ SnapshotTypeOK' /\ WorkerTypeOK' /\ faults' \in 0..MaxFaults
  BY DEF TypeOK, FlagTypeOK, LedgerTypeOK, LeaseTypeOK, CaseTypeOK, RecordTypeOK,
     StripeTypeOK, SnapshotTypeOK, WorkerTypeOK, Statuses
<1>1. ASSUME StartTool(w) \/ VerifyAndAuthorize(w)
      PROVE  WorkerTypeOK' /\ UNCHANGED <<ledgerVars, leaseVars, caseVars, recordVars, stripeVars, snapshotVars, faults>>
  BY <1>0, <1>1, GotoType DEF StartTool, VerifyAndAuthorize
<1>2. CASE StartTool(w) \/ VerifyAndAuthorize(w)
  BY <1>0, <1>1, <1>2, UnchangedType
<1>3. CASE Prepare(w)
  <2>1. WorkerTypeOK'
    BY <1>0, <1>3, GotoType DEF Prepare
  <2>2. FlagTypeOK' /\ LedgerTypeOK'
    <3>1. CASE UpdateAttempt("quarantined", FALSE)
      BY <1>0, <3>1, UpdateAttemptType DEF Statuses, Terminal
    <3>2. CASE UNCHANGED ledgerVars
      BY <1>0, <3>2, UnchangedType
    <3>3. CASE status' = "prepared" /\ first' = w /\ UNCHANGED <<known, noEffect, request, rowner>>
      BY <1>0, <3>3 DEF FlagTypeOK, LedgerTypeOK, Statuses, Open
    <3> QED
      BY <1>3, <3>1, <3>2, <3>3 DEF Prepare
  <2> QED
    BY <1>0, <1>3, <2>1, <2>2, UnchangedType DEF Prepare
<1>4. CASE Preflight(w)
  <2>1. WorkerTypeOK'
    BY <1>0, <1>4, GotoType DEF Preflight
  <2>2. LedgerTypeOK'
    BY <1>0, <1>4 DEF Preflight, LedgerTypeOK
  <2>3. FlagTypeOK'
    BY <1>0, <1>4 DEF Preflight, FlagTypeOK
  <2> QED
    BY <1>0, <1>4, <2>1, <2>2, <2>3, UnchangedType DEF Preflight
<1>5. CASE CreateRefund(w)
  <2>1. StripeTypeOK' /\ WorkerTypeOK'
    BY <1>0, <1>5, PostType DEF CreateRefund
  <2>2. UNCHANGED <<ledgerVars, leaseVars, caseVars, recordVars, snapshotVars, faults>>
    BY <1>5 DEF CreateRefund, Post
  <2> QED
    BY <1>0, <2>1, <2>2, UnchangedType
<1>6. CASE RetrieveKnown(w)
  <2>1. CurrentAnswer \in Answers \cup {"none"}
    BY <1>0 DEF CurrentAnswer, StripeTypeOK, Answers
  <2>2. WorkerTypeOK'
    BY <1>0, <1>6, <2>1, GotoType, LearnType DEF RetrieveKnown, Issued
  <2> QED
    BY <1>0, <1>6, <2>2, UnchangedType DEF RetrieveKnown
<1>7. CASE RecordAnswer(w)
  <2>1. LedgerStatus(got[w]) \in Statuses
    BY <1>0, <1>7 DEF RecordAnswer, LearnedFromStripe, WorkerTypeOK, LedgerStatus, Statuses,
       Terminal, Answers
  <2>2. WorkerTypeOK'
    BY <1>0, <1>7, GotoType DEF RecordAnswer
  <2>3. FlagTypeOK' /\ LedgerTypeOK'
    BY <1>0, <1>7, <2>1, UpdateAttemptType DEF RecordAnswer
  <2> QED
    BY <1>0, <1>7, <2>2, <2>3, UnchangedType DEF RecordAnswer
<1>8. CASE AuthoritativeEffect(w)
  <2>1. got[w] \in Answers \cup {"none"} /\ kind[w] \in Issued
    BY <1>0 DEF WorkerTypeOK
  <2>2. WorkerTypeOK'
    BY <1>0, <1>8, <2>1, LearnType DEF AuthoritativeEffect, Answers
  <2> QED
    BY <1>0, <1>8, <2>2, UnchangedType DEF AuthoritativeEffect
<1>9. CASE FinalizeDirectFailure(w)
  <2>1. WorkerTypeOK' /\ kind[w] \in Issued
    BY <1>0, <1>9, GotoType DEF FinalizeDirectFailure, WorkerTypeOK
  <2>2. FlagTypeOK' /\ LedgerTypeOK' /\ CaseTypeOK' /\ RecordTypeOK'
    BY <1>0, <1>9, <2>1, FinalizeType DEF FinalizeDirectFailure, Terminal
  <2> QED
    BY <1>0, <1>9, <2>1, <2>2, UnchangedType DEF FinalizeDirectFailure
<1>10. CASE ProjectTool(w)
  <2>1. WorkerTypeOK' /\ kind[w] \in Issued
    BY <1>0, <1>10, GotoType DEF ProjectTool, WorkerTypeOK
  <2>2. ResultOf(w) \in Issued \cup {"none", "pending", "failed"}
    BY <2>1 DEF ResultOf
  <2>3. CaseTypeOK'
    BY <1>0, <1>10, <2>2 DEF ProjectTool, CaseTypeOK, caseVars
  <2>4. RecordTypeOK'
    BY <1>0, <1>10, <2>1 DEF ProjectTool, RecordTypeOK, recordVars
  <2> QED
    BY <1>0, <1>10, <2>1, <2>3, <2>4, UnchangedType DEF ProjectTool
<1>11. CASE NoEffectFailure(w)
  <2>1. WorkerTypeOK'
    BY <1>0, <1>11, GotoType DEF NoEffectFailure
  <2>2. CASE status \in Open
    <3>1. LedgerTypeOK'
      BY <1>0, <1>11, <2>2 DEF NoEffectFailure, ReleaseAttempt, LedgerTypeOK, Statuses, Terminal
    <3>2. FlagTypeOK'
      BY <1>0, <1>11, <2>2 DEF NoEffectFailure, FlagTypeOK
    <3>3. CaseTypeOK'
      BY <1>0, <1>11, <2>2 DEF NoEffectFailure, Projection, CaseTypeOK, caseVars, Finals
    <3>4. /\ effect' = "none" /\ told' = told \cup {"refund-no-effect"}
          /\ outcome' = [reply |-> "review", status |-> "escalated"]
      BY <1>11, <2>2 DEF NoEffectFailure, Record
    <3>5. RecordTypeOK'
      BY <1>0, <3>4 DEF RecordTypeOK, Finals, Corrections
    <3> QED
      BY <1>0, <1>11, <2>1, <3>1, <3>2, <3>3, <3>5, UnchangedType DEF NoEffectFailure
  <2>3. CASE status \notin Open
    BY <1>0, <1>11, <2>1, <2>3, UnchangedType DEF NoEffectFailure
  <2> QED
    BY <2>2, <2>3
<1>12. CASE RecordDoubt(w)
  <2>1. WorkerTypeOK'
    BY <1>0, <1>12, GotoType DEF RecordDoubt
  <2>2. FlagTypeOK' /\ LedgerTypeOK'
    BY <1>0, <1>12, UpdateAttemptType DEF RecordDoubt, Statuses, Open
  <2> QED
    BY <1>0, <1>12, <2>1, <2>2, UnchangedType DEF RecordDoubt
<1>13. CASE EndTool(w)
  <2>1. WorkerTypeOK'
    BY <1>0, <1>13, LearnType DEF EndTool, Issued
  <2>2. SnapshotTypeOK'
    BY <1>0, <1>13 DEF EndTool, SnapshotTypeOK
  <2> QED
    BY <1>0, <1>13, <2>1, <2>2, UnchangedType DEF EndTool
<1> QED
  BY <1>2, <1>3, <1>4, <1>5, <1>6, <1>7, <1>8, <1>9, <1>10, <1>11, <1>12, <1>13 DEF Tool

\* So do the steps of the request and of the recovery around it.
LEMMA FlowType ==
  ASSUME TypeOK, NEW w \in Workers, Flow(w)
  PROVE  TypeOK'
<1> USE DEF PCs
<1>0. /\ FlagTypeOK /\ LedgerTypeOK /\ LeaseTypeOK /\ CaseTypeOK /\ RecordTypeOK
      /\ StripeTypeOK /\ SnapshotTypeOK /\ WorkerTypeOK /\ faults \in 0..MaxFaults
  BY TypeParts
<1> SUFFICES
      /\ FlagTypeOK' /\ LedgerTypeOK' /\ LeaseTypeOK' /\ CaseTypeOK' /\ RecordTypeOK'
      /\ StripeTypeOK' /\ SnapshotTypeOK' /\ WorkerTypeOK' /\ faults' \in 0..MaxFaults
  BY DEF TypeOK, FlagTypeOK, LedgerTypeOK, LeaseTypeOK, CaseTypeOK, RecordTypeOK,
     StripeTypeOK, SnapshotTypeOK, WorkerTypeOK, Statuses
<1>1. CASE ClaimDispatchForResume(w)
  <2>1. WorkerTypeOK'
    <3>1. CASE GoIdle(w)
      BY <1>0, <3>1, GoIdleType
    <3>2. CASE /\ pc' = [pc EXCEPT ![w] = "claimed"]
               /\ via' = [via EXCEPT ![w] = IF seen[w] = "reset" THEN "blind" ELSE "recovery"]
               /\ UNCHANGED <<got, kind, seen>>
      BY <1>0, <3>2 DEF WorkerTypeOK
    <3> QED
      BY <1>1, <3>1, <3>2 DEF ClaimDispatchForResume
  <2>2. FlagTypeOK' /\ LedgerTypeOK'
    BY <1>0, <1>1 DEF ClaimDispatchForResume, FlagTypeOK, LedgerTypeOK
  <2>3. LeaseTypeOK'
    BY <1>0, <1>1 DEF ClaimDispatchForResume, LeaseTypeOK, leaseVars
  <2> QED
    BY <1>0, <1>1, <2>1, <2>2, <2>3, UnchangedType DEF ClaimDispatchForResume
<1>2. CASE ReconcileBefore(w)
  <2>1. WorkerTypeOK'
    BY <1>0, <1>2, GotoType, GoIdleType, FindType DEF ReconcileBefore
  <2>2. LeaseTypeOK'
    BY <1>0, <1>2, CompleteDispatchType, UnchangedType DEF ReconcileBefore
  <2> QED
    BY <1>0, <1>2, <2>1, <2>2, UnchangedType DEF ReconcileBefore
<1>11. CASE ProjectEffect(w)
  <2>1. WorkerTypeOK' /\ CaseTypeOK'
    BY <1>0, <1>11, ProjectEffectType
  <2> QED
    BY <1>0, <1>11, <2>1, UnchangedType DEF ProjectEffect
<1>3. CASE KeepWaiting(w)
  <2>1. WorkerTypeOK' /\ LeaseTypeOK'
    BY <1>0, <1>3, GoIdleType, CompleteDispatchType DEF KeepWaiting
  <2> QED
    BY <1>0, <1>3, <2>1, UnchangedType DEF KeepWaiting
<1>4. CASE AfterTool(w)
  <2>1. CASE via[w] = "recovery" /\ status = "failed"
    <3>1. WorkerTypeOK' /\ LeaseTypeOK'
      BY <1>0, <1>4, <2>1, GoIdleType, CompleteDispatchType DEF AfterTool
    <3> QED
      BY <1>0, <1>4, <3>1, UnchangedType DEF AfterTool
  <2>2. CASE ~(via[w] = "recovery" /\ status = "failed")
    <3>1. WorkerTypeOK' /\ UNCHANGED leaseVars
      BY <1>0, <1>4, <2>2 DEF AfterTool, WorkerTypeOK, CaseTypeOK
    <3> QED
      BY <1>0, <1>4, <3>1, UnchangedType DEF AfterTool
  <2> QED
    BY <2>1, <2>2
<1>5. CASE ReconcileAfter(w)
  <2>1. WorkerTypeOK'
    BY <1>0, <1>5, GotoType, FindType DEF ReconcileAfter
  <2> QED
    BY <1>0, <1>5, <2>1, UnchangedType DEF ReconcileAfter
<1>6. CASE SettleDispatch(w)
  <2>1. WorkerTypeOK'
    BY <1>0, <1>6, GotoType, GoIdleType DEF SettleDispatch
  <2>2. LeaseTypeOK' /\ CaseTypeOK' /\ RecordTypeOK'
    BY <1>0, <1>6, CompleteDispatchType, FailDispatchType, UnchangedType DEF SettleDispatch
  <2> QED
    BY <1>0, <1>6, <2>1, <2>2, UnchangedType DEF SettleDispatch
<1>7. CASE ResumeWorkflow(w)
  <2>1. WorkerTypeOK'
    BY <1>0, <1>7, GotoType, GoIdleType DEF ResumeWorkflow
  <2>2. LeaseTypeOK'
    BY <1>0, <1>7, CompleteDispatchType, UnchangedType DEF ResumeWorkflow
  <2>3. CaseTypeOK'
    BY <1>0, <1>7 DEF ResumeWorkflow, CaseTypeOK
  <2>4. SnapshotTypeOK'
    BY <1>0, <1>7 DEF ResumeWorkflow, SnapshotTypeOK
  <2> QED
    BY <1>0, <1>7, <2>1, <2>2, <2>3, <2>4, UnchangedType DEF ResumeWorkflow
<1>8. CASE ResolveCase(w)
  <2>1. WorkerTypeOK'
    BY <1>0, <1>8, GotoType, LearnType DEF ResolveCase, Answers, Issued
  <2> QED
    BY <1>0, <1>8, <2>1, UnchangedType DEF ResolveCase
<1>9. CASE FinalizeCase(w)
  <2>1. WorkerTypeOK'
    BY <1>0, <1>9, GotoType DEF FinalizeCase
  <2>2. CASE UNCHANGED <<caseVars, recordVars>>
    BY <1>0, <1>9, <2>1, <2>2, UnchangedType DEF FinalizeCase
  <2>3. ASSUME NEW reply \in {"issued", "review"}, NEW verdict \in Finals,
               NEW row \in IssuedRows \cup Corrections,
               Projection(reply, verdict, result), Record(reply, verdict, row), UNCHANGED effect
        PROVE  CaseTypeOK' /\ RecordTypeOK'
    BY <1>0, <2>3 DEF Projection, Record, CaseTypeOK, RecordTypeOK
  <2>4. CaseTypeOK' /\ RecordTypeOK'
    BY <1>0, <1>9, <2>2, <2>3, UnchangedType DEF FinalizeCase, Finals, IssuedRows, Corrections
  <2> QED
    BY <1>0, <1>9, <2>1, <2>4, UnchangedType DEF FinalizeCase
<1>10. CASE EndRun(w)
  <2>1. WorkerTypeOK'
    BY <1>0, <1>10, GoIdleType DEF EndRun
  <2>2. LeaseTypeOK' /\ CaseTypeOK' /\ RecordTypeOK'
    BY <1>0, <1>10, CompleteDispatchType, FailDispatchType, UnchangedType DEF EndRun
  <2> QED
    BY <1>0, <1>10, <2>1, <2>2, UnchangedType DEF EndRun
<1> QED
  BY <1>1, <1>2, <1>3, <1>4, <1>5, <1>6, <1>7, <1>8, <1>9, <1>10, <1>11 DEF Flow

\* And those of the reconciler and of the webhook.
LEMMA ReconcilerType ==
  ASSUME TypeOK, LearnedFromStripe, NEW w \in Workers,
         ClaimAttempt(w) \/ Reconciler(w) \/ ReceiveWebhook(w) \/ ApplyWebhook(w)
           \/ ReadDecision(w) \/ Crash(w)
  PROVE  TypeOK'
<1> USE DEF PCs
<1>0. /\ FlagTypeOK /\ LedgerTypeOK /\ LeaseTypeOK /\ CaseTypeOK /\ RecordTypeOK
      /\ StripeTypeOK /\ SnapshotTypeOK /\ WorkerTypeOK /\ faults \in 0..MaxFaults
  BY TypeParts
<1> SUFFICES
      /\ FlagTypeOK' /\ LedgerTypeOK' /\ LeaseTypeOK' /\ CaseTypeOK' /\ RecordTypeOK'
      /\ StripeTypeOK' /\ SnapshotTypeOK' /\ WorkerTypeOK' /\ faults' \in 0..MaxFaults
  BY DEF TypeOK, FlagTypeOK, LedgerTypeOK, LeaseTypeOK, CaseTypeOK, RecordTypeOK,
     StripeTypeOK, SnapshotTypeOK, WorkerTypeOK, Statuses
<1>a. CurrentAnswer \in Answers \cup {"none"} /\ kind[w] \in Issued /\ got[w] \in Answers \cup {"none"}
  BY <1>0 DEF CurrentAnswer, StripeTypeOK, WorkerTypeOK, Answers
<1>1. CASE ClaimAttempt(w)
  <2>1. WorkerTypeOK'
    BY <1>0, <1>1, GotoType DEF ClaimAttempt
  <2>2. FlagTypeOK' /\ LedgerTypeOK'
    BY <1>0, <1>1 DEF ClaimAttempt, FlagTypeOK, LedgerTypeOK
  <2> QED
    BY <1>0, <1>1, <2>1, <2>2, UnchangedType DEF ClaimAttempt
<1>2. CASE RecoverUnknown(w)
  <2>1. WorkerTypeOK'
    BY <1>0, <1>2, GotoType, GoIdleType DEF RecoverUnknown
  <2>2. FlagTypeOK' /\ LedgerTypeOK'
    BY <1>0, <1>2, RescheduleType, UnchangedType DEF RecoverUnknown, Statuses, Terminal
  <2> QED
    BY <1>0, <1>2, <2>1, <2>2, UnchangedType DEF RecoverUnknown
<1>3. CASE RecreateRefund(w)
  <2>1. StripeTypeOK' /\ WorkerTypeOK'
    BY <1>0, <1>3, PostType DEF RecreateRefund
  <2>2. UNCHANGED <<ledgerVars, leaseVars, caseVars, recordVars, snapshotVars, faults>>
    BY <1>3 DEF RecreateRefund, Post
  <2> QED
    BY <1>0, <2>1, <2>2, UnchangedType
<1>4. CASE RereadRefund(w)
  <2>1. WorkerTypeOK'
    BY <1>0, <1>a, <1>4, LearnType, GoIdleType DEF RereadRefund, Issued
  <2>2. FlagTypeOK' /\ LedgerTypeOK'
    BY <1>0, <1>4, RescheduleType, UnchangedType DEF RereadRefund, Statuses
  <2> QED
    BY <1>0, <1>4, <2>1, <2>2, UnchangedType DEF RereadRefund
<1>5. CASE Reconciled(w)
  <2>1. WorkerTypeOK'
    BY <1>0, <1>5, GoIdleType DEF Reconciled
  <2>2. CASE got[w] \in {"succeeded", "failed"} /\ FinalizeIfAllowed(got[w], kind[w])
    BY <1>0, <1>a, <1>5, <2>1, <2>2, FinalizeType, UnchangedType DEF Reconciled, Terminal
  <2>3. CASE FinalizeIfAllowed("quarantined", kind[w])
    BY <1>0, <1>a, <1>5, <2>1, <2>3, FinalizeType, UnchangedType DEF Reconciled, Terminal
  <2>4. CASE UNCHANGED <<ledgerVars, caseVars, recordVars>>
    BY <1>0, <1>5, <2>1, <2>4, UnchangedType DEF Reconciled
  <2>5. CASE /\ Reschedule(w, IF got[w] = "action" THEN "unknown" ELSE "pending", TRUE)
             /\ UNCHANGED <<caseVars, recordVars>>
    <3>1. (IF got[w] = "action" THEN "unknown" ELSE "pending") \in Statuses
      BY DEF Statuses, Open
    <3>2. FlagTypeOK' /\ LedgerTypeOK'
      BY <1>0, <2>5, <3>1, RescheduleType
    <3> QED
      BY <1>0, <1>5, <2>1, <2>5, <3>2, UnchangedType DEF Reconciled
  <2> QED
    BY <1>5, <2>2, <2>3, <2>4, <2>5 DEF Reconciled
<1>6. CASE ReconciliationError(w)
  <2>1. WorkerTypeOK' /\ FlagTypeOK' /\ LedgerTypeOK'
    BY <1>0, <1>6, GoIdleType, RescheduleType DEF ReconciliationError, Statuses, Open
  <2> QED
    BY <1>0, <1>6, <2>1, UnchangedType DEF ReconciliationError
<1>7. CASE ReceiveWebhook(w)
  <2>1. WorkerTypeOK'
    BY <1>0, <1>a, <1>7, LearnType DEF ReceiveWebhook, Issued
  <2> QED
    BY <1>0, <1>7, <2>1, UnchangedType DEF ReceiveWebhook
<1>8. CASE ApplyWebhook(w)
  <2>1. WorkerTypeOK'
    BY <1>0, <1>8, GoIdleType DEF ApplyWebhook
  <2>2. CASE got[w] \in {"pending", "action"}
    <3>1. (IF got[w] = "action" THEN "unknown" ELSE "pending") \in Statuses
      BY DEF Statuses, Open
    <3>2. FlagTypeOK' /\ LedgerTypeOK'
      BY <1>0, <1>8, <2>2, <3>1, UpdateAttemptType DEF ApplyWebhook
    <3> QED
      BY <1>0, <1>8, <2>1, <2>2, <3>2, UnchangedType DEF ApplyWebhook
  <2>3. CASE got[w] \notin {"pending", "action"}
    <3>1. got[w] \in Terminal
      BY <1>a, <1>8, <2>3 DEF ApplyWebhook, LearnedFromStripe, Answers, Terminal
    <3>2. FinalizeIfAllowed(got[w], "skipped") /\ "skipped" \in Issued
      BY <1>8, <2>3 DEF ApplyWebhook, Issued
    <3>3. FlagTypeOK' /\ LedgerTypeOK' /\ CaseTypeOK' /\ RecordTypeOK'
      BY <1>0, <3>1, <3>2, FinalizeType
    <3> QED
      BY <1>0, <1>8, <2>1, <3>3, UnchangedType DEF ApplyWebhook
  <2> QED
    BY <2>2, <2>3
<1>9. CASE ReadDecision(w)
  <2>1. WorkerTypeOK'
    BY <1>0, <1>9 DEF ReadDecision, WorkerTypeOK, CaseTypeOK
  <2> QED
    BY <1>0, <1>9, <2>1, UnchangedType DEF ReadDecision
<1>10. CASE Crash(w)
  <2>1. WorkerTypeOK'
    BY <1>0, <1>10, GoIdleType DEF Crash
  <2>2. StripeTypeOK'
    BY <1>0, <1>10 DEF Crash, StripeTypeOK
  <2>3. faults' \in 0..MaxFaults
    BY <1>0, <1>10, RefundBoundAssumption DEF Crash
  <2> QED
    BY <1>0, <1>10, <2>1, <2>2, <2>3, UnchangedType DEF Crash
<1> QED
  BY <1>1, <1>2, <1>3, <1>4, <1>5, <1>6, <1>7, <1>8, <1>9, <1>10 DEF Reconciler

\* Stripe, the customer and time keep the declared types too.
LEMMA EnvironmentType ==
  ASSUME TypeOK,
         FollowUp \/ AttemptLeaseExpires \/ DispatchLeaseExpires
           \/ LatePost \/ StripeSettles \/ WindowCloses \/ KeyExpires \/ UNCHANGED vars
  PROVE  TypeOK'
<1>0. /\ FlagTypeOK /\ LedgerTypeOK /\ LeaseTypeOK /\ CaseTypeOK /\ RecordTypeOK
      /\ StripeTypeOK /\ SnapshotTypeOK /\ WorkerTypeOK /\ faults \in 0..MaxFaults
  BY TypeParts
<1> SUFFICES
      /\ FlagTypeOK' /\ LedgerTypeOK' /\ LeaseTypeOK' /\ CaseTypeOK' /\ RecordTypeOK'
      /\ StripeTypeOK' /\ SnapshotTypeOK' /\ WorkerTypeOK' /\ faults' \in 0..MaxFaults
  BY DEF TypeOK, FlagTypeOK, LedgerTypeOK, LeaseTypeOK, CaseTypeOK, RecordTypeOK,
     StripeTypeOK, SnapshotTypeOK, WorkerTypeOK, PCs, Statuses
<1>1. CASE FollowUp
  <2>1. CaseTypeOK'
    BY <1>0, <1>1 DEF FollowUp, CaseTypeOK
  <2>2. outcome' \in [reply : {"none", "issued", "review"}, status : Finals \cup {"none"}]
    BY <1>0, <1>1 DEF FollowUp, CaseTypeOK, RecordTypeOK
  <2>3. RecordTypeOK'
    BY <1>0, <1>1, <2>2 DEF FollowUp, RecordTypeOK
  <2> QED
    BY <1>0, <1>1, <2>1, <2>3, UnchangedType DEF FollowUp
<1>2. CASE AttemptLeaseExpires
  <2>1. FlagTypeOK' /\ LedgerTypeOK'
    BY <1>0, <1>2 DEF AttemptLeaseExpires, FlagTypeOK, LedgerTypeOK
  <2> QED
    BY <1>0, <1>2, <2>1, UnchangedType DEF AttemptLeaseExpires
<1>3. CASE DispatchLeaseExpires
  <2>1. LeaseTypeOK'
    BY <1>0, <1>3 DEF DispatchLeaseExpires, LeaseTypeOK
  <2>2. faults' \in 0..MaxFaults
    BY <1>0, <1>3, RefundBoundAssumption DEF DispatchLeaseExpires
  <2> QED
    BY <1>0, <1>3, <2>1, <2>2, UnchangedType DEF DispatchLeaseExpires
<1>4. CASE LatePost
  <2>1. ASSUME NEW state \in PostAnswers, Accept(state)
        PROVE  refunds' \in Nat /\ remote' \in Answers \cup {"none", "reversed"}
               /\ answer' \in Answers \cup {"none"}
    BY <1>0, <2>1, PostAnswersAssumption DEF Accept, StripeTypeOK, Answers
  <2>2. StripeTypeOK'
    BY <1>0, <1>4, <2>1 DEF LatePost, StripeTypeOK
  <2> QED
    BY <1>0, <1>4, <2>2, UnchangedType DEF LatePost
<1>5. CASE StripeSettles
  <2>1. StripeTypeOK'
    BY <1>0, <1>5 DEF StripeSettles, StripeTypeOK, Answers
  <2> QED
    BY <1>0, <1>5, <2>1, UnchangedType DEF StripeSettles
<1>6. CASE WindowCloses
  <2>1. StripeTypeOK'
    BY <1>0, <1>6 DEF WindowCloses, StripeTypeOK
  <2> QED
    BY <1>0, <1>6, <2>1, UnchangedType DEF WindowCloses
<1>7. CASE KeyExpires
  <2>1. StripeTypeOK'
    BY <1>0, <1>7 DEF KeyExpires, StripeTypeOK
  <2> QED
    BY <1>0, <1>7, <2>1, UnchangedType DEF KeyExpires
<1>8. CASE UNCHANGED vars
  BY <1>0, <1>8, UnchangedType DEF vars
<1> QED
  BY <1>1, <1>2, <1>3, <1>4, <1>5, <1>6, <1>7, <1>8

\* Every step keeps the declared types.
LEMMA TypeStep == TypeOK /\ LearnedFromStripe /\ [Next]_vars => TypeOK'
  BY ToolType, FlowType, ReconcilerType, EnvironmentType DEF Next

-----------------------------------------------------------------------------
(* What one step may do to a worker.                                       *)

\* The step of one worker leaves the others where they are.
StaysPut(w) == pc'[w] = pc[w] /\ got'[w] = got[w]

\* A step of w itself.
Moves(w) ==
  \/ ReadDecision(w) \/ Flow(w) \/ Tool(w) \/ ClaimAttempt(w) \/ Reconciler(w)
  \/ ReceiveWebhook(w) \/ ApplyWebhook(w) \/ Crash(w)

LEMMA OneWorkerMoves ==
  ASSUME TypeOK, [Next]_vars, NEW w \in Workers
  PROVE  StaysPut(w) \/ Moves(w)
<1>1. ASSUME NEW o \in Workers, o # w, Moves(o) PROVE StaysPut(w)
  <2> USE DEF StaysPut, Goto, GotoFrom, GoIdle, Learn
  <2>1. CASE Tool(o)
    <3>1. CASE StartTool(o) \/ Prepare(o) \/ Preflight(o) \/ VerifyAndAuthorize(o)
               \/ RetrieveKnown(o) \/ RecordAnswer(o) \/ AuthoritativeEffect(o)
      BY <1>1, <3>1 DEF TypeOK, StartTool, Prepare, Preflight, VerifyAndAuthorize,
         RetrieveKnown, RecordAnswer, AuthoritativeEffect
    <3>2. CASE CreateRefund(o)
      BY <1>1, <3>2 DEF TypeOK, CreateRefund, Post
    <3>3. CASE FinalizeDirectFailure(o) \/ ProjectTool(o) \/ NoEffectFailure(o)
               \/ RecordDoubt(o) \/ EndTool(o)
      BY <1>1, <3>3 DEF TypeOK, FinalizeDirectFailure, ProjectTool, NoEffectFailure,
         RecordDoubt, EndTool
    <3> QED
      BY <2>1, <3>1, <3>2, <3>3 DEF Tool
  <2>2. CASE Flow(o)
    <3>1. CASE ClaimDispatchForResume(o) \/ ReconcileBefore(o) \/ ProjectEffect(o) \/ KeepWaiting(o)
               \/ AfterTool(o) \/ ReconcileAfter(o)
      BY <1>1, <3>1 DEF TypeOK, ClaimDispatchForResume, ReconcileBefore, Find, ProjectEffect, KeepWaiting,
         AfterTool, ReconcileAfter
    <3>2. CASE SettleDispatch(o) \/ ResumeWorkflow(o) \/ ResolveCase(o)
      BY <1>1, <3>2 DEF TypeOK, SettleDispatch, ResumeWorkflow, ResolveCase
    <3>3. CASE FinalizeCase(o) \/ EndRun(o)
      BY <1>1, <3>3 DEF TypeOK, FinalizeCase, EndRun
    <3> QED
      BY <2>2, <3>1, <3>2, <3>3 DEF Flow
  <2>3. CASE ClaimAttempt(o) \/ Reconciler(o)
    <3>1. CASE ClaimAttempt(o) \/ RecoverUnknown(o) \/ RereadRefund(o) \/ Reconciled(o)
               \/ ReconciliationError(o)
      BY <1>1, <3>1 DEF TypeOK, ClaimAttempt, RecoverUnknown, RereadRefund, Reconciled,
         ReconciliationError
    <3>2. CASE RecreateRefund(o)
      BY <1>1, <3>2 DEF TypeOK, RecreateRefund, Post
    <3> QED
      BY <2>3, <3>1, <3>2 DEF Reconciler
  <2>4. CASE ReadDecision(o) \/ ReceiveWebhook(o) \/ ApplyWebhook(o) \/ Crash(o)
    BY <1>1, <2>4 DEF TypeOK, ReadDecision, ReceiveWebhook, ApplyWebhook, Crash
  <2> QED
    BY <1>1, <2>1, <2>2, <2>3, <2>4 DEF Moves
<1>2. CASE UNCHANGED workerVars
  BY <1>2 DEF workerVars, StaysPut
<1> QED
  BY <1>1, <1>2 DEF Next, Moves, FollowUp, AttemptLeaseExpires, DispatchLeaseExpires, LatePost,
     StripeSettles, WindowCloses, KeyExpires, vars

-----------------------------------------------------------------------------
(* What one step may do to the ledger.                                     *)

\* Steps of a worker that knows a state of the refund.
Knowing == {"received", "failing", "recovered", "hook"}

\* A paid attempt turns out to have failed: everything says so at once.
Corrects ==
  /\ status = "succeeded" /\ status' = "failed" /\ effect' = "none"
  /\ outcome'.reply = "review" /\ "refund-failed" \in told'
  /\ caseReply' = IF shows \in Shown THEN "review" ELSE caseReply

\* The ledger as a worker that knows (or not) what Stripe answered may leave it.
LedgerMoves(w) ==
  /\ known => known'
  /\ known' => known \/ pc[w] \in Knowing
  /\ status' = "succeeded" =>
       status = "succeeded" \/ (got[w] = "succeeded" /\ pc[w] \in Knowing)
  /\ status' = "absent" => status = "absent"
  /\ status \in Terminal => status' = status \/ Corrects

LEMMA UpdateMoves ==
  ASSUME FlagTypeOK, NEW w \in Workers, NEW to \in Statuses \ {"absent"},
         NEW knows \in BOOLEAN, UpdateAttempt(to, knows),
         knows => pc[w] \in Knowing,
         to = "succeeded" => got[w] = "succeeded" /\ pc[w] \in Knowing
  PROVE  LedgerMoves(w)
<1>1. known' \in BOOLEAN /\ (known => known') /\ (known' => known \/ knows)
  BY Zenon DEF UpdateAttempt, ledgerVars, FlagTypeOK
<1>2. status' = status \/ (status' = to /\ status \notin Terminal)
  BY DEF UpdateAttempt, MayUpdate, ledgerVars
<1> QED
  BY <1>1, <1>2 DEF LedgerMoves

LEMMA RescheduleMoves ==
  ASSUME FlagTypeOK, NEW w \in Workers, NEW to \in Statuses \ {"absent", "succeeded"},
         NEW knows \in BOOLEAN, Reschedule(w, to, knows),
         knows => pc[w] \in Knowing
  PROVE  LedgerMoves(w)
<1>1. known' \in BOOLEAN /\ (known => known') /\ (known' => known \/ knows)
  BY Zenon DEF Reschedule, ledgerVars, FlagTypeOK
<1>2. status' = status \/ (status' = to /\ status \notin Terminal)
  BY DEF Reschedule, ledgerVars
<1> QED
  BY <1>1, <1>2 DEF LedgerMoves

LEMMA FinalizeMoves ==
  ASSUME NEW w \in Workers, NEW to \in Terminal, NEW how, FinalizeIfAllowed(to, how),
         pc[w] \in Knowing, to = "succeeded" => got[w] = "succeeded"
  PROVE  LedgerMoves(w)
<1>1. CASE CanFinalize(to)
  <2>1. status' = to /\ known' = TRUE /\ Finalize(to, how)
    BY <1>1 DEF FinalizeIfAllowed, Finalize
  <2>2. CASE status \in Terminal /\ to # status
    BY <1>1, <2>1, <2>2 DEF CanFinalize, Terminal, Finalize, Corrects, Record, Projection,
       LedgerMoves, caseVars
  <2>3. CASE status \notin Terminal \/ to = status
    BY <2>1, <2>3 DEF LedgerMoves, Terminal
  <2> QED
    BY <2>2, <2>3
<1>2. CASE ~CanFinalize(to)
  BY <1>2 DEF FinalizeIfAllowed, LedgerMoves, ledgerVars
<1> QED
  BY <1>1, <1>2

LEMMA UnchangedMoves ==
  ASSUME NEW w, UNCHANGED <<status, known>>
  PROVE  LedgerMoves(w)
  BY DEF LedgerMoves

\* Whatever a step does to the ledger, it is one of the above.
LEMMA LedgerStep ==
  ASSUME TypeOK, LearnedFromStripe, [Next]_vars
  PROVE  UNCHANGED <<status, known>> \/ \E w \in Workers : LedgerMoves(w) /\ Moves(w)
<1>0. FlagTypeOK /\ WorkerTypeOK
  BY TypeParts
<1>1. ASSUME NEW w \in Workers, Moves(w) PROVE LedgerMoves(w)
  <2>1. ASSUME Prepare(w) PROVE LedgerMoves(w)
    <3>1. CASE UNCHANGED ledgerVars
      BY <3>1, UnchangedMoves DEF ledgerVars
    <3>2. CASE UpdateAttempt("quarantined", FALSE)
      BY <1>0, <3>2, UpdateMoves DEF Statuses, Terminal
    <3>3. CASE status = "absent" /\ status' = "prepared" /\ known' = known
      BY <3>3 DEF LedgerMoves, Terminal
    <3> QED
      BY <2>1, <3>1, <3>2, <3>3 DEF Prepare
  <2>2. ASSUME RecordAnswer(w) PROVE LedgerMoves(w)
    <3>1. /\ LedgerStatus(got[w]) \in Statuses \ {"absent"} /\ pc[w] \in Knowing
          /\ LedgerStatus(got[w]) = "succeeded" => got[w] = "succeeded"
      BY <1>0, <2>2 DEF RecordAnswer, LearnedFromStripe, WorkerTypeOK, LedgerStatus, Statuses,
         Terminal, Answers, Knowing
    <3> QED
      BY <1>0, <2>2, <3>1, UpdateMoves DEF RecordAnswer
  <2>3. ASSUME FinalizeDirectFailure(w) PROVE LedgerMoves(w)
    BY <2>3, FinalizeMoves DEF FinalizeDirectFailure, Terminal, Knowing
  <2>4. ASSUME NoEffectFailure(w) PROVE LedgerMoves(w)
    <3>1. CASE status \in Open
      BY <2>4, <3>1 DEF NoEffectFailure, LedgerMoves, Open, Terminal
    <3>2. CASE status \notin Open
      BY <2>4, <3>2, UnchangedMoves DEF NoEffectFailure, ledgerVars
    <3> QED
      BY <3>1, <3>2
  <2>5. ASSUME RecordDoubt(w) PROVE LedgerMoves(w)
    BY <1>0, <2>5, UpdateMoves DEF RecordDoubt, Statuses, Open
  <2>6. ASSUME RecoverUnknown(w) PROVE LedgerMoves(w)
    <3>1. CASE UNCHANGED ledgerVars
      BY <3>1, UnchangedMoves DEF ledgerVars
    <3>2. CASE Reschedule(w, "quarantined", FALSE)
      BY <1>0, <3>2, RescheduleMoves DEF Statuses, Terminal
    <3> QED
      BY <2>6, <3>1, <3>2 DEF RecoverUnknown
  <2>7. ASSUME RereadRefund(w) PROVE LedgerMoves(w)
    <3>1. CASE UNCHANGED ledgerVars
      BY <3>1, UnchangedMoves DEF ledgerVars
    <3>2. CASE Reschedule(w, "pending", FALSE)
      BY <1>0, <3>2, RescheduleMoves DEF Statuses, Terminal
    <3> QED
      BY <2>7, <3>1, <3>2 DEF RereadRefund
  <2>8. ASSUME Reconciled(w) PROVE LedgerMoves(w)
    <3>0. pc[w] \in Knowing
      BY <2>8 DEF Reconciled, Knowing
    <3>1. CASE got[w] \in {"succeeded", "failed"} /\ FinalizeIfAllowed(got[w], kind[w])
      BY <3>0, <3>1, FinalizeMoves DEF Terminal
    <3>2. CASE FinalizeIfAllowed("quarantined", kind[w])
      BY <3>0, <3>2, FinalizeMoves DEF Terminal
    <3>3. CASE UNCHANGED ledgerVars
      BY <3>3, UnchangedMoves DEF ledgerVars
    <3>4. CASE Reschedule(w, IF got[w] = "action" THEN "unknown" ELSE "pending", TRUE)
      <4>1. (IF got[w] = "action" THEN "unknown" ELSE "pending") \in Statuses \ {"absent", "succeeded"}
        BY DEF Statuses, Open
      <4> QED
        BY <1>0, <3>0, <3>4, <4>1, RescheduleMoves
    <3> QED
      BY <2>8, <3>1, <3>2, <3>3, <3>4 DEF Reconciled
  <2>9. ASSUME ReconciliationError(w) PROVE LedgerMoves(w)
    BY <1>0, <2>9, RescheduleMoves DEF ReconciliationError, Statuses, Open
  <2>10. ASSUME ApplyWebhook(w) PROVE LedgerMoves(w)
    <3>0. pc[w] \in Knowing /\ got[w] \in Answers
      BY <1>0, <2>10 DEF ApplyWebhook, Knowing, LearnedFromStripe, WorkerTypeOK
    <3>1. CASE got[w] \in {"pending", "action"}
      <4>1. (IF got[w] = "action" THEN "unknown" ELSE "pending") \in Statuses \ {"absent", "succeeded"}
        BY DEF Statuses, Open
      <4> QED
        BY <1>0, <2>10, <3>0, <3>1, <4>1, UpdateMoves DEF ApplyWebhook
    <3>2. CASE got[w] \notin {"pending", "action"}
      BY <2>10, <3>0, <3>2, FinalizeMoves DEF ApplyWebhook, Answers, Terminal
    <3> QED
      BY <3>1, <3>2
  <2>11. ASSUME Preflight(w) \/ ClaimDispatchForResume(w) \/ ClaimAttempt(w)
         PROVE  UNCHANGED <<status, known>>
    BY <2>11 DEF Preflight, ClaimDispatchForResume, ClaimAttempt, ledgerVars
  <2>12. ASSUME CreateRefund(w) \/ RecreateRefund(w) PROVE UNCHANGED <<status, known>>
    BY <2>12 DEF CreateRefund, RecreateRefund, Post, ledgerVars
  <2>13. ASSUME StartTool(w) \/ VerifyAndAuthorize(w) \/ RetrieveKnown(w) \/ AuthoritativeEffect(w)
                \/ ProjectTool(w) \/ EndTool(w)
         PROVE  UNCHANGED <<status, known>>
    BY <2>13 DEF StartTool, VerifyAndAuthorize, RetrieveKnown, AuthoritativeEffect, ProjectTool,
       EndTool, ledgerVars
  <2>14. ASSUME Flow(w) PROVE UNCHANGED <<status, known>>
    BY <2>11, <2>14 DEF Flow, ReconcileBefore, Find, ProjectEffect, KeepWaiting,
       AfterTool, ReconcileAfter, SettleDispatch, ResumeWorkflow, ResolveCase, FinalizeCase, EndRun, ledgerVars
  <2>15. ASSUME ReadDecision(w) \/ ReceiveWebhook(w) \/ Crash(w) PROVE UNCHANGED <<status, known>>
    BY <2>15 DEF ReadDecision, ReceiveWebhook, Crash, ledgerVars
  <2>16. ASSUME UNCHANGED <<status, known>> PROVE LedgerMoves(w)
    BY <2>16, UnchangedMoves
  <2> QED
    BY <1>1, <2>1, <2>2, <2>3, <2>4, <2>5, <2>6, <2>7, <2>8, <2>9, <2>10, <2>11, <2>12, <2>13,
       <2>14, <2>15, <2>16 DEF Moves, Tool, Reconciler
<1>2. CASE ~\E w \in Workers : Moves(w)
  BY <1>2 DEF Next, Moves, FollowUp, AttemptLeaseExpires, DispatchLeaseExpires, LatePost,
     StripeSettles, WindowCloses, KeyExpires, vars, ledgerVars
<1> QED
  BY <1>1, <1>2

-----------------------------------------------------------------------------
(* One refund.                                                             *)

\* Nobody can reach a POST with this key any more.
Quiet == ~window /\ ~late /\ \A w \in Workers : pc[w] \notin Posters

\* Somebody has a POST under way.
MayArrive == late \/ \E w \in Workers : pc[w] \in Posting

\* What a step may do at Stripe.
StripeMoves ==
  \/ UNCHANGED <<refunds, remote, answer>>
  \/ MayArrive /\ \E state \in PostAnswers : Accept(state)
  \/ StripeSettles
  \/ KeyExpires

WindowMoves == window' = window \/ (~window' /\ status # "absent")

LEMMA StripeStep ==
  ASSUME TypeOK, [Next]_vars
  PROVE  StripeMoves /\ WindowMoves /\ (late' => MayArrive)
<1>0. {late, window} \subseteq BOOLEAN
  BY DEF TypeOK
<1>1. CASE UNCHANGED stripeVars
  BY <1>1 DEF StripeMoves, MayArrive, WindowMoves, stripeVars
<1>2. ASSUME NEW w \in Workers, CreateRefund(w) \/ RecreateRefund(w)
      PROVE  StripeMoves /\ WindowMoves /\ (late' => MayArrive)
  <2>1. MayArrive
    BY <1>2 DEF CreateRefund, RecreateRefund, Post, MayArrive, Posting
  <2> QED
    BY <1>2, <2>1 DEF CreateRefund, RecreateRefund, Post, StripeMoves, WindowMoves, stripeVars
<1>3. ASSUME NEW w \in Workers, Crash(w)
      PROVE  StripeMoves /\ WindowMoves /\ (late' => MayArrive)
  BY <1>0, <1>3 DEF Crash, StripeMoves, MayArrive, WindowMoves
<1>4. CASE LatePost \/ StripeSettles \/ WindowCloses \/ KeyExpires
  BY <1>4 DEF LatePost, StripeSettles, WindowCloses, KeyExpires, StripeMoves, MayArrive, WindowMoves
<1>5. ASSUME NEW w \in Workers, Moves(w), ~CreateRefund(w), ~RecreateRefund(w), ~Crash(w)
      PROVE  UNCHANGED stripeVars
  <2>1. CASE Tool(w)
    BY <1>5, <2>1 DEF Tool, StartTool, Prepare, Preflight, VerifyAndAuthorize, RetrieveKnown,
       RecordAnswer, AuthoritativeEffect, FinalizeDirectFailure, ProjectTool, NoEffectFailure,
       RecordDoubt, EndTool
  <2>2. CASE Flow(w)
    BY <2>2 DEF Flow, ClaimDispatchForResume, ReconcileBefore, Find, ProjectEffect, KeepWaiting,
       AfterTool, ReconcileAfter, SettleDispatch, ResumeWorkflow, ResolveCase, FinalizeCase, EndRun
  <2> QED
    BY <1>5, <2>1, <2>2 DEF Moves, Reconciler, ReadDecision, ClaimAttempt, RecoverUnknown,
       RereadRefund, Reconciled, ReconciliationError, ReceiveWebhook, ApplyWebhook
<1>6. CASE FollowUp \/ AttemptLeaseExpires \/ DispatchLeaseExpires \/ UNCHANGED vars
  BY <1>1, <1>6 DEF FollowUp, AttemptLeaseExpires, DispatchLeaseExpires, vars
<1> QED
  BY <1>1, <1>2, <1>3, <1>4, <1>5, <1>6 DEF Next, Moves

\* The other steps that w may go to.
LEMMA PosterStep ==
  ASSUME TypeOK, [Next]_vars, NEW w \in Workers, pc'[w] \in Posters
  PROVE  pc[w] \in Posters \/ window \/ status = "absent"
<1> USE DEF Goto, GotoFrom, GoIdle, Learn, Posters, Posting
<1>0. pc \in [Workers -> PCs]
  BY TypeParts DEF WorkerTypeOK
<1>1. CASE Tool(w)
  <2>1. CASE StartTool(w) \/ Prepare(w) \/ Preflight(w) \/ VerifyAndAuthorize(w)
             \/ RetrieveKnown(w) \/ RecordAnswer(w) \/ AuthoritativeEffect(w)
    BY <1>0, <2>1 DEF StartTool, Prepare, Preflight, VerifyAndAuthorize,
       RetrieveKnown, RecordAnswer, AuthoritativeEffect
  <2>2. CASE CreateRefund(w)
    BY <1>0, <2>2 DEF CreateRefund, Post
  <2>3. CASE FinalizeDirectFailure(w) \/ ProjectTool(w) \/ NoEffectFailure(w)
             \/ RecordDoubt(w) \/ EndTool(w)
    BY <1>0, <2>3 DEF FinalizeDirectFailure, ProjectTool, NoEffectFailure, RecordDoubt, EndTool
  <2> QED
    BY <1>1, <2>1, <2>2, <2>3 DEF Tool
<1>2. CASE Flow(w)
  <2>1. CASE ClaimDispatchForResume(w) \/ ReconcileBefore(w) \/ ProjectEffect(w) \/ KeepWaiting(w)
             \/ AfterTool(w) \/ ReconcileAfter(w)
    BY <1>0, <2>1 DEF ClaimDispatchForResume, ReconcileBefore, Find, ProjectEffect, KeepWaiting,
       AfterTool, ReconcileAfter
  <2>2. CASE SettleDispatch(w) \/ ResumeWorkflow(w) \/ ResolveCase(w)
             \/ FinalizeCase(w) \/ EndRun(w)
    BY <1>0, <2>2 DEF SettleDispatch, ResumeWorkflow, ResolveCase, FinalizeCase, EndRun
  <2> QED
    BY <1>2, <2>1, <2>2 DEF Flow
<1>3. CASE ClaimAttempt(w) \/ Reconciler(w)
  <2>1. CASE ClaimAttempt(w) \/ RecoverUnknown(w) \/ RereadRefund(w) \/ Reconciled(w)
             \/ ReconciliationError(w)
    BY <1>0, <2>1 DEF ClaimAttempt, RecoverUnknown, RereadRefund, Reconciled,
       ReconciliationError
  <2>2. CASE RecreateRefund(w)
    BY <1>0, <2>2 DEF RecreateRefund, Post
  <2> QED
    BY <1>3, <2>1, <2>2 DEF Reconciler
<1>4. CASE ReadDecision(w) \/ ReceiveWebhook(w) \/ ApplyWebhook(w) \/ Crash(w)
  BY <1>0, <1>4 DEF ReadDecision, ReceiveWebhook, ApplyWebhook, Crash
<1>5. CASE StaysPut(w)
  BY <1>0, <1>5 DEF StaysPut
<1> QED
  BY <1>1, <1>2, <1>3, <1>4, <1>5, OneWorkerMoves DEF Moves

\* Once nobody can reach a POST, nobody ever does.
LEMMA PostedOnceStep == IInv /\ [Next]_vars => PostedOnce'
<1> SUFFICES ASSUME IInv, [Next]_vars PROVE PostedOnce'
  OBVIOUS
<1>0. TypeOK /\ TypeOK' /\ PostedOnce /\ LearnedFromStripe
  BY TypeStep DEF IInv
<1>1. status' = "absent" => status = "absent" /\ window'
  <2>1. status' = "absent" => status = "absent"
    BY <1>0, LedgerStep DEF LedgerMoves
  <2>2. status = "absent" => window
    BY <1>0 DEF PostedOnce
  <2> QED
    BY <1>0, <2>1, <2>2, StripeStep DEF WindowMoves
<1>2. ASSUME Quiet PROVE Quiet'
  <2>1. ~MayArrive /\ status # "absent"
    BY <1>0, <1>2 DEF Quiet, MayArrive, Posters, PostedOnce
  <2> QED
    BY <1>0, <1>2, <2>1, StripeStep, PosterStep DEF Quiet, WindowMoves
<1>3. CASE UNCHANGED <<refunds, remote, answer>>
  BY <1>0, <1>1, <1>2, <1>3 DEF PostedOnce, Quiet
<1>4. ASSUME MayArrive, NEW state \in PostAnswers, Accept(state) PROVE PostedOnce'
  <2>1. ~Quiet /\ refunds \in Nat /\ state # "none"
    BY <1>0, <1>4, PostAnswersAssumption DEF Quiet, MayArrive, Posters, TypeOK
  <2>2. CASE answer = "none"
    <3>1. refunds = 0
      BY <1>0, <2>1, <2>2 DEF PostedOnce, Quiet
    <3> QED
      BY <1>1, <1>4, <2>1, <2>2, <3>1 DEF Accept, PostedOnce
  <2>3. CASE answer # "none"
    BY <1>0, <1>1, <1>4, <2>1, <2>3 DEF Accept, PostedOnce
  <2> QED
    BY <2>2, <2>3
<1>5. CASE StripeSettles
  BY <1>0, <1>1, <1>2, <1>5 DEF StripeSettles, PostedOnce, Quiet
<1>6. CASE KeyExpires
  <2>1. Quiet'
    BY <1>6 DEF KeyExpires, Quiet, Posters, workerVars
  <2> QED
    BY <1>0, <1>1, <1>6, <2>1 DEF KeyExpires, PostedOnce, Quiet
<1> QED
  BY <1>0, <1>3, <1>4, <1>5, <1>6, StripeStep DEF StripeMoves

-----------------------------------------------------------------------------
(* What is known of the refund.                                            *)

\* Steps of a worker that holds a state of the refund.
Holding == Knowing \cup {"recorded"}

\* A worker holds what Stripe or the ledger has just told it, or held before.
Learns(w) ==
  /\ pc'[w] \in {"retrieve", "reread"} => known
  /\ pc'[w] \in Holding =>
       got'[w] # "none" /\ (known \/ pc[w] \in Holding \/ answer' # "none")
  /\ got'[w] = "succeeded" =>
       \/ got[w] = "succeeded" \/ answer' = "succeeded" \/ remote = "succeeded"
       \/ status = "succeeded"

LEMMA LearnStep ==
  ASSUME IInv, NEW w \in Workers, Moves(w)
  PROVE  Learns(w)
<1> USE DEF Goto, GotoFrom, GoIdle, Learn, Learns, Holding, Knowing
<1>0. /\ pc \in [Workers -> PCs] /\ got \in [Workers -> Answers \cup {"none"}]
      /\ known => CurrentAnswer # "none"
      /\ CurrentAnswer = "succeeded" => remote = "succeeded"
      /\ pc[w] \in {"retrieve", "reread"} => known
      /\ pc[w] \in Holding => got[w] # "none"
      /\ effect # "none" => status = "succeeded"
  <2>1. pc \in [Workers -> PCs] /\ got \in [Workers -> Answers \cup {"none"}]
    BY TypeParts DEF IInv, WorkerTypeOK
  <2> QED
    BY <2>1 DEF IInv, LearnedFromStripe, CurrentAnswer, EffectMatchesLedger
<1>1. CASE Tool(w)
  <2>1. CASE StartTool(w) \/ Prepare(w) \/ Preflight(w) \/ VerifyAndAuthorize(w)
    BY <1>0, <2>1 DEF StartTool, Prepare, Preflight, VerifyAndAuthorize
  <2>2. CASE RetrieveKnown(w) \/ RecordAnswer(w)
    BY <1>0, <2>2 DEF RetrieveKnown, RecordAnswer
  <2>3. CASE AuthoritativeEffect(w)
    BY <1>0, <2>3 DEF AuthoritativeEffect
  <2>4. CASE CreateRefund(w)
    BY <1>0, <2>4, PostAnswersAssumption DEF CreateRefund, Post, Accept
  <2>5. CASE FinalizeDirectFailure(w) \/ ProjectTool(w) \/ NoEffectFailure(w)
             \/ RecordDoubt(w) \/ EndTool(w)
    BY <1>0, <2>5 DEF FinalizeDirectFailure, ProjectTool, NoEffectFailure, RecordDoubt, EndTool
  <2> QED
    BY <1>1, <2>1, <2>2, <2>3, <2>4, <2>5 DEF Tool
<1>2. CASE Flow(w)
  <2>1. CASE ClaimDispatchForResume(w) \/ ReconcileBefore(w) \/ ProjectEffect(w) \/ KeepWaiting(w)
             \/ AfterTool(w) \/ ReconcileAfter(w)
    BY <1>0, <2>1 DEF ClaimDispatchForResume, ReconcileBefore, Find, ProjectEffect, KeepWaiting,
       AfterTool, ReconcileAfter
  <2>2. CASE SettleDispatch(w) \/ ResumeWorkflow(w) \/ FinalizeCase(w) \/ EndRun(w)
    BY <1>0, <2>2 DEF SettleDispatch, ResumeWorkflow, FinalizeCase, EndRun
  <2>3. CASE ResolveCase(w)
    BY <1>0, <2>3 DEF ResolveCase
  <2> QED
    BY <1>2, <2>1, <2>2, <2>3 DEF Flow
<1>3. CASE ClaimAttempt(w) \/ Reconciler(w)
  <2>1. CASE ClaimAttempt(w) \/ RecoverUnknown(w) \/ RereadRefund(w)
    BY <1>0, <2>1 DEF ClaimAttempt, RecoverUnknown, RereadRefund
  <2>2. CASE Reconciled(w) \/ ReconciliationError(w)
    BY <1>0, <2>2 DEF Reconciled, ReconciliationError
  <2>3. CASE RecreateRefund(w)
    BY <1>0, <2>3, PostAnswersAssumption DEF RecreateRefund, Post, Accept
  <2> QED
    BY <1>3, <2>1, <2>2, <2>3 DEF Reconciler
<1>4. CASE ReadDecision(w) \/ ReceiveWebhook(w) \/ ApplyWebhook(w) \/ Crash(w)
  BY <1>0, <1>4 DEF ReadDecision, ReceiveWebhook, ApplyWebhook, Crash
<1> QED
  BY <1>1, <1>2, <1>3, <1>4 DEF Moves

\* A refund that Stripe has paid may be reversed, and is not forgotten.
LEMMA PaidStays ==
  ASSUME IInv, [Next]_vars
  PROVE  /\ remote \in Paid => remote' \in Paid
         /\ remote # "none" => remote' # "none"
         /\ answer' # "none" => remote' # "none"
         /\ answer' = "succeeded" => remote' \in Paid
<1>0. TypeOK /\ PostedOnce /\ LearnedFromStripe
  BY DEF IInv
<1>1. CASE UNCHANGED <<refunds, remote, answer>>
  BY <1>0, <1>1 DEF LearnedFromStripe
<1>2. ASSUME MayArrive, NEW state \in PostAnswers, Accept(state)
      PROVE  /\ remote \in Paid => remote' \in Paid
             /\ remote # "none" => remote' # "none"
             /\ answer' # "none" => remote' # "none"
             /\ answer' = "succeeded" => remote' \in Paid
  <2>1. refunds \in Nat /\ state # "none"
    BY <1>0, <1>2, PostAnswersAssumption DEF TypeOK
  <2>2. CASE answer = "none"
    <3>1. refunds = 0
      BY <1>0, <1>2, <2>1, <2>2 DEF PostedOnce, MayArrive, Posters
    <3> QED
      BY <1>0, <1>2, <2>1, <2>2, <3>1 DEF Accept, PostedOnce, Paid
  <2>3. CASE answer # "none"
    BY <1>0, <1>2, <2>3 DEF Accept, LearnedFromStripe
  <2> QED
    BY <2>2, <2>3
<1>3. CASE StripeSettles
  BY <1>0, <1>3 DEF StripeSettles, LearnedFromStripe, Paid
<1>4. CASE KeyExpires
  BY <1>0, <1>4 DEF KeyExpires
<1> QED
  BY <1>0, <1>1, <1>2, <1>3, <1>4, StripeStep DEF StripeMoves

\* The ledger and the workers take a success from Stripe only.
LEMMA LearnedStep == IInv /\ [Next]_vars => LearnedFromStripe'
<1> SUFFICES ASSUME IInv, [Next]_vars PROVE LearnedFromStripe'
  OBVIOUS
<1>0. TypeOK /\ LearnedFromStripe
  BY DEF IInv
<1>1. status' = "succeeded" => remote' \in Paid
  BY <1>0, LedgerStep, PaidStays DEF LedgerMoves, LearnedFromStripe
<1>2. (known' => remote' # "none") /\ (known => known')
  BY <1>0, LedgerStep, PaidStays DEF LedgerMoves, LearnedFromStripe, Knowing
<1>3. ASSUME NEW w \in Workers
      PROVE  /\ pc'[w] \in {"retrieve", "reread"} => known'
             /\ pc'[w] \in Holding => got'[w] # "none" /\ remote' # "none"
             /\ got'[w] = "succeeded" => remote' \in Paid
  <2>1. CASE StaysPut(w)
    BY <1>0, <1>2, <2>1, PaidStays DEF StaysPut, LearnedFromStripe, Holding, Knowing
  <2>2. CASE Moves(w)
    <3>1. Learns(w)
      BY <2>2, LearnStep
    <3>2. /\ known \/ pc[w] \in Holding => remote # "none"
          /\ got[w] = "succeeded" \/ remote = "succeeded" \/ status = "succeeded" => remote \in Paid
      BY <1>0 DEF LearnedFromStripe, Holding, Knowing, Paid
    <3> QED
      BY <1>2, <3>1, <3>2, PaidStays DEF Learns
  <2> QED
    BY <1>0, <2>1, <2>2, OneWorkerMoves
<1> QED
  BY <1>1, <1>2, <1>3, PaidStays DEF LearnedFromStripe, Holding, Knowing

-----------------------------------------------------------------------------
(* What one step may do to the record and to the case.                     *)

\* Rows are only added, and announce a refund only if the ledger has it; an
\* effect too; and a reversed refund stays so.
RecordMoves ==
  /\ told \subseteq told'
  /\ (told' \ told) \cap IssuedRows # {} => status' = "succeeded"
  /\ effect' = effect \/ effect' = "none" \/ status' = "succeeded"
  /\ shows' = "reset" => caseReply' = "none"
  /\ Reversed => outcome'.reply = "review" /\ caseReply' # "issued"

\* A step that leaves all of them alone, or only shows another projection.
LEMMA UntouchedRecord ==
  ASSUME IInv, UNCHANGED <<outcome, effect, told, caseReply>>,
         shows' = shows \/ shows' = "restored"
  PROVE  RecordMoves
  BY DEF RecordMoves, Reversed, IInv, SuccessIsRecorded

LEMMA FinalizeRecord ==
  ASSUME IInv, NEW to \in Terminal, NEW how, FinalizeIfAllowed(to, how)
  PROVE  RecordMoves
<1>0. TypeOK /\ (shows = "reset" => caseReply = "none")
  BY DEF IInv, SuccessIsRecorded
<1>1. CASE ~CanFinalize(to)
  BY <1>1, UntouchedRecord DEF FinalizeIfAllowed, recordVars, caseVars
<1>2. CASE CanFinalize(to) /\ to = "succeeded"
  <2>1. status' = "succeeded" /\ ~Reversed /\ told \subseteq told'
    BY <1>2 DEF CanFinalize, FinalizeIfAllowed, Finalize, Reversed, Terminal, Record, recordVars
  <2>2. shows' = "reset" => caseReply' = "none"
    BY <1>0, <1>2 DEF FinalizeIfAllowed, Finalize, Projection, caseVars, Shown
  <2> QED
    BY <2>1, <2>2 DEF RecordMoves
<1>3. CASE CanFinalize(to) /\ to # "succeeded"
  <2>1. /\ effect' = effect \/ effect' = "none"
        /\ Record("review", "escalated", "refund-failed")
        /\ IF shows \in Shown THEN Projection("review", "escalated", "failed")
                              ELSE UNCHANGED caseVars
    BY <1>3 DEF FinalizeIfAllowed, Finalize
  <2>2. told' = told \cup {"refund-failed"} /\ outcome'.reply = "review"
    BY <2>1 DEF Record
  <2>3. /\ shows' = shows
        /\ caseReply' = IF shows \in Shown THEN "review" ELSE caseReply
    BY <2>1 DEF Projection, caseVars
  <2>4. (told' \ told) \cap IssuedRows = {}
    BY <2>2 DEF IssuedRows
  <2> QED
    BY <1>0, <2>1, <2>2, <2>3, <2>4 DEF RecordMoves, Shown, Reversed
<1> QED
  BY <1>1, <1>2, <1>3

LEMMA FailDispatchRecord ==
  ASSUME IInv, NEW w \in Workers, FailDispatchAndCase(w)
  PROVE  RecordMoves
<1>1. CASE OwnsDispatch(w)
  <2>1. /\ outcome'.reply = IF caseReply = "none" THEN outcome.reply ELSE caseReply
        /\ UNCHANGED <<shows, caseReply, effect, told>>
    BY <1>1 DEF FailDispatchAndCase
  <2>2. caseReply \in {"none", "issued", "review"}
    BY DEF IInv, TypeOK
  <2> QED
    BY <2>1, <2>2 DEF RecordMoves, Reversed, IInv, SuccessIsRecorded
<1>2. CASE ~OwnsDispatch(w)
  BY <1>2, UntouchedRecord DEF FailDispatchAndCase, recordVars, caseVars
<1> QED
  BY <1>1, <1>2

\* An answer is refused if another one was given: a reversal gave one.
LEMMA FinalizeCaseRecord ==
  ASSUME IInv, NEW w \in Workers, FinalizeCase(w)
  PROVE  RecordMoves
<1>0. /\ TypeOK /\ pc[w] = "finalizing" /\ got[w] \in {"succeeded", "failed"}
      /\ got[w] = "succeeded" => status = "succeeded" \/ Reversed
      /\ shows = "reset" => caseReply = "none"
  BY DEF IInv, SuccessIsRecorded, FinalizeCase
<1>1. CASE UNCHANGED <<caseVars, recordVars>>
  BY <1>1, UntouchedRecord DEF recordVars, caseVars
<1>2. CASE got[w] = "failed" /\ ~UNCHANGED <<caseVars, recordVars>>
  <2>1. /\ shows \in Shown /\ UNCHANGED effect
        /\ Projection("review", "escalated", result) /\ Record("review", "escalated", "final-review")
    BY <1>2 DEF FinalizeCase
  <2>2. /\ told' = told \cup {"final-review"} /\ outcome'.reply = "review"
        /\ shows' = shows /\ caseReply' = "review"
    BY <2>1 DEF Projection, Record
  <2> QED
    BY <2>1, <2>2 DEF RecordMoves, IssuedRows, Shown
<1>3. CASE got[w] = "succeeded" /\ ~UNCHANGED <<caseVars, recordVars>>
  <2>1. PICK row \in IssuedRows :
          /\ shows \in Shown /\ UNCHANGED <<effect, ledgerVars>>
          /\ Projection("issued", "resolved", result) /\ Record("issued", "resolved", row)
          /\ outcome.reply # "none" => outcome = [reply |-> "issued", status |-> "resolved"]
    BY <1>3 DEF FinalizeCase, IssuedRows
  <2>2. ~Reversed
    BY <2>1 DEF Reversed
  <2>3. status' = "succeeded" /\ told \subseteq told' /\ shows' # "reset"
    BY <1>0, <1>3, <2>1, <2>2 DEF Record, Projection, ledgerVars, Shown
  <2> QED
    BY <2>1, <2>2, <2>3 DEF RecordMoves
<1> QED
  BY <1>0, <1>1, <1>2, <1>3

LEMMA ProjectToolRecord ==
  ASSUME IInv, NEW w \in Workers, ProjectTool(w)
  PROVE  RecordMoves
<1>1. CASE UNCHANGED <<caseVars, recordVars>>
  BY <1>1, UntouchedRecord DEF recordVars, caseVars
<1>2. CASE effect' = effect /\ UNCHANGED <<shows, caseReply, outcome, told>>
  BY <1>2, UntouchedRecord
<1>3. CASE /\ got[w] = "succeeded" /\ ~LedgerRefuses
           /\ UNCHANGED <<shows, caseReply, outcome, told>>
  <2>1. status \in Terminal
    BY <1>3 DEF ProjectTool, IInv, SuccessIsRecorded
  <2>2. status' = "succeeded"
    BY <1>3, <2>1 DEF ProjectTool, LedgerRefuses, Terminal, ledgerVars
  <2> QED
    BY <1>3, <2>2 DEF RecordMoves, Reversed, IInv, SuccessIsRecorded
<1> QED
  BY <1>1, <1>2, <1>3 DEF ProjectTool, IsDurable

\* So whatever a step does, it is one of these.
LEMMA RecordStep ==
  ASSUME IInv, [Next]_vars
  PROVE  RecordMoves
<1>0. TypeOK /\ WorkerTypeOK
  BY TypeParts DEF IInv
<1>1. CASE UNCHANGED <<caseVars, recordVars>>
  BY <1>1, UntouchedRecord DEF recordVars, caseVars
<1>2. CASE FollowUp
  <2>1. caseReply \in {"none", "issued", "review"}
    BY <1>0 DEF TypeOK
  <2> QED
    BY <1>2, <2>1 DEF FollowUp, RecordMoves, Reversed
<1>3. ASSUME NEW w \in Workers, Moves(w) PROVE RecordMoves
  <2>1. CASE Tool(w)
    <3>1. CASE FinalizeDirectFailure(w)
      BY <3>1, FinalizeRecord DEF FinalizeDirectFailure, Terminal
    <3>2. CASE ProjectTool(w)
      BY <3>2, ProjectToolRecord
    <3>3. CASE NoEffectFailure(w)
      <4>1. CASE status \notin Open
        BY <1>1, <3>3, <4>1 DEF NoEffectFailure
      <4>2. CASE status \in Open
        <5>1. /\ effect' = "none" /\ Record("review", "escalated", "refund-no-effect")
              /\ IF shows \in Shown THEN Projection("review", "escalated", result)
                                    ELSE UNCHANGED caseVars
          BY <3>3, <4>2 DEF NoEffectFailure
        <5>2. told' = told \cup {"refund-no-effect"} /\ ~Reversed
          BY <4>2, <5>1 DEF Record, Reversed, Open
        <5>3. shows' = shows /\ (shows \notin Shown => caseReply' = caseReply)
          BY <5>1 DEF Projection, caseVars
        <5> QED
          BY <5>1, <5>2, <5>3 DEF RecordMoves, IssuedRows, Shown, IInv, SuccessIsRecorded
      <4> QED
        BY <4>1, <4>2
    <3> QED
      BY <1>1, <2>1, <3>1, <3>2, <3>3 DEF Tool, StartTool, Prepare, Preflight, VerifyAndAuthorize,
         CreateRefund, Post, RetrieveKnown, RecordAnswer, AuthoritativeEffect, RecordDoubt, EndTool
  <2>2. CASE Flow(w)
    <3>1. CASE ReconcileBefore(w) \/ ReconcileAfter(w) \/ ProjectEffect(w)
      BY <1>1, <3>1, UntouchedRecord DEF ReconcileBefore, ReconcileAfter, Find,
         ProjectEffect, recordVars, caseVars
    <3>2. CASE SettleDispatch(w) \/ EndRun(w)
      BY <1>1, <3>2, FailDispatchRecord DEF SettleDispatch, EndRun
    <3>3. CASE ResumeWorkflow(w)
      BY <3>3, UntouchedRecord DEF ResumeWorkflow, recordVars
    <3>4. CASE FinalizeCase(w)
      BY <3>4, FinalizeCaseRecord
    <3> QED
      BY <1>1, <2>2, <3>1, <3>2, <3>3, <3>4 DEF Flow, ClaimDispatchForResume, KeepWaiting,
         AfterTool, ResolveCase
  <2>3. CASE Reconciler(w)
    <3>1. CASE Reconciled(w)
      BY <1>1, <3>1, FinalizeRecord DEF Reconciled, Terminal
    <3> QED
      BY <1>1, <2>3, <3>1 DEF Reconciler, RecoverUnknown, RecreateRefund, Post, RereadRefund,
         ReconciliationError
  <2>4. CASE ApplyWebhook(w)
    <3>1. got[w] \in Answers
      BY <1>0, <2>4 DEF ApplyWebhook, IInv, LearnedFromStripe, WorkerTypeOK
    <3> QED
      BY <1>1, <2>4, <3>1, FinalizeRecord DEF ApplyWebhook, Terminal, Answers
  <2> QED
    BY <1>1, <1>3, <2>1, <2>2, <2>3, <2>4 DEF Moves, ReadDecision, ClaimAttempt, ReceiveWebhook, Crash
<1> QED
  BY <1>1, <1>2, <1>3 DEF Next, Moves, AttemptLeaseExpires, DispatchLeaseExpires, LatePost,
     StripeSettles, WindowCloses, KeyExpires, vars

-----------------------------------------------------------------------------
(* The invariant is inductive.                                             *)

\* A final status of the ledger is final, but for a reversal.
LEMMA TerminalStays ==
  ASSUME IInv, [Next]_vars, status \in Terminal
  PROVE  status' = status \/ Corrects
  BY LedgerStep DEF LedgerMoves, IInv

\* An effect is recorded with its success, and erased with it.
LEMMA EffectStep == IInv /\ [Next]_vars => EffectMatchesLedger'
<1> SUFFICES ASSUME IInv, [Next]_vars, effect' # "none" PROVE status' = "succeeded"
  BY DEF EffectMatchesLedger
<1>1. effect' = effect => status = "succeeded"
  BY DEF IInv, EffectMatchesLedger
<1> QED
  BY <1>1, RecordStep, TerminalStays DEF RecordMoves, Corrects, Terminal

\* A reversal is for good.
LEMMA ReversedStays ==
  ASSUME IInv, [Next]_vars, Reversed
  PROVE  Reversed'
<1>1. status' = "failed"
  BY TerminalStays DEF Reversed, Corrects, Terminal
<1> QED
  BY <1>1, RecordStep DEF RecordMoves, Reversed

\* A success that a worker carries is in the ledger before the worker acts on it.
LEMMA SuccessStep == IInv /\ [Next]_vars => SuccessIsRecorded'
<1> SUFFICES ASSUME IInv, [Next]_vars PROVE SuccessIsRecorded'
  OBVIOUS
<1>0. /\ TypeOK /\ SuccessIsRecorded /\ EffectMatchesLedger
      /\ pc \in [Workers -> PCs] /\ got \in [Workers -> Answers \cup {"none"}]
  BY TypeParts DEF IInv, WorkerTypeOK
<1>1. shows' = "reset" => caseReply' = "none"
  BY RecordStep DEF RecordMoves
<1>2. status \in Terminal => status' \in Terminal
  BY TerminalStays DEF Corrects, Terminal
<1>3. status = "succeeded" => status' = "succeeded" \/ Reversed'
  <2>1. Corrects => Reversed'
    BY <1>0 DEF Corrects, Reversed, SuccessIsRecorded, TypeOK
  <2> QED
    BY <2>1, TerminalStays DEF Terminal
<1>4. ASSUME NEW w \in Workers
      PROVE  /\ pc'[w] = "failing" => got'[w] = "failed"
             /\ pc'[w] = "finalizing" => got'[w] \in {"succeeded", "failed"}
             /\ pc'[w] \in {"recorded", "projecting"} /\ got'[w] = "succeeded" => status' \in Terminal
             /\ pc'[w] = "finalizing" /\ got'[w] = "succeeded" => status' = "succeeded" \/ Reversed'
  <2> DEFINE Goal ==
             /\ pc'[w] = "failing" => got'[w] = "failed"
             /\ pc'[w] = "finalizing" => got'[w] \in {"succeeded", "failed"}
             /\ pc'[w] \in {"recorded", "projecting"} /\ got'[w] = "succeeded" => status' \in Terminal
             /\ pc'[w] = "finalizing" /\ got'[w] = "succeeded" => status' = "succeeded" \/ Reversed'
  <2>1. ASSUME pc'[w] = pc[w], got'[w] = got[w] PROVE Goal
    BY <1>0, <1>2, <1>3, <2>1, ReversedStays DEF SuccessIsRecorded
  <2>2. ASSUME pc'[w] \notin {"failing", "finalizing", "recorded", "projecting"} PROVE Goal
    BY <2>2
  <2> USE DEF Goto, GotoFrom, GoIdle, Learn
  <2>3. CASE RecordAnswer(w)
    <3>1. pc'[w] = "recorded" /\ got'[w] = got[w] /\ UpdateAttempt(LedgerStatus(got[w]), TRUE)
      BY <1>0, <2>3 DEF RecordAnswer
    <3>2. got[w] = "succeeded" => status' \in Terminal
      BY <1>2, <3>1 DEF UpdateAttempt, MayUpdate, LedgerStatus, Terminal, ledgerVars
    <3> QED
      BY <3>1, <3>2
  <2>4. CASE AuthoritativeEffect(w)
    <3>1. /\ pc'[w] = IF got'[w] = "failed" THEN "failing" ELSE "projecting"
          /\ got'[w] = "succeeded" => status \in Terminal
      BY <1>0, <2>4 DEF AuthoritativeEffect, SuccessIsRecorded, Terminal
    <3> QED
      BY <1>2, <3>1
  <2>5. CASE FinalizeDirectFailure(w)
    BY <1>0, <2>5 DEF FinalizeDirectFailure, SuccessIsRecorded
  <2>6. CASE ResolveCase(w)
    <3>1. CASE pc'[w] = "finalizing"
      <4>1. /\ got'[w] \in {"succeeded", "failed"} /\ status' = status
            /\ got'[w] = "succeeded" => effect # "none"
        BY <1>0, <2>6, <3>1 DEF ResolveCase, ledgerVars
      <4> QED
        BY <1>0, <3>1, <4>1 DEF EffectMatchesLedger
    <3>2. CASE pc'[w] # "finalizing"
      BY <1>0, <2>6, <3>2 DEF ResolveCase
    <3> QED
      BY <3>1, <3>2
  <2>7. CASE StartTool(w) \/ Prepare(w) \/ Preflight(w) \/ VerifyAndAuthorize(w)
    BY <1>0, <2>2, <2>7 DEF StartTool, Prepare, Preflight, VerifyAndAuthorize
  <2>8. CASE CreateRefund(w) \/ RecreateRefund(w)
    BY <1>0, <2>2, <2>8 DEF CreateRefund, RecreateRefund, Post
  <2>9. CASE RetrieveKnown(w) \/ ProjectTool(w) \/ NoEffectFailure(w) \/ RecordDoubt(w) \/ EndTool(w)
    BY <1>0, <2>2, <2>9 DEF RetrieveKnown, ProjectTool, NoEffectFailure, RecordDoubt, EndTool
  <2>10. CASE ClaimDispatchForResume(w) \/ ReconcileBefore(w) \/ ProjectEffect(w) \/ KeepWaiting(w)
              \/ AfterTool(w) \/ ReconcileAfter(w)
    BY <1>0, <2>2, <2>10 DEF ClaimDispatchForResume, ReconcileBefore, Find, ProjectEffect, KeepWaiting,
       AfterTool, ReconcileAfter
  <2>11. CASE SettleDispatch(w) \/ ResumeWorkflow(w) \/ FinalizeCase(w) \/ EndRun(w)
    BY <1>0, <2>2, <2>11 DEF SettleDispatch, ResumeWorkflow, FinalizeCase, EndRun
  <2>12. CASE ClaimAttempt(w) \/ RecoverUnknown(w) \/ RereadRefund(w) \/ Reconciled(w)
              \/ ReconciliationError(w)
    BY <1>0, <2>2, <2>12 DEF ClaimAttempt, RecoverUnknown, RereadRefund, Reconciled,
       ReconciliationError
  <2>13. CASE ReadDecision(w) \/ ReceiveWebhook(w) \/ ApplyWebhook(w) \/ Crash(w)
    BY <1>0, <2>2, <2>13 DEF ReadDecision, ReceiveWebhook, ApplyWebhook, Crash
  <2>14. Moves(w) => Goal
    BY <2>3, <2>4, <2>5, <2>6, <2>7, <2>8, <2>9, <2>10, <2>11, <2>12, <2>13
    DEF Moves, Tool, Flow, Reconciler
  <2> QED
    BY <1>0, <2>1, <2>14, OneWorkerMoves DEF StaysPut
<1> QED
  BY <1>1, <1>4 DEF SuccessIsRecorded

\* What is announced is paid, and what fails afterwards is corrected.
LEMMA AnnouncedStep == IInv /\ [Next]_vars => Announced'
<1> SUFFICES ASSUME IInv, [Next]_vars, told' \cap IssuedRows # {}
             PROVE  /\ remote' \in Paid
                    /\ status' = "succeeded" \/ (status' = "failed" /\ "refund-failed" \in told')
  BY DEF Announced
<1>1. status' = "succeeded" => remote' \in Paid
  BY LearnedStep DEF LearnedFromStripe
<1>2. CASE told \cap IssuedRows # {}
  <2>1. /\ remote \in Paid
        /\ status = "succeeded" \/ (status = "failed" /\ "refund-failed" \in told)
    BY <1>2 DEF IInv, Announced
  <2>2. remote' \in Paid /\ told \subseteq told'
    BY <2>1, PaidStays, RecordStep DEF RecordMoves
  <2> QED
    BY <2>1, <2>2, TerminalStays DEF Terminal, Corrects
<1>3. CASE told \cap IssuedRows = {}
  <2>1. (told' \ told) \cap IssuedRows # {}
    BY <1>3
  <2> QED
    BY <1>1, <2>1, RecordStep DEF RecordMoves
<1> QED
  BY <1>2, <1>3

LEMMA InitInvariant == Init => IInv
<1> SUFFICES ASSUME Init PROVE IInv
  OBVIOUS
<1>1. TypeOK
  BY InitType
<1>2. EffectMatchesLedger /\ Announced /\ PostedOnce
  BY DEF Init, EffectMatchesLedger, Announced, PostedOnce
<1>3. LearnedFromStripe
  BY DEF Init, LearnedFromStripe
<1>4. SuccessIsRecorded
  BY DEF Init, SuccessIsRecorded
<1> QED
  BY <1>1, <1>2, <1>3, <1>4 DEF IInv

LEMMA InvariantStep == IInv /\ [Next]_vars => IInv'
<1> SUFFICES ASSUME IInv, [Next]_vars PROVE IInv'
  OBVIOUS
<1>1. TypeOK'
  BY TypeStep DEF IInv
<1> QED
  BY <1>1, EffectStep, PostedOnceStep, LearnedStep, SuccessStep, AnnouncedStep DEF IInv

LEMMA Invariant == Spec => []IInv
  BY InitInvariant, InvariantStep, PTL DEF Spec

-----------------------------------------------------------------------------
(* The theorems.                                                           *)

\* tools/issue-refund.ts, providers/stripe/reconciliation.ts: whoever posts,
\* retries, crashes or times out, and for as many workers as there are, Stripe
\* creates one refund for the command.
THEOREM RefundedOnce == Spec => []AtMostOneRefund
<1>1. IInv => AtMostOneRefund
  BY DEF IInv, PostedOnce, AtMostOneRefund
<1> QED
  BY <1>1, Invariant, PTL

\* case-store-financial.ts: the rows have the values of the code, and an effect
\* is on record only while the ledger says that the refund succeeded.
THEOREM EffectInLedger == Spec => []LedgerIsSound
<1>1. IInv => LedgerIsSound
  BY DEF IInv, LedgerIsSound
<1> QED
  BY <1>1, Invariant, PTL

\* case-store-financial.ts: the customer hears of a refund that was paid, and
\* again when the ledger finds out that it failed.
THEOREM CustomerIsTold == Spec => []ToldAsPaid
<1>1. IInv => ToldAsPaid
  BY DEF IInv, Announced, ToldAsPaid, IssuedIsPaid, FailureIsCorrected, Paid
<1> QED
  BY <1>1, Invariant, PTL

\* finalizeStripeRefundReconciliation, updateStripeRefundAttempt: what the
\* ledger has given up stays given up, without an effect and unannounced.
THEOREM NeverRevived == Spec => GivenUpForGood
<1>1. ASSUME IInv, [Next]_vars
      PROVE  [(status \in {"failed", "quarantined"})
               => status' = status /\ effect' = "none" /\ (told' \ told) \cap IssuedRows = {}]_vars
  <2> SUFFICES ASSUME status \in {"failed", "quarantined"}
               PROVE  status' = status /\ effect' = "none" /\ (told' \ told) \cap IssuedRows = {}
    OBVIOUS
  <2>1. status' = status
    BY <1>1, TerminalStays DEF Terminal, Corrects
  <2>2. effect' = "none"
    BY <1>1, <2>1, EffectStep DEF EffectMatchesLedger
  <2> QED
    BY <1>1, <2>1, <2>2, RecordStep DEF RecordMoves
<1> QED
  BY <1>1, Invariant, PTL DEF Spec, GivenUpForGood

-----------------------------------------------------------------------------
(* The refinement of RefundLedger.                                         *)

Gone == {"failed", "reversed"}
GivenUp == {"failed", "quarantined"}

\* A failure that a worker carries to the ledger is one of the refund, unless
\* the ledger has failed already.
FailureIsStripes ==
  /\ answer = "failed" => remote = "failed"
  /\ \A w \in Workers : got[w] = "failed" /\ pc[w] \in Holding
       => remote \in Gone \/ status \in GivenUp

LInv == IInv /\ FailureIsStripes

\* What w may learn of a failure in one step.
LEMMA LearnFailure ==
  ASSUME IInv, NEW w \in Workers, Moves(w), got'[w] = "failed", pc'[w] \in Holding
  PROVE  \/ got[w] = "failed" /\ pc[w] \in Holding
         \/ answer' = "failed" \/ remote \in Gone \/ status \in GivenUp
<1> USE DEF Goto, GotoFrom, GoIdle, Learn, Holding, Knowing
<1>0. /\ pc \in [Workers -> PCs] /\ got \in [Workers -> Answers \cup {"none"}]
      /\ CurrentAnswer = "failed" => remote \in Gone
  BY TypeParts DEF IInv, WorkerTypeOK, CurrentAnswer, Gone
<1>1. CASE Tool(w)
  <2>1. CASE StartTool(w) \/ Prepare(w) \/ Preflight(w) \/ VerifyAndAuthorize(w)
    BY <1>0, <2>1 DEF StartTool, Prepare, Preflight, VerifyAndAuthorize
  <2>2. CASE RetrieveKnown(w) \/ RecordAnswer(w)
    BY <1>0, <2>2 DEF RetrieveKnown, RecordAnswer
  <2>3. CASE AuthoritativeEffect(w)
    BY <1>0, <2>3 DEF AuthoritativeEffect, GivenUp, Terminal
  <2>4. CASE CreateRefund(w)
    BY <1>0, <2>4, PostAnswersAssumption DEF CreateRefund, Post, Accept
  <2>5. CASE FinalizeDirectFailure(w) \/ ProjectTool(w) \/ NoEffectFailure(w)
             \/ RecordDoubt(w) \/ EndTool(w)
    BY <1>0, <2>5 DEF FinalizeDirectFailure, ProjectTool, NoEffectFailure, RecordDoubt, EndTool
  <2> QED
    BY <1>1, <2>1, <2>2, <2>3, <2>4, <2>5 DEF Tool
<1>2. CASE Flow(w)
  <2>1. CASE ClaimDispatchForResume(w) \/ ReconcileBefore(w) \/ ProjectEffect(w) \/ KeepWaiting(w)
             \/ AfterTool(w) \/ ReconcileAfter(w)
    BY <1>0, <2>1 DEF ClaimDispatchForResume, ReconcileBefore, Find, ProjectEffect, KeepWaiting,
       AfterTool, ReconcileAfter
  <2>2. CASE SettleDispatch(w) \/ ResumeWorkflow(w) \/ FinalizeCase(w) \/ EndRun(w)
    BY <1>0, <2>2 DEF SettleDispatch, ResumeWorkflow, FinalizeCase, EndRun
  <2>3. CASE ResolveCase(w)
    BY <1>0, <2>3 DEF ResolveCase
  <2> QED
    BY <1>2, <2>1, <2>2, <2>3 DEF Flow
<1>3. CASE ClaimAttempt(w) \/ Reconciler(w)
  <2>1. CASE ClaimAttempt(w) \/ RecoverUnknown(w) \/ RereadRefund(w)
    BY <1>0, <2>1 DEF ClaimAttempt, RecoverUnknown, RereadRefund
  <2>2. CASE Reconciled(w) \/ ReconciliationError(w)
    BY <1>0, <2>2 DEF Reconciled, ReconciliationError
  <2>3. CASE RecreateRefund(w)
    BY <1>0, <2>3, PostAnswersAssumption DEF RecreateRefund, Post, Accept
  <2> QED
    BY <1>3, <2>1, <2>2, <2>3 DEF Reconciler
<1>4. CASE ReadDecision(w) \/ ReceiveWebhook(w) \/ ApplyWebhook(w) \/ Crash(w)
  BY <1>0, <1>4 DEF ReadDecision, ReceiveWebhook, ApplyWebhook, Crash
<1> QED
  BY <1>1, <1>2, <1>3, <1>4 DEF Moves

\* A refund moves at Stripe as RefundLedger says, and a failed one never.
LEMMA RemoteMoves ==
  ASSUME IInv, answer = "failed" => remote = "failed", [Next]_vars
  PROVE  /\ \/ remote' = remote
            \/ remote = "none" /\ remote' \in Answers
            \/ remote \in {"pending", "action"} /\ remote' \in Answers \ {"pending"}
            \/ remote = "succeeded" /\ remote' = "reversed"
         /\ answer' = "failed" => remote' = "failed"
<1>0. TypeOK /\ PostedOnce
  BY DEF IInv
<1>1. CASE UNCHANGED <<refunds, remote, answer>>
  BY <1>1
<1>2. ASSUME MayArrive, NEW state \in PostAnswers, Accept(state)
      PROVE  /\ remote' = remote \/ (remote = "none" /\ remote' \in Answers)
             /\ answer' = "failed" => remote' = "failed"
  <2>1. refunds \in Nat /\ state \in Answers
    BY <1>0, <1>2, PostAnswersAssumption DEF TypeOK, Answers
  <2>2. CASE answer = "none"
    <3>1. refunds = 0
      BY <1>0, <1>2, <2>1, <2>2 DEF PostedOnce, MayArrive, Posters
    <3> QED
      BY <1>0, <1>2, <2>1, <2>2, <3>1 DEF Accept, PostedOnce
  <2>3. CASE answer # "none"
    BY <1>0, <1>2, <2>3 DEF Accept
  <2> QED
    BY <2>2, <2>3
<1>3. CASE StripeSettles
  BY <1>0, <1>3 DEF StripeSettles, Answers
<1>4. CASE KeyExpires
  BY <1>0, <1>4 DEF KeyExpires
<1> QED
  BY <1>0, <1>1, <1>2, <1>3, <1>4, StripeStep DEF StripeMoves

LEMMA FailureStep == LInv /\ [Next]_vars => FailureIsStripes'
<1> SUFFICES ASSUME LInv, [Next]_vars PROVE FailureIsStripes'
  OBVIOUS
<1>0. TypeOK /\ IInv /\ FailureIsStripes
  BY DEF LInv, IInv
<1>1. /\ remote \in Gone => remote' \in Gone
      /\ answer' = "failed" => remote' \in Gone
  BY <1>0, RemoteMoves DEF FailureIsStripes, Gone
<1>2. status \in GivenUp => status' \in GivenUp
  BY <1>0, TerminalStays DEF GivenUp, Terminal, Corrects
<1>3. ASSUME NEW w \in Workers, got'[w] = "failed", pc'[w] \in Holding
      PROVE  remote' \in Gone \/ status' \in GivenUp
  <2>1. CASE StaysPut(w)
    BY <1>0, <1>1, <1>2, <1>3, <2>1 DEF StaysPut, FailureIsStripes
  <2>2. CASE Moves(w)
    BY <1>0, <1>1, <1>2, <1>3, <2>2, LearnFailure DEF FailureIsStripes
  <2> QED
    BY <1>0, <2>1, <2>2, OneWorkerMoves
<1> QED
  BY <1>0, <1>3, RemoteMoves DEF FailureIsStripes

LEMMA LedgerInvariant == Spec => []LInv
<1>1. Init => FailureIsStripes
  BY DEF Init, FailureIsStripes
<1> QED
  BY <1>1, InitInvariant, InvariantStep, FailureStep, PTL DEF Spec, LInv

\* A settled attempt is overwritten by a worker only with a failure that the
\* worker holds; and the correction goes with such a write.
LEMMA SettledMoves ==
  ASSUME IInv, NEW w \in Workers, Moves(w)
  PROVE  /\ status = "succeeded" /\ status' # "succeeded"
              => got[w] = "failed" /\ pc[w] \in Holding
         /\ "refund-failed" \in told' \ told
              => status' = "failed" \/ (status' = "quarantined" /\ status \notin Terminal)
<1> DEFINE Goal ==
         /\ status = "succeeded" /\ status' # "succeeded"
              => got[w] = "failed" /\ pc[w] \in Holding
         /\ "refund-failed" \in told' \ told
              => status' = "failed" \/ (status' = "quarantined" /\ status \notin Terminal)
<1>0. TypeOK /\ WorkerTypeOK /\ SuccessIsRecorded
  BY TypeParts DEF IInv
<1>1. ASSUME status \in Terminal => status' = status, "refund-failed" \notin told' \ told
      PROVE  Goal
  BY <1>1 DEF Terminal
<1>2. ASSUME UNCHANGED <<status, told>> PROVE Goal
  BY <1>2
<1>3. ASSUME NEW to \in Terminal, NEW how, FinalizeIfAllowed(to, how),
             to = "failed" => got[w] = "failed", pc[w] \in Holding
      PROVE  Goal
  <2>1. CASE ~CanFinalize(to)
    BY <1>2, <1>3, <2>1 DEF FinalizeIfAllowed, ledgerVars, recordVars
  <2>2. CASE CanFinalize(to) /\ to = "succeeded"
    BY <1>3, <2>2 DEF CanFinalize, FinalizeIfAllowed, Finalize, Record, Terminal, recordVars
  <2>3. CASE CanFinalize(to) /\ to # "succeeded"
    BY <1>3, <2>3 DEF CanFinalize, FinalizeIfAllowed, Finalize, Terminal
  <2> QED
    BY <2>1, <2>2, <2>3
<1>4. ASSUME NEW to, NEW knows, UpdateAttempt(to, knows), UNCHANGED told PROVE Goal
  BY <1>1, <1>4 DEF UpdateAttempt, MayUpdate, ledgerVars
<1>5. ASSUME NEW to, NEW knows, Reschedule(w, to, knows), UNCHANGED told PROVE Goal
  BY <1>1, <1>5 DEF Reschedule, ledgerVars
<1>6. CASE Tool(w)
  <2>1. CASE StartTool(w) \/ Preflight(w) \/ VerifyAndAuthorize(w) \/ RetrieveKnown(w)
             \/ AuthoritativeEffect(w) \/ ProjectTool(w) \/ EndTool(w)
    BY <1>2, <2>1 DEF StartTool, Preflight, VerifyAndAuthorize, RetrieveKnown,
       AuthoritativeEffect, ProjectTool, EndTool, ledgerVars, recordVars
  <2>2. CASE Prepare(w)
    <3>1. UNCHANGED told
      BY <2>2 DEF Prepare, recordVars
    <3>2. CASE status = "absent"
      BY <1>1, <3>1, <3>2 DEF Terminal
    <3> QED
      BY <1>2, <1>4, <2>2, <3>1, <3>2 DEF Prepare, ledgerVars
  <2>3. CASE CreateRefund(w)
    BY <1>2, <2>3 DEF CreateRefund, Post, ledgerVars, recordVars
  <2>4. CASE RecordAnswer(w) \/ RecordDoubt(w)
    BY <1>4, <2>4 DEF RecordAnswer, RecordDoubt, recordVars
  <2>5. CASE FinalizeDirectFailure(w)
    <3>1. got[w] = "failed" /\ pc[w] \in Holding
      BY <1>0, <2>5 DEF FinalizeDirectFailure, SuccessIsRecorded, Holding, Knowing
    <3> QED
      BY <1>3, <2>5, <3>1 DEF FinalizeDirectFailure, Terminal
  <2>6. CASE NoEffectFailure(w)
    <3>1. CASE status \in Open
      <4>1. status \notin Terminal /\ told' = told \cup {"refund-no-effect"}
        BY <2>6, <3>1 DEF NoEffectFailure, Record, Open, Terminal
      <4> QED
        BY <1>1, <4>1
    <3>2. CASE status \notin Open
      BY <1>2, <2>6, <3>2 DEF NoEffectFailure, ledgerVars, recordVars
    <3> QED
      BY <3>1, <3>2
  <2> QED
    BY <1>6, <2>1, <2>2, <2>3, <2>4, <2>5, <2>6 DEF Tool
<1>7. CASE Flow(w)
  <2>1. UNCHANGED status
    BY <1>7 DEF Flow, ClaimDispatchForResume, ReconcileBefore, Find, ProjectEffect, KeepWaiting,
       AfterTool, ReconcileAfter, SettleDispatch, ResumeWorkflow, ResolveCase, FinalizeCase, EndRun, ledgerVars
  <2>2. CASE FinalizeCase(w)
    <3>1. UNCHANGED told \/ \E row \in {"final-review", "refund-final", "final-issued"} :
                              told' = told \cup {row}
      BY <2>2 DEF FinalizeCase, Record, recordVars
    <3> QED
      BY <1>1, <2>1, <3>1
  <2>3. CASE SettleDispatch(w) \/ EndRun(w)
    BY <1>2, <2>1, <2>3 DEF SettleDispatch, EndRun, FailDispatchAndCase, recordVars
  <2>4. CASE ClaimDispatchForResume(w) \/ ReconcileBefore(w) \/ ProjectEffect(w) \/ KeepWaiting(w)
             \/ AfterTool(w) \/ ReconcileAfter(w) \/ ResumeWorkflow(w) \/ ResolveCase(w)
    BY <1>2, <2>1, <2>4 DEF ClaimDispatchForResume, ReconcileBefore, Find, ProjectEffect, KeepWaiting,
       AfterTool, ReconcileAfter, ResumeWorkflow, ResolveCase, recordVars
  <2> QED
    BY <1>7, <2>2, <2>3, <2>4 DEF Flow
<1>8. CASE Reconciler(w)
  <2>1. CASE RecoverUnknown(w) \/ RereadRefund(w) \/ ReconciliationError(w)
    BY <1>2, <1>5, <2>1 DEF RecoverUnknown, RereadRefund, ReconciliationError, ledgerVars, recordVars
  <2>2. CASE RecreateRefund(w)
    BY <1>2, <2>2 DEF RecreateRefund, Post, ledgerVars, recordVars
  <2>3. CASE Reconciled(w)
    <3>0. pc[w] \in Holding
      BY <2>3 DEF Reconciled, Holding, Knowing
    <3>1. CASE got[w] \in {"succeeded", "failed"} /\ FinalizeIfAllowed(got[w], kind[w])
      BY <1>3, <3>0, <3>1 DEF Terminal
    <3>2. CASE FinalizeIfAllowed("quarantined", kind[w])
      BY <1>3, <3>0, <3>2 DEF Terminal
    <3>3. CASE UNCHANGED <<ledgerVars, recordVars>>
      BY <1>2, <3>3 DEF ledgerVars, recordVars
    <3>4. CASE /\ Reschedule(w, IF got[w] = "action" THEN "unknown" ELSE "pending", TRUE)
               /\ UNCHANGED recordVars
      BY <1>5, <3>4 DEF recordVars
    <3> QED
      BY <2>3, <3>1, <3>2, <3>3, <3>4 DEF Reconciled
  <2> QED
    BY <1>8, <2>1, <2>2, <2>3 DEF Reconciler
<1>9. CASE ApplyWebhook(w)
  <2>0. pc[w] \in Holding /\ got[w] \in Answers
    BY <1>0, <1>9 DEF ApplyWebhook, Holding, Knowing, IInv, LearnedFromStripe, WorkerTypeOK
  <2>1. CASE got[w] \in {"pending", "action"}
    BY <1>4, <1>9, <2>1 DEF ApplyWebhook, recordVars
  <2>2. CASE got[w] \notin {"pending", "action"}
    BY <1>3, <1>9, <2>0, <2>2 DEF ApplyWebhook, Answers, Terminal
  <2> QED
    BY <2>1, <2>2
<1>10. CASE ReadDecision(w) \/ ClaimAttempt(w) \/ ReceiveWebhook(w) \/ Crash(w)
  BY <1>2, <1>10 DEF ReadDecision, ClaimAttempt, ReceiveWebhook, Crash, ledgerVars, recordVars
<1> QED
  BY <1>6, <1>7, <1>8, <1>9, <1>10 DEF Moves

\* The steps of nobody in particular, and those that move the refund, leave the
\* attempt and the messages alone.
LEMMA OneSideMoves ==
  ASSUME IInv, [Next]_vars
  PROVE  /\ UNCHANGED remote \/ UNCHANGED <<status, told>>
         /\ UNCHANGED <<status, told>> \/ \E w \in Workers : Moves(w)
<1>1. ASSUME ~\E w \in Workers : Moves(w) PROVE UNCHANGED <<status, told>>
  BY <1>1 DEF Next, Moves, FollowUp, AttemptLeaseExpires, DispatchLeaseExpires, LatePost,
     StripeSettles, WindowCloses, KeyExpires, vars, ledgerVars, recordVars
<1>2. ASSUME NEW w \in Workers, Moves(w)
      PROVE  UNCHANGED remote \/ UNCHANGED <<status, told>>
  <2>1. CASE CreateRefund(w) \/ RecreateRefund(w)
    BY <2>1 DEF CreateRefund, RecreateRefund, Post, ledgerVars, recordVars
  <2>2. CASE Tool(w) /\ ~CreateRefund(w)
    BY <2>2 DEF Tool, StartTool, Prepare, Preflight, VerifyAndAuthorize, RetrieveKnown,
       RecordAnswer, AuthoritativeEffect, FinalizeDirectFailure, ProjectTool, NoEffectFailure,
       RecordDoubt, EndTool, stripeVars
  <2>3. CASE Flow(w)
    BY <2>3 DEF Flow, ClaimDispatchForResume, ReconcileBefore, Find, ProjectEffect, KeepWaiting,
       AfterTool, ReconcileAfter, SettleDispatch, ResumeWorkflow, ResolveCase, FinalizeCase, EndRun, stripeVars
  <2> QED
    BY <1>2, <2>1, <2>2, <2>3 DEF Moves, Reconciler, ReadDecision, ClaimAttempt, RecoverUnknown,
       RereadRefund, Reconciled, ReconciliationError, ReceiveWebhook, ApplyWebhook, Crash, stripeVars
<1> QED
  BY <1>1, <1>2

\* What the mapping shows of the three states.
AtStripe == CASE remote \in {"pending", "action"} -> "open"
              [] remote = "succeeded" -> "paid"
              [] OTHER -> remote
InLedger == IF status \in Terminal THEN status ELSE "open"
Messages == (IF told \cap IssuedRows # {} THEN {"issued"} ELSE {})
            \cup (IF "refund-failed" \in told THEN {"correction"} ELSE {})

\* Every step is one of the ledger, or none.
LEMMA LedgerRefines ==
  ASSUME LInv, [Next]_vars
  PROVE  Ledger!Next \/ UNCHANGED <<AtStripe, InLedger, Messages>>
<1> USE DEF AtStripe, InLedger, Messages, Ledger!Next
<1>0. /\ IInv /\ TypeOK /\ FailureIsStripes /\ Announced /\ LearnedFromStripe
      /\ remote \in Answers \cup {"none", "reversed"} /\ status \in Statuses
      /\ status' \in Statuses
  <2>1. TypeOK'
    BY TypeStep DEF LInv, IInv
  <2> QED
    BY <2>1 DEF LInv, IInv, TypeOK, Statuses
<1>1. CASE UNCHANGED <<status, told>>
  <2>1. CASE UNCHANGED AtStripe
    BY <1>1, <2>1
  <2>2. CASE remote = "none" /\ remote' \in Answers
    BY <1>1, <2>2 DEF Ledger!Create, Answers
  <2>3. CASE remote \in {"pending", "action"} /\ remote' \in Answers \ {"pending"}
    BY <1>1, <2>1, <2>3 DEF Ledger!Settle, Answers
  <2>4. CASE remote = "succeeded" /\ remote' = "reversed"
    BY <1>1, <2>4 DEF Ledger!Settle
  <2> QED
    BY <1>0, <2>1, <2>2, <2>3, <2>4, RemoteMoves DEF FailureIsStripes
<1>2. CASE UNCHANGED remote /\ \E w \in Workers : Moves(w)
  <2> PICK w \in Workers : Moves(w)
    BY <1>2
  <2>0. UNCHANGED AtStripe
    BY <1>2
  <2>1. /\ told \subseteq told'
        /\ (told' \ told) \cap IssuedRows # {} => status' = "succeeded"
        /\ "refund-failed" \in told' \ told
              => status' = "failed" \/ (status' = "quarantined" /\ status \notin Terminal)
        /\ status \in Terminal => status' = status \/ Corrects
    BY <1>0, RecordStep, SettledMoves, TerminalStays DEF RecordMoves
  <2>2. ASSUME (told' \ told) \cap IssuedRows = {}
        PROVE  /\ told' \cap IssuedRows # {} <=> told \cap IssuedRows # {}
               /\ "refund-failed" \in told' \ told => Messages' = Messages \cup {"correction"}
               /\ "refund-failed" \notin told' \ told => Messages' = Messages
    <3>1. told' \cap IssuedRows = told \cap IssuedRows
      BY <2>1, <2>2
    <3>2. "refund-failed" \in told' <=> "refund-failed" \in told \/ "refund-failed" \in told' \ told
      BY <2>1
    <3> QED
      BY <3>1, <3>2
  <2>3. ASSUME (told' \ told) \cap IssuedRows # {}, "refund-failed" \notin told' \ told
        PROVE  Messages' = Messages \cup {"issued"}
    BY <2>1, <2>3
  <2>4. CASE status' = "succeeded"
    <3>1. remote \in Paid /\ "refund-failed" \notin told' \ told
      BY <1>0, <1>2, <2>1, <2>4, LearnedStep DEF LearnedFromStripe
    <3>2. Messages' \in {Messages, Messages \cup {"issued"}}
      BY <2>2, <2>3, <3>1
    <3>3. status = "succeeded" \/ status \notin Terminal
      BY <2>1, <2>4 DEF Corrects
    <3>4. CASE status = "succeeded"
      BY <2>0, <2>4, <3>2, <3>4 DEF Ledger!Announce, Terminal
    <3>5. CASE status \notin Terminal
      BY <2>0, <2>4, <3>1, <3>2, <3>5 DEF Ledger!Succeed, Ledger!Paid, Terminal, Paid
    <3> QED
      BY <3>3, <3>4, <3>5
  <2>5. CASE status' # "succeeded"
    <3>0. Messages' \in {Messages, Messages \cup {"correction"}}
      BY <2>1, <2>2, <2>5
    <3>1. CASE status \notin Terminal /\ status' \notin Terminal
      <4>1. Messages' = Messages
        BY <2>1, <2>2, <2>5, <3>1 DEF Terminal
      <4> QED
        BY <2>0, <3>1, <4>1
    <3>2. CASE status \notin Terminal /\ status' = "failed"
      BY <2>0, <3>0, <3>2 DEF Ledger!Fail, Terminal
    <3>3. CASE status \notin Terminal /\ status' = "quarantined"
      BY <2>0, <3>0, <3>3 DEF Ledger!GiveUp, Terminal
    <3>4. CASE status = "succeeded"
      <4>1. Corrects /\ got[w] = "failed" /\ pc[w] \in Holding
        BY <1>0, <2>1, <2>5, <3>4, SettledMoves DEF Terminal
      <4>2. remote = "reversed"
        BY <1>0, <3>4, <4>1 DEF FailureIsStripes, LearnedFromStripe, Gone, Paid, GivenUp
      <4>3. "correction" \in Messages'
        BY <4>1 DEF Corrects
      <4> QED
        BY <2>0, <3>0, <3>4, <4>1, <4>2, <4>3 DEF Ledger!Reverse, Corrects, Terminal
    <3>5. CASE status = "failed"
      <4>1. status' = "failed"
        BY <2>1, <3>5 DEF Terminal, Corrects
      <4> QED
        BY <2>0, <3>0, <3>5, <4>1 DEF Ledger!Correct, Terminal
    <3>6. CASE status = "quarantined"
      <4>1. status' = "quarantined" /\ "refund-failed" \notin told' \ told
        BY <2>1, <3>6 DEF Terminal, Corrects
      <4>2. Messages' = Messages
        BY <2>1, <2>2, <2>5, <4>1
      <4> QED
        BY <2>0, <3>6, <4>1, <4>2
    <3> QED
      BY <1>0, <2>5, <3>1, <3>2, <3>3, <3>4, <3>5, <3>6 DEF Terminal
  <2> QED
    BY <2>4, <2>5
<1> QED
  BY <1>0, <1>1, <1>2, OneSideMoves

\* The execution, the recovery, the reconciler and the webhook together keep
\* the promise of RefundLedger: a success was paid, is taken back only after a
\* reversal and with its correction, and what was given up stays so.
THEOREM LedgerIsKept == Spec => ImplementsLedger
<1>1. Init => Ledger!Init
  BY DEF Init, Ledger!Init, Terminal, IssuedRows
<1>2. LInv /\ [Next]_vars => [Ledger!Next]_<<AtStripe, InLedger, Messages>>
  BY LedgerRefines
<1> QED
  BY <1>1, <1>2, LedgerInvariant, PTL
  DEF Spec, ImplementsLedger, Ledger!Spec, AtStripe, InLedger, Messages

==============================================================================

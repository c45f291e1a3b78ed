-------------------------- MODULE StripeInboundProofs --------------------------
(***************************************************************************)
(* Theorems about StripeInbound, for any number of notifications, requests *)
(* and sweeps, any bound on faults and any first answer of Stripe.         *)
(***************************************************************************)
EXTENDS StripeInbound, TLAPS

-----------------------------------------------------------------------------
(* The inductive invariant.                                                *)

Lost == {"failed", "quarantined"}

\* What was read cannot be older than what was sent.
NotOlder(read, said) ==
  /\ said = "succeeded" => read \in {"succeeded", "failed"}
  /\ said = "failed" => read = "failed"

\* The ledger has this news, or later news.
Reflected(news) ==
  /\ news = "succeeded" => ledger \in Terminal
  /\ news = "failed" => ledger \in Lost

\* The tables by notification and by request.
Tables ==
  /\ receipt = [e \in Events |-> receipt[e]]
  /\ event = [h \in Handlers |-> event[h]]

\* What is on its way, has a result or an answer has been sent.
Notified ==
  /\ \A h \in Handlers : hpc[h] # "idle" => emitted[event[h]] # "none"
  /\ \A e \in Events : receipt[e].state = "completed" => emitted[e] # "none"
  /\ \A e \in acknowledged : emitted[e] # "none"

\* Stripe says what was so, and whoever works with a state has read one.
ReadFromStripe ==
  /\ \A e \in Events : NotOlder(Current, emitted[e])
  /\ \A h \in Handlers : hpc[h] \in {"write", "complete"} =>
       hgot[h] \in States /\ NotOlder(hgot[h], emitted[event[h]])
  /\ \A p \in Pollers : ppc[p] \in {"recovered", "read"} => pgot[p] \in States

\* From the write of a request on, its news is in the ledger.
WrittenIsReflected ==
  /\ \A h \in Handlers : hpc[h] = "complete" => Reflected(hgot[h])
  /\ \A e \in Events \ ignored : receipt[e].state = "completed" => Reflected(emitted[e])

IInv ==
  /\ TypeOK /\ Tables /\ Notified /\ ReadFromStripe /\ WrittenIsReflected
  /\ AcknowledgedIsReflected /\ LearnedIsKept

-----------------------------------------------------------------------------
(* Type correctness.                                                       *)

USE DEF Current

Statuses == Pollable \cup Terminal
Leases == [token : Pollers, live : BOOLEAN] \cup {Unleased}
Receipts ==
  [state : {"none", "completed", "failed"}, token : {None}, live : {FALSE}]
  \cup [state : {"processing"}, token : Handlers, live : BOOLEAN]

StripeTypeOK ==
  /\ refund \in States \cup {"reversed"} /\ answer \in States
  /\ emitted \in [Events -> States \cup {"none"}] /\ crowded \in BOOLEAN
AnswerTypeOK == acknowledged \subseteq Events
HistoryTypeOK == ignored \subseteq Events /\ learned \subseteq States
ReceiptTypeOK == receipt \in [Events -> Receipts]
LedgerTypeOK == ledger \in Statuses /\ known \in BOOLEAN /\ lease \in Leases
HandlerTypeOK ==
  /\ hpc \in [Handlers -> {"idle", "find", "write", "complete"}]
  /\ event = [h \in Handlers |-> event[h]]
  /\ \A h \in Handlers : event[h] \in IF hpc[h] = "idle" THEN {None} ELSE Events
  /\ hgot \in [Handlers -> States \cup {"none"}]
PollerTypeOK ==
  /\ ppc \in [Pollers -> {"idle", "recover", "get", "recovered", "read"}]
  /\ pgot \in [Pollers -> States \cup {"none"}]
RestTypeOK == executor \in {"live", "stalled", "done"} /\ faults \in 0..MaxFaults

\* The parts are the type invariant of the module, and the tables.
LEMMA TypeParts ==
  TypeOK /\ Tables <=> /\ StripeTypeOK /\ AnswerTypeOK /\ HistoryTypeOK /\ ReceiptTypeOK
                       /\ LedgerTypeOK /\ HandlerTypeOK /\ PollerTypeOK /\ RestTypeOK
<1>1. receipt = [e \in Events |-> receipt[e]] /\ (\A e \in Events : receipt[e] \in Receipts)
        <=> ReceiptTypeOK
  BY DEF ReceiptTypeOK
<1> QED
  BY <1>1 DEF TypeOK, Tables, StripeTypeOK, AnswerTypeOK, HistoryTypeOK, LedgerTypeOK,
     HandlerTypeOK, PollerTypeOK, RestTypeOK, Receipts, Statuses, Leases

\* What is read is a state of a refund.
LEMMA CurrentType == StripeTypeOK => Current \in States
  BY DEF StripeTypeOK, States

\* What is left alone keeps its type.
LEMMA UnchangedType ==
  /\ StripeTypeOK /\ UNCHANGED outsideVars => StripeTypeOK'
  /\ HistoryTypeOK /\ UNCHANGED history => HistoryTypeOK'
  /\ LedgerTypeOK /\ UNCHANGED ledgerVars => LedgerTypeOK'
  /\ HandlerTypeOK /\ UNCHANGED handlerVars => HandlerTypeOK'
  /\ PollerTypeOK /\ UNCHANGED pollerVars => PollerTypeOK'
<1>1. StripeTypeOK /\ UNCHANGED outsideVars => StripeTypeOK'
  BY DEF StripeTypeOK, outsideVars
<1>2. HistoryTypeOK /\ UNCHANGED history => HistoryTypeOK'
  BY DEF HistoryTypeOK, history
<1>3. LedgerTypeOK /\ UNCHANGED ledgerVars => LedgerTypeOK'
  BY DEF LedgerTypeOK, ledgerVars
<1>4. HandlerTypeOK /\ UNCHANGED handlerVars => HandlerTypeOK'
  BY DEF HandlerTypeOK, handlerVars
<1>5. PollerTypeOK /\ UNCHANGED pollerVars => PollerTypeOK'
  BY DEF PollerTypeOK, pollerVars
<1> QED
  BY <1>1, <1>2, <1>3, <1>4, <1>5

\* The statements on the attempt keep its type, and no news is taken back.
Onward == (ledger \in Terminal => ledger' \in Terminal) /\ (ledger \in Lost => ledger' \in Lost)

LEMMA UpdateAttemptKeeps ==
  ASSUME LedgerTypeOK, NEW to \in Statuses, NEW knows \in BOOLEAN, UpdateAttempt(to, knows)
  PROVE  LedgerTypeOK' /\ Onward
<1>1. CASE ledger \notin Terminal \/ ledger = to
  BY <1>1 DEF UpdateAttempt, LedgerTypeOK, Leases, Onward, Lost, Terminal
<1>2. CASE ~(ledger \notin Terminal \/ ledger = to)
  BY <1>2, UnchangedType DEF UpdateAttempt, ledgerVars, Onward
<1> QED
  BY <1>1, <1>2

LEMMA FinalizeKeeps ==
  ASSUME LedgerTypeOK, NEW to \in Terminal, Finalize(to)
  PROVE  LedgerTypeOK' /\ Onward
<1>1. CASE MayFinalize(to)
  BY <1>1 DEF Finalize, MayFinalize, LedgerTypeOK, Leases, Onward, Lost, Terminal, Statuses
<1>2. CASE ~MayFinalize(to)
  BY <1>2, UnchangedType DEF Finalize, ledgerVars, Onward
<1> QED
  BY <1>1, <1>2

LEMMA RescheduleKeeps ==
  ASSUME LedgerTypeOK, NEW p \in Pollers, NEW to \in Statuses, NEW knows \in BOOLEAN,
         Reschedule(p, to, knows)
  PROVE  LedgerTypeOK' /\ Onward
<1>1. CASE lease.token = p /\ lease.live /\ ledger \notin Terminal
  BY <1>1 DEF Reschedule, LedgerTypeOK, Leases, Onward, Lost, Terminal
<1>2. CASE ~(lease.token = p /\ lease.live /\ ledger \notin Terminal)
  BY <1>2, UnchangedType DEF Reschedule, ledgerVars, Onward
<1> QED
  BY <1>1, <1>2

LEMMA FinalizeLeasedKeeps ==
  ASSUME LedgerTypeOK, NEW p \in Pollers, NEW to \in Terminal, FinalizeLeased(p, to)
  PROVE  LedgerTypeOK' /\ Onward
  BY FinalizeKeeps, UnchangedType DEF FinalizeLeased, ledgerVars, Onward

\* What the ledger makes of a state is one of its statuses.
LEMMA StatusType ==
  ASSUME NEW s \in States
  PROVE  Status(s) \in Statuses
  BY DEF Status, Statuses, States, Pollable, Terminal

\* A request that ends, with whatever result.
LEMMA DoneType ==
  ASSUME HandlerTypeOK, NEW h \in Handlers, Done(h)
  PROVE  HandlerTypeOK'
<1>1. hpc' \in [Handlers -> {"idle", "find", "write", "complete"}]
  BY DEF HandlerTypeOK, Done, GotoH
<1>2. event' = [g \in Handlers |-> event'[g]]
  BY DEF HandlerTypeOK, Done
<1>3. \A g \in Handlers : event'[g] \in IF hpc'[g] = "idle" THEN {None} ELSE Events
  BY DEF HandlerTypeOK, Done, GotoH
<1>4. hgot' \in [Handlers -> States \cup {"none"}]
  BY DEF HandlerTypeOK, Done
<1> QED
  BY <1>1, <1>2, <1>3, <1>4 DEF HandlerTypeOK

LEMMA ReceiptEnds ==
  ASSUME ReceiptTypeOK, NEW e \in Events, NEW s \in {"completed", "failed"},
         receipt' = [receipt EXCEPT ![e] = [NoReceipt EXCEPT !.state = s]]
  PROVE  ReceiptTypeOK'
<1>1. [NoReceipt EXCEPT !.state = s] \in Receipts
  BY DEF NoReceipt, Receipts
<1> QED
  BY <1>1 DEF ReceiptTypeOK

LEMMA FailType ==
  ASSUME ReceiptTypeOK, HandlerTypeOK, NEW h \in Handlers, hpc[h] # "idle", Fail(h)
  PROVE  ReceiptTypeOK' /\ HandlerTypeOK'
<1>1. event[h] \in Events
  BY DEF HandlerTypeOK
<1>2. ReceiptTypeOK'
  <2>1. CASE MayFail(h)
    BY <1>1, <2>1, ReceiptEnds DEF Fail
  <2>2. CASE ~MayFail(h)
    BY <2>2 DEF Fail, ReceiptTypeOK
  <2> QED
    BY <2>1, <2>2
<1> QED
  BY <1>2, DoneType DEF Fail

LEMMA CompleteType ==
  ASSUME AnswerTypeOK, ReceiptTypeOK, HandlerTypeOK, RestTypeOK, NEW h \in Handlers,
         hpc[h] # "idle", Complete(h)
  PROVE  AnswerTypeOK' /\ ReceiptTypeOK' /\ HandlerTypeOK' /\ faults' \in 0..MaxFaults
<1>1. event[h] \in Events
  BY DEF HandlerTypeOK
<1>2. CASE Holds(h)
  <2>1. ReceiptTypeOK'
    BY <1>1, <1>2, ReceiptEnds DEF Complete
  <2>2. AnswerTypeOK'
    BY <1>1, <1>2 DEF Complete, Acknowledge, AnswerTypeOK
  <2>3. HandlerTypeOK'
    BY <1>2, DoneType DEF Complete
  <2>4. faults' \in 0..MaxFaults
    BY <1>2, StripeInboundAssumption DEF Complete, RestTypeOK
  <2> QED
    BY <2>1, <2>2, <2>3, <2>4
<1>3. CASE ~Holds(h)
  BY <1>3, FailType DEF Complete, Fail, AnswerTypeOK, RestTypeOK
<1> QED
  BY <1>2, <1>3

\* What a step of one kind leaves alone.
KeepsRest ==
  UNCHANGED executor /\ (UNCHANGED faults \/ (faults < MaxFaults /\ faults' = faults + 1))

LEMMA KeepsRestType ==
  ASSUME RestTypeOK, KeepsRest
  PROVE  RestTypeOK'
  BY StripeInboundAssumption DEF RestTypeOK, KeepsRest

AllTypesOK ==
  /\ StripeTypeOK /\ AnswerTypeOK /\ HistoryTypeOK /\ ReceiptTypeOK
  /\ LedgerTypeOK /\ HandlerTypeOK /\ PollerTypeOK /\ RestTypeOK

LEMMA StripeStepType ==
  ASSUME AllTypesOK, Outside
  PROVE  AllTypesOK' /\ Onward
<1> USE DEF AllTypesOK
<1>1. UNCHANGED <<answer, receiptVars, ledgerVars, executor, handlerVars, pollerVars, faults>>
  BY DEF Outside, Settles, Notify, Crowd
<1>2. StripeTypeOK'
  <2>1. CASE Settles
    BY <2>1 DEF Settles, StripeTypeOK, States
  <2>2. CASE \E e \in Events : Notify(e)
    BY <2>2, CurrentType DEF Notify, StripeTypeOK
  <2>3. CASE Crowd
    BY <2>3 DEF Crowd, StripeTypeOK
  <2> QED
    BY <2>1, <2>2, <2>3 DEF Outside
<1>3. AnswerTypeOK' /\ ReceiptTypeOK' /\ RestTypeOK'
  BY <1>1 DEF receiptVars, AnswerTypeOK, ReceiptTypeOK, RestTypeOK
<1> QED
  BY <1>1, <1>2, <1>3, UnchangedType DEF receiptVars, ledgerVars, Onward

LEMMA ExecutionType ==
  ASSUME AllTypesOK, Execution
  PROVE  AllTypesOK' /\ Onward
<1> USE DEF AllTypesOK
<1>1. UNCHANGED <<outsideVars, receiptVars, handlerVars, pollerVars>>
  BY DEF Execution, RecordAnswer, LoseAnswer, Stall
<1>2. LedgerTypeOK' /\ Onward
  <2>1. CASE RecordAnswer
    <3>1. (IF answer = "action" THEN "pending" ELSE answer) \in Statuses
      BY DEF StripeTypeOK, States, Statuses, Pollable, Terminal
    <3> QED
      BY <2>1, <3>1, UpdateAttemptKeeps DEF RecordAnswer
  <2>2. CASE LoseAnswer
    <3>1. "unknown" \in Statuses
      BY DEF Statuses, Pollable
    <3> QED
      BY <2>2, <3>1, UpdateAttemptKeeps, UnchangedType DEF LoseAnswer, ledgerVars, Onward
  <2>3. CASE Stall
    BY <2>3, UnchangedType DEF Stall, ledgerVars, Onward
  <2> QED
    BY <2>1, <2>2, <2>3 DEF Execution
<1>3. RestTypeOK'
  <2>1. executor' \in {"stalled", "done"}
    BY DEF Execution, RecordAnswer, LoseAnswer, Stall
  <2>2. faults' = faults \/ (faults < MaxFaults /\ faults' = faults + 1)
    BY DEF Execution, RecordAnswer, LoseAnswer, Stall
  <2> QED
    BY <2>1, <2>2, StripeInboundAssumption DEF RestTypeOK
<1>4. AnswerTypeOK' /\ ReceiptTypeOK'
  BY <1>1 DEF receiptVars, AnswerTypeOK, ReceiptTypeOK
<1> QED
  BY <1>1, <1>2, <1>3, <1>4, UnchangedType DEF receiptVars

LEMMA DeliverType ==
  ASSUME AllTypesOK, NEW h \in Handlers, NEW e \in Events, Deliver(h, e)
  PROVE  AnswerTypeOK' /\ ReceiptTypeOK' /\ HandlerTypeOK'
<1> USE DEF AllTypesOK
<1>1. CASE Duplicate(e) /\ Acknowledge(e) /\ UNCHANGED <<receipt, handlerVars>>
  BY <1>1, UnchangedType DEF Acknowledge, AnswerTypeOK, ReceiptTypeOK
<1>2. CASE /\ receipt' = [receipt EXCEPT
                ![e] = [state |-> "processing", token |-> h, live |-> TRUE]]
           /\ GotoH(h, "find") /\ event' = [event EXCEPT ![h] = e]
           /\ UNCHANGED <<acknowledged, hgot>>
  <2>1. [state |-> "processing", token |-> h, live |-> TRUE] \in Receipts
    BY DEF Receipts
  <2>2. ReceiptTypeOK' /\ AnswerTypeOK'
    BY <1>2, <2>1 DEF ReceiptTypeOK, AnswerTypeOK
  <2>3. hpc' \in [Handlers -> {"idle", "find", "write", "complete"}]
    BY <1>2 DEF HandlerTypeOK, GotoH
  <2>4. event' = [g \in Handlers |-> event'[g]] /\ hgot' = hgot
    BY <1>2 DEF HandlerTypeOK
  <2>5. \A g \in Handlers : event'[g] \in IF hpc'[g] = "idle" THEN {None} ELSE Events
    BY <1>2 DEF HandlerTypeOK, GotoH
  <2> QED
    BY <2>2, <2>3, <2>4, <2>5 DEF HandlerTypeOK
<1> QED
  BY <1>1, <1>2 DEF Deliver

\* A state that a request or a sweep has read has a place in the ledger.
LEMMA RequestType ==
  ASSUME AllTypesOK, ReadFromStripe, NEW h \in Handlers, Request(h)
  PROVE  AllTypesOK' /\ Onward
<1> USE DEF AllTypesOK
<1>1. UNCHANGED <<outsideVars, pollerVars>> /\ UNCHANGED executor
  BY DEF Request, Deliver, Proceed, Read, WriteAttempt, CompleteAfterWrite, Throws, HandlerDies
<1>2. CASE \E e \in Events : Deliver(h, e)
  BY <1>1, <1>2, DeliverType, UnchangedType DEF Deliver, ledgerVars, Onward, RestTypeOK
<1>3. CASE Read(h)
  <2>1. LedgerTypeOK' /\ Onward
    BY <1>3, UnchangedType DEF Read, ledgerVars, Onward
  <2>2. CASE known
    <3>1. UNCHANGED <<event, receiptVars, faults>>
      BY <1>3, <2>2 DEF Read
    <3>2. HandlerTypeOK'
      BY <1>3, <2>2, <3>1, CurrentType DEF Read, GotoH, HandlerTypeOK
    <3> QED
      BY <1>1, <2>1, <3>1, <3>2, UnchangedType
      DEF receiptVars, AnswerTypeOK, ReceiptTypeOK, RestTypeOK
  <2>3. CASE ~known
    <3>1. Complete(h) /\ hpc[h] # "idle" /\ UNCHANGED learned
      BY <1>3, <2>3 DEF Read
    <3>2. ignored' \subseteq Events
      BY <1>3, <2>3 DEF Read, HistoryTypeOK, HandlerTypeOK
    <3> QED
      BY <1>1, <2>1, <3>1, <3>2, CompleteType, UnchangedType DEF HistoryTypeOK, RestTypeOK
  <2> QED
    BY <2>2, <2>3
<1>4. CASE WriteAttempt(h)
  <2>1. hgot[h] \in States /\ Status(hgot[h]) \in Statuses
    BY <1>4, StatusType DEF WriteAttempt, ReadFromStripe
  <2>2. LedgerTypeOK' /\ Onward
    <3>1. CASE Status(hgot[h]) \in {"pending", "unknown"}
      BY <1>4, <2>1, <3>1, UpdateAttemptKeeps DEF WriteAttempt
    <3>2. CASE Status(hgot[h]) \notin {"pending", "unknown"}
      <4>1. hgot[h] \in Terminal
        BY <2>1, <3>2 DEF Status, States, Terminal
      <4> QED
        BY <1>4, <3>2, <4>1, FinalizeKeeps DEF WriteAttempt
    <3> QED
      BY <3>1, <3>2
  <2>3. HandlerTypeOK'
    BY <1>4 DEF WriteAttempt, GotoH, HandlerTypeOK
  <2> QED
    BY <1>1, <1>4, <2>2, <2>3, UnchangedType
    DEF WriteAttempt, receiptVars, AnswerTypeOK, ReceiptTypeOK, RestTypeOK
<1>5. CASE CompleteAfterWrite(h)
  <2>1. Complete(h) /\ hpc[h] # "idle" /\ UNCHANGED ignored
    BY <1>5 DEF CompleteAfterWrite
  <2>2. learned' \subseteq States
    BY <1>5 DEF CompleteAfterWrite, HistoryTypeOK, ReadFromStripe
  <2>3. LedgerTypeOK' /\ Onward
    BY <1>5, UnchangedType DEF CompleteAfterWrite, ledgerVars, Onward
  <2> QED
    BY <1>1, <2>1, <2>2, <2>3, CompleteType, UnchangedType DEF HistoryTypeOK, RestTypeOK
<1>6. CASE Throws(h)
  <2>1. AnswerTypeOK' /\ ReceiptTypeOK' /\ HandlerTypeOK'
    BY <1>6, FailType DEF Throws, Fail, AnswerTypeOK
  <2>2. RestTypeOK'
    BY <1>6, KeepsRestType DEF Throws, KeepsRest
  <2> QED
    BY <1>1, <1>6, <2>1, <2>2, UnchangedType DEF Throws, ledgerVars, Onward
<1>7. CASE HandlerDies(h)
  <2>1. HandlerTypeOK'
    BY <1>7, DoneType DEF HandlerDies
  <2>2. RestTypeOK'
    BY <1>7, KeepsRestType DEF HandlerDies, KeepsRest
  <2> QED
    BY <1>1, <1>7, <2>1, <2>2, UnchangedType
    DEF HandlerDies, receiptVars, AnswerTypeOK, ReceiptTypeOK, ledgerVars, Onward
<1> QED
  BY <1>2, <1>3, <1>4, <1>5, <1>6, <1>7 DEF Request, Proceed

LEMMA PollType ==
  ASSUME AllTypesOK, ReadFromStripe, NEW p \in Pollers, Poll(p)
  PROVE  AllTypesOK' /\ Onward
<1> USE DEF AllTypesOK
<1>0. UNCHANGED <<receiptVars, outsideVars, executor, handlerVars>>
  BY DEF Poll, Sweep, Claim, Recover, Retrieve, Reconciled, PollFails, PollerDies
<1>1. RestTypeOK'
  <2>1. KeepsRest
    BY DEF Poll, Sweep, Claim, Recover, Retrieve, Reconciled, PollFails, PollerDies, KeepsRest
  <2> QED
    BY <2>1, KeepsRestType
<1>2. AnswerTypeOK' /\ HistoryTypeOK' /\ ReceiptTypeOK' /\ StripeTypeOK' /\ HandlerTypeOK'
  BY <1>0, UnchangedType DEF receiptVars, AnswerTypeOK, ReceiptTypeOK
<1>3. PollerTypeOK'
  BY CurrentType DEF Poll, Sweep, Claim, Recover, Retrieve, Reconciled, PollFails, PollerDies, GotoP,
     PollerTypeOK, StripeTypeOK
<1>4. "quarantined" \in Terminal /\ {"pending", "unknown", "quarantined"} \subseteq Statuses
  BY DEF Terminal, Statuses, Pollable
<1>5. LedgerTypeOK' /\ Onward
  <2>1. CASE Claim(p)
    BY <2>1 DEF Claim, LedgerTypeOK, Leases, Onward
  <2>2. CASE Recover(p)
    BY <1>4, <2>2, RescheduleKeeps, UnchangedType DEF Recover, ledgerVars, Onward
  <2>3. CASE Retrieve(p) \/ PollerDies(p)
    BY <2>3, UnchangedType DEF Retrieve, PollerDies, ledgerVars, Onward
  <2>4. CASE Reconciled(p)
    <3>1. pgot[p] \in States /\ Status(pgot[p]) \in Statuses
      BY <2>4, StatusType DEF Reconciled, ReadFromStripe
    <3>2. CASE pgot[p] \in {"succeeded", "failed"} /\ FinalizeLeased(p, pgot[p])
      BY <3>2, FinalizeLeasedKeeps DEF Terminal
    <3>3. CASE FinalizeLeased(p, "quarantined")
      BY <1>4, <3>3, FinalizeLeasedKeeps
    <3>4. CASE Reschedule(p, Status(pgot[p]), TRUE)
      BY <3>1, <3>4, RescheduleKeeps
    <3> QED
      BY <2>4, <3>2, <3>3, <3>4 DEF Reconciled
  <2>5. CASE PollFails(p)
    BY <1>4, <2>5, RescheduleKeeps DEF PollFails
  <2> QED
    BY <2>1, <2>2, <2>3, <2>4, <2>5 DEF Poll, Sweep
<1> QED
  BY <1>1, <1>2, <1>3, <1>5

LEMMA ExpiryType ==
  ASSUME AllTypesOK, Expiry
  PROVE  AllTypesOK' /\ Onward
<1> USE DEF AllTypesOK
<1>0. UNCHANGED <<ledger, known, acknowledged, history, outsideVars, handlerVars, pollerVars>>
  BY DEF Expiry, LeaseExpires, ReceiptExpires, receiptVars, ledgerVars
<1>1. RestTypeOK'
  <2>1. KeepsRest
    BY DEF Expiry, LeaseExpires, ReceiptExpires, KeepsRest
  <2> QED
    BY <2>1, KeepsRestType
<1>2. CASE LeaseExpires
  <2>1. LedgerTypeOK'
    <3>1. lease.live /\ lease \in Leases
      BY <1>2 DEF LeaseExpires, LedgerTypeOK
    <3>2. lease \in [token : Pollers, live : BOOLEAN]
      BY <3>1 DEF Leases, Unleased
    <3>3. lease' \in [token : Pollers, live : BOOLEAN]
      BY <1>2, <3>2 DEF LeaseExpires
    <3> QED
      BY <1>0, <3>3 DEF LedgerTypeOK, Leases
  <2>2. UNCHANGED receipt
    BY <1>2 DEF LeaseExpires, receiptVars
  <2> QED
    BY <1>0, <1>1, <2>1, <2>2, UnchangedType DEF AnswerTypeOK, ReceiptTypeOK, Onward
<1>3. ASSUME NEW e \in Events, ReceiptExpires(e) PROVE AllTypesOK' /\ Onward
  <2>1. [receipt[e] EXCEPT !.live = FALSE] \in Receipts
    BY <1>3 DEF ReceiptExpires, ReceiptTypeOK, Receipts
  <2>2. ReceiptTypeOK' /\ UNCHANGED ledgerVars
    BY <1>3, <2>1 DEF ReceiptExpires, ReceiptTypeOK
  <2> QED
    BY <1>0, <1>1, <2>2, UnchangedType DEF AnswerTypeOK, Onward
<1> QED
  BY <1>2, <1>3 DEF Expiry

\* Every step keeps the types, and no news is taken back.
LEMMA TypeStep ==
  ASSUME IInv, [Next]_vars
  PROVE  TypeOK' /\ Tables' /\ Onward
<1>1. AllTypesOK /\ ReadFromStripe
  BY TypeParts DEF IInv, AllTypesOK
<1>2. AllTypesOK' /\ Onward
  <2>1. CASE UNCHANGED vars
    BY <1>1, <2>1, UnchangedType
    DEF vars, receiptVars, ledgerVars, AllTypesOK, AnswerTypeOK, ReceiptTypeOK, RestTypeOK, Onward
  <2> QED
    BY <1>1, <2>1, StripeStepType, ExecutionType, RequestType, PollType, ExpiryType DEF Next
<1>3. AllTypesOK' => TypeOK' /\ Tables'
  BY TypeParts, PTL DEF AllTypesOK
<1> QED
  BY <1>2, <1>3

-----------------------------------------------------------------------------
(* What a step may do.                                                     *)

\* Stripe takes nothing back but a success, and says what is so.
LEMMA StripeMoves ==
  ASSUME IInv, [Next]_vars
  PROVE  /\ \A s \in States \cup {"none"} : NotOlder(Current, s) => NotOlder(Current', s)
         /\ \A e \in Events : \/ emitted'[e] = emitted[e]
                              \/ emitted[e] = "none" /\ emitted'[e] = Current /\ refund' = refund
<1>0. TypeOK
  BY DEF IInv
<1>1. CASE Settles
  BY <1>1 DEF Settles, NotOlder
<1>2. ASSUME NEW e \in Events, Notify(e)
      PROVE  /\ refund' = refund
             /\ \A d \in Events : \/ emitted'[d] = emitted[d]
                                  \/ emitted[d] = "none" /\ emitted'[d] = Current
  BY <1>0, <1>2 DEF Notify, TypeOK
<1>3. CASE UNCHANGED outsideVars
  BY <1>3 DEF outsideVars, NotOlder
<1>4. Outside \/ UNCHANGED outsideVars
  <2>1. ASSUME NEW h \in Handlers, Request(h) PROVE UNCHANGED outsideVars
    BY <2>1 DEF Request, Deliver, Proceed, Read, WriteAttempt, CompleteAfterWrite, Throws, HandlerDies
  <2>2. ASSUME NEW p \in Pollers, Poll(p) PROVE UNCHANGED outsideVars
    BY <2>2 DEF Poll, Sweep, Claim, Recover, Retrieve, Reconciled, PollFails, PollerDies
  <2>3. Execution => UNCHANGED outsideVars
    BY DEF Execution, RecordAnswer, LoseAnswer, Stall
  <2>4. Expiry => UNCHANGED outsideVars
    BY DEF Expiry, LeaseExpires, ReceiptExpires
  <2> QED
    BY <2>1, <2>2, <2>3, <2>4 DEF Next, vars
<1> QED
  BY <1>1, <1>2, <1>3, <1>4 DEF Outside, Crowd, NotOlder

StaysPut(h) == hpc'[h] = hpc[h] /\ event'[h] = event[h] /\ hgot'[h] = hgot[h]

\* A step moves at most one request, and does so through its own actions.
LEMMA OneRequestMoves ==
  ASSUME IInv, [Next]_vars
  PROVE  \A h \in Handlers : StaysPut(h) \/ Request(h)
<1>0. HandlerTypeOK
  BY TypeParts DEF IInv
<1>1. ASSUME NEW h \in Handlers, Request(h), NEW g \in Handlers, g # h PROVE StaysPut(g)
  <2>1. CASE \E e \in Events : Deliver(h, e)
    BY <1>0, <1>1, <2>1 DEF Deliver, GotoH, handlerVars, HandlerTypeOK, StaysPut
  <2>2. CASE Read(h)
    BY <1>0, <1>1, <2>2
    DEF Read, Complete, Fail, Done, GotoH, HandlerTypeOK, StaysPut
  <2>3. CASE WriteAttempt(h)
    BY <1>0, <1>1, <2>3 DEF WriteAttempt, GotoH, HandlerTypeOK, StaysPut
  <2>4. CASE CompleteAfterWrite(h)
    BY <1>0, <1>1, <2>4 DEF CompleteAfterWrite, Complete, Fail, Done, GotoH, HandlerTypeOK, StaysPut
  <2>5. CASE Throws(h) \/ HandlerDies(h)
    BY <1>0, <1>1, <2>5 DEF Throws, HandlerDies, Fail, Done, GotoH, HandlerTypeOK, StaysPut
  <2> QED
    BY <1>1, <2>1, <2>2, <2>3, <2>4, <2>5 DEF Request, Proceed
<1>2. CASE UNCHANGED handlerVars
  BY <1>2 DEF handlerVars, StaysPut
<1>3. (\E h \in Handlers : Request(h)) \/ UNCHANGED handlerVars
  <2>1. ASSUME NEW p \in Pollers, Poll(p) PROVE UNCHANGED handlerVars
    BY <2>1 DEF Poll, Sweep, Claim, Recover, Retrieve, Reconciled, PollFails, PollerDies
  <2>2. Execution \/ Outside \/ Expiry => UNCHANGED handlerVars
    BY DEF Execution, RecordAnswer, LoseAnswer, Stall, Outside, Settles, Notify, Crowd,
       Expiry, LeaseExpires, ReceiptExpires
  <2> QED
    BY <2>1, <2>2 DEF Next, vars
<1> QED
  BY <1>1, <1>2, <1>3

\* A request gives up a receipt, or completes it.
LEMMA CompletesOne ==
  ASSUME IInv, NEW h \in Handlers, hpc[h] # "idle", Complete(h), NEW e \in Events,
         e # event[h] \/ ~Holds(h)
  PROVE  /\ receipt'[e].state = "completed" => receipt[e].state = "completed"
         /\ e \in acknowledged' => e \in acknowledged
<1>0. ReceiptTypeOK /\ event[h] \in Events
  BY TypeParts DEF IInv, HandlerTypeOK
<1>1. CASE Holds(h)
  BY <1>0, <1>1 DEF Complete, Acknowledge, ReceiptTypeOK
<1>2. CASE ~Holds(h)
  BY <1>0, <1>2 DEF Complete, Fail, MayFail
<1> QED
  BY <1>1, <1>2

Completes(h, e) ==
  /\ event[h] = e
  /\ \/ hpc[h] = "find" /\ e \in ignored'
     \/ hpc[h] = "complete"

\* A result, an answer or a history entry that is new comes from a request
\* that has ignored the notification, or written its news.
LEMMA Results ==
  ASSUME IInv, [Next]_vars
  PROVE  /\ \A e \in Events : receipt'[e].state = "completed" \/ e \in acknowledged' =>
              \/ receipt[e].state = "completed" \/ e \in acknowledged
              \/ \E h \in Handlers : Completes(h, e)
         /\ ignored \subseteq ignored'
         /\ \A s \in learned' : \/ s \in learned
                                \/ \E h \in Handlers : hpc[h] = "complete" /\ s = hgot[h]
<1> DEFINE New(e) == \/ receipt[e].state = "completed" \/ e \in acknowledged
                     \/ \E h \in Handlers : Completes(h, e)
           Old == /\ \A e \in Events : receipt'[e].state = "completed" \/ e \in acknowledged'
                                         => New(e)
                  /\ ignored \subseteq ignored'
                  /\ \A s \in learned' : \/ s \in learned
                                         \/ \E h \in Handlers : hpc[h] = "complete" /\ s = hgot[h]
<1>0. ReceiptTypeOK /\ HandlerTypeOK /\ AnswerTypeOK
  BY TypeParts DEF IInv
<1>1. CASE UNCHANGED receiptVars
  BY <1>1 DEF receiptVars, history
<1>2. ASSUME NEW e \in Events, ReceiptExpires(e) PROVE Old
  BY <1>0, <1>2 DEF ReceiptExpires, ReceiptTypeOK, history
<1>3. ASSUME NEW h \in Handlers, NEW e \in Events, Deliver(h, e) PROVE Old
  BY <1>0, <1>3 DEF Deliver, Duplicate, Acknowledge, ReceiptTypeOK, history
<1>4. ASSUME NEW h \in Handlers, Read(h) PROVE Old
  <2>1. CASE known
    BY <1>1, <1>4, <2>1 DEF Read
  <2>2. CASE ~known
    <3>1. Complete(h) /\ hpc[h] = "find" /\ UNCHANGED learned
      BY <1>4, <2>2 DEF Read
    <3>2. ignored' = IF Holds(h) THEN ignored \cup {event[h]} ELSE ignored
      BY <1>4, <2>2 DEF Read
    <3>3. Holds(h) => Completes(h, event[h])
      BY <3>1, <3>2 DEF Completes
    <3> QED
      BY <3>1, <3>2, <3>3, CompletesOne
  <2> QED
    BY <2>1, <2>2
<1>5. ASSUME NEW h \in Handlers, CompleteAfterWrite(h) PROVE Old
  <2>1. Complete(h) /\ hpc[h] = "complete" /\ UNCHANGED ignored
    BY <1>5 DEF CompleteAfterWrite
  <2>2. learned' = IF Holds(h) THEN learned \cup {hgot[h]} ELSE learned
    BY <1>5 DEF CompleteAfterWrite
  <2>3. Completes(h, event[h])
    BY <2>1 DEF Completes
  <2> QED
    BY <2>1, <2>2, <2>3, CompletesOne
<1>6. ASSUME NEW h \in Handlers, Throws(h) PROVE Old
  <2>1. event[h] \in Events
    BY <1>0, <1>6 DEF Throws, HandlerTypeOK
  <2> QED
    BY <1>0, <1>6, <2>1 DEF Throws, Fail, ReceiptTypeOK, NoReceipt, history
<1>7. ASSUME NEW h \in Handlers, WriteAttempt(h) \/ HandlerDies(h) PROVE UNCHANGED receiptVars
  BY <1>7 DEF WriteAttempt, HandlerDies
<1>8. ASSUME NEW p \in Pollers, Poll(p) PROVE UNCHANGED receiptVars
  BY <1>8 DEF Poll, Sweep, Claim, Recover, Retrieve, Reconciled, PollFails, PollerDies
<1>9. Execution \/ Outside \/ LeaseExpires => UNCHANGED receiptVars
  BY DEF Execution, RecordAnswer, LoseAnswer, Stall, Outside, Settles, Notify, Crowd, LeaseExpires
<1> QED
  BY <1>1, <1>2, <1>3, <1>4, <1>5, <1>6, <1>7, <1>8, <1>9
  DEF Next, vars, Request, Proceed, Expiry

\* The steps of one request.
LEMMA RequestGoesOn ==
  ASSUME IInv, NEW h \in Handlers, Request(h), hpc'[h] # "idle"
  PROVE  \/ hpc'[h] = "find" /\ \E e \in Events : event'[h] = e /\ emitted[e] # "none"
         \/ hpc[h] # "idle" /\ UNCHANGED <<event, refund>> /\ hpc'[h] = "write" /\ hgot'[h] = Current
         \/ hpc[h] = "write" /\ WriteAttempt(h) /\ UNCHANGED <<event, hgot>> /\ hpc'[h] = "complete"
         \/ StaysPut(h)
<1>0. HandlerTypeOK
  BY TypeParts DEF IInv
<1>1. ASSUME NEW e \in Events, Deliver(h, e)
      PROVE  \/ StaysPut(h)
             \/ hpc'[h] = "find" /\ event'[h] = e /\ emitted[e] # "none"
  BY <1>0, <1>1 DEF Deliver, GotoH, handlerVars, HandlerTypeOK, StaysPut
<1>2. CASE Read(h)
  <2>1. known
    BY <1>0, <1>2 DEF Read, Complete, Fail, Done, GotoH, HandlerTypeOK
  <2> QED
    BY <1>0, <1>2, <2>1 DEF Read, GotoH, HandlerTypeOK, outsideVars
<1>3. CASE WriteAttempt(h)
  BY <1>0, <1>3 DEF WriteAttempt, GotoH, HandlerTypeOK
<1>4. ASSUME CompleteAfterWrite(h) \/ Throws(h) \/ HandlerDies(h) PROVE FALSE
  BY <1>0, <1>4
  DEF CompleteAfterWrite, Complete, Throws, HandlerDies, Fail, Done, GotoH, HandlerTypeOK
<1> QED
  BY <1>1, <1>2, <1>3, <1>4 DEF Request, Proceed

-----------------------------------------------------------------------------
(* The parts of the invariant.                                             *)

\* What has been sent stays as it is.
LEMMA SentStays ==
  ASSUME IInv, [Next]_vars
  PROVE  \A e \in Events : emitted[e] # "none" => emitted'[e] = emitted[e]
  BY StripeMoves

LEMMA NotifiedStep ==
  ASSUME IInv, [Next]_vars
  PROVE  Notified'
<1>0. HandlerTypeOK /\ AnswerTypeOK /\ Notified
  BY TypeParts DEF IInv
<1>1. ASSUME NEW h \in Handlers, hpc'[h] # "idle" PROVE emitted'[event'[h]] # "none"
  <2>1. CASE StaysPut(h)
    <3>1. emitted[event[h]] # "none" /\ event[h] \in Events /\ event'[h] = event[h]
      BY <1>0, <1>1, <2>1 DEF StaysPut, Notified, HandlerTypeOK
    <3> QED
      BY <3>1, SentStays
  <2>2. CASE Request(h)
    <3>1. ASSUME hpc[h] # "idle", UNCHANGED event PROVE emitted'[event'[h]] # "none"
      <4>1. emitted[event[h]] # "none" /\ event[h] \in Events
        BY <1>0, <3>1 DEF Notified, HandlerTypeOK
      <4> QED
        BY <3>1, <4>1, SentStays
    <3> QED
      BY <1>1, <2>1, <2>2, <3>1, RequestGoesOn, SentStays
  <2> QED
    BY <2>1, <2>2, OneRequestMoves
<1>2. \A e \in Events : receipt'[e].state = "completed" \/ e \in acknowledged' => emitted'[e] # "none"
  BY <1>0, Results, SentStays DEF Notified, Completes
<1>3. acknowledged' \subseteq Events
  BY TypeStep DEF TypeOK
<1> QED
  BY <1>1, <1>2, <1>3 DEF Notified

LEMMA SweepReads ==
  ASSUME IInv, [Next]_vars, NEW p \in Pollers, ppc'[p] \in {"recovered", "read"}
  PROVE  pgot'[p] \in States
<1>0. PollerTypeOK /\ StripeTypeOK /\ ReadFromStripe
  BY TypeParts DEF IInv
<1>1. CASE UNCHANGED pollerVars
  BY <1>0, <1>1 DEF pollerVars, ReadFromStripe
<1>2. ASSUME NEW q \in Pollers, Poll(q) PROVE pgot'[p] \in States
  <2>1. CASE Claim(q) \/ PollFails(q)
    BY <1>0, <2>1 DEF Claim, PollFails, GotoP, PollerTypeOK, ReadFromStripe
  <2>2. CASE Recover(q)
    BY <1>0, <2>2 DEF Recover, GotoP, PollerTypeOK, StripeTypeOK, ReadFromStripe
  <2>3. CASE Retrieve(q)
    BY <1>0, <2>3, CurrentType DEF Retrieve, PollerTypeOK, ReadFromStripe
  <2>4. CASE Reconciled(q) \/ PollerDies(q)
    BY <1>0, <2>4 DEF Reconciled, PollerDies, PollerTypeOK, ReadFromStripe
  <2> QED
    BY <1>2, <2>1, <2>2, <2>3, <2>4 DEF Poll, Sweep
<1>3. (\E q \in Pollers : Poll(q)) \/ UNCHANGED pollerVars
  <2>1. ASSUME NEW h \in Handlers, Request(h) PROVE UNCHANGED pollerVars
    BY <2>1 DEF Request, Deliver, Proceed, Read, WriteAttempt, CompleteAfterWrite, Throws, HandlerDies
  <2>2. Execution \/ Outside \/ Expiry => UNCHANGED pollerVars
    BY DEF Execution, RecordAnswer, LoseAnswer, Stall, Outside, Settles, Notify, Crowd,
       Expiry, LeaseExpires, ReceiptExpires
  <2> QED
    BY <2>1, <2>2 DEF Next, vars
<1> QED
  BY <1>1, <1>2, <1>3

LEMMA ReadFromStripeStep ==
  ASSUME IInv, [Next]_vars
  PROVE  ReadFromStripe'
<1>0. HandlerTypeOK /\ StripeTypeOK /\ Notified /\ ReadFromStripe
  BY TypeParts DEF IInv
<1>1. ASSUME NEW e \in Events PROVE NotOlder(Current', emitted'[e])
  <2>1. emitted[e] \in States \cup {"none"} /\ NotOlder(Current, emitted[e])
    BY <1>0 DEF StripeTypeOK, ReadFromStripe
  <2>2. CASE emitted'[e] = emitted[e]
    BY <2>1, <2>2, StripeMoves
  <2>3. CASE emitted'[e] = Current /\ refund' = refund
    BY <2>3 DEF NotOlder
  <2> QED
    BY <2>2, <2>3, StripeMoves
<1>2. ASSUME NEW h \in Handlers, hpc'[h] \in {"write", "complete"}
      PROVE  hgot'[h] \in States /\ NotOlder(hgot'[h], emitted'[event'[h]])
  <2>1. ASSUME hpc[h] \in {"write", "complete"}, event'[h] = event[h], hgot'[h] = hgot[h]
        PROVE  hgot'[h] \in States /\ NotOlder(hgot'[h], emitted'[event'[h]])
    <3>1. hgot[h] \in States /\ NotOlder(hgot[h], emitted[event[h]])
      BY <1>0, <2>1 DEF ReadFromStripe
    <3>2. event[h] \in Events /\ emitted[event[h]] # "none"
      BY <1>0, <2>1 DEF HandlerTypeOK, Notified
    <3> QED
      BY <2>1, <3>1, <3>2, SentStays
  <2>2. CASE StaysPut(h)
    BY <1>2, <2>1, <2>2 DEF StaysPut
  <2>3. CASE Request(h)
    <3>1. ASSUME hpc[h] # "idle", UNCHANGED <<event, refund>>, hgot'[h] = Current
          PROVE  hgot'[h] \in States /\ NotOlder(hgot'[h], emitted'[event'[h]])
      <4>1. event[h] \in Events
        BY <1>0, <3>1 DEF HandlerTypeOK
      <4>2. NotOlder(Current', emitted'[event[h]])
        BY <1>1, <4>1
      <4> QED
        BY <1>0, <3>1, <4>2, CurrentType
    <3> QED
      BY <1>2, <2>1, <2>2, <2>3, <3>1, RequestGoesOn
  <2> QED
    BY <2>2, <2>3, OneRequestMoves
<1> QED
  BY <1>1, <1>2, SweepReads DEF ReadFromStripe

\* No step takes away what the ledger reflects.
LEMMA ReflectedStays ==
  ASSUME IInv, [Next]_vars, NEW s, Reflected(s)
  PROVE  Reflected(s)'
  BY TypeStep DEF Reflected, Onward

LEMMA NewsInLedger ==
  ASSUME IInv, [Next]_vars, NEW e \in Events \ ignored',
         receipt'[e].state = "completed" \/ e \in acknowledged'
  PROVE  Reflected(emitted[e])' /\ emitted'[e] = emitted[e]
<1>0. Notified /\ ReadFromStripe /\ WrittenIsReflected /\ AcknowledgedIsReflected
  BY DEF IInv
<1>1. emitted'[e] = emitted[e]
  <2>1. emitted[e] # "none"
    BY <1>0, Results DEF Notified, Completes
  <2> QED
    BY <2>1, SentStays
<1>2. Reflected(emitted[e])
  <2>1. CASE receipt[e].state = "completed" \/ e \in acknowledged
    BY <1>0, <2>1, Results DEF WrittenIsReflected, AcknowledgedIsReflected, Reflected, Lost
  <2>2. CASE \E h \in Handlers : Completes(h, e)
    <3>1. PICK h \in Handlers : Completes(h, e)
      BY <2>2
    <3>2. event[h] = e /\ hpc[h] = "complete"
      BY <3>1 DEF Completes
    <3>3. Reflected(hgot[h]) /\ NotOlder(hgot[h], emitted[e])
      BY <1>0, <3>2 DEF WrittenIsReflected, ReadFromStripe
    <3> QED
      BY <3>3 DEF Reflected, NotOlder, Lost, Terminal
  <2> QED
    BY <2>1, <2>2, Results
<1>3. ASSUME NEW s, Reflected(s), s = emitted'[e] PROVE Reflected(emitted[e])'
  BY <1>3, ReflectedStays DEF Reflected
<1> QED
  BY <1>1, <1>2, <1>3

LEMMA WrittenIsReflectedStep ==
  ASSUME IInv, [Next]_vars
  PROVE  WrittenIsReflected'
<1>0. HandlerTypeOK /\ LedgerTypeOK /\ ReadFromStripe /\ WrittenIsReflected
  BY TypeParts DEF IInv
<1>1. ASSUME NEW h \in Handlers, hpc'[h] = "complete" PROVE Reflected(hgot[h])'
  <2>1. CASE StaysPut(h)
    <3>1. Reflected(hgot[h]) /\ hgot'[h] = hgot[h]
      BY <1>0, <1>1, <2>1 DEF StaysPut, WrittenIsReflected
    <3> QED
      BY <3>1, TypeStep DEF Reflected, Onward
  <2>2. CASE WriteAttempt(h) /\ UNCHANGED hgot
    <3>1. hgot[h] \in States
      BY <1>0, <2>2 DEF WriteAttempt, ReadFromStripe
    <3>2. CASE hgot[h] \in {"succeeded", "failed"}
      <4>1. Finalize(hgot[h])
        BY <2>2, <3>2 DEF WriteAttempt, Status
      <4> QED
        BY <1>0, <2>2, <3>2, <4>1
        DEF Finalize, MayFinalize, Reflected, Lost, LedgerTypeOK, ledgerVars, Terminal
    <3>3. CASE hgot[h] \notin {"succeeded", "failed"}
      BY <2>2, <3>3 DEF Reflected
    <3> QED
      BY <3>2, <3>3
  <2> QED
    BY <1>1, <2>1, <2>2, OneRequestMoves, RequestGoesOn
<1> QED
  BY <1>1, NewsInLedger DEF WrittenIsReflected

LEMMA AcknowledgedStep ==
  ASSUME IInv, [Next]_vars
  PROVE  AcknowledgedIsReflected'
<1>1. acknowledged' \subseteq Events
  BY TypeStep DEF TypeOK
<1> QED
  BY <1>1, NewsInLedger DEF AcknowledgedIsReflected, Reflected, Lost

LEMMA LearnedStep ==
  ASSUME IInv, [Next]_vars
  PROVE  LearnedIsKept'
<1>1. ASSUME NEW s \in learned' PROVE Reflected(s)
  BY Results DEF IInv, WrittenIsReflected, LearnedIsKept, Reflected, Lost
<1>2. \A s \in learned' : Reflected(s)'
  BY <1>1, TypeStep DEF Reflected, Onward
<1> QED
  BY <1>2 DEF LearnedIsKept, Reflected, Lost

-----------------------------------------------------------------------------
(* The theorem.                                                            *)

LEMMA InitInvariant == Init => IInv
<1> SUFFICES ASSUME Init PROVE IInv
  OBVIOUS
<1>1. StripeTypeOK
  BY StripeInboundAssumption DEF Init, StripeTypeOK, States
<1>2. ReceiptTypeOK /\ AnswerTypeOK /\ HistoryTypeOK
  BY DEF Init, ReceiptTypeOK, AnswerTypeOK, HistoryTypeOK, Receipts, NoReceipt
<1>3. LedgerTypeOK
  BY DEF Init, LedgerTypeOK, Statuses, Pollable, Leases
<1>4. HandlerTypeOK
  BY DEF Init, HandlerTypeOK
<1>5. PollerTypeOK /\ RestTypeOK
  BY StripeInboundAssumption DEF Init, PollerTypeOK, RestTypeOK
<1>6. TypeOK /\ Tables
  BY <1>1, <1>2, <1>3, <1>4, <1>5, TypeParts
<1>7. Notified /\ WrittenIsReflected /\ AcknowledgedIsReflected /\ LearnedIsKept
  BY DEF Init, Notified, WrittenIsReflected, AcknowledgedIsReflected, LearnedIsKept, NoReceipt
<1>8. ReadFromStripe
  BY DEF Init, ReadFromStripe, NotOlder
<1> QED
  BY <1>6, <1>7, <1>8 DEF IInv

LEMMA InvariantStep == IInv /\ [Next]_vars => IInv'
  BY TypeStep, NotifiedStep, ReadFromStripeStep, WrittenIsReflectedStep, AcknowledgedStep,
     LearnedStep DEF IInv

LEMMA Invariant == Spec => []IInv
  BY InitInvariant, InvariantStep, PTL DEF Spec

\* webhook-routes.ts and case-store-financial.ts: what the application has
\* answered for, and what it has read of the refund, is in the ledger and is
\* never undone by a request or a sweep that read the refund earlier.
THEOREM NewsIsNeverLost == Spec => []NewsIsKept
<1>1. IInv => NewsIsKept
  BY DEF IInv, NewsIsKept
<1> QED
  BY <1>1, Invariant, PTL

-----------------------------------------------------------------------------
(* The refinement of RefundLedger.                                         *)

Paid == {"succeeded", "reversed"}
Gone == {"failed", "reversed"}

\* The refund was paid, or is gone, if this says so.
Held(s) == (s = "succeeded" => refund \in Paid) /\ (s = "failed" => refund \in Gone)

\* Stripe's first answer, the ledger, the requests and the sweeps hold only
\* what was so.
FromStripe ==
  /\ Held(answer) /\ Held(ledger)
  /\ \A h \in Handlers : hpc[h] \in {"write", "complete"} => Held(hgot[h])
  /\ \A p \in Pollers : ppc[p] \in {"recovered", "read"} => Held(pgot[p])

LInv == IInv /\ FromStripe

LEMMA RefundMoves ==
  ASSUME [Next]_vars
  PROVE  /\ UNCHANGED answer
         /\ UNCHANGED refund \/ (Settles /\ UNCHANGED ledger)
<1>1. Outside => UNCHANGED <<answer, ledger>> /\ (UNCHANGED refund \/ Settles)
  BY DEF Outside, Settles, Notify, Crowd, ledgerVars
<1>2. ASSUME NEW h \in Handlers, Request(h) PROVE UNCHANGED outsideVars
  BY <1>2 DEF Request, Deliver, Proceed, Read, WriteAttempt, CompleteAfterWrite, Throws, HandlerDies
<1>3. ASSUME NEW p \in Pollers, Poll(p) PROVE UNCHANGED outsideVars
  BY <1>3 DEF Poll, Sweep, Claim, Recover, Retrieve, Reconciled, PollFails, PollerDies
<1>4. Execution \/ Expiry => UNCHANGED outsideVars
  BY DEF Execution, RecordAnswer, LoseAnswer, Stall, Expiry, LeaseExpires, ReceiptExpires
<1> QED
  BY <1>1, <1>2, <1>3, <1>4 DEF Next, vars, outsideVars

\* What was so of the refund stays so.
LEMMA HeldStays ==
  ASSUME [Next]_vars, NEW s, Held(s)
  PROVE  (s = "succeeded" => refund' \in Paid) /\ (s = "failed" => refund' \in Gone)
  BY RefundMoves DEF Held, Settles, Paid, Gone

\* A step writes to the ledger what its party holds, over an open attempt or,
\* if the refund is gone, over a success.
Writes ==
  \/ UNCHANGED ledger
  \/ ledger \notin Terminal /\ Held(ledger')
  \/ ledger = "succeeded" /\ ledger' = "failed" /\ refund \in Gone

LEMMA FinalizeWrites ==
  ASSUME NEW to \in Terminal, Held(to), Finalize(to)
  PROVE  Writes
<1>1. CASE MayFinalize(to)
  <2>1. ledger' = to
    BY <1>1 DEF Finalize
  <2>2. CASE ledger \in {"succeeded", "failed"} /\ to = "failed"
    BY <2>1, <2>2 DEF Writes, Held
  <2>3. CASE ledger \notin Terminal
    BY <2>1, <2>3 DEF Writes
  <2> QED
    BY <1>1, <2>2, <2>3 DEF MayFinalize
<1>2. CASE ~MayFinalize(to)
  BY <1>2 DEF Finalize, ledgerVars, Writes
<1> QED
  BY <1>1, <1>2

LEMMA LedgerWrites ==
  ASSUME LInv, [Next]_vars
  PROVE  Writes
<1>0. FromStripe /\ ReadFromStripe /\ StripeTypeOK
  BY TypeParts DEF LInv, IInv
<1>1. ASSUME NEW to, NEW knows, Held(to), UpdateAttempt(to, knows) PROVE Writes
  BY <1>1 DEF UpdateAttempt, ledgerVars, Writes
<1>2. ASSUME NEW to, NEW knows, NEW p, Held(to), Reschedule(p, to, knows) PROVE Writes
  BY <1>2 DEF Reschedule, ledgerVars, Writes
<1>3. Held("pending") /\ Held("unknown") /\ Held("quarantined")
  BY DEF Held
<1>4. ASSUME NEW s, Held(s) PROVE Held(Status(s))
  BY <1>4 DEF Held, Status
<1>5. CASE Execution
  <2>1. Held(IF answer = "action" THEN "pending" ELSE answer)
    BY <1>0, <1>3 DEF FromStripe
  <2> QED
    BY <1>1, <1>3, <1>5, <2>1 DEF Execution, RecordAnswer, LoseAnswer, Stall, ledgerVars, Writes
<1>6. ASSUME NEW h \in Handlers, Request(h) PROVE Writes
  <2>1. CASE WriteAttempt(h)
    <3>1. Held(hgot[h]) /\ hgot[h] \in States
      BY <1>0, <2>1 DEF WriteAttempt, FromStripe, ReadFromStripe
    <3>2. CASE Status(hgot[h]) \in {"pending", "unknown"}
      BY <1>1, <1>4, <2>1, <3>1, <3>2 DEF WriteAttempt
    <3>3. CASE Status(hgot[h]) \notin {"pending", "unknown"}
      <4>1. hgot[h] \in Terminal
        BY <3>1, <3>3 DEF Status, States, Terminal
      <4> QED
        BY <2>1, <3>1, <3>3, <4>1, FinalizeWrites DEF WriteAttempt
    <3> QED
      BY <3>2, <3>3
  <2>2. CASE ~WriteAttempt(h)
    BY <1>6, <2>2 DEF Request, Deliver, Proceed, Read, CompleteAfterWrite, Throws, HandlerDies,
       ledgerVars, Writes
  <2> QED
    BY <2>1, <2>2
<1>7. ASSUME NEW p \in Pollers, Poll(p) PROVE Writes
  <2>1. CASE Reconciled(p)
    <3>1. Held(pgot[p])
      BY <1>0, <2>1 DEF Reconciled, FromStripe
    <3>2. CASE pgot[p] \in {"succeeded", "failed"} /\ FinalizeLeased(p, pgot[p])
      BY <3>1, <3>2, FinalizeWrites DEF FinalizeLeased, Terminal, ledgerVars, Writes
    <3>3. CASE FinalizeLeased(p, "quarantined")
      BY <1>3, <3>3, FinalizeWrites DEF FinalizeLeased, Terminal, ledgerVars, Writes
    <3>4. CASE Reschedule(p, Status(pgot[p]), TRUE)
      BY <1>2, <1>4, <3>1, <3>4
    <3> QED
      BY <2>1, <3>2, <3>3, <3>4 DEF Reconciled
  <2>2. CASE Recover(p) \/ PollFails(p)
    BY <1>2, <1>3, <2>2 DEF Recover, PollFails, ledgerVars, Writes
  <2>3. CASE Claim(p) \/ Retrieve(p) \/ PollerDies(p)
    BY <2>3 DEF Claim, Retrieve, PollerDies, ledgerVars, Writes
  <2> QED
    BY <1>7, <2>1, <2>2, <2>3 DEF Poll, Sweep
<1>8. CASE Outside \/ Expiry \/ UNCHANGED vars
  BY <1>8 DEF Outside, Settles, Notify, Crowd, Expiry, LeaseExpires, ReceiptExpires, vars, ledgerVars, Writes
<1> QED
  BY <1>5, <1>6, <1>7, <1>8 DEF Next

\* What a request or a sweep reads is so.
LEMMA ReadIsHeld ==
  ASSUME LInv, [Next]_vars
  PROVE  /\ \A h \in Handlers : hpc'[h] \in {"write", "complete"} => Held(hgot'[h])
         /\ \A p \in Pollers : ppc'[p] \in {"recovered", "read"} => Held(pgot'[p])
<1>0. FromStripe /\ IInv /\ PollerTypeOK /\ Held(Current)
  BY TypeParts DEF LInv, IInv, Held, Paid, Gone
<1>1. ASSUME NEW h \in Handlers, hpc'[h] \in {"write", "complete"} PROVE Held(hgot'[h])
  <2>1. CASE StaysPut(h)
    BY <1>0, <1>1, <2>1 DEF StaysPut, FromStripe
  <2>2. CASE Request(h)
    <3>1. CASE hgot'[h] = Current
      BY <1>0, <3>1
    <3>2. CASE hpc[h] = "write" /\ UNCHANGED hgot
      BY <1>0, <3>2 DEF FromStripe
    <3> QED
      BY <1>0, <1>1, <2>1, <2>2, <3>1, <3>2, RequestGoesOn
  <2> QED
    BY <1>0, <2>1, <2>2, OneRequestMoves
<1>2. ASSUME NEW p \in Pollers, ppc'[p] \in {"recovered", "read"} PROVE Held(pgot'[p])
  <2>1. CASE UNCHANGED pollerVars
    BY <1>0, <1>2, <2>1 DEF pollerVars, FromStripe
  <2>2. ASSUME NEW q \in Pollers, Poll(q) PROVE Held(pgot'[p])
    <3>1. CASE Claim(q) \/ PollFails(q)
      BY <1>0, <1>2, <3>1 DEF Claim, PollFails, GotoP, PollerTypeOK, FromStripe
    <3>2. CASE Recover(q)
      BY <1>0, <1>2, <3>2 DEF Recover, GotoP, PollerTypeOK, FromStripe
    <3>3. CASE Retrieve(q)
      BY <1>0, <1>2, <3>3 DEF Retrieve, PollerTypeOK, FromStripe
    <3>4. CASE Reconciled(q) \/ PollerDies(q)
      BY <1>0, <1>2, <3>4 DEF Reconciled, PollerDies, PollerTypeOK, FromStripe
    <3> QED
      BY <2>2, <3>1, <3>2, <3>3, <3>4 DEF Poll, Sweep
  <2>3. (\E q \in Pollers : Poll(q)) \/ UNCHANGED pollerVars
    <3>1. ASSUME NEW h \in Handlers, Request(h) PROVE UNCHANGED pollerVars
      BY <3>1 DEF Request, Deliver, Proceed, Read, WriteAttempt, CompleteAfterWrite, Throws, HandlerDies
    <3>2. Execution \/ Outside \/ Expiry => UNCHANGED pollerVars
      BY DEF Execution, RecordAnswer, LoseAnswer, Stall, Outside, Settles, Notify, Crowd,
         Expiry, LeaseExpires, ReceiptExpires
    <3> QED
      BY <3>1, <3>2 DEF Next, vars
  <2> QED
    BY <2>1, <2>2, <2>3
<1> QED
  BY <1>1, <1>2

LEMMA FromStripeStep == LInv /\ [Next]_vars => FromStripe'
<1> SUFFICES ASSUME LInv, [Next]_vars PROVE FromStripe'
  OBVIOUS
<1>0. FromStripe
  BY DEF LInv
<1>1. ASSUME NEW s, Held(s)
      PROVE  (s = "succeeded" => refund' \in Paid) /\ (s = "failed" => refund' \in Gone)
  BY <1>1, HeldStays
<1>2. Held(answer) /\ answer' = answer
  BY <1>0, RefundMoves DEF FromStripe
<1>3. Held(ledger')
  BY <1>0, LedgerWrites DEF Writes, FromStripe, Held
<1> QED
  BY <1>1, <1>2, <1>3, ReadIsHeld DEF FromStripe, Held

LEMMA LedgerInvariant == Spec => []LInv
<1>1. Init => FromStripe
  BY DEF Init, FromStripe, Held, Paid, Gone
<1> QED
  BY <1>1, InitInvariant, InvariantStep, FromStripeStep, PTL DEF Spec, LInv

\* What the mapping shows of the refund and of the attempt.
AtStripe == CASE refund \in {"pending", "action"} -> "open"
              [] refund = "succeeded" -> "paid"
              [] OTHER -> refund
InLedger == IF ledger \in Terminal THEN ledger ELSE "open"

LEMMA LedgerRefines ==
  ASSUME LInv, [Next]_vars
  PROVE  Ledger!Next \/ UNCHANGED <<AtStripe, InLedger>>
<1> USE DEF AtStripe, InLedger, Ledger!Next
<1>0. FromStripe /\ IInv /\ ledger \in Statuses /\ ledger' \in Statuses
  BY TypeStep DEF LInv, IInv, TypeOK, Statuses
<1>1. CASE Settles /\ UNCHANGED ledger
  BY <1>1 DEF Settles, Ledger!Settle
<1>2. CASE UNCHANGED refund
  <2>0. UNCHANGED AtStripe
    BY <1>2
  <2>1. CASE UNCHANGED ledger
    BY <2>0, <2>1
  <2>2. CASE ledger \notin Terminal /\ ledger' \notin Terminal
    BY <2>0, <2>2
  <2>3. CASE ledger \notin Terminal /\ ledger' = "succeeded" /\ refund \in Paid
    BY <1>2, <2>3 DEF Ledger!Succeed, Ledger!Paid, Paid, Terminal
  <2>4. CASE ledger \notin Terminal /\ ledger' = "failed" /\ refund \in Gone
    BY <1>2, <2>4 DEF Ledger!Fail, Ledger!Gone, Gone, Terminal
  <2>5. CASE ledger \notin Terminal /\ ledger' = "quarantined"
    BY <1>2, <2>5 DEF Ledger!GiveUp, Terminal
  <2>6. CASE ledger = "succeeded" /\ ledger' = "failed" /\ refund \in Gone
    <3>1. refund = "reversed"
      BY <1>0, <2>6 DEF FromStripe, Held, Paid, Gone
    <3> QED
      BY <1>2, <2>6, <3>1 DEF Ledger!Reverse, Terminal
  <2> QED
    BY <2>1, <2>2, <2>3, <2>4, <2>5, <2>6, LedgerWrites DEF Writes, Held, Terminal
<1> QED
  BY <1>1, <1>2, RefundMoves

\* webhook.ts, reconciliation.ts and case-store-financial.ts: whichever request
\* or sweep writes last, and whatever it read how long ago, a success and a
\* failure in the ledger are Stripe's, and a success is taken back only when
\* the refund was reversed.
THEOREM LedgerIsKept == Spec => ImplementsLedger
<1>1. Init => Ledger!Init
  BY StripeInboundAssumption DEF Init, Ledger!Init, Terminal
<1>2. LInv /\ [Next]_vars => [Ledger!Next]_<<AtStripe, InLedger, {}>>
  BY LedgerRefines
<1> QED
  BY <1>1, <1>2, LedgerInvariant, PTL
  DEF Spec, ImplementsLedger, Ledger!Spec, AtStripe, InLedger

==============================================================================

---------------------------- MODULE StripeInbound ----------------------------
(***************************************************************************)
(* How the ledger learns what became of one refund at Stripe: from the     *)
(* notifications of Stripe, each with a receipt that is claimed, completed *)
(* or failed; and from a poll under a lease of the attempt.  Both read the *)
(* refund again and write what they read; only the poll needs its lease.   *)
(*                                                                         *)
(* Stripe repeats a notification until it is answered with success, and    *)
(* may deliver it twice, late or at the same time.  The execution of the   *)
(* refund (see Refund) is reduced to the record of Stripe's first answer.  *)
(***************************************************************************)
EXTENDS Naturals

CONSTANTS
  Events,     \* notifications about the refund, numbered as they are sent
  Handlers,   \* requests of Stripe
  Pollers,    \* reconciliation sweeps
  None,
  PostAnswers,  \* states of a refund that Stripe has just created
  MaxFaults   \* bound: crashes, failed reads, leases that expire under work

ASSUME StripeInboundAssumption ==
  /\ Events \subseteq Nat /\ None \notin Handlers \cup Pollers \cup Events
  /\ PostAnswers \subseteq {"pending", "action", "succeeded", "failed"}
  /\ MaxFaults \in Nat

VARIABLES
  refund, answer,     \* at Stripe: the refund ("reversed": paid, then failed), the
                      \* stored answer to its key
  emitted,            \* notifications, with the state they were sent for
  crowded,            \* ten other due attempts wait longer to be polled
  acknowledged,       \* notifications answered with success
  receipt,            \* support_stripe_webhook_receipts: state, token, lease
  ledger, known,      \* the attempt: status, refund_id recorded
  lease,              \* reconcile_lease_token, reconcile_lease_until
  executor,           \* the dispatch that executes the refund: "live", "stalled"
                      \* (its lease is over), "done"
  hpc, event, hgot,   \* of each request: step, notification, state it read
  ppc, pgot,          \* of each sweep: step, state it read
  faults,
  ignored,            \* receipts completed without a known attempt (history)
  learned             \* states read by requests that completed (history)

outsideVars == <<refund, answer, emitted, crowded>>
history == <<ignored, learned>>
receiptVars == <<acknowledged, receipt, history>>
ledgerVars == <<ledger, known, lease>>
handlerVars == <<hpc, event, hgot>>
pollerVars == <<ppc, pgot>>
vars == <<outsideVars, receiptVars, ledgerVars, executor, handlerVars, pollerVars, faults>>

States == {"pending", "action", "succeeded", "failed"}
Terminal == {"succeeded", "failed", "quarantined"}
Pollable == {"prepared", "pending", "unknown", "succeeded"}
NoReceipt == [state |-> "none", token |-> None, live |-> FALSE]
Unleased == [token |-> None, live |-> FALSE]

-----------------------------------------------------------------------------
(* Stripe.                                                                 *)

\* What a read returns.
Current == IF refund = "reversed" THEN "failed" ELSE refund

Settles ==
  /\ \/ refund = "pending" /\ refund' \in {"action", "succeeded", "failed"}
     \/ refund = "action" /\ refund' \in {"pending", "succeeded", "failed"}
     \/ refund = "succeeded" /\ refund' = "reversed"
  /\ UNCHANGED <<answer, emitted, crowded, receiptVars, ledgerVars, executor, handlerVars,
                 pollerVars, faults>>

Notify(e) ==
  /\ emitted[e] = "none" /\ \A d \in Events : d < e => emitted[d] # "none"
  /\ emitted' = [emitted EXCEPT ![e] = Current]
  /\ UNCHANGED <<refund, answer, crowded, receiptVars, ledgerVars, executor, handlerVars,
                 pollerVars, faults>>

\* Other refunds become due, or are polled and settled: a success that is found
\* unchanged is due again as soon as its lease is over, and no less old.
Crowd ==
  /\ crowded' = ~crowded
  /\ UNCHANGED <<refund, answer, emitted, receiptVars, ledgerVars, executor, handlerVars,
                 pollerVars, faults>>

-----------------------------------------------------------------------------
(* Statements on the attempt.                                              *)

\* refundStatus: what the ledger makes of a state of Stripe.
Status(state) == IF state = "action" THEN "unknown" ELSE state

\* updateStripeRefundAttempt: no lease, and it takes away that of a poll.
UpdateAttempt(to, knows) ==
  IF ledger \notin Terminal \/ ledger = to
  THEN ledger' = to /\ known' = (known \/ knows) /\ lease' = Unleased
  ELSE UNCHANGED ledgerVars

\* Mutant: only a failure is final.
MayFinalizeUnlessFailed(to) == ledger # "failed" \/ to = "failed"

\* finalizeStripeRefundReconciliation
MayFinalize(to) ==
  \/ ledger \notin Terminal
  \/ ledger \in {"succeeded", "failed"} /\ to = "failed"

Finalize(to) ==
  IF MayFinalize(to)
  THEN ledger' = to /\ known' = TRUE /\ lease' = Unleased
  ELSE UNCHANGED ledgerVars

\* rescheduleStripeRefundAttempt
Reschedule(p, to, knows) ==
  IF lease.token = p /\ lease.live /\ ledger \notin Terminal
  THEN ledger' = to /\ known' = (known \/ knows) /\ lease' = Unleased
  ELSE UNCHANGED ledgerVars

FinalizeLeased(p, to) ==
  IF lease.token = p /\ lease.live THEN Finalize(to) ELSE UNCHANGED ledgerVars

-----------------------------------------------------------------------------
(* The tool that executes the refund.                                      *)

\* The answer to the POST is recorded and the dispatch ends.
RecordAnswer ==
  /\ executor # "done" /\ executor' = "done"
  /\ UpdateAttempt(IF answer = "action" THEN "pending" ELSE answer, TRUE)
  /\ UNCHANGED <<outsideVars, receiptVars, handlerVars, pollerVars, faults>>

\* The answer is lost, with or without its worker.
LoseAnswer ==
  /\ executor # "done" /\ executor' = "done"
  /\ faults < MaxFaults /\ faults' = faults + 1
  /\ UpdateAttempt("unknown", FALSE) \/ UNCHANGED ledgerVars
  /\ UNCHANGED <<outsideVars, receiptVars, handlerVars, pollerVars>>

Stall ==
  /\ executor = "live" /\ executor' = "stalled"
  /\ faults < MaxFaults /\ faults' = faults + 1
  /\ UNCHANGED <<outsideVars, receiptVars, ledgerVars, handlerVars, pollerVars>>

-----------------------------------------------------------------------------
(* A request of Stripe (stripeWebhookRoute).                               *)

GotoH(h, label) == hpc' = [hpc EXCEPT ![h] = label]

Acknowledge(e) == acknowledged' = acknowledged \cup {e}

\* Mutant: a receipt that somebody has claimed is never claimed again.
FreeIfNew(e) == receipt[e].state = "none"

\* claimStripeWebhookEvent: new, failed, or claimed with a lease that is over.
Free(e) == receipt[e].state \in {"none", "failed"}
           \/ (receipt[e].state = "processing" /\ ~receipt[e].live)

\* Mutant: a notification that is being processed is answered like one that was.
DuplicateOrActive(e) == receipt[e].state # "none" /\ ~Free(e)

Duplicate(e) == receipt[e].state = "completed"

Deliver(h, e) ==
  /\ hpc[h] = "idle" /\ emitted[e] # "none"
  /\ \/ /\ Duplicate(e)
        /\ Acknowledge(e)
        /\ UNCHANGED <<receipt, handlerVars>>
     \/ /\ Free(e)
        /\ receipt' = [receipt EXCEPT
             ![e] = [state |-> "processing", token |-> h, live |-> TRUE]]
        /\ GotoH(h, "find") /\ event' = [event EXCEPT ![h] = e]
        /\ UNCHANGED <<acknowledged, hgot>>
  /\ UNCHANGED <<history, outsideVars, ledgerVars, executor, pollerVars, faults>>

Done(h) ==
  /\ GotoH(h, "idle") /\ event' = [event EXCEPT ![h] = None]
  /\ hgot' = [hgot EXCEPT ![h] = "none"]

Holds(h) == LET r == receipt[event[h]] IN r.state = "processing" /\ r.token = h

MayFail(h) == Holds(h)

\* failStripeWebhookEvent
Fail(h) ==
  /\ receipt' = IF MayFail(h)
                THEN [receipt EXCEPT ![event[h]] = [NoReceipt EXCEPT !.state = "failed"]]
                ELSE receipt
  /\ Done(h)
  /\ UNCHANGED acknowledged

\* completeStripeWebhookEvent, then the answer, which may be lost; whoever has
\* lost the receipt goes on to fail it.
Complete(h) ==
  LET e == event[h] IN
  IF Holds(h)
  THEN /\ receipt' = [receipt EXCEPT ![e] = [NoReceipt EXCEPT !.state = "completed"]]
       /\ \/ Acknowledge(e) /\ UNCHANGED faults
          \/ faults < MaxFaults /\ faults' = faults + 1 /\ UNCHANGED acknowledged
       /\ Done(h)
  ELSE Fail(h) /\ UNCHANGED faults

\* The attempt is found by the id of the refund, and the refund is read again
\* (reconcileRefund), whatever the notification says.  A refund that no attempt
\* has recorded is none of the application's.
Read(h) ==
  /\ hpc[h] = "find"
  /\ IF known
     THEN /\ GotoH(h, "write") /\ hgot' = [hgot EXCEPT ![h] = Current]
          /\ UNCHANGED <<event, receiptVars, faults>>
     ELSE /\ Complete(h) /\ UNCHANGED learned
          /\ ignored' = IF Holds(h) THEN ignored \cup {event[h]} ELSE ignored
  /\ UNCHANGED <<outsideVars, ledgerVars, executor, pollerVars>>

WriteAttempt(h) ==
  /\ hpc[h] = "write"
  /\ IF Status(hgot[h]) \in {"pending", "unknown"}
     THEN UpdateAttempt(Status(hgot[h]), TRUE) ELSE Finalize(hgot[h])
  /\ GotoH(h, "complete")
  /\ UNCHANGED <<event, hgot, receiptVars, outsideVars, executor, pollerVars, faults>>

CompleteAfterWrite(h) ==
  /\ hpc[h] = "complete"
  /\ Complete(h)
  /\ learned' = IF Holds(h) THEN learned \cup {hgot[h]} ELSE learned
  /\ UNCHANGED <<ignored, outsideVars, ledgerVars, executor, pollerVars>>

\* Stripe or the database cannot be reached.
Throws(h) ==
  /\ hpc[h] # "idle"
  /\ faults < MaxFaults /\ faults' = faults + 1
  /\ Fail(h)
  /\ UNCHANGED <<history, outsideVars, ledgerVars, executor, pollerVars>>

HandlerDies(h) ==
  /\ hpc[h] # "idle" /\ faults < MaxFaults /\ faults' = faults + 1
  /\ Done(h)
  /\ UNCHANGED <<receiptVars, outsideVars, ledgerVars, executor, pollerVars>>

\* 30 seconds: the holder is gone, or stalls that long.
ReceiptExpires(e) ==
  /\ receipt[e].live /\ receipt' = [receipt EXCEPT ![e].live = FALSE]
  /\ IF event[receipt[e].token] = e THEN faults < MaxFaults /\ faults' = faults + 1
                                    ELSE UNCHANGED faults
  /\ UNCHANGED <<acknowledged, history, handlerVars, outsideVars, ledgerVars, executor, pollerVars>>

-----------------------------------------------------------------------------
(* A poll (reconcileStripeRefundAttempts).                                 *)

GotoP(p, label) == ppc' = [ppc EXCEPT ![p] = label] /\ UNCHANGED pgot

\* Mutant: an attempt that has succeeded is not polled any more.
DueUntilTerminal == ledger \in Pollable \ Terminal

Due == ledger \in Pollable

\* claimableStripeRefundAttempts, for the ten that were written longest ago.
Claim(p) ==
  /\ ppc[p] = "idle" /\ Due /\ ~lease.live /\ executor # "live" /\ ~crowded
  /\ lease' = [token |-> p, live |-> TRUE]
  /\ GotoP(p, IF known THEN "get" ELSE "recover")
  /\ UNCHANGED <<ledger, known, receiptVars, outsideVars, executor, handlerVars, faults>>

\* recoverUnknownRefund under the lease, or the quarantine of an attempt whose
\* key Stripe may have forgotten: the 24 hours may be over at any time.
Recover(p) ==
  /\ ppc[p] = "recover"
  /\ \/ /\ ledger \in {"prepared", "unknown"} /\ lease = [token |-> p, live |-> TRUE]
        /\ ppc' = [ppc EXCEPT ![p] = "recovered"] /\ pgot' = [pgot EXCEPT ![p] = answer]
        /\ UNCHANGED ledgerVars
     \/ Reschedule(p, "quarantined", FALSE) /\ GotoP(p, "idle")
  /\ UNCHANGED <<receiptVars, outsideVars, executor, handlerVars, faults>>

Retrieve(p) ==
  /\ ppc[p] = "get"
  /\ ppc' = [ppc EXCEPT ![p] = "read"] /\ pgot' = [pgot EXCEPT ![p] = Current]
  /\ UNCHANGED <<ledgerVars, receiptVars, outsideVars, executor, handlerVars, faults>>

\* An uncertain refund is given up after eight polls or 24 hours; when that is,
\* is left open.
Reconciled(p) ==
  /\ ppc[p] \in {"recovered", "read"}
  /\ IF pgot[p] \in {"succeeded", "failed"} THEN FinalizeLeased(p, pgot[p])
     ELSE \/ ppc[p] = "read" /\ pgot[p] = "action" /\ FinalizeLeased(p, "quarantined")
          \/ Reschedule(p, Status(pgot[p]), TRUE)
  /\ ppc' = [ppc EXCEPT ![p] = "idle"] /\ pgot' = [pgot EXCEPT ![p] = "none"]
  /\ UNCHANGED <<receiptVars, outsideVars, executor, handlerVars, faults>>

\* The read fails, or the recovery is refused.
PollFails(p) ==
  /\ ppc[p] \in {"get", "recover"}
  /\ IF ppc[p] = "recover" /\ (ledger \notin {"prepared", "unknown"} \/ lease.token # p \/ ~lease.live)
     THEN UNCHANGED faults ELSE faults < MaxFaults /\ faults' = faults + 1
  /\ Reschedule(p, IF ppc[p] = "get" THEN "pending" ELSE "unknown", FALSE)
  /\ GotoP(p, "idle")
  /\ UNCHANGED <<receiptVars, outsideVars, executor, handlerVars>>

PollerDies(p) ==
  /\ ppc[p] # "idle" /\ faults < MaxFaults /\ faults' = faults + 1
  /\ ppc' = [ppc EXCEPT ![p] = "idle"] /\ pgot' = [pgot EXCEPT ![p] = "none"]
  /\ UNCHANGED <<ledgerVars, receiptVars, outsideVars, executor, handlerVars>>

\* 30 seconds, not renewed; a sweep that found the refund unchanged after its
\* success leaves its lease behind.
LeaseExpires ==
  /\ lease.live /\ lease' = [lease EXCEPT !.live = FALSE]
  /\ IF ppc[lease.token] = "idle" THEN UNCHANGED faults
     ELSE faults < MaxFaults /\ faults' = faults + 1
  /\ UNCHANGED <<ledger, known, receiptVars, outsideVars, executor, handlerVars, pollerVars>>

-----------------------------------------------------------------------------
\* Stripe has created the refund; its answer is on its way.
Init ==
  /\ refund \in PostAnswers /\ answer = refund
  /\ emitted = [e \in Events |-> "none"] /\ crowded = FALSE
  /\ acknowledged = {} /\ ignored = {} /\ learned = {}
  /\ receipt = [e \in Events |-> NoReceipt]
  /\ ledger = "prepared" /\ known = FALSE /\ lease = Unleased
  /\ executor = "live"
  /\ hpc = [h \in Handlers |-> "idle"] /\ event = [h \in Handlers |-> None]
  /\ hgot = [h \in Handlers |-> "none"]
  /\ ppc = [p \in Pollers |-> "idle"] /\ pgot = [p \in Pollers |-> "none"]
  /\ faults = 0

Outside == Settles \/ Crowd \/ \E e \in Events : Notify(e)

Execution == RecordAnswer \/ LoseAnswer \/ Stall

Proceed(h) == Read(h) \/ WriteAttempt(h) \/ CompleteAfterWrite(h)

Request(h) ==
  (\E e \in Events : Deliver(h, e)) \/ Proceed(h) \/ Throws(h) \/ HandlerDies(h)

Sweep(p) == Recover(p) \/ Retrieve(p) \/ Reconciled(p) \/ PollFails(p)

Poll(p) == Claim(p) \/ Sweep(p) \/ PollerDies(p)

Expiry == LeaseExpires \/ \E e \in Events : ReceiptExpires(e)

Next ==
  Outside \/ Execution \/ (\E h \in Handlers : Request(h)) \/ (\E p \in Pollers : Poll(p)) \/ Expiry

\* Steps that were begun are finished, sweeps come every five seconds and take
\* what their batch has room for, leases run out, and Stripe repeats a
\* notification that was not acknowledged.
Fairness ==
  /\ WF_vars(RecordAnswer)
  /\ \A h \in Handlers : WF_vars(Proceed(h))
  /\ \A p \in Pollers : WF_vars(Sweep(p)) /\ WF_vars(Claim(p))
  /\ WF_vars(LeaseExpires)
  /\ \A e \in Events : WF_vars(ReceiptExpires(e))
                       /\ SF_vars(\E h \in Handlers : Deliver(h, e))

Spec == Init /\ [][Next]_vars /\ Fairness

-----------------------------------------------------------------------------
\* The ledger holds the statuses of the code and never a raw state of Stripe;
\* a claimed receipt and a live lease have a holder, and a request that works
\* has a notification.
TypeOK ==
  /\ refund \in States \cup {"reversed"} /\ answer \in States
  /\ emitted \in [Events -> States \cup {"none"}] /\ crowded \in BOOLEAN
  /\ acknowledged \subseteq Events /\ ignored \subseteq Events /\ learned \subseteq States
  /\ \A e \in Events : receipt[e] \in
       [state : {"none", "completed", "failed"}, token : {None}, live : {FALSE}]
       \cup [state : {"processing"}, token : Handlers, live : BOOLEAN]
  /\ ledger \in Pollable \cup Terminal /\ known \in BOOLEAN
  /\ lease \in [token : Pollers, live : BOOLEAN] \cup {Unleased}
  /\ executor \in {"live", "stalled", "done"}
  /\ hpc \in [Handlers -> {"idle", "find", "write", "complete"}]
  /\ \A h \in Handlers : event[h] \in IF hpc[h] = "idle" THEN {None} ELSE Events
  /\ hgot \in [Handlers -> States \cup {"none"}]
  /\ ppc \in [Pollers -> {"idle", "recover", "get", "recovered", "read"}]
  /\ pgot \in [Pollers -> States \cup {"none"}]
  /\ faults \in 0..MaxFaults

\* A notification that was answered with success, and was about a refund that
\* the application knew, will not be repeated: its news is in the ledger.
AcknowledgedIsReflected ==
  \A e \in acknowledged \ ignored :
    /\ emitted[e] = "succeeded" => ledger \in Terminal
    /\ emitted[e] = "failed" => ledger \in {"failed", "quarantined"}

\* What a request has read and completed with is never taken back, by a request
\* or a sweep that read the refund earlier and writes later.
LearnedIsKept ==
  /\ "succeeded" \in learned => ledger \in Terminal
  /\ "failed" \in learned => ledger \in {"failed", "quarantined"}

\* No news that the application answered for, or read, is lost or undone.
NewsIsKept == TypeOK /\ AcknowledgedIsReflected /\ LearnedIsKept

\* However requests die or stall, every notification is acknowledged at last.
EventuallyAcknowledged ==
  \A e \in Events : emitted[e] # "none" ~> e \in acknowledged

\* A refund that fails, even after its success was recorded and told, is known
\* to have failed (or given up for a specialist) without any notification; if the
\* batches of the sweep are not for ever filled with others.
FailureIsLearned ==
  <>[]~crowded =>
    (refund \in {"failed", "reversed"} /\ known ~> ledger \in {"failed", "quarantined"})

\* The promise that the execution keeps too: see RefundLedger.  Nothing is
\* recorded as refused here.
Ledger == INSTANCE RefundLedger WITH
  Refusable <- FALSE,
  refund <- CASE refund \in {"pending", "action"} -> "open"
              [] refund = "succeeded" -> "paid"
              [] OTHER -> refund,
  ledger <- IF ledger \in Terminal THEN ledger ELSE "open",
  told <- {}

\* Whichever request or sweep writes last, the ledger says of the refund what
\* Stripe has said of it, and goes on only as RefundLedger does.
ImplementsLedger == Ledger!Spec

=============================================================================

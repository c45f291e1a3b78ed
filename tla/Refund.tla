------------------------------- MODULE Refund -------------------------------
(***************************************************************************)
(* One approved refund command, from the native tool to the customer.      *)
(*                                                                         *)
(* The command has one row of support_stripe_refund_attempts (the ledger), *)
(* one Stripe idempotency key, at most one row of support_idempotency (the *)
(* effect) and a projection on the case.  Four parties work on it: the     *)
(* approval request and the recovery of decided approvals, which execute   *)
(* the native tool and then the workflow under the dispatch lease; the     *)
(* reconciler, under a lease of the ledger that nobody renews; and the     *)
(* Stripe webhook, which has no lease.  A worker plays any of them.        *)
(*                                                                         *)
(* External: Stripe, which keeps the answer to a key for a bounded time,   *)
(* and the snapshots of Mastra (native: the suspended tool call, run: the  *)
(* suspended workflow), each of which resumes once.                        *)
(***************************************************************************)
EXTENDS Naturals, FiniteSets

CONSTANTS Workers,    \* requests, recovery loops, reconcilers, webhooks
          NoWorker,   \* a lease token that is NULL
          PostAnswers, \* states of a refund that Stripe has just created
          MaxFaults   \* bound: crashes, and stalls longer than a lease

ASSUME RefundWorkersAssumption == NoWorker \notin Workers
ASSUME PostAnswersAssumption ==
  PostAnswers \subseteq {"pending", "action", "succeeded", "failed"}
ASSUME RefundBoundAssumption == MaxFaults \in Nat

VARIABLES
  status, known,           \* the attempt: status, refund_id recorded
  noEffect,                \* provider_status = 'confirmed-no-effect'
  request,                 \* stripe_request_data recorded
  rowner,                  \* reconcile_lease_token while reconcile_lease_until > now
  first,                   \* worker whose dispatch token is the attempt's lease_token,
                           \* NoWorker once it has a new token
  dstate, owner,           \* support_dispatch: "held" (claimed or started), and
                           \* lease_token while lease_until > now
  shows,                   \* does the case show this turn
  caseStatus, caseReply,   \* support_cases.status, finalResponse
  result, projected,       \* refundResult.status, its copy in metadata.refundEffects
  outcome,                 \* the turn's outcome_data
  effect,                  \* support_idempotency: "executed", "skipped" (replayed)
  told,                    \* outbox rows of the turn
  refunds, remote,         \* Stripe: refunds created, state of the refund
  answer, late,            \* the answer kept for the key, a POST still under way
  window,                  \* less than 24 hours since created_at
  native, run,             \* snapshots of Mastra
  pc, via, got, kind, seen,  \* step of each worker and what it read
  faults

ledgerVars == <<status, known, noEffect, request, rowner, first>>
leaseVars == <<dstate, owner>>
caseVars == <<shows, caseStatus, caseReply, result, projected>>
recordVars == <<outcome, effect, told>>
stripeVars == <<refunds, remote, answer, late, window>>
snapshotVars == <<native, run>>
workerVars == <<pc, via, got, kind, seen>>
vars == <<ledgerVars, leaseVars, caseVars, recordVars, stripeVars, snapshotVars,
          workerVars, faults>>

Terminal == {"succeeded", "failed", "quarantined"}
Open == {"prepared", "unknown"}
Claimable == Open \cup {"pending", "succeeded"}
Finals == {"resolved", "escalated"}
Shown == {"turn", "restored"}         \* metadata.activeTurnId is this turn
Issued == {"executed", "skipped"}     \* refundResult of a refund that was paid
Answers == {"pending", "action", "succeeded", "failed"}
IssuedRows == {"final-issued", "refund-final"}
Corrections == {"refund-failed", "refund-no-effect", "final-review"}

\* Steps under the dispatch lease, and steps of the other two parties.
ToolPCs == {"claimed", "tool", "prepare", "retrieve", "preflight", "account", "posting",
            "received", "recorded", "failing", "projecting", "projected", "refused",
            "doubt", "thrown"}
FlowPCs == {"threw", "returned", "reconciling", "found", "foundAfter", "unreconciled",
            "resuming", "resolving", "finalizing", "finished", "runFailed"}
OtherPCs == {"selected", "recover", "recoverPost", "recovered", "reread",
             "recError", "hook"}
Posting == {"posting", "recoverPost"}

-----------------------------------------------------------------------------
(* Leases, and the statements that several parties share.                  *)

OwnsDispatch(w) == dstate = "held" /\ owner = w
OwnsAttempt(w) == rowner = w

Goto(w, label) == pc' = [pc EXCEPT ![w] = label] /\ UNCHANGED <<via, got, kind, seen>>

GoIdle(w) ==
  /\ pc' = [pc EXCEPT ![w] = "idle"]
  /\ via' = [via EXCEPT ![w] = "http"] /\ seen' = [seen EXCEPT ![w] = "turn"]
  /\ got' = [got EXCEPT ![w] = "none"] /\ kind' = [kind EXCEPT ![w] = "executed"]

\* The same, once the case that was read is of no further use.
GotoFrom(w, label) ==
  /\ pc' = [pc EXCEPT ![w] = label] /\ seen' = [seen EXCEPT ![w] = "turn"]
  /\ UNCHANGED <<via, got, kind>>

\* What a worker learned from a POST (executed) or from a GET (skipped).
Learn(w, label, what, how) ==
  /\ pc' = [pc EXCEPT ![w] = label]
  /\ got' = [got EXCEPT ![w] = what] /\ kind' = [kind EXCEPT ![w] = how]
  /\ UNCHANGED <<via, seen>>

ReleaseAttempt == rowner' = NoWorker

\* Mutant: an update does not look at the status it replaces.
MayUpdateAlways(to) == TRUE

MayUpdate(to) == status \notin Terminal \/ status = to

\* updateStripeRefundAttempt: no lease; a terminal row keeps its status.
UpdateAttempt(to, knows) ==
  IF MayUpdate(to)
  THEN /\ status' = to /\ known' = (known \/ knows) /\ noEffect' = FALSE
       /\ ReleaseAttempt
       /\ UNCHANGED <<request, first>>
  ELSE UNCHANGED ledgerVars

\* completeDispatch, for the owner of a live lease; anybody else changes nothing.
CompleteDispatch(w, to) ==
  IF OwnsDispatch(w)
  THEN dstate' = to /\ owner' = NoWorker
  ELSE UNCHANGED leaseVars

\* failDispatchAndCase: the case is escalated whatever turn it shows.
FailDispatchAndCase(w) ==
  IF OwnsDispatch(w)
  THEN /\ CompleteDispatch(w, "failed")
       /\ caseStatus' = "escalated"
       /\ outcome' = [reply |-> IF caseReply = "none" THEN outcome.reply ELSE caseReply,
                      status |-> "escalated"]
       /\ UNCHANGED <<shows, caseReply, result, projected, effect, told>>
  ELSE UNCHANGED <<leaseVars, caseVars, recordVars>>

Projection(reply, verdict, results) ==
  /\ caseReply' = reply /\ caseStatus' = verdict /\ result' = results
  /\ UNCHANGED <<shows, projected>>

Record(reply, verdict, row) ==
  /\ outcome' = [reply |-> reply, status |-> verdict]
  /\ told' = told \cup {row}

\* Mutant: a settlement is applied to a row in whatever status.
CanFinalizeAlways(to) == status # "absent"

\* finalizeStripeRefundReconciliation, to "succeeded", "failed" or "quarantined".
CanFinalize(to) ==
  \/ status \notin Terminal \cup {"absent"}
  \/ status \in {"succeeded", "failed"} /\ to = "failed"

Finalize(to, how) ==
  /\ status' = to /\ known' = TRUE /\ noEffect' = FALSE
  /\ ReleaseAttempt /\ UNCHANGED <<request, first>>
  /\ IF to = "succeeded"
     THEN IF shows \in Shown /\ result = "failed"
          THEN UNCHANGED <<caseVars, recordVars>>
          ELSE /\ effect' = IF effect = "none" THEN how ELSE effect
               /\ Record("issued", "resolved", "refund-final")
               /\ IF shows \in Shown THEN Projection("issued", "resolved", "executed")
                                     ELSE UNCHANGED caseVars
     ELSE /\ effect' = IF to = "failed" THEN "none" ELSE effect
          /\ Record("review", "escalated", "refund-failed")
          /\ IF shows \in Shown THEN Projection("review", "escalated", "failed")
                                ELSE UNCHANGED caseVars

FinalizeIfAllowed(to, how) ==
  IF CanFinalize(to) THEN Finalize(to, how)
  ELSE UNCHANGED <<ledgerVars, caseVars, recordVars>>

-----------------------------------------------------------------------------
(* Stripe.                                                                 *)

CurrentAnswer == IF remote = "reversed" THEN "failed" ELSE remote

\* Another POST with the same key is being carried out.
KeyInUse(w) == late \/ \E v \in Workers \ {w} : pc[v] \in Posting

\* A POST that Stripe carries out: a new refund unless it remembers the key.
Accept(state) ==
  IF answer = "none"
  THEN refunds' = refunds + 1 /\ remote' = state /\ answer' = state
  ELSE state = answer /\ UNCHANGED <<refunds, remote, answer>>

\* The POST of a worker, and what becomes of it.
Post(w, from, received, refused, doubtful) ==
  /\ pc[w] = from
  /\ \/ /\ \E state \in PostAnswers :
             /\ Accept(state)
             /\ \/ Learn(w, received, state, "executed")
                \/ Goto(w, doubtful)
        /\ UNCHANGED <<late, window>>
     \/ /\ KeyInUse(w) \/ answer = "none"
        /\ Goto(w, refused)
        /\ UNCHANGED stripeVars
     \/ /\ answer = "none" /\ late' = TRUE /\ Goto(w, doubtful)
        /\ UNCHANGED <<refunds, remote, answer, window>>
  /\ UNCHANGED <<ledgerVars, leaseVars, caseVars, recordVars, snapshotVars, faults>>

\* The POST that a worker gave up arrives, or never does.
LatePost ==
  /\ late /\ late' = FALSE
  /\ \/ \E state \in PostAnswers : Accept(state)
     \/ UNCHANGED <<refunds, remote, answer>>
  /\ UNCHANGED <<window, ledgerVars, leaseVars, caseVars, recordVars, snapshotVars,
                 workerVars, faults>>

\* A refund settles; one that was paid may be reversed by the bank.
StripeSettles ==
  /\ \/ remote = "pending" /\ remote' \in {"action", "succeeded", "failed"}
     \/ remote = "action" /\ remote' \in {"succeeded", "failed"}
     \/ remote = "succeeded" /\ remote' = "reversed"
  /\ UNCHANGED <<refunds, answer, late, window, ledgerVars, leaseVars, caseVars,
                 recordVars, snapshotVars, workerVars, faults>>

\* 24 hours after created_at.  Stripe keeps the key at least as long after the
\* first POST, and longer than a request that is under way takes.  Neither is
\* read once the attempt is terminal.
WindowCloses ==
  /\ status \notin Terminal \cup {"absent"}
  /\ window /\ window' = FALSE
  /\ UNCHANGED <<refunds, remote, answer, late, ledgerVars, leaseVars, caseVars,
                 recordVars, snapshotVars, workerVars, faults>>

KeyExpires ==
  /\ status \notin Terminal /\ ~window /\ ~late /\ answer # "none"
  /\ \A w \in Workers : pc[w] \notin Posting \cup {"preflight", "account"}
  /\ answer' = "none"
  /\ UNCHANGED <<refunds, remote, late, window, ledgerVars, leaseVars, caseVars,
                 recordVars, snapshotVars, workerVars, faults>>

-----------------------------------------------------------------------------
(* The native tool (tools/issue-refund.ts, issueRefund of the registry).   *)

\* A sweep reads the decided approvals and claims their dispatches one by one.
ReadDecision(w) ==
  /\ pc[w] = "idle"
  /\ dstate = "suspended" \/ (dstate = "held" /\ owner = NoWorker)
  /\ pc' = [pc EXCEPT ![w] = "selected"] /\ seen' = [seen EXCEPT ![w] = shows]
  /\ UNCHANGED <<via, got, kind, ledgerVars, leaseVars, caseVars, recordVars, stripeVars,
                 snapshotVars, faults>>

\* Refused while the reconciler holds the attempt.  A case that was reset
\* before it was read has no refund command any more ("blind").
ClaimDispatchForResume(w) ==
  /\ pc[w] = "selected"
  /\ IF (dstate = "suspended" \/ (dstate = "held" /\ owner = NoWorker)) /\ rowner = NoWorker
     THEN /\ dstate' = "held" /\ owner' = w
          /\ first' = IF first = w THEN NoWorker ELSE first
          /\ pc' = [pc EXCEPT ![w] = "claimed"]
          /\ via' = [via EXCEPT ![w] = IF seen[w] = "reset" THEN "blind" ELSE "recovery"]
          /\ UNCHANGED <<got, kind, seen>>
     ELSE GoIdle(w) /\ UNCHANGED <<leaseVars, first>>
  /\ UNCHANGED <<status, known, noEffect, request, rowner, caseVars, recordVars,
                 stripeVars, snapshotVars, faults>>

\* reconcileApprovedRefundEffect has read an effect, and will project that.
Find(w, label) ==
  /\ pc' = [pc EXCEPT ![w] = label] /\ kind' = [kind EXCEPT ![w] = effect]
  /\ UNCHANGED <<via, got, seen>>

\* It writes back the metadata it was given: a follow-up that came since then
\* is undone.
ProjectEffect(w) ==
  /\ pc[w] \in {"found", "foundAfter"}
  /\ IF OwnsDispatch(w)
     THEN /\ result' = kind[w] /\ projected' = kind[w]
          /\ shows' = IF shows = "reset" /\ seen[w] # "reset" THEN "restored" ELSE shows
          /\ pc' = [pc EXCEPT ![w] = IF pc[w] = "found" THEN "returned" ELSE "resuming"]
          /\ kind' = [kind EXCEPT ![w] = "executed"] /\ seen' = [seen EXCEPT ![w] = "turn"]
          /\ UNCHANGED <<caseStatus, caseReply, via, got>>
     ELSE GoIdle(w) /\ UNCHANGED caseVars
  /\ UNCHANGED <<ledgerVars, leaseVars, recordVars, stripeVars, snapshotVars, faults>>

\* Recovery projects an effect, or finds a failure, before it resumes the tool.
ReconcileBefore(w) ==
  /\ pc[w] = "claimed"
  /\ IF effect # "none" /\ via[w] # "blind"
     THEN Find(w, "found") /\ UNCHANGED leaseVars
     ELSE IF status = "failed" /\ via[w] # "blind"
          THEN CompleteDispatch(w, "completed") /\ GoIdle(w)
          ELSE GotoFrom(w, "tool") /\ UNCHANGED leaseVars
  /\ UNCHANGED <<ledgerVars, caseVars, recordVars, stripeVars, snapshotVars, faults>>

\* The approval of the case and the lease are checked before the attempt is
\* written.  A consumed snapshot runs no tool: it throws or returns.
StartTool(w) ==
  /\ pc[w] = "tool"
  /\ IF native = "consumed" THEN Goto(w, "threw") \/ Goto(w, "returned")
     ELSE Goto(w, IF shows = "turn" /\ OwnsDispatch(w) THEN "prepare" ELSE "thrown")
  /\ UNCHANGED <<ledgerVars, leaseVars, caseVars, recordVars, stripeVars, snapshotVars, faults>>

\* prepareStripeRefundAttempt and what issueRefund does with the row it reads.
Prepare(w) ==
  /\ pc[w] = "prepare"
  /\ \/ /\ status = "absent"
        /\ status' = "prepared" /\ first' = w
        /\ UNCHANGED <<known, noEffect, request, rowner>>
        /\ Goto(w, "preflight")
     \/ /\ known /\ Goto(w, "retrieve") /\ UNCHANGED ledgerVars
     \/ /\ ~known /\ status \in Terminal \cup {"pending"}
        /\ Goto(w, "thrown") /\ UNCHANGED ledgerVars
     \/ /\ ~known /\ status \in Open /\ ~window
        /\ UpdateAttempt("quarantined", FALSE) /\ Goto(w, "thrown")
     \/ /\ ~known /\ status \in Open /\ window
        /\ Goto(w, IF request THEN "account"
                   ELSE IF status = "prepared" THEN "preflight" ELSE "refused")
        /\ UNCHANGED ledgerVars
  /\ UNCHANGED <<leaseVars, caseVars, recordVars, stripeVars, snapshotVars, faults>>

\* prepareRefundRequest reads Stripe; persistStripeRefundRequest writes once.
Preflight(w) ==
  /\ pc[w] = "preflight"
  /\ \/ Goto(w, "refused") /\ UNCHANGED request
     \/ /\ status = "prepared" \/ request
        /\ request' = TRUE /\ Goto(w, "account")
  /\ UNCHANGED <<status, known, noEffect, rowner, first, leaseVars, caseVars,
                 recordVars, stripeVars, snapshotVars, faults>>

\* authorizeStripeRefundFirstEffect with a dispatch lease: the attempt must
\* carry the token of the same claim.
MayPost(w) ==
  /\ status \in Open /\ request
  /\ OwnsDispatch(w) /\ first = w
  /\ shows \in Shown

\* A failed read of the account is a refusal too: StripeHttpError(0, false).
VerifyAndAuthorize(w) ==
  /\ pc[w] = "account"
  /\ Goto(w, "refused") \/ Goto(w, IF MayPost(w) THEN "posting" ELSE "thrown")
  /\ UNCHANGED <<ledgerVars, leaseVars, caseVars, recordVars, stripeVars, snapshotVars, faults>>

CreateRefund(w) == Post(w, "posting", "received", "refused", "doubt")

RetrieveKnown(w) ==
  /\ pc[w] = "retrieve"
  /\ Goto(w, "thrown") \/ Learn(w, "received", CurrentAnswer, "skipped")
  /\ UNCHANGED <<ledgerVars, leaseVars, caseVars, recordVars, stripeVars, snapshotVars, faults>>

LedgerStatus(what) == IF what = "action" THEN "pending" ELSE what

RecordAnswer(w) ==
  /\ pc[w] = "received"
  /\ UpdateAttempt(LedgerStatus(got[w]), TRUE)
  /\ Goto(w, "recorded")
  /\ UNCHANGED <<leaseVars, caseVars, recordVars, stripeVars, snapshotVars, faults>>

\* authoritativeEffect: a terminal row overrides what the worker learned.
AuthoritativeEffect(w) ==
  LET what == IF known /\ status \in Terminal
              THEN IF status = "succeeded" THEN "succeeded" ELSE "failed"
              ELSE got[w]
  IN
  /\ pc[w] = "recorded"
  /\ Learn(w, IF what = "failed" THEN "failing" ELSE "projecting", what, kind[w])
  /\ UNCHANGED <<ledgerVars, leaseVars, caseVars, recordVars, stripeVars, snapshotVars, faults>>

FinalizeDirectFailure(w) ==
  /\ pc[w] = "failing"
  /\ FinalizeIfAllowed("failed", kind[w])
  /\ Goto(w, "projecting")
  /\ UNCHANGED <<leaseVars, stripeVars, snapshotVars, faults>>

ResultOf(w) == CASE got[w] = "failed" -> "failed"
                 [] got[w] = "succeeded" -> kind[w]
                 [] OTHER -> "pending"

\* Mutant: only a failed attempt forbids the projection.
LedgerRefusesOnlyFailed == status = "failed"

LedgerRefuses == status \in {"failed", "quarantined"}

IsDurable(w) == got[w] = "succeeded"

\* projectRefundToolExecution: the ledger is read in the same transaction.
ProjectTool(w) ==
  LET fits == shows \in Shown /\ OwnsDispatch(w)
      lost == LedgerRefuses
  IN
  /\ pc[w] = "projecting"
  /\ IF fits /\ ~lost
     THEN /\ result' = ResultOf(w) /\ projected' = ResultOf(w)
          /\ effect' = IF IsDurable(w) /\ effect = "none" THEN kind[w] ELSE effect
          /\ UNCHANGED <<shows, caseStatus, caseReply, outcome, told>>
     ELSE UNCHANGED <<caseVars, recordVars>>
  /\ Goto(w, IF fits /\ (lost => result = "failed") THEN "projected" ELSE "thrown")
  /\ UNCHANGED <<ledgerVars, leaseVars, stripeVars, snapshotVars, faults>>

\* finalizeStripeRefundNoEffectFailure: no lease, only the status of the row.
NoEffectFailure(w) ==
  /\ pc[w] = "refused"
  /\ IF status \in Open
     THEN /\ status' = "failed" /\ noEffect' = TRUE
          /\ ReleaseAttempt /\ UNCHANGED <<known, request, first>>
          /\ effect' = "none"
          /\ Record("review", "escalated", "refund-no-effect")
          /\ IF shows \in Shown THEN Projection("review", "escalated", result)
                                ELSE UNCHANGED caseVars
     ELSE UNCHANGED <<ledgerVars, caseVars, recordVars>>
  /\ Goto(w, "thrown")
  /\ UNCHANGED <<leaseVars, stripeVars, snapshotVars, faults>>

RecordDoubt(w) ==
  /\ pc[w] = "doubt"
  /\ UpdateAttempt("unknown", FALSE)
  /\ Goto(w, "thrown")
  /\ UNCHANGED <<leaseVars, caseVars, recordVars, stripeVars, snapshotVars, faults>>

\* A tool that throws fails the call or becomes an error in its result.
EndTool(w) ==
  /\ pc[w] \in {"projected", "thrown"}
  /\ native' = "consumed"
  /\ \/ Learn(w, "returned", "none", "executed")
     \/ pc[w] = "thrown" /\ Learn(w, "threw", "none", "executed")
  /\ UNCHANGED <<run, ledgerVars, leaseVars, caseVars, recordVars, stripeVars, faults>>

-----------------------------------------------------------------------------
(* After the tool: approval-routes.ts and native-approval-recovery.ts.     *)

KeepWaiting(w) ==
  /\ pc[w] = "threw"
  /\ CompleteDispatch(w, "suspended") /\ GoIdle(w)
  /\ UNCHANGED <<ledgerVars, caseVars, recordVars, stripeVars, snapshotVars, faults>>

AfterTool(w) ==
  /\ pc[w] = "returned"
  /\ IF via[w] = "recovery" /\ status = "failed"
     THEN CompleteDispatch(w, "completed") /\ GoIdle(w)
     ELSE /\ pc' = [pc EXCEPT ![w] = IF via[w] = "blind" THEN "resuming" ELSE "reconciling"]
          /\ seen' = [seen EXCEPT ![w] = shows]
          /\ UNCHANGED <<via, got, kind, leaseVars>>
  /\ UNCHANGED <<ledgerVars, caseVars, recordVars, stripeVars, snapshotVars, faults>>

ReconcileAfter(w) ==
  /\ pc[w] = "reconciling"
  /\ IF effect = "none" \/ (via[w] = "http" /\ seen[w] = "reset")
     THEN GotoFrom(w, "unreconciled") ELSE Find(w, "foundAfter")
  /\ UNCHANGED <<ledgerVars, leaseVars, caseVars, recordVars, stripeVars, snapshotVars, faults>>

Settling == known /\ status = "pending"

\* Without an effect the request waits for a settlement; recovery resumes the
\* workflow on a pending refund.
SettleDispatch(w) ==
  /\ pc[w] = "unreconciled"
  /\ \/ /\ via[w] = "recovery" /\ (Settling \/ status = "failed")
        /\ Goto(w, "resuming") /\ UNCHANGED <<leaseVars, caseVars, recordVars>>
     \/ /\ via[w] = "http" /\ (Settling \/ status \in {"unknown", "failed"})
        /\ CompleteDispatch(w, IF status = "failed" THEN "completed" ELSE "suspended")
        /\ GoIdle(w) /\ UNCHANGED <<caseVars, recordVars>>
     \/ /\ ~(Settling \/ status = "failed" \/ (via[w] = "http" /\ status = "unknown"))
        /\ FailDispatchAndCase(w) /\ GoIdle(w)
  /\ UNCHANGED <<ledgerVars, stripeVars, snapshotVars, faults>>

\* The request writes status "processing" first, under its lease.
ResumeWorkflow(w) ==
  /\ pc[w] = "resuming"
  /\ IF via[w] = "http" /\ ~OwnsDispatch(w)
     THEN GoIdle(w) /\ UNCHANGED <<caseStatus, leaseVars, run>>
     ELSE /\ caseStatus' = IF via[w] = "http" THEN "processing" ELSE caseStatus
          /\ IF run = "waiting"
             THEN run' = "resumed" /\ Goto(w, "resolving") /\ UNCHANGED leaseVars
             ELSE /\ IF via[w] = "http" THEN UNCHANGED leaseVars
                                        ELSE CompleteDispatch(w, "suspended")
                  /\ GoIdle(w) /\ UNCHANGED run
  /\ UNCHANGED <<shows, caseReply, result, projected, native, ledgerVars, recordVars,
                 stripeVars, faults>>

\* resolve-case needs the turn, its draft and an exact projection of the effect.
ResolveCase(w) ==
  LET completed == result \in Issued /\ effect # "none" /\ projected = result IN
  /\ pc[w] = "resolving"
  /\ IF shows = "turn" /\ (completed \/ result = "failed")
     THEN Learn(w, "finalizing", IF completed THEN "succeeded" ELSE "failed",
                IF result = "skipped" THEN "skipped" ELSE "executed")
     ELSE Goto(w, "runFailed")
  /\ UNCHANGED <<ledgerVars, leaseVars, caseVars, recordVars, stripeVars, snapshotVars, faults>>

\* finalizeCaseAndEnqueue refuses an answer that differs from one given before.
FinalizeCase(w) ==
  LET reply == IF got[w] = "succeeded" THEN "issued" ELSE "review"
      verdict == IF got[w] = "succeeded" THEN "resolved" ELSE "escalated"
      row == IF got[w] = "failed" THEN "final-review"
             ELSE IF kind[w] = "skipped" THEN "refund-final" ELSE "final-issued"
      conflict == \/ outcome.reply # "none"
                     /\ outcome # [reply |-> reply, status |-> verdict]
                  \/ caseReply # "none" /\ (caseReply # reply \/ caseStatus # verdict)
                  \/ row = "final-review" /\ "final-issued" \in told
                  \/ row = "final-issued" /\ "final-review" \in told
  IN
  /\ pc[w] = "finalizing"
  /\ IF shows \in Shown /\ OwnsDispatch(w) /\ ~conflict
     THEN /\ Projection(reply, verdict, result)
          /\ Record(reply, verdict, row) /\ UNCHANGED effect
          /\ Goto(w, "finished")
     ELSE Goto(w, "runFailed") /\ UNCHANGED <<caseVars, recordVars>>
  /\ UNCHANGED <<ledgerVars, leaseVars, stripeVars, snapshotVars, faults>>

EndRun(w) ==
  /\ \/ /\ pc[w] = "finished" /\ CompleteDispatch(w, "completed")
        /\ UNCHANGED <<caseVars, recordVars>>
     \/ pc[w] = "runFailed" /\ FailDispatchAndCase(w)
  /\ GoIdle(w)
  /\ UNCHANGED <<ledgerVars, stripeVars, snapshotVars, faults>>

-----------------------------------------------------------------------------
(* The reconciler (providers/stripe/reconciliation.ts).                    *)

\* claimableStripeRefundAttempts: never while a live dispatch works on it.
ClaimAttempt(w) ==
  /\ pc[w] = "idle"
  /\ status \in Claimable
  /\ rowner = NoWorker /\ owner = NoWorker
  /\ rowner' = w
  /\ Goto(w, IF known THEN "reread" ELSE "recover")
  /\ UNCHANGED <<status, known, noEffect, request, first, leaseVars, caseVars,
                 recordVars, stripeVars, snapshotVars, faults>>

\* rescheduleStripeRefundAttempt: fenced by the lease, terminal rows excluded.
Reschedule(w, to, knows) ==
  IF OwnsAttempt(w) /\ status \notin Terminal
  THEN /\ status' = to /\ known' = (known \/ knows)
       /\ ReleaseAttempt
       /\ UNCHANGED <<noEffect, request, first>>
  ELSE UNCHANGED ledgerVars

\* authorizeStripeRefundFirstEffect with a reconciliation lease.
MayRecover(w) == status \in Open /\ request /\ OwnsAttempt(w)

\* Mutant: an attempt is posted again however old it is.
RecoverUnknownWhenever(w) ==
  /\ pc[w] = "recover"
  /\ Goto(w, "recError") \/ (MayRecover(w) /\ Goto(w, "recoverPost"))
  /\ UNCHANGED <<ledgerVars, leaseVars, caseVars, recordVars, stripeVars, snapshotVars, faults>>

\* An attempt without an id: recoverUnknownRefund up to its POST.
RecoverUnknown(w) ==
  /\ pc[w] = "recover"
  /\ IF ~window THEN Reschedule(w, "quarantined", FALSE) /\ GoIdle(w)
     ELSE /\ Goto(w, "recError") \/ (MayRecover(w) /\ Goto(w, "recoverPost"))
          /\ UNCHANGED ledgerVars
  /\ UNCHANGED <<leaseVars, caseVars, recordVars, stripeVars, snapshotVars, faults>>

RecreateRefund(w) == Post(w, "recoverPost", "recovered", "recError", "recError")

RereadRefund(w) ==
  /\ pc[w] = "reread"
  /\ \/ Learn(w, "recovered", CurrentAnswer, "skipped") /\ UNCHANGED ledgerVars
     \/ Reschedule(w, "pending", FALSE) /\ GoIdle(w)
  /\ UNCHANGED <<leaseVars, caseVars, recordVars, stripeVars, snapshotVars, faults>>

\* A refund that needs an action is uncertain: after eight readings, or 24
\* hours, it is quarantined.  The count of readings is left open.
Reconciled(w) ==
  /\ pc[w] = "recovered"
  /\ \/ /\ got[w] \in {"succeeded", "failed"} /\ OwnsAttempt(w)
        /\ FinalizeIfAllowed(got[w], kind[w])
     \/ /\ got[w] = "action" /\ kind[w] = "skipped" /\ OwnsAttempt(w)
        /\ FinalizeIfAllowed("quarantined", kind[w])
     \/ /\ got[w] \in {"succeeded", "failed"} /\ ~OwnsAttempt(w)
        /\ UNCHANGED <<ledgerVars, caseVars, recordVars>>
     \/ /\ got[w] \in {"pending", "action"}
        /\ (got[w] = "action" /\ kind[w] = "skipped") => window \/ ~OwnsAttempt(w)
        /\ Reschedule(w, IF got[w] = "action" THEN "unknown" ELSE "pending", TRUE)
        /\ UNCHANGED <<caseVars, recordVars>>
  /\ GoIdle(w)
  /\ UNCHANGED <<leaseVars, stripeVars, snapshotVars, faults>>

\* The id of the attempt is the one read by the claim: there was none.
ReconciliationError(w) ==
  /\ pc[w] = "recError"
  /\ Reschedule(w, "unknown", FALSE)
  /\ GoIdle(w)
  /\ UNCHANGED <<leaseVars, caseVars, recordVars, stripeVars, snapshotVars, faults>>

-----------------------------------------------------------------------------
(* The webhook, the customer, time and crashes.                            *)

\* The event names a refund that an attempt has recorded; its state is read
\* from Stripe, then written without a lease.
ReceiveWebhook(w) ==
  /\ pc[w] = "idle" /\ known
  /\ Learn(w, "hook", CurrentAnswer, "skipped")
  /\ UNCHANGED <<ledgerVars, leaseVars, caseVars, recordVars, stripeVars, snapshotVars, faults>>

ApplyWebhook(w) ==
  /\ pc[w] = "hook"
  /\ IF got[w] \in {"pending", "action"}
     THEN /\ UpdateAttempt(IF got[w] = "action" THEN "unknown" ELSE "pending", TRUE)
          /\ UNCHANGED <<caseVars, recordVars>>
     ELSE FinalizeIfAllowed(got[w], "skipped")
  /\ GoIdle(w)
  /\ UNCHANGED <<leaseVars, stripeVars, snapshotVars, faults>>

\* A follow-up resets a finished case, or its turn is activated because this
\* one is settled.  Afterwards the case no longer shows this turn.
FollowUp ==
  /\ shows \in Shown
  /\ caseStatus \in Finals \/ dstate \in {"completed", "failed"}
  /\ IF caseStatus \in Finals
     THEN outcome' = [reply |-> IF caseReply = "none" THEN outcome.reply ELSE caseReply,
                      status |-> caseStatus]
     ELSE UNCHANGED outcome
  /\ shows' = "reset" /\ caseStatus' = "new" /\ caseReply' = "none"
  /\ result' = "none" /\ projected' = "none"
  /\ UNCHANGED <<effect, told, ledgerVars, leaseVars, stripeVars, snapshotVars, workerVars,
                 faults>>

\* 30 seconds, and no heartbeat: it may pass under a worker that waits for Stripe.
AttemptLeaseExpires ==
  /\ rowner # NoWorker /\ rowner' = NoWorker
  /\ UNCHANGED <<status, known, noEffect, request, first, leaseVars, caseVars,
                 recordVars, stripeVars, snapshotVars, workerVars, faults>>

\* The dispatch lease is renewed by its worker: it expires when the worker is
\* gone, or when the process stalls longer than the lease.
DispatchLeaseExpires ==
  /\ owner # NoWorker /\ owner' = NoWorker
  /\ IF pc[owner] \in ToolPCs \cup FlowPCs
     THEN faults < MaxFaults /\ faults' = faults + 1
     ELSE UNCHANGED faults
  /\ UNCHANGED <<dstate, ledgerVars, caseVars, recordVars, stripeVars, snapshotVars,
                 workerVars>>

Crash(w) ==
  /\ pc[w] # "idle" /\ faults < MaxFaults
  /\ faults' = faults + 1
  /\ late' \in IF pc[w] \in Posting THEN {late, TRUE} ELSE {late}
  /\ GoIdle(w)
  /\ UNCHANGED <<refunds, remote, answer, window, ledgerVars, leaseVars, caseVars,
                 recordVars, snapshotVars>>

-----------------------------------------------------------------------------
\* The decision is recorded and the request has claimed the dispatch.
Init ==
  /\ status = "absent" /\ known = FALSE /\ noEffect = FALSE
  /\ request = FALSE /\ rowner = NoWorker /\ first = NoWorker
  /\ shows = "turn" /\ caseStatus = "processing" /\ caseReply = "none"
  /\ result = "none" /\ projected = "none"
  /\ outcome = [reply |-> "none", status |-> "none"] /\ effect = "none" /\ told = {}
  /\ refunds = 0 /\ remote = "none" /\ answer = "none" /\ late = FALSE /\ window = TRUE
  /\ native = "waiting" /\ run = "waiting"
  /\ owner \in Workers /\ dstate = "held"
  /\ pc = [w \in Workers |-> IF w = owner THEN "tool" ELSE "idle"]
  /\ via = [w \in Workers |-> "http"] /\ seen = [w \in Workers |-> "turn"]
  /\ got = [w \in Workers |-> "none"] /\ kind = [w \in Workers |-> "executed"]
  /\ faults = 0

Tool(w) ==
  \/ StartTool(w) \/ Prepare(w) \/ Preflight(w) \/ VerifyAndAuthorize(w) \/ CreateRefund(w)
  \/ RetrieveKnown(w) \/ RecordAnswer(w) \/ AuthoritativeEffect(w)
  \/ FinalizeDirectFailure(w) \/ ProjectTool(w) \/ NoEffectFailure(w) \/ RecordDoubt(w)
  \/ EndTool(w)

Flow(w) ==
  \/ ClaimDispatchForResume(w) \/ ReconcileBefore(w) \/ ProjectEffect(w) \/ KeepWaiting(w)
  \/ AfterTool(w) \/ ReconcileAfter(w) \/ SettleDispatch(w) \/ ResumeWorkflow(w)
  \/ ResolveCase(w) \/ FinalizeCase(w) \/ EndRun(w)

Reconciler(w) ==
  \/ RecoverUnknown(w) \/ RecreateRefund(w) \/ RereadRefund(w)
  \/ Reconciled(w) \/ ReconciliationError(w)

Next ==
  \/ \E w \in Workers : ReadDecision(w) \/ Flow(w) \/ Tool(w)
  \/ \E w \in Workers : ClaimAttempt(w) \/ Reconciler(w)
  \/ \E w \in Workers : ReceiveWebhook(w) \/ ApplyWebhook(w) \/ Crash(w)
  \/ FollowUp \/ AttemptLeaseExpires \/ DispatchLeaseExpires
  \/ LatePost \/ StripeSettles \/ WindowCloses \/ KeyExpires

Spec == Init /\ [][Next]_vars

-----------------------------------------------------------------------------
(* What must hold.                                                         *)

\* Statuses, rows and steps are those of the code: the ledger never holds a raw
\* status of Stripe.
TypeOK ==
  /\ status \in Terminal \cup Open \cup {"absent", "pending"}
  /\ {known, noEffect, request, late, window} \subseteq BOOLEAN
  /\ {rowner, first, owner} \subseteq Workers \cup {NoWorker}
  /\ dstate \in {"held", "suspended", "completed", "failed"}
  /\ shows \in Shown \cup {"reset"}
  /\ caseStatus \in Finals \cup {"processing", "new"}
  /\ caseReply \in {"none", "issued", "review"}
  /\ {result, projected} \subseteq Issued \cup {"none", "pending", "failed"}
  /\ outcome \in [reply : {"none", "issued", "review"}, status : Finals \cup {"none"}]
  /\ effect \in Issued \cup {"none"}
  /\ told \subseteq IssuedRows \cup Corrections
  /\ refunds \in Nat /\ remote \in Answers \cup {"none", "reversed"}
  /\ answer \in Answers \cup {"none"}
  /\ {native, run} \subseteq {"waiting", "consumed", "resumed"}
  /\ pc \in [Workers -> {"idle"} \cup ToolPCs \cup FlowPCs \cup OtherPCs]
  /\ via \in [Workers -> {"http", "recovery", "blind"}]
  /\ got \in [Workers -> Answers \cup {"none"}]
  /\ kind \in [Workers -> Issued]
  /\ seen \in [Workers -> Shown \cup {"reset"}]
  /\ faults \in 0..MaxFaults

\* Whoever posts, retries, crashes or times out, the command is refunded once.
AtMostOneRefund == refunds <= 1

\* A durable effect never contradicts the ledger: nobody finds the effect of a
\* refund that failed, or that is still pending, and announces it.
EffectMatchesLedger == effect # "none" => status = "succeeded"

\* The rows are well formed, and no effect is recorded that the ledger denies.
LedgerIsSound == TypeOK /\ EffectMatchesLedger

\* The customer is told of a refund only if Stripe paid it, though it may have
\* been reversed since.
IssuedIsPaid == told \cap IssuedRows # {} => remote \in {"succeeded", "reversed"}

\* A refund that was announced and then failed in the ledger is corrected.
FailureIsCorrected ==
  told \cap IssuedRows # {} /\ status \in {"failed", "quarantined"}
    => "refund-failed" \in told

\* The customer hears of a refund that was paid, and again when it is reversed.
ToldAsPaid == IssuedIsPaid /\ FailureIsCorrected

\* After the ledger has given up, no worker that knew better before brings the
\* attempt back, records an effect or announces a refund.
GivenUpForGood ==
  [][(status \in {"failed", "quarantined"})
       => status' = status /\ effect' = "none" /\ (told' \ told) \cap IssuedRows = {}]_vars

\* The promise that the webhook and the poll keep too: see RefundLedger.  An
\* attempt whose POST is refused is recorded as failed.
Ledger == INSTANCE RefundLedger WITH
  Refusable <- TRUE,
  refund <- CASE remote \in {"pending", "action"} -> "open"
              [] remote = "succeeded" -> "paid"
              [] OTHER -> remote,
  ledger <- IF status \in Terminal THEN status ELSE "open",
  told <- (IF told \cap IssuedRows # {} THEN {"issued"} ELSE {})
          \cup (IF "refund-failed" \in told THEN {"correction"} ELSE {})

\* Whoever works on it, the attempt, the refund and the messages implement the
\* ledger: in particular a success is taken back only after a reversal, never
\* because of a failure that somebody read or inferred earlier.
ImplementsLedger == Ledger!Spec

=============================================================================

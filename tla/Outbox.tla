------------------------------- MODULE Outbox -------------------------------
(***************************************************************************)
(* The durable outbox of one support conversation.                         *)
(*                                                                         *)
(* Finalizing a turn, or resolving an escalated case by hand, queues       *)
(* operations on the remote conversation as rows of support_outbox.  Each  *)
(* sweep of deliverOutbox (the recovery loop, and every workflow run that  *)
(* just finalized a turn) claims one row at a time under a lease.  The     *)
(* Intercom API has no idempotency key, so a row is marked 'started'       *)
(* before its POST and an unknown outcome becomes 'uncertain', never a     *)
(* second POST.  A follow-up withdraws the rows of a manual resolution:    *)
(* the ones not yet started are superseded, a started one becomes          *)
(* uncertain and the worker that posts it reopens the conversation.        *)
(*                                                                         *)
(* The rows of the conversation are numbered in the order (created_at, id).*)
(* The provider is external: applied[i] counts the POSTs it carried out    *)
(* for row i, remote is the state of its conversation.  The case and its   *)
(* turns are reduced to what the outbox reads and writes; Dispatch is the  *)
(* detailed model of them.                                                 *)
(***************************************************************************)
EXTENDS Naturals, FiniteSets

CONSTANTS Workers,      \* concurrent runs of deliverOutbox
          NoWorker,     \* lease_token IS NULL
          Provider,     \* binding.providerKind: "intercom" or "local"
          MaxTurns,     \* bound: customer messages of the conversation
          MaxRows,      \* bound: operations queued for the conversation
          MaxAttempts,  \* the literal 3 of the outbox statements
          MaxFaults     \* bound: crashes, and stalls longer than a lease

Turns == 1..MaxTurns
Rows == 1..MaxRows

ASSUME OutboxWorkersAssumption == NoWorker \notin Workers
ASSUME ProviderAssumption == Provider \in {"intercom", "local"}
ASSUME OutboxBoundsAssumption == /\ MaxTurns \in Nat \ {0}
                                 /\ MaxRows \in Nat
                                 /\ MaxAttempts \in Nat \ {0}
                                 /\ MaxFaults \in Nat

VARIABLES
  turns, served,         \* turns accepted, turns activated so far
  dispatch,              \* of the turn last activated
  activeTurn, status,    \* metadata.activeTurnId (0: undefined), support_cases.status
  size,                  \* rows queued so far
  op, origin, wants,     \* operation, originating_turn_id, status of each row
  ostate, attempts, owner, live,  \* support_outbox, lease_until > now
  deferred,              \* rows with next_attempt_at > now
  applied, remote,       \* the provider
  pc, job, counted,      \* step of each worker, its row, item.attempts
  fresh,                 \* workers whose claimedAt is not older than any time
                         \* written to their candidate row since the SELECT
  faults

caseVars == <<turns, served, dispatch, activeTurn, status>>
planVars == <<size, op, origin, wants>>
rowVars == <<ostate, attempts, owner, live, deferred, fresh>>
remoteVars == <<applied, remote>>
workerVars == <<pc, job, counted>>
vars == <<caseVars, planVars, rowVars, remoteVars, workerVars, faults>>

Finals == {"resolved", "escalated"}
Manual == {"note", "close"}           \* id LIKE 'manual_%'
StatusOps == {"status", "close"}
Active == {"claimed", "started"}
Unsettled == Active \cup {"pending"}

PCs == {"idle", "sweeping", "selected", "claimed", "stale", "checked", "renewed",
        "started", "fence", "posting", "refused", "ambiguous", "withdrawn", "receipt",
        "late", "reopen", "reopenFence", "reopenPost"}

-----------------------------------------------------------------------------
Goto(w, label) == pc' = [pc EXCEPT ![w] = label] /\ UNCHANGED <<job, counted>>

GoIdle(w) == Goto(w, "idle")

\* The row carries this worker's token: the condition of its fenced statements.
Owns(w) == ostate[job[w]] \in Active /\ owner[job[w]] = w

\* A row left behind by all but delivered and superseded ones blocks the queue.
Passed(i) == ostate[i] \in {"delivered", "superseded"}

\* Mutant: a failed row lets the later operations of the case through.
HeadOfLineSkippingFailed(i) ==
  \A e \in 1..(i - 1) : Passed(e) \/ ostate[e] = "failed"

HeadOfLine(i) == \A e \in 1..(i - 1) : Passed(e)

\* state = s, lease_until = NULL, lease_token = NULL
Settle(i, s) ==
  /\ ostate' = [ostate EXCEPT ![i] = s]
  /\ owner' = [owner EXCEPT ![i] = NoWorker]
  /\ live' = [live EXCEPT ![i] = FALSE]
  /\ UNCHANGED attempts

\* markOutboxUncertain: the case is escalated, whatever turn it is showing.
Quarantine(i) ==
  /\ Settle(i, "uncertain")
  /\ status' = "escalated"

\* The candidate row got a new lease or retry time: claims in progress are late.
Outdated(i) == {l \in fresh : job[l] # i}

-----------------------------------------------------------------------------
(* The case: turns, and the operations they queue.                         *)

Enqueue(rows, s) ==
  LET n == CHOOSE k \in 1..2 : DOMAIN rows = 1..k
      new == (size + 1)..(size + n)
  IN
  /\ size + n <= MaxRows
  /\ size' = size + n
  /\ op' = [i \in Rows |-> IF i \in new THEN rows[i - size] ELSE op[i]]
  /\ origin' = [i \in Rows |-> IF i \in new THEN activeTurn ELSE origin[i]]
  /\ wants' = [i \in Rows |-> IF i \in new THEN s ELSE wants[i]]
  /\ ostate' = [i \in Rows |-> IF i \in new THEN "pending" ELSE ostate[i]]

\* planFinalizationOutbox: Intercom also gets the conversation's new state.  (The
\* note and ticket of an escalation are posted like a reply and left out.)
FinalOperations == IF Provider = "intercom" THEN <<"reply", "status">> ELSE <<"reply">>

ActivateTurn ==
  /\ dispatch = "idle" /\ served < turns
  /\ dispatch' = "running" /\ served' = served + 1
  /\ activeTurn' = served + 1 /\ status' = "open"
  /\ UNCHANGED <<turns, planVars, rowVars, remoteVars, workerVars, faults>>

AskApproval ==
  /\ dispatch = "running" /\ activeTurn = served
  /\ dispatch' = "suspended" /\ status' = "waiting_approval"
  /\ UNCHANGED <<turns, served, activeTurn, planVars, rowVars, remoteVars, workerVars,
                 faults>>

Decide ==
  /\ dispatch = "suspended" /\ status = "waiting_approval"
  /\ dispatch' = "running" /\ status' = "open"
  /\ UNCHANGED <<turns, served, activeTurn, planVars, rowVars, remoteVars, workerVars,
                 faults>>

FinalizeCaseAndEnqueue(s) ==
  /\ dispatch = "running" /\ activeTurn = served
  /\ Enqueue(FinalOperations, s)
  /\ dispatch' = "idle" /\ status' = s
  /\ UNCHANGED <<turns, served, activeTurn, attempts, owner, live, deferred, fresh,
                 remoteVars, workerVars, faults>>

FailDispatchAndCase ==
  /\ dispatch = "running"
  /\ dispatch' = "idle" /\ status' = "escalated"
  /\ UNCHANGED <<turns, served, activeTurn, planVars, rowVars, remoteVars, workerVars,
                 faults>>

\* Mutant: a row already started is left to its sender.
WithdrawnBeforeStart ==
  {i \in Rows : /\ activeTurn # 0 /\ origin[i] = activeTurn
                /\ op[i] \in Manual /\ ostate[i] \in {"pending", "claimed"}}

\* The rows of the manual resolution that a follow-up invalidates.
Withdrawn ==
  {i \in Rows : /\ activeTurn # 0 /\ origin[i] = activeTurn
                /\ op[i] \in Manual /\ ostate[i] \in Unsettled}

\* The message may arrive through the provider, which reopens its conversation,
\* or through the portal.
AppendFollowUp ==
  LET resets == status \in Finals \cup {"waiting_approval"}
  IN
  /\ turns < MaxTurns
  /\ turns' = turns + 1
  /\ ostate' = [i \in Rows |-> IF i \notin Withdrawn THEN ostate[i]
                             ELSE IF ostate[i] = "started" THEN "uncertain"
                             ELSE "superseded"]
  /\ owner' = [i \in Rows |-> IF i \in Withdrawn THEN NoWorker ELSE owner[i]]
  /\ live' = [i \in Rows |-> i \notin Withdrawn /\ live[i]]
  /\ IF resets THEN status' = "open" /\ activeTurn' = 0
     ELSE UNCHANGED <<status, activeTurn>>
  /\ dispatch' = IF status = "waiting_approval" THEN "idle" ELSE dispatch
  /\ \/ UNCHANGED remote
     \/ Provider = "intercom" /\ remote' = "open"
  /\ UNCHANGED <<served, planVars, attempts, deferred, fresh, applied, workerVars, faults>>

\* A staff member resolves an escalated case; no turn may be queued or at work.
ResolveManually ==
  /\ status = "escalated" /\ activeTurn # 0
  /\ dispatch = "idle" /\ served = turns
  /\ Enqueue(<<"note", "close">>, "resolved")
  /\ status' = "resolved"
  /\ UNCHANGED <<turns, served, dispatch, activeTurn, attempts, owner, live, deferred,
                 fresh, remoteVars, workerVars, faults>>

-----------------------------------------------------------------------------
(* claimOutbox: a sweep of interrupted rows, a sweep of exhausted ones, a   *)
(* SELECT and an UPDATE, with one claimedAt.                                *)

SeeInterrupted(w, i) ==
  /\ pc[w] = "idle" /\ Provider = "intercom"
  /\ ostate[i] = "started" /\ ~live[i]
  /\ pc' = [pc EXCEPT ![w] = "sweeping"] /\ job' = [job EXCEPT ![w] = i]
  /\ UNCHANGED <<caseVars, planVars, rowVars, remoteVars, counted, faults>>

\* markOutboxUncertain(id, ..., undefined, "started"): the lease is not looked at again.
MarkInterrupted(w) ==
  LET i == job[w] IN
  /\ pc[w] = "sweeping"
  /\ IF ostate[i] = "started" THEN Quarantine(i)
     ELSE UNCHANGED <<ostate, attempts, owner, live, status>>
  /\ GoIdle(w)
  /\ UNCHANGED <<turns, served, dispatch, activeTurn, planVars, deferred, fresh,
                 remoteVars, faults>>

\* Mutant: four claims before a row is given up.
ExhaustedOffByOne(i) == ostate[i] = "claimed" /\ ~live[i] /\ attempts[i] > MaxAttempts

Exhausted(i) == ostate[i] = "claimed" /\ ~live[i] /\ attempts[i] >= MaxAttempts

SweepExhausted(w, i) ==
  /\ pc[w] = "idle" /\ Exhausted(i)
  /\ Settle(i, "failed")
  /\ UNCHANGED <<caseVars, planVars, deferred, fresh, remoteVars, workerVars, faults>>

Reclaimable(i) == ostate[i] = "pending" \/ (ostate[i] = "claimed" /\ ~live[i])

ClaimSelect(w, i) ==
  /\ pc[w] = "idle"
  /\ Reclaimable(i) /\ attempts[i] < MaxAttempts
  /\ i \notin deferred /\ HeadOfLine(i)
  /\ pc' = [pc EXCEPT ![w] = "selected"] /\ job' = [job EXCEPT ![w] = i]
  /\ counted' = [counted EXCEPT ![w] = attempts[i] + 1]
  /\ fresh' = fresh \cup {w}
  /\ UNCHANGED <<caseVars, planVars, ostate, attempts, owner, live, deferred,
                 remoteVars, faults>>

\* The UPDATE repeats every condition but attempts < 3.  Times are compared
\* with the claimedAt of the SELECT: a lease or a retry time set since then
\* counts as future; a local retry sets no time.
ClaimUpdate(w) ==
  LET i == job[w]
      due == i \notin deferred /\ w \in fresh
  IN
  /\ pc[w] = "selected"
  /\ IF /\ \/ ostate[i] = "pending" /\ (due \/ Provider = "local")
           \/ Reclaimable(i) /\ due
        /\ HeadOfLine(i)
     THEN /\ ostate' = [ostate EXCEPT ![i] = "claimed"]
          /\ attempts' = [attempts EXCEPT ![i] = @ + 1]
          /\ owner' = [owner EXCEPT ![i] = w]
          /\ live' = [live EXCEPT ![i] = TRUE]
          /\ fresh' = Outdated(i)
          /\ Goto(w, "claimed")
     ELSE GoIdle(w) /\ fresh' = fresh \ {w} /\ UNCHANGED <<ostate, attempts, owner, live>>
  /\ UNCHANGED <<caseVars, planVars, deferred, remoteVars, faults>>

-----------------------------------------------------------------------------
(* deliverOutbox, before the provider is called.                           *)

\* A newer turn withdrew the manual row, or the case was resolved after the
\* escalation that queued it.
NoLongerWanted(i) ==
  \/ op[i] \in Manual /\ activeTurn # origin[i]
  \/ status = "resolved" /\ wants[i] = "escalated"

ReadOwnerCase(w) ==
  /\ pc[w] = "claimed"
  /\ Goto(w, IF NoLongerWanted(job[w]) THEN "stale" ELSE "checked")
  /\ UNCHANGED <<caseVars, planVars, rowVars, remoteVars, faults>>

SupersedeOutbox(w) ==
  LET i == job[w] IN
  /\ pc[w] = "stale"
  /\ IF Owns(w) /\ ostate[i] = "claimed" THEN Settle(i, "superseded")
     ELSE UNCHANGED <<ostate, attempts, owner, live>>
  /\ GoIdle(w)
  /\ UNCHANGED <<caseVars, planVars, deferred, fresh, remoteVars, faults>>

\* renewOutboxLease wants the token, and revives a lease that has expired.
Renew(w) ==
  /\ live' = [live EXCEPT ![job[w]] = TRUE]
  /\ fresh' = Outdated(job[w])

RenewOutboxLease(w) ==
  /\ pc[w] = "checked"
  /\ IF Owns(w) THEN Renew(w) /\ Goto(w, IF Provider = "intercom" THEN "renewed" ELSE "posting")
     ELSE GoIdle(w) /\ UNCHANGED <<live, fresh>>
  /\ UNCHANGED <<caseVars, planVars, ostate, attempts, owner, deferred, remoteVars, faults>>

\* The heartbeat of a worker that stalled.
Heartbeat(w) ==
  /\ pc[w] \notin {"idle", "sweeping", "selected", "claimed", "stale", "checked"}
  /\ Owns(w) /\ ~live[job[w]]
  /\ Renew(w)
  /\ UNCHANGED <<caseVars, planVars, ostate, attempts, owner, deferred, remoteVars,
                 workerVars, faults>>

\* A manual operation belongs to the turn it was written for.
BelongsToActiveTurn(i) == op[i] \in Manual => activeTurn = origin[i]

MarkOutboxStarted(w) ==
  LET i == job[w] IN
  /\ pc[w] = "renewed"
  /\ IF Owns(w) /\ ostate[i] = "claimed" /\ live[i] /\ BelongsToActiveTurn(i)
     THEN ostate' = [ostate EXCEPT ![i] = "started"] /\ Goto(w, "started")
     ELSE GoIdle(w) /\ UNCHANGED ostate
  /\ UNCHANGED <<caseVars, planVars, attempts, owner, live, deferred, fresh, remoteVars,
                 faults>>

-----------------------------------------------------------------------------
(* The provider adapter: a GET, the fence of manual operations, the POST.  *)

Desired(i) == IF wants[i] = "resolved" THEN "closed" ELSE "open"

\* Mutant: an error after the POST is retried like any other.
OutcomeOfErrorRetried(effect) == "refused"

\* Where an error of the provider call leads: a timeout, a lost or malformed
\* response of Intercom is ambiguous; the local provider is idempotent.
OutcomeOfError(effect) == IF Provider = "intercom" THEN "ambiguous" ELSE "refused"

\* A conversation already in the desired state needs no POST.  A refused GET is
\* known to precede the POST; another error before it is not told from one after.
ReadConversation(w) ==
  LET i == job[w] IN
  /\ pc[w] = "started"
  /\ \/ Goto(w, "refused")
     \/ Goto(w, OutcomeOfError("none"))
     \/ Goto(w, IF op[i] \in StatusOps /\ remote = Desired(i) THEN "receipt" ELSE "fence")
  /\ UNCHANGED <<caseVars, planVars, rowVars, remoteVars, faults>>

\* manualOutboxEffectIsCurrent
EffectIsCurrent(w) ==
  LET i == job[w] IN
  op[i] \in Manual =>
    Owns(w) /\ ostate[i] = "started" /\ live[i] /\ activeTurn = origin[i]

CheckFence(w) ==
  /\ pc[w] = "fence"
  /\ Goto(w, IF EffectIsCurrent(w) THEN "posting" ELSE "withdrawn")
  /\ UNCHANGED <<caseVars, planVars, rowVars, remoteVars, faults>>



\* The provider carries the operation out; the answer may get lost.
PostIsApplied(w) ==
  LET i == job[w] IN
  /\ pc[w] = "posting"
  /\ applied' = [applied EXCEPT ![i] = IF Provider = "local" THEN 1 ELSE @ + 1]
  /\ remote' = IF op[i] \in StatusOps THEN Desired(i) ELSE remote
  /\ Goto(w, "receipt") \/ Goto(w, OutcomeOfError("applied"))
  /\ UNCHANGED <<caseVars, planVars, rowVars, faults>>

\* It is refused (4xx), or never arrives.
PostIsNotApplied(w) ==
  /\ pc[w] = "posting"
  /\ Goto(w, "refused") \/ Goto(w, OutcomeOfError("none"))
  /\ UNCHANGED <<caseVars, planVars, rowVars, remoteVars, faults>>

-----------------------------------------------------------------------------
(* deliverOutbox, after the provider has answered.                         *)

\* The receipt cannot be stored: the effect is known, but not on record.
LoseReceipt(w) ==
  /\ pc[w] = "receipt"
  /\ Goto(w, OutcomeOfError("applied"))
  /\ UNCHANGED <<caseVars, planVars, rowVars, remoteVars, faults>>

CompleteOutbox(w) ==
  LET i == job[w] IN
  /\ pc[w] = "receipt"
  /\ IF Owns(w) THEN Settle(i, "delivered") /\ GoIdle(w)
     ELSE /\ UNCHANGED <<ostate, attempts, owner, live>>
          /\ Goto(w, IF op[i] \in Manual THEN "late" ELSE "idle")
  /\ UNCHANGED <<caseVars, planVars, deferred, fresh, remoteVars, faults>>

\* retryOutbox wants the token only.  item.attempts is the count of the SELECT.
RetryOutbox(w) ==
  LET i == job[w] IN
  /\ pc[w] = "refused"
  /\ \E permanent \in BOOLEAN :
       LET terminal == permanent \/ counted[w] >= MaxAttempts
           waits == ~terminal /\ Provider = "intercom"
       IN
       IF owner[i] = w
       THEN /\ Settle(i, IF terminal THEN "failed" ELSE "pending")
            /\ deferred' = IF waits THEN deferred \cup {i} ELSE deferred
            /\ fresh' = IF waits THEN Outdated(i) ELSE fresh
       ELSE UNCHANGED rowVars
  /\ GoIdle(w)
  /\ UNCHANGED <<caseVars, planVars, remoteVars, faults>>

\* next_attempt_at passes.
RetryIsDue(i) ==
  /\ i \in deferred
  /\ deferred' = deferred \ {i}
  /\ UNCHANGED <<caseVars, planVars, ostate, attempts, owner, live, fresh, remoteVars,
                 workerVars, faults>>

QuarantineEffect(w) ==
  LET i == job[w] IN
  /\ pc[w] = "ambiguous"
  /\ IF Owns(w) /\ ostate[i] = "started" THEN Quarantine(i)
     ELSE UNCHANGED <<ostate, attempts, owner, live, status>>
  /\ GoIdle(w)
  /\ UNCHANGED <<turns, served, dispatch, activeTurn, planVars, deferred, fresh,
                 remoteVars, faults>>

\* supersedeManualOutboxAfterFence, for a manual row that a follow-up withdrew
\* before or after its POST.  A row refused because its lease expired is not
\* uncertain and stays started.
SupersedeAfterFence(w) ==
  LET i == job[w] IN
  /\ pc[w] = "withdrawn"
  /\ IF ostate[i] = "uncertain" THEN Settle(i, "superseded")
     ELSE UNCHANGED <<ostate, attempts, owner, live>>
  /\ GoIdle(w)
  /\ UNCHANGED <<caseVars, planVars, deferred, fresh, remoteVars, faults>>

\* Mutant: a stale close is taken for a note.
NeedsReopenNever(i) == FALSE

\* manualOutboxNeedsReopen
NeedsReopen(i) ==
  ostate[i] = "uncertain" /\ activeTurn # origin[i] /\ status # "resolved"

\* The manual operation was posted although a follow-up withdrew it: a note is
\* left alone, a close must be undone.
ReconcileLateReceipt(w) ==
  /\ pc[w] = "late"
  /\ Goto(w, IF op[job[w]] = "close" /\ NeedsReopen(job[w]) THEN "reopen" ELSE "withdrawn")
  /\ UNCHANGED <<caseVars, planVars, rowVars, remoteVars, faults>>

\* The conversation is read; a failed read leaves the row uncertain for good.
ReadBeforeReopen(w) ==
  /\ pc[w] = "reopen"
  /\ \/ Goto(w, "idle")
     \/ Goto(w, IF remote = "open" THEN "withdrawn"
                ELSE IF ostate[job[w]] = "uncertain" THEN "reopenFence" ELSE "idle")
  /\ UNCHANGED <<caseVars, planVars, rowVars, remoteVars, faults>>

CheckReopenFence(w) ==
  /\ pc[w] = "reopenFence"
  /\ Goto(w, IF NeedsReopen(job[w]) THEN "reopenPost" ELSE "withdrawn")
  /\ UNCHANGED <<caseVars, planVars, rowVars, remoteVars, faults>>

Reopen(w) ==
  /\ pc[w] = "reopenPost"
  /\ \/ remote' = "open" /\ (Goto(w, "withdrawn") \/ Goto(w, "idle"))
     \/ UNCHANGED remote /\ Goto(w, "idle")
  /\ UNCHANGED <<caseVars, planVars, rowVars, applied, faults>>

-----------------------------------------------------------------------------
(* Faults.                                                                 *)

AtWork(i) == owner[i] \in Workers /\ job[owner[i]] = i /\ pc[owner[i]] # "idle"

\* The process is gone, or a failed renewal made it drop the row where it was.
Crash(w) ==
  /\ pc[w] # "idle" /\ faults < MaxFaults
  /\ faults' = faults + 1
  /\ GoIdle(w)
  /\ fresh' = fresh \ {w}
  /\ UNCHANGED <<caseVars, planVars, ostate, attempts, owner, live, deferred, remoteVars>>

Stall(i) ==
  /\ ostate[i] \in Active /\ live[i] /\ AtWork(i) /\ faults < MaxFaults
  /\ faults' = faults + 1
  /\ live' = [live EXCEPT ![i] = FALSE]
  /\ UNCHANGED <<caseVars, planVars, ostate, attempts, owner, deferred, fresh, remoteVars,
                 workerVars>>

OrphanExpires(i) ==
  /\ ostate[i] \in Active /\ live[i] /\ ~AtWork(i)
  /\ live' = [live EXCEPT ![i] = FALSE]
  /\ UNCHANGED <<caseVars, planVars, ostate, attempts, owner, deferred, fresh, remoteVars,
                 workerVars, faults>>

-----------------------------------------------------------------------------
\* The first turn is being executed, nothing is queued yet.
Init ==
  /\ turns = 1 /\ served = 1 /\ dispatch = "running"
  /\ activeTurn = 1 /\ status = "open"
  /\ size = 0
  /\ op = [i \in Rows |-> "none"]
  /\ origin = [i \in Rows |-> 0]
  /\ wants = [i \in Rows |-> "none"]
  /\ ostate = [i \in Rows |-> "absent"]
  /\ attempts = [i \in Rows |-> 0]
  /\ owner = [i \in Rows |-> NoWorker]
  /\ live = [i \in Rows |-> FALSE]
  /\ deferred = {} /\ fresh = {}
  /\ applied = [i \in Rows |-> 0] /\ remote = "open"
  /\ pc = [w \in Workers |-> "idle"]
  /\ job = [w \in Workers |-> 1]
  /\ counted = [w \in Workers |-> 0]
  /\ faults = 0

CaseStep ==
  \/ ActivateTurn \/ AskApproval \/ Decide \/ FailDispatchAndCase
  \/ AppendFollowUp \/ ResolveManually
  \/ \E s \in Finals : FinalizeCaseAndEnqueue(s)

\* What a worker that has a row does next, unless it crashes.
Deliver(w) ==
  \/ MarkInterrupted(w) \/ ClaimUpdate(w)
  \/ ReadOwnerCase(w) \/ SupersedeOutbox(w) \/ RenewOutboxLease(w)
  \/ MarkOutboxStarted(w) \/ ReadConversation(w) \/ CheckFence(w)
  \/ PostIsApplied(w) \/ PostIsNotApplied(w) \/ LoseReceipt(w)
  \/ CompleteOutbox(w) \/ RetryOutbox(w) \/ QuarantineEffect(w) \/ SupersedeAfterFence(w)
  \/ ReconcileLateReceipt(w) \/ ReadBeforeReopen(w) \/ CheckReopenFence(w)
  \/ Reopen(w)

\* What an idle worker finds to do.
Sweep(w) ==
  \E i \in Rows : SeeInterrupted(w, i) \/ SweepExhausted(w, i) \/ ClaimSelect(w, i)

Next ==
  \/ CaseStep
  \/ \E w \in Workers : Sweep(w) \/ Deliver(w) \/ Heartbeat(w) \/ Crash(w)
  \/ \E i \in Rows : RetryIsDue(i) \/ Stall(i) \/ OrphanExpires(i)

Spec == Init /\ [][Next]_vars

\* The loop sweeps every five seconds, a sweep runs to its end unless it
\* crashes, and time passes for retries and for leases nobody renews.
Fairness ==
  /\ \A w \in Workers : WF_vars(Sweep(w) \/ Deliver(w))
  /\ \A i \in Rows : WF_vars(RetryIsDue(i)) /\ WF_vars(OrphanExpires(i))

FairSpec == Spec /\ Fairness

-----------------------------------------------------------------------------
(* What must hold.                                                         *)

TypeOK ==
  /\ turns \in Turns /\ served \in Turns
  /\ dispatch \in {"idle", "running", "suspended"}
  /\ activeTurn \in 0..MaxTurns
  /\ status \in Finals \cup {"open", "waiting_approval"}
  /\ size \in 0..MaxRows
  /\ op \in [Rows -> Manual \cup {"none", "reply", "status"}]
  /\ origin \in [Rows -> 0..MaxTurns]
  /\ wants \in [Rows -> Finals \cup {"none"}]
  /\ ostate \in [Rows -> Unsettled \cup {"absent", "delivered", "superseded", "failed",
                                         "uncertain"}]
  /\ attempts \in [Rows -> Nat]
  /\ owner \in [Rows -> Workers \cup {NoWorker}]
  /\ live \in [Rows -> BOOLEAN]
  /\ deferred \in SUBSET Rows /\ fresh \in SUBSET Workers
  /\ applied \in [Rows -> Nat] /\ remote \in {"open", "closed"}
  /\ pc \in [Workers -> PCs] /\ job \in [Workers -> Nat] /\ counted \in [Workers -> Nat]
  /\ faults \in 0..MaxFaults

\* Intercom has no idempotency key: whatever crashes, stalls, times out or is
\* swept while its sender is still alive, an operation is carried out at most once.
AtMostOnce == \A i \in Rows : applied[i] <= 1

\* The rows are well formed, and none is carried out twice.
QueueIsSound == TypeOK /\ AtMostOnce

\* The fate of each row in Delivery.
Fate == [i \in Rows |-> CASE ostate[i] = "absent" -> "absent"
                           [] ostate[i] \in Unsettled -> "queued"
                           [] ostate[i] \in {"delivered", "superseded"} -> "done"
                           [] ostate[i] = "failed" -> "failed"
                           [] OTHER -> "doubtful"]

Delivered == INSTANCE Delivery WITH fate <- Fate, effects <- applied

\* The rows of an Intercom conversation implement Delivery: carried out in
\* order, a failed one without effect, an uncertain one never posted again,
\* whatever sweeps, heartbeats, follow-ups and crashes interleave.
ImplementsDelivery == Delivered!Spec

\* A staff note or close counts as delivered only while the case still shows
\* the turn it was written for, even when a follow-up commits between its
\* fence, its POST and its receipt.
ManualDeliveryIsCurrent ==
  [][\A i \in Rows : op[i] \in Manual /\ ostate[i] # "delivered" /\ ostate'[i] = "delivered"
                       => activeTurn = origin[i]]_vars

\* The sender of a close that reached Intercom after a follow-up lets go of it
\* only when the conversation is open again or the case is resolved anyway.
StaleCloseIsUndone ==
  [][\A w \in Workers :
       LET i == job[w] IN
       /\ op[i] = "close" /\ applied[i] = 1 /\ ostate[i] = "uncertain"
       /\ pc[w] # "withdrawn" /\ pc'[w] = "withdrawn"
       => remote' = "open" \/ status = "resolved" \/ activeTurn = origin[i]]_vars

\* Every queued row is settled, unless an earlier one that failed or is
\* uncertain holds the queue.
RowsSettle ==
  \A i \in Rows :
    ostate[i] \in Unsettled ~>
      \/ ostate[i] \notin Unsettled
      \/ \E e \in Rows : e < i /\ ostate[e] \in {"failed", "uncertain"}

=============================================================================

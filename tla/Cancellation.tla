---------------------------- MODULE Cancellation ----------------------------
(***************************************************************************)
(* One turn that asks to cancel a subscription at the end of its period.   *)
(*                                                                         *)
(* The command of the turn has one row of                                  *)
(* support_subscription_cancellation_attempts.  A worker that owns the     *)
(* dispatch schedules the cancellation in one workflow step and answers    *)
(* the customer in a later one; the reconciler of any process asks Stripe  *)
(* about rows in doubt, those whose POST is still under way included.      *)
(*                                                                         *)
(* External: Stripe, where the subscription is a flag that another case    *)
(* or an operator may set too, and the snapshot of the Mastra run (run:    *)
(* the step that a restart begins with).                                   *)
(***************************************************************************)
EXTENDS Naturals

CONSTANTS Workers,        \* workflow runners and reconcilers
          NoWorker,       \* a lease token that is NULL
          Authorities,    \* what triage, draft and message may allow
          EarlierEffects, \* metadata.cancellationEffect when the turn begins
          MaxFaults       \* bound: crashes, and stalls longer than a lease

ASSUME CancellationWorkersAssumption == NoWorker \notin Workers
ASSUME AuthoritiesAssumption == Authorities \subseteq {"explicit", "unclear", "escalate"}
ASSUME EarlierEffectsAssumption == EarlierEffects \subseteq {"none", "earlier"}
ASSUME CancellationBoundAssumption == MaxFaults \in Nat

VARIABLES
  status, effect,         \* the attempt, its row of support_idempotency
  old,                    \* 24 hours since created_at
  rtoken, rlive,          \* reconcile_lease_token, reconcile_lease_until > now
  dstate, owner,          \* support_dispatch: state, lease_token of a live lease
  run,                    \* step a restart of the run begins with, or its result
  authority,              \* triage, draft and message of the turn
  shows,                  \* does the case show this turn
  caseStatus, caseReply, caseEffect,  \* the case, metadata.cancellationEffect
  outcome, told,          \* outcome_data of the turn, its outbox rows
  posts, mine, late,      \* POSTs sent, one was carried out, one is given up
  cancels,                \* cancel_at_period_end at Stripe
  pc, reply,              \* step of each worker, the answer it has composed
  crashes, stalls

attemptVars == <<status, effect, rtoken, rlive>>
faultVars == <<crashes, stalls>>
dispatchVars == <<dstate, owner>>
caseVars == <<shows, caseStatus, caseReply, caseEffect>>
recordVars == <<outcome, told>>
stripeVars == <<posts, mine, late, cancels>>
vars == <<attemptVars, old, dispatchVars, run, authority, caseVars, recordVars,
          stripeVars, pc, reply, crashes, stalls>>

Doubt == {"claimed", "unknown"}
Terminal == {"scheduled", "failed", "quarantined"}
Finals == {"resolved", "escalated"}
Shown == {"turn", "restored"}   \* metadata.activeTurnId is this turn
FlowPCs == {"schedule", "prepare", "claim", "trusted", "preflight", "fence", "posting",
            "refused", "posted", "doubt", "threw", "scheduled", "resolve", "finalize",
            "done", "failing"}
ReconcilerPCs == {"query", "found", "missing"}

Owns(w) == dstate = "held" /\ owner = w

Goto(w, label) == pc' = [pc EXCEPT ![w] = label] /\ UNCHANGED reply

\* Idle workers remember nothing.
GoIdle(w) ==
  /\ pc' = [pc EXCEPT ![w] = "idle"]
  /\ reply' = [reply EXCEPT ![w] = "none"]

-----------------------------------------------------------------------------
(* Writes of the attempt.                                                  *)

MayFinalize(to) == status = "claimed" \/ status = to

\* finalizeSubscriptionCancellationAttempt: no lease, and nobody reads the result.
FinalizeAttempt(to) ==
  IF MayFinalize(to)
  THEN /\ status' = to /\ effect' = (effect \/ to = "scheduled")
       /\ rtoken' = NoWorker /\ rlive' = FALSE
  ELSE UNCHANGED attemptVars

\* Mutant: a row whose worker died before it wrote "unknown" is overlooked.
MaySettleUnknown(token) == status = "unknown" /\ (token = NoWorker \/ rtoken = token)

\* NoWorker stands for a call without a recovery claim.
MaySettle(token) == status \in Doubt /\ (token = NoWorker \/ rtoken = token)

\* finalizeUnknownSubscriptionCancellation: attempt, turn, effect, outbox and,
\* if the case shows the turn, the case, in one transaction.
Settle(to, token) ==
  IF MaySettle(token)
  THEN LET text == IF to = "scheduled" THEN "scheduled" ELSE "review"
           final == IF to = "scheduled" THEN "resolved" ELSE "escalated"
       IN /\ status' = to /\ rtoken' = NoWorker /\ rlive' = FALSE
          /\ effect' = (effect \/ to = "scheduled")
          /\ outcome' = [reply |-> text, status |-> final]
          /\ told' = told \cup {IF to = "scheduled" THEN "cancellation-final"
                                                    ELSE "cancellation-failed"}
          /\ IF shows \in Shown
             THEN /\ caseStatus' = final /\ caseReply' = text
                  /\ caseEffect' = IF to = "scheduled" THEN "own" ELSE caseEffect
                  /\ UNCHANGED shows
             ELSE UNCHANGED caseVars
  ELSE UNCHANGED <<attemptVars, caseVars, recordVars>>

-----------------------------------------------------------------------------
(* The workflow step that schedules, and the tool that it runs.            *)

\* A recovered run is completed, failed, or restarted at its active step.
ClaimDispatch(w) ==
  /\ pc[w] = "idle" /\ dstate = "held" /\ owner = NoWorker
  /\ owner' = w
  /\ Goto(w, CASE run = "success" -> "done" [] run = "failed" -> "failing"
               [] OTHER -> run)
  /\ UNCHANGED <<attemptVars, old, dstate, run, authority, caseVars, recordVars,
                 stripeVars, faultVars>>

\* caseStore.update under the lease of the workflow, which ends the step.
EscalateStep(w) ==
  IF Owns(w)
  THEN /\ caseStatus' = "escalated" /\ run' = "resolve" /\ Goto(w, "resolve")
       /\ UNCHANGED <<shows, caseReply, caseEffect>>
  ELSE Goto(w, "failing") /\ UNCHANGED <<caseVars, run>>

\* Only an explicit request of an active subscription becomes a command.
ScheduleStep(w) ==
  /\ pc[w] = "schedule"
  /\ IF shows \notin Shown THEN Goto(w, "failing") /\ UNCHANGED <<caseVars, run>>
     ELSE IF authority = "explicit" THEN Goto(w, "prepare") /\ UNCHANGED <<caseVars, run>>
     ELSE EscalateStep(w)
  /\ UNCHANGED <<attemptVars, old, dispatchVars, authority, recordVars, stripeVars, faultVars>>

\* A restarted step finds the receipt that the tool recorded.
Replayable == status = "scheduled" /\ effect

\* prepareSubscriptionCancellationAttempt, and what the tool does with the row.
Prepare(w) ==
  /\ pc[w] = "prepare"
  /\ IF Owns(w) /\ status = "absent"
     THEN status' = "prepared" /\ Goto(w, "claim")
     ELSE /\ UNCHANGED status
          /\ Goto(w, CASE Owns(w) /\ status = "prepared" -> "claim"
                       [] Owns(w) /\ Replayable -> "scheduled"
                       [] OTHER -> "threw")
  /\ UNCHANGED <<effect, rtoken, rlive, old, dispatchVars, run, authority, caseVars,
                 recordVars, stripeVars, faultVars>>

Claimable == status = "prepared"

\* claimSubscriptionCancellationMutation: no lease, a compare and set.
ClaimMutation(w) ==
  /\ pc[w] = "claim"
  /\ IF Claimable THEN status' = "claimed" /\ Goto(w, "trusted")
                  ELSE UNCHANGED status /\ Goto(w, "threw")
  /\ UNCHANGED <<effect, rtoken, rlive, old, dispatchVars, run, authority, caseVars,
                 recordVars, stripeVars, faultVars>>

\* The registry checks the lease and looks for an effect to replay.
Trusted(w) ==
  /\ pc[w] = "trusted"
  /\ Goto(w, CASE ~Owns(w) -> "doubt" [] effect -> "posted" [] OTHER -> "preflight")
  /\ UNCHANGED <<attemptVars, old, dispatchVars, run, authority, caseVars, recordVars,
                 stripeVars, faultVars>>

\* Reads before the POST: a failure proves that nothing was sent.
Preflight(w) ==
  /\ pc[w] = "preflight"
  /\ \/ Goto(w, "fence") /\ UNCHANGED <<attemptVars, caseVars, recordVars>>
     \/ Goto(w, "doubt") /\ Settle("failed", NoWorker)
  /\ UNCHANGED <<old, dispatchVars, run, authority, stripeVars, faultVars>>

\* authorizeSubscriptionCancellationFirstEffect.
MayPost(w) == Owns(w) /\ status = "claimed" /\ shows \in Shown

Fence(w) ==
  /\ pc[w] = "fence"
  /\ Goto(w, IF MayPost(w) THEN "posting" ELSE "doubt")
  /\ UNCHANGED <<attemptVars, old, dispatchVars, run, authority, caseVars, recordVars,
                 stripeVars, faultVars>>

\* Mutant: an answer 408 or 5xx counts as a refusal.
RefusedMay(happens) == TRUE

\* A refusal (4xx, not 408) is an answer of a Stripe that did nothing.
Refused(happens) == ~happens

\* The POST is carried out or not, and answered, refused or lost.
Post(w) ==
  /\ pc[w] = "posting"
  /\ posts' = posts + 1
  /\ \E happens \in BOOLEAN :
       /\ mine' = (mine \/ happens) /\ cancels' = (cancels \/ happens)
       /\ \/ happens /\ Goto(w, "posted") /\ UNCHANGED late
          \/ Refused(happens) /\ Goto(w, "refused") /\ UNCHANGED late
          \/ late' = ~happens /\ Goto(w, "doubt")
  /\ UNCHANGED <<attemptVars, old, dispatchVars, run, authority, caseVars, recordVars, faultVars>>

\* The registry settles a refusal without a recovery claim, and throws.
RecordRefusal(w) ==
  /\ pc[w] = "refused"
  /\ Settle("failed", NoWorker) /\ Goto(w, "doubt")
  /\ UNCHANGED <<old, dispatchVars, run, authority, stripeVars, faultVars>>

RecordScheduled(w) ==
  /\ pc[w] = "posted"
  /\ FinalizeAttempt("scheduled") /\ Goto(w, "scheduled")
  /\ UNCHANGED <<old, dispatchVars, run, authority, caseVars, recordVars, stripeVars, faultVars>>

RecordDoubt(w) ==
  /\ pc[w] = "doubt"
  /\ FinalizeAttempt("unknown") /\ Goto(w, "threw")
  /\ UNCHANGED <<old, dispatchVars, run, authority, caseVars, recordVars, stripeVars, faultVars>>

\* The effect is written with the metadata read at the start of the step: a
\* follow-up that reset the case since then is undone.
ProjectEffect(w) ==
  /\ pc[w] = "scheduled"
  /\ IF Owns(w)
     THEN /\ caseEffect' = "own" /\ run' = "resolve" /\ Goto(w, "resolve")
          /\ shows' = IF shows = "reset" THEN "restored" ELSE shows
          /\ UNCHANGED <<caseStatus, caseReply>>
     ELSE Goto(w, "threw") /\ UNCHANGED <<caseVars, run>>
  /\ UNCHANGED <<attemptVars, old, dispatchVars, authority, recordVars, stripeVars, faultVars>>

ToolThrew(w) ==
  /\ pc[w] = "threw"
  /\ EscalateStep(w)
  /\ UNCHANGED <<attemptVars, old, dispatchVars, authority, recordVars, stripeVars, faultVars>>

-----------------------------------------------------------------------------
(* The workflow step that answers, and the end of the run.                 *)

\* Mutant: the answer reports the command, not its effect.
AnswerOfCommand ==
  IF authority = "explicit" THEN "scheduled" ELSE "safe"

\* The effect on the case counts, whichever turn it came from.
Answer ==
  CASE authority = "escalate" \/ caseEffect = "none" -> "safe"
    [] authority # "escalate" /\ caseEffect = "own" -> "scheduled"
    [] OTHER -> "earlier"

Verdict(text) == IF text = "safe" THEN "escalated" ELSE "resolved"

Row(text) ==
  CASE text = "safe" -> "final-safe" [] text = "scheduled" -> "final-scheduled"
    [] OTHER -> "final-earlier"

ResolveStep(w) ==
  /\ pc[w] = "resolve"
  /\ IF shows \in Shown
     THEN /\ reply' = [reply EXCEPT ![w] = Answer]
          /\ pc' = [pc EXCEPT ![w] = "finalize"]
     ELSE Goto(w, "failing")
  /\ UNCHANGED <<attemptVars, old, dispatchVars, run, authority, caseVars, recordVars,
                 stripeVars, faultVars>>

\* finalizeCaseAndEnqueue: an answer that conflicts with one that is recorded
\* is refused.
FinalizeCase(w) ==
  /\ pc[w] = "finalize"
  /\ LET text == reply[w]
         said(r, s) == r = "none" \/ (r = text /\ s = Verdict(text))
     IN IF /\ shows \in Shown /\ Owns(w)
           /\ said(outcome.reply, outcome.status) /\ said(caseReply, caseStatus)
        THEN /\ caseReply' = text /\ caseStatus' = Verdict(text)
             /\ outcome' = [reply |-> text, status |-> Verdict(text)]
             /\ told' = told \cup {Row(text)}
             /\ run' = "success" /\ Goto(w, "done")
             /\ UNCHANGED <<shows, caseEffect>>
        ELSE Goto(w, "failing") /\ UNCHANGED <<caseVars, recordVars, run>>
  /\ UNCHANGED <<attemptVars, old, dispatchVars, authority, stripeVars, faultVars>>

CompleteDispatch(w) ==
  /\ pc[w] = "done"
  /\ IF Owns(w) THEN dstate' = "completed" /\ owner' = NoWorker
                ELSE UNCHANGED dispatchVars
  /\ GoIdle(w)
  /\ UNCHANGED <<attemptVars, old, run, authority, caseVars, recordVars, stripeVars, faultVars>>

\* A step threw: the dispatch is retried, to find a failed run, or it fails
\* with the case.  A worker without the lease may still mark the run.
FailRun(w) ==
  /\ pc[w] = "failing"
  /\ GoIdle(w)
  /\ IF Owns(w)
     THEN /\ run' = "failed" /\ owner' = NoWorker
          /\ \/ UNCHANGED <<dstate, caseVars, recordVars>>
             \/ /\ dstate' = "failed" /\ caseStatus' = "escalated"
                /\ outcome' = [reply |-> IF caseReply = "none" THEN outcome.reply ELSE caseReply,
                               status |-> "escalated"]
                /\ UNCHANGED <<shows, caseReply, caseEffect, told>>
     ELSE run' \in {run, "failed"} /\ UNCHANGED <<dispatchVars, caseVars, recordVars>>
  /\ UNCHANGED <<attemptVars, old, authority, stripeVars, faultVars>>

-----------------------------------------------------------------------------
(* The reconciler.                                                         *)

\* claimUnknownSubscriptionCancellationAttempts; the time at which a row is due
\* is left open.
ClaimAttempt(w) ==
  /\ pc[w] = "idle" /\ status \in Doubt /\ ~rlive
  /\ rtoken' = w /\ rlive' = TRUE
  /\ Goto(w, "query")
  /\ UNCHANGED <<status, effect, old, dispatchVars, run, authority, caseVars, recordVars,
                 stripeVars, faultVars>>

\* An attempt of 24 hours is quarantined, any other is read from Stripe.
Query(w) ==
  /\ pc[w] = "query"
  /\ IF old
     THEN Settle("quarantined", w) /\ GoIdle(w)
     ELSE /\ Goto(w, "missing") \/ (cancels /\ Goto(w, "found"))
          /\ UNCHANGED <<attemptVars, caseVars, recordVars>>
  /\ UNCHANGED <<old, dispatchVars, run, authority, stripeVars, faultVars>>

SettleFound(w) ==
  /\ pc[w] = "found"
  /\ Settle("scheduled", w) /\ GoIdle(w)
  /\ UNCHANGED <<old, dispatchVars, run, authority, stripeVars, faultVars>>

\* rescheduleSubscriptionCancellationRecovery: a claimed row is in doubt now.
Reschedule(w) ==
  /\ pc[w] = "missing"
  /\ IF rtoken = w /\ status \in Doubt
     THEN status' = "unknown" /\ rtoken' = NoWorker /\ rlive' = FALSE
     ELSE UNCHANGED <<status, rtoken, rlive>>
  /\ GoIdle(w)
  /\ UNCHANGED <<effect, old, dispatchVars, run, authority, caseVars, recordVars,
                 stripeVars, faultVars>>

-----------------------------------------------------------------------------
(* The customer, Stripe, time and crashes.                                 *)

\* A follow-up resets a case whose status is final, even if its run goes on.
\* metadata.cancellationEffect is kept.
FollowUp ==
  /\ shows \in Shown
  /\ caseStatus \in Finals \/ dstate # "held"
  /\ outcome' = IF caseStatus \in Finals
                THEN [reply |-> IF caseReply = "none" THEN outcome.reply ELSE caseReply,
                      status |-> caseStatus]
                ELSE outcome
  /\ shows' = "reset" /\ caseStatus' = "new" /\ caseReply' = "none"
  /\ UNCHANGED <<caseEffect, told, attemptVars, old, dispatchVars, run, authority,
                 stripeVars, pc, reply, faultVars>>

\* A POST that was given up is carried out, or never will be.
LatePost ==
  /\ late /\ late' = FALSE
  /\ \E happens \in BOOLEAN : mine' = (mine \/ happens) /\ cancels' = (cancels \/ happens)
  /\ UNCHANGED <<posts, attemptVars, old, dispatchVars, run, authority, caseVars,
                 recordVars, pc, reply, faultVars>>

\* Another case, or an operator, cancels the same subscription.
ScheduledElsewhere ==
  /\ ~cancels /\ cancels' = TRUE
  /\ UNCHANGED <<posts, mine, late, attemptVars, old, dispatchVars, run, authority,
                 caseVars, recordVars, pc, reply, faultVars>>

DayPasses ==
  /\ status \in Doubt \cup {"prepared"} /\ ~old /\ old' = TRUE
  /\ UNCHANGED <<attemptVars, dispatchVars, run, authority, caseVars, recordVars,
                 stripeVars, pc, reply, faultVars>>

\* A lease ends under a worker that stalls, a fault, or after its worker is gone.
Stalls(busy) ==
  /\ IF busy THEN crashes + stalls < MaxFaults /\ stalls' = stalls + 1
             ELSE UNCHANGED stalls
  /\ UNCHANGED crashes

AttemptLeaseExpires ==
  /\ rlive /\ rlive' = FALSE
  /\ Stalls(rtoken \in Workers /\ pc[rtoken] \in ReconcilerPCs)
  /\ UNCHANGED <<status, effect, rtoken, old, dispatchVars, run, authority, caseVars,
                 recordVars, stripeVars, pc, reply>>

DispatchLeaseExpires ==
  /\ owner # NoWorker /\ owner' = NoWorker
  /\ Stalls(pc[owner] \in FlowPCs)
  /\ UNCHANGED <<dstate, attemptVars, old, run, authority, caseVars, recordVars,
                 stripeVars, pc, reply>>

Crash(w) ==
  /\ pc[w] # "idle" /\ crashes + stalls < MaxFaults /\ crashes' = crashes + 1
  /\ GoIdle(w)
  /\ UNCHANGED <<attemptVars, old, dispatchVars, run, authority, caseVars, recordVars,
                 stripeVars, stalls>>

-----------------------------------------------------------------------------
\* The run has come to the step that schedules cancellations.
Init ==
  /\ status = "absent" /\ effect = FALSE /\ old = FALSE
  /\ rtoken = NoWorker /\ rlive = FALSE
  /\ dstate = "held" /\ owner \in Workers /\ run = "schedule"
  /\ authority \in Authorities /\ caseEffect \in EarlierEffects
  /\ shows = "turn" /\ caseStatus = "processing" /\ caseReply = "none"
  /\ outcome = [reply |-> "none", status |-> "none"] /\ told = {}
  /\ posts = 0 /\ mine = FALSE /\ late = FALSE /\ cancels = FALSE
  /\ pc = [w \in Workers |-> IF w = owner THEN "schedule" ELSE "idle"]
  /\ reply = [w \in Workers |-> "none"]
  /\ crashes = 0 /\ stalls = 0

Flow(w) ==
  \/ ClaimDispatch(w) \/ ScheduleStep(w) \/ Prepare(w) \/ ClaimMutation(w) \/ Trusted(w)
  \/ Preflight(w) \/ Fence(w) \/ Post(w) \/ RecordRefusal(w) \/ RecordScheduled(w)
  \/ RecordDoubt(w) \/ ProjectEffect(w) \/ ToolThrew(w) \/ ResolveStep(w)
  \/ FinalizeCase(w) \/ CompleteDispatch(w) \/ FailRun(w)

Reconcile(w) == ClaimAttempt(w) \/ Query(w) \/ SettleFound(w) \/ Reschedule(w)

Next ==
  \/ \E w \in Workers : Flow(w) \/ Reconcile(w) \/ Crash(w)
  \/ FollowUp \/ LatePost \/ ScheduledElsewhere \/ DayPasses
  \/ AttemptLeaseExpires \/ DispatchLeaseExpires

Spec == Init /\ [][Next]_vars

\* Every worker goes on with what it has begun, and its loop looks for attempts
\* in doubt; time passes.
Fairness ==
  /\ \A w \in Workers : WF_vars(Flow(w))
  /\ WF_vars(\E w \in Workers : Reconcile(w))
  /\ WF_vars(DayPasses) /\ WF_vars(AttemptLeaseExpires)

FairSpec == Spec /\ Fairness

-----------------------------------------------------------------------------
(* What must hold.                                                         *)

TypeOK ==
  /\ status \in {"absent", "prepared"} \cup Doubt \cup Terminal
  /\ {effect, old, rlive, mine, late, cancels} \subseteq BOOLEAN
  /\ {rtoken, owner} \subseteq Workers \cup {NoWorker}
  /\ dstate \in {"held", "completed", "failed"}
  /\ run \in {"schedule", "resolve", "success", "failed"}
  /\ authority \in Authorities
  /\ shows \in Shown \cup {"reset"}
  /\ caseStatus \in Finals \cup {"processing", "new"}
  /\ caseReply \in {"none", "safe", "scheduled", "earlier", "review"}
  /\ caseEffect \in {"none", "own", "earlier"}
  /\ outcome \in [reply : {"none", "safe", "scheduled", "earlier", "review"},
                  status : Finals \cup {"none"}]
  /\ told \subseteq {"final-safe", "final-scheduled", "final-earlier",
                     "cancellation-final", "cancellation-failed"}
  /\ posts \in Nat
  /\ pc \in [Workers -> {"idle"} \cup FlowPCs \cup ReconcilerPCs]
  /\ reply \in [Workers -> {"none", "safe", "scheduled", "earlier"}]
  /\ {crashes, stalls} \subseteq 0..MaxFaults

\* The command is posted at most once whoever crashes, stalls or restarts, its
\* status is decided once, and "confirmed-no-effect" is never belied by a POST
\* that arrives later.  An effect is not attributed: the flag may be another's.
Verdicts ==
  CASE status = "scheduled" -> "done" [] status = "failed" -> "none"
    [] status = "quarantined" -> "doubt" [] OTHER -> "open"

Promise == INSTANCE OneEffect WITH
  Attributed <- FALSE, sent <- posts, happened <- mine, verdict <- Verdicts

OneCancellation == Promise!Spec

\* A receipt that a replay returns to the customer exists exactly if the attempt
\* was decided as scheduled, by the tool or by the reconciler.
ReceiptIsDecision == effect <=> status = "scheduled"

\* The customer is told of a cancellation by this turn only if Stripe has it.
ToldIsScheduled ==
  told \cap {"final-scheduled", "cancellation-final"} # {} => cancels

\* A turn that has been completed and whose cancellation was scheduled, before
\* or after the safe answer, has told the customer so, unless a worker stalled:
\* one that lost its lease still writes "scheduled" after another gave up.
ScheduledIsTold ==
  stalls = 0 /\ dstate = "completed" /\ status = "scheduled" /\ (\A w \in Workers : pc[w] = "idle")
    => told \cap {"final-scheduled", "cancellation-final"} # {}

\* Receipt, decision and answer agree: what a replay returns, what the customer
\* was told and what became of the attempt are one story.
AnswersAgree == TypeOK /\ ReceiptIsDecision /\ ToldIsScheduled /\ ScheduledIsTold

\* An attempt in doubt is decided, by an effect that is found or by its age.
DoubtEnds == status \in Doubt ~> status \in Terminal

=============================================================================

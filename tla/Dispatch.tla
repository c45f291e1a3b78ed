------------------------------ MODULE Dispatch ------------------------------
(***************************************************************************)
(* The durable turn queue of one support conversation.                     *)
(*                                                                         *)
(* Every customer message is a turn with one row of support_dispatch.  A   *)
(* row is claimed under a lease (lease_token, lease_until), activated,     *)
(* executed by the resolve-support-case workflow, and settled.  Three      *)
(* kinds of actor claim rows: the HTTP request that accepted a message,    *)
(* the HTTP request of an approver, and the background recovery loop of    *)
(* each process.  Nothing but the conditions of the SQL statements keeps   *)
(* them apart, and an actor that stalls past its lease goes on executing.  *)
(*                                                                         *)
(* Turns are numbered by support_turns.sequence.  A lease token is the     *)
(* actor that drew it: an actor holds one claim at a time and forgets it   *)
(* when it crashes.  live[t] says that lease_until is in the future.       *)
(* The workflow engine (Mastra) is external: run[t] is its persisted       *)
(* snapshot, pc[w] the step that actor w executes in memory.               *)
(***************************************************************************)
EXTENDS Naturals, FiniteSets

CONSTANTS Handlers,     \* HTTP requests in flight
          Loops,        \* background recovery loops, one per process
          NoWorker,     \* lease_token IS NULL
          MaxTurns,     \* bound: customer messages of the conversation
          MaxAttempts,  \* the literal 3 of the dispatch statements
          MaxFaults     \* bound: crashes, and stalls longer than a lease

Workers == Handlers \cup Loops
Turns == 1..MaxTurns

ASSUME WorkersAssumption == Handlers \cap Loops = {} /\ NoWorker \notin Workers
ASSUME BoundsAssumption == /\ MaxTurns \in Nat \ {0}
                           /\ MaxAttempts \in Nat \ {0}
                           /\ MaxFaults \in Nat

VARIABLES
  turns,        \* number of turns accepted so far
  caseStatus,   \* support_cases.status
  activeTurn,   \* metadata.activeTurnId (0: undefined)
  nativeTurn,   \* metadata.nativeApproval.turnId (0: undefined)
  approval,     \* is the case's approval field set
  draft,        \* is the case's draft field set
  caseReply,    \* status the case's finalResponse was written with, or "none"
  outcome,      \* status and final response in a turn's outcome_data
  reply,        \* status of a turn's final support_outbox row, or "none"
  decided,      \* turns with a row in support_decisions
  dstate, attempts, owner, live,  \* support_dispatch, lease_until > now
  run,          \* Mastra snapshot of the turn's workflow run
  pc, job, via, \* what each actor is doing, for which turn, on which path
  saw,          \* the outcome_data that recordTurnTelemetry read
  seenExpired,  \* loops whose SELECT saw an expired lease not renewed since
  faults

caseVars == <<caseStatus, activeTurn, nativeTurn, approval, draft, caseReply>>
turnVars == <<outcome, reply>>
leaseVars == <<dstate, attempts, owner, live, seenExpired>>
actorVars == <<pc, job, via, saw>>
vars == <<turns, caseVars, turnVars, decided, leaseVars, run, actorVars, faults>>

Statuses == {"new", "processing", "waiting_approval", "resolved", "escalated"}
Finals == {"resolved", "escalated"}
Active == {"claimed", "started"}
Holding == Active \cup {"suspended"}
Settled == {"completed", "failed"}

NoOutcome == [status |-> "none", final |-> "none"]
TurnOutcomes == [status : Statuses \cup {"none"}, final : Finals \cup {"none"}]

\* Snapshot stages; a running snapshot is named after the step it is at:
\* "draft" stands for classify .. schedule-subscription-cancellation, "ask" for
\* request-approval, "resolve" and "decided" for resolve-case reached without
\* and with a reviewer's decision.
Running == {"draft", "ask", "resolve", "decided"}
Snapshots == Running \cup {"none", "suspended", "success", "failed"}

\* Steps that run inside the workflow, under withDispatchLeaseScope.
Executing == Running \cup {"traced", "telemetry", "classified",
                           "asked", "waiting", "answer", "finalized"}
Outcomes == {"gotSuspended", "gotSuccess", "gotFailure", "doomed"}
Resuming == {"resuming", "resumed"}
Inspecting == {"looking", "sawWaiting", "sawOpen"}
Claimants == Inspecting \cup {"ready", "readyRestart", "launch", "relaunch"}
PCs == {"idle", "accepted", "reviewing", "recorded", "selected"}
         \cup Claimants \cup Executing \cup Resuming \cup Outcomes

-----------------------------------------------------------------------------
(* The lease.                                                              *)

Owns(w) == job[w] \in Turns /\ dstate[job[w]] \in Active /\ owner[job[w]] = w

\* Mutant: the fence forgets lease_until.
OwnsLiveIgnoringExpiry(w) == Owns(w)

\* hasDispatchLease, and the same condition inside the fenced writes.
OwnsLive(w) == Owns(w) /\ live[job[w]]

LeaseExpired(t) == dstate[t] \in Active /\ ~live[t]

\* Mutant: a started dispatch does not keep the queue closed.
NoOtherHoldingButStarted(t) ==
  \A e \in Turns \ {t} : dstate[e] \notin {"claimed", "suspended"}

NoOtherHolding(t) == \A e \in Turns \ {t} : dstate[e] \notin Holding

\* Mutant: the sequence condition is dropped.
NoEarlierPendingDropped(t) == TRUE

NoEarlierPending(t) == \A e \in Turns : e < t => dstate[e] # "pending"

\* The row of t gets a fresh token and a live lease.  Recovery loops that saw
\* the old lease expired keep a claimedAt older than the new lease_until.
TakeLease(w, t, n) ==
  /\ dstate' = [dstate EXCEPT ![t] = "claimed"]
  /\ attempts' = [attempts EXCEPT ![t] = @ + n]
  /\ owner' = [owner EXCEPT ![t] = w]
  /\ live' = [live EXCEPT ![t] = TRUE]
  /\ seenExpired' = {l \in seenExpired : job[l] # t}

\* state = s, lease_until = NULL, lease_token = NULL
SettleLease(t, s) ==
  /\ dstate' = [dstate EXCEPT ![t] = s]
  /\ owner' = [owner EXCEPT ![t] = NoWorker]
  /\ live' = [live EXCEPT ![t] = FALSE]
  /\ UNCHANGED <<attempts, seenExpired>>

Goto(w, label) == pc' = [pc EXCEPT ![w] = label] /\ UNCHANGED <<job, via, saw>>

GotoHolding(w, label, o) ==
  /\ pc' = [pc EXCEPT ![w] = label] /\ saw' = [saw EXCEPT ![w] = o]
  /\ UNCHANGED <<job, via>>

Begin(w, label, t, path) ==
  /\ pc' = [pc EXCEPT ![w] = label]
  /\ job' = [job EXCEPT ![w] = t]
  /\ via' = [via EXCEPT ![w] = path]
  /\ saw' = [saw EXCEPT ![w] = NoOutcome]

GoIdle(w) == Begin(w, "idle", 0, "start")

\* json_patch of a turn's outcome_data: a final response is added or stays.
PatchOutcome(t, status, final) ==
  outcome' = [outcome EXCEPT ![t] =
                [status |-> status,
                 final |-> IF final = "none" THEN @.final ELSE final]]

\* The displaced turn, if there is one, keeps what the case showed of it.
KeepDisplaced ==
  IF activeTurn # 0 THEN PatchOutcome(activeTurn, caseStatus, caseReply)
  ELSE UNCHANGED outcome

-----------------------------------------------------------------------------
(* Accepting a customer message.                                           *)

\* A follow-up that meets a waiting or finished case resets its projection
\* and, when it meets a waiting one, completes the suspended dispatch.
AppendFollowUp(h) ==
  LET t == turns + 1
      invalidates == caseStatus = "waiting_approval"
      resets == invalidates \/ caseStatus \in Finals
  IN
  /\ pc[h] = "idle" /\ turns < MaxTurns
  /\ turns' = t
  /\ dstate' = [e \in Turns |->
                  IF e = t THEN "pending"
                  ELSE IF invalidates /\ dstate[e] = "suspended" THEN "completed"
                  ELSE dstate[e]]
  /\ IF resets
     THEN /\ caseStatus' = "new" /\ activeTurn' = 0 /\ nativeTurn' = 0
          /\ approval' = FALSE /\ draft' = FALSE /\ caseReply' = "none"
          /\ KeepDisplaced
     ELSE UNCHANGED <<caseVars, outcome>>
  /\ Begin(h, "accepted", t, "start")
  /\ UNCHANGED <<reply, decided, attempts, owner, live, seenExpired, run, faults>>

\* The request that accepted the message tries to run its own turn at once;
\* when another turn is ahead, the recovery loop will pick it up.
ClaimForStart(h) ==
  LET t == job[h] IN
  /\ pc[h] = "accepted"
  /\ IF dstate[t] = "pending" /\ NoOtherHolding(t) /\ NoEarlierPending(t)
     THEN TakeLease(h, t, 1) /\ Goto(h, "ready")
     ELSE GoIdle(h) /\ UNCHANGED leaseVars
  /\ UNCHANGED <<turns, caseVars, turnVars, decided, run, faults>>

-----------------------------------------------------------------------------
(* The recovery loop: claimDispatch is a sweep of exhausted rows, a SELECT  *)
(* of candidates and an UPDATE, three statements with one claimedAt.        *)

\* Mutant: a row is exhausted only after one more attempt than the claim allows.
ExhaustedOffByOne(t) == LeaseExpired(t) /\ attempts[t] > MaxAttempts

Exhausted(t) == LeaseExpired(t) /\ attempts[t] >= MaxAttempts

SweepExhausted(l, t) ==
  /\ pc[l] = "idle"
  /\ Exhausted(t)
  /\ SettleLease(t, "failed")
  /\ IF caseStatus # "waiting_approval"
     THEN caseStatus' = "escalated" /\ PatchOutcome(t, "escalated", "none")
     ELSE UNCHANGED <<caseStatus, outcome>>
  /\ UNCHANGED <<turns, activeTurn, nativeTurn, approval, draft, caseReply, reply,
                 decided, run, actorVars, faults>>

\* Mutant: attempts <= 3.
AttemptsRemainOffByOne(t) == attempts[t] <= MaxAttempts

AttemptsRemain(t) == attempts[t] < MaxAttempts

ClaimSelect(l, t) ==
  /\ pc[l] = "idle"
  /\ dstate[t] = "pending" \/ LeaseExpired(t)
  /\ AttemptsRemain(t) /\ NoOtherHolding(t) /\ NoEarlierPending(t)
  /\ Begin(l, "selected", t, "start")
  /\ seenExpired' = IF dstate[t] = "pending" THEN seenExpired
                    ELSE seenExpired \cup {l}
  /\ UNCHANGED <<turns, caseVars, turnVars, decided, dstate, attempts, owner, live,
                 run, faults>>

\* The UPDATE repeats every condition of the SELECT but attempts < 3.
ClaimUpdate(l) ==
  LET t == job[l] IN
  /\ pc[l] = "selected"
  /\ IF /\ \/ dstate[t] = "pending"
           \/ LeaseExpired(t) /\ l \in seenExpired
        /\ NoOtherHolding(t) /\ NoEarlierPending(t)
     THEN TakeLease(l, t, 1) /\ Goto(l, "looking")
     ELSE /\ GoIdle(l) /\ seenExpired' = seenExpired \ {l}
          /\ UNCHANGED <<dstate, attempts, owner, live>>
  /\ UNCHANGED <<turns, caseVars, turnVars, decided, run, faults>>

\* The case is read first, the snapshot after the knowledge base was prepared.
InspectCase(l) ==
  /\ pc[l] = "looking"
  /\ Goto(l, IF caseStatus = "waiting_approval" THEN "sawWaiting" ELSE "sawOpen")
  /\ UNCHANGED <<turns, caseVars, turnVars, decided, leaseVars, run, faults>>

\* The persisted snapshot decides what a claimed turn still needs.
InspectSnapshot(l) ==
  LET s == run[job[l]] IN
  /\ pc[l] \in {"sawWaiting", "sawOpen"}
  /\ Goto(l, CASE s = "suspended" -> "gotSuspended"
               [] s = "none" /\ pc[l] = "sawWaiting" -> "gotSuspended"
               [] s = "none" /\ pc[l] = "sawOpen" -> "ready"
               [] s = "success" -> "gotSuccess"
               [] s = "failed" -> "doomed"
               [] s \in Running -> "readyRestart")
  /\ UNCHANGED <<turns, caseVars, turnVars, decided, leaseVars, run, faults>>

\* A lookup, the knowledge base, the activation or the start of the run throws.
RecoveryThrows(l) ==
  /\ pc[l] \in Claimants
  /\ Goto(l, "gotFailure")
  /\ UNCHANGED <<turns, caseVars, turnVars, decided, leaseVars, run, faults>>

-----------------------------------------------------------------------------
(* Activation and execution of the workflow.                               *)

\* activateDispatch checks the token but not lease_until.  Switching turns
\* saves the displaced turn's status and clears the projection; activating
\* the same turn again keeps it, the final response included.
Activate(w) ==
  LET t == job[w]
      switches == activeTurn # t
  IN
  /\ pc[w] \in {"ready", "readyRestart"}
  /\ Owns(w) /\ dstate[t] = "claimed"
  /\ dstate' = [dstate EXCEPT ![t] = "started"]
  /\ caseStatus' = "processing" /\ activeTurn' = t
  /\ IF switches
     THEN /\ nativeTurn' = 0 /\ approval' = FALSE /\ draft' = FALSE /\ caseReply' = "none"
          /\ KeepDisplaced
     ELSE UNCHANGED <<nativeTurn, approval, draft, caseReply, outcome>>
  /\ Goto(w, IF pc[w] = "ready" THEN "launch" ELSE "relaunch")
  /\ UNCHANGED <<turns, reply, decided, attempts, owner, live, seenExpired, run, faults>>

\* run.start() begins at the first step.
Launch(w) ==
  /\ pc[w] = "launch"
  /\ run' = [run EXCEPT ![job[w]] = "draft"]
  /\ Goto(w, "draft")
  /\ UNCHANGED <<turns, caseVars, turnVars, decided, leaseVars, faults>>

\* run.restart() executes the active step of the snapshot again.
Relaunch(w) ==
  /\ pc[w] = "relaunch"
  /\ Goto(w, IF run[job[w]] \in Running THEN run[job[w]] ELSE "gotFailure")
  /\ UNCHANGED <<turns, caseVars, turnVars, decided, leaseVars, run, faults>>

\* Every step starts with getActiveCaseOrThrow; every write of a step is
\* refused unless the dispatch lease of the scope is current.
IsActiveTurn(t) == activeTurn = t

Advance(w, stage) ==
  /\ run' = [run EXCEPT ![job[w]] = stage]
  /\ Goto(w, stage)

\* classify, when the run is traced: a fenced write of the trace to the case,
\* then recordTurnTelemetry, which reads the turn's outcome and writes it back
\* with the trace added, whoever holds the lease by then.
RecordTrace(w) ==
  /\ pc[w] = "draft" /\ IsActiveTurn(job[w]) /\ OwnsLive(w)
  /\ Goto(w, "traced")
  /\ UNCHANGED <<turns, caseVars, turnVars, decided, leaseVars, run, faults>>

ReadOutcome(w) ==
  /\ pc[w] = "traced"
  /\ GotoHolding(w, "telemetry", outcome[job[w]])
  /\ UNCHANGED <<turns, caseVars, turnVars, decided, leaseVars, run, faults>>

RecordTurnTelemetry(w) ==
  /\ pc[w] = "telemetry"
  /\ outcome' = [outcome EXCEPT ![job[w]] = saw[w]]
  /\ GotoHolding(w, "classified", NoOutcome)
  /\ UNCHANGED <<turns, caseVars, reply, decided, leaseVars, run, faults>>

\* The rest of classify, and the steps up to the draft.
DraftResponse(w) ==
  /\ pc[w] \in {"draft", "classified"} /\ IsActiveTurn(job[w]) /\ OwnsLive(w)
  /\ draft' = TRUE
  /\ Advance(w, "ask")
  /\ UNCHANGED <<turns, caseStatus, activeTurn, nativeTurn, approval, caseReply,
                 turnVars, decided, leaseVars, faults>>

\* request-approval: nothing to approve, a decision found on the case (a
\* restart after the decision), or a command to put before a reviewer.
NothingToApprove(w) ==
  /\ pc[w] = "ask" /\ IsActiveTurn(job[w])
  /\ Advance(w, "resolve")
  /\ UNCHANGED <<turns, caseVars, turnVars, decided, leaseVars, faults>>

RecoverDecision(w) ==
  /\ pc[w] = "ask" /\ IsActiveTurn(job[w]) /\ draft /\ approval
  /\ Advance(w, "decided")
  /\ UNCHANGED <<turns, caseVars, turnVars, decided, leaseVars, faults>>

PrepareCommand(w) ==
  /\ pc[w] = "ask" /\ IsActiveTurn(job[w]) /\ draft /\ ~approval
  /\ Goto(w, "asked")
  /\ UNCHANGED <<turns, caseVars, turnVars, decided, leaseVars, run, faults>>

\* Written long after the step read the case: the metadata is that read's
\* copy, activeTurnId included.
WriteWaiting(w) ==
  /\ pc[w] = "asked" /\ OwnsLive(w)
  /\ caseStatus' = "waiting_approval"
  /\ activeTurn' = job[w] /\ nativeTurn' = job[w]
  /\ Goto(w, "waiting")
  /\ UNCHANGED <<turns, approval, draft, caseReply, turnVars, decided, leaseVars,
                 run, faults>>

SuspendRun(w) ==
  /\ pc[w] = "waiting"
  /\ run' = [run EXCEPT ![job[w]] = "suspended"]
  /\ Goto(w, "gotSuspended")
  /\ UNCHANGED <<turns, caseVars, turnVars, decided, leaseVars, faults>>

\* request-approval entered again with the reviewer's answer as resumeData: a
\* draft that needs one must find the decision on the case.
AnswerGiven(w) ==
  /\ pc[w] = "answer" /\ IsActiveTurn(job[w])
  /\ draft => approval
  /\ Advance(w, IF draft THEN "decided" ELSE "resolve")
  /\ UNCHANGED <<turns, caseVars, turnVars, decided, leaseVars, faults>>

\* Mutant: a case that was activated again accepts any verdict.
ReplayAgreesOnFinalCase(t, s) == caseReply = caseStatus => caseReply = s

\* A turn or a case that has a final response accepts only the same one again.
ReplayAgrees(t, s) ==
  /\ outcome[t].final # "none" => outcome[t] = [status |-> s, final |-> s]
  /\ caseReply # "none" => caseReply = s /\ caseStatus = s
  /\ reply[t] # "none" => reply[t] = s

FinalizeCaseAndEnqueue(w, s) ==
  LET t == job[w] IN
  /\ pc[w] \in {"resolve", "decided"}
  /\ draft /\ IsActiveTurn(t) /\ OwnsLive(w) /\ ReplayAgrees(t, s)
  /\ caseStatus' = s /\ caseReply' = s
  /\ PatchOutcome(t, s, s)
  /\ reply' = [reply EXCEPT ![t] = s]
  /\ Goto(w, "finalized")
  /\ UNCHANGED <<turns, activeTurn, nativeTurn, approval, draft, decided, leaseVars,
                 run, faults>>

SucceedRun(w) ==
  /\ pc[w] = "finalized"
  /\ run' = [run EXCEPT ![job[w]] = "success"]
  /\ Goto(w, "gotSuccess")
  /\ UNCHANGED <<turns, caseVars, turnVars, decided, leaseVars, faults>>

\* A step throws and the engine persists the failure.  A run started by an
\* ingress or by recovery is retried, a resumed one is failed.
FailRun(w) ==
  /\ pc[w] \in Executing
  /\ run' = [run EXCEPT ![job[w]] = "failed"]
  /\ Goto(w, IF via[w] = "start" THEN "gotFailure" ELSE "doomed")
  /\ UNCHANGED <<turns, caseVars, turnVars, decided, leaseVars, faults>>

\* run.start()/restart()/resume() itself rejects, the snapshot stays running.
RunRejects(w) ==
  /\ pc[w] \in Executing
  /\ Goto(w, CASE via[w] = "start" -> "gotFailure"
               [] via[w] = "http" -> "doomed"
               [] via[w] = "recovery" -> "gotSuspended")
  /\ UNCHANGED <<turns, caseVars, turnVars, decided, leaseVars, run, faults>>

-----------------------------------------------------------------------------
(* Settling the dispatch once the run has returned.                        *)

\* Mutant: completeDispatch without its token and lease conditions.
CompleteUnfenced(w, s) == SettleLease(job[w], s) /\ GoIdle(w)

\* Mutant: the status of the run is stored as the state of the dispatch.
CompleteWithRunStatus(w, s) ==
  /\ IF OwnsLive(w) THEN SettleLease(job[w], run[job[w]]) ELSE UNCHANGED leaseVars
  /\ GoIdle(w)

\* completeDispatch: a worker that lost its lease changes nothing.
Complete(w, s) ==
  /\ IF OwnsLive(w) THEN SettleLease(job[w], s) ELSE UNCHANGED leaseVars
  /\ GoIdle(w)

CompleteDispatch(w) ==
  /\ \/ pc[w] = "gotSuspended" /\ Complete(w, "suspended")
     \/ pc[w] = "gotSuccess" /\ Complete(w, "completed")
  /\ UNCHANGED <<turns, caseVars, turnVars, decided, run, faults>>

\* retryDispatch looks at the token and the attempts, not at lease_until; a
\* retry that is refused falls through to failDispatchAndCase.
RetryDispatch(w) ==
  /\ pc[w] = "gotFailure"
  /\ IF Owns(w) /\ AttemptsRemain(job[w])
     THEN SettleLease(job[w], "pending") /\ GoIdle(w)
     ELSE Goto(w, "doomed") /\ UNCHANGED leaseVars
  /\ UNCHANGED <<turns, caseVars, turnVars, decided, run, faults>>

FailDispatchAndCase(w) ==
  LET t == job[w] IN
  /\ pc[w] = "doomed"
  /\ IF OwnsLive(w)
     THEN /\ SettleLease(t, "failed")
          /\ caseStatus' = "escalated"
          /\ PatchOutcome(t, "escalated", caseReply)
     ELSE UNCHANGED <<leaseVars, caseStatus, outcome>>
  /\ GoIdle(w)
  /\ UNCHANGED <<turns, activeTurn, nativeTurn, approval, draft, caseReply, reply,
                 decided, run, faults>>

\* A heartbeat or an explicit renewal reported lostOwnership.
Abandon(w) ==
  /\ pc[w] \in (Claimants \ Inspecting) \cup Resuming \cup Outcomes
  /\ ~OwnsLive(w)
  /\ GoIdle(w)
  /\ UNCHANGED <<turns, caseVars, turnVars, decided, leaseVars, run, faults>>

-----------------------------------------------------------------------------
(* The approver's request, and the recovery of decisions it left behind.   *)

\* resumeApproval reads the case once; everything it submits is from here.
ReviewCase(h) ==
  /\ pc[h] = "idle"
  /\ caseStatus = "waiting_approval" /\ nativeTurn # 0
  /\ Begin(h, "reviewing", nativeTurn, "http")
  /\ UNCHANGED <<turns, caseVars, turnVars, decided, leaseVars, run, faults>>

\* The transaction re-reads the status, not the turn the command belongs to.
RecordApprovalDecision(h) ==
  LET t == job[h] IN
  /\ pc[h] = "reviewing"
  /\ IF caseStatus = "waiting_approval" /\ t \notin decided
     THEN /\ decided' = decided \cup {t}
          /\ approval' = TRUE /\ caseStatus' = "processing"
          /\ Goto(h, "recorded")
     ELSE GoIdle(h) /\ UNCHANGED <<decided, approval, caseStatus>>
  /\ UNCHANGED <<turns, activeTurn, nativeTurn, draft, caseReply, turnVars, leaseVars,
                 run, faults>>

Resumable(t) ==
  \/ dstate[t] = "suspended"
  \/ dstate[t] = "claimed" /\ ~live[t]

\* claimDispatchForResume leaves the attempts as they are.
ClaimForResume(h) ==
  LET t == job[h] IN
  /\ pc[h] = "recorded"
  /\ IF Resumable(t)
     THEN TakeLease(h, t, 0) /\ Goto(h, "resuming")
     ELSE GoIdle(h) /\ UNCHANGED leaseVars
  /\ UNCHANGED <<turns, caseVars, turnVars, decided, run, faults>>

ClaimDecided(l, t) ==
  /\ pc[l] = "idle"
  /\ t \in decided /\ Resumable(t)
  /\ TakeLease(l, t, 0)
  /\ Begin(l, "resuming", t, "recovery")
  /\ UNCHANGED <<turns, caseVars, turnVars, decided, run, faults>>

\* The native tool returned: its effect (or a decline) is durable; the tool,
\* its snapshot or the receipt is not available yet; there will be none; or the
\* ledger has failed the attempt (CloseFailedAttempt).
ResumeNativeTool(w) ==
  /\ pc[w] = "resuming"
  /\ \E result \in {"resumed", "gotSuspended", "doomed"} : Goto(w, result)
  /\ UNCHANGED <<turns, caseVars, turnVars, decided, leaseVars, run, faults>>

\* The finalizer of the failed attempt has answered the customer.  The run of a
\* refund is cancelled without a lease, that of a credit is left as it is.
CloseFailedAttempt(w) ==
  /\ pc[w] = "resuming"
  /\ \/ run' = [run EXCEPT ![job[w]] = "failed"]
     \/ UNCHANGED run
  /\ Goto(w, "gotSuccess")
  /\ UNCHANGED <<turns, caseVars, turnVars, decided, leaseVars, faults>>

\* run.resume() accepts a suspended snapshot only.  The HTTP path projects
\* status "processing" first; when either fails it escalates or, if the run
\* was resumed by somebody else, leaves the claim to expire.  Recovery returns
\* the dispatch to the suspended ones.
ResumeRun(w) ==
  LET t == job[w]
      projects == via[w] = "http"
  IN
  /\ pc[w] = "resumed"
  /\ caseStatus' = IF projects /\ OwnsLive(w) THEN "processing" ELSE caseStatus
  /\ IF run[t] = "suspended" /\ (projects => OwnsLive(w))
     THEN run' = [run EXCEPT ![t] = "ask"] /\ Goto(w, "answer")
     ELSE /\ UNCHANGED run
          /\ \/ projects /\ (Goto(w, "doomed") \/ GoIdle(w))
             \/ ~projects /\ Goto(w, "gotSuspended")
  /\ UNCHANGED <<turns, activeTurn, nativeTurn, approval, draft, caseReply, turnVars,
                 decided, leaseVars, faults>>

-----------------------------------------------------------------------------
(* Faults.                                                                 *)

AtWork(t) == owner[t] \in Workers /\ job[owner[t]] = t

Crash(w) ==
  /\ pc[w] # "idle" /\ faults < MaxFaults
  /\ faults' = faults + 1
  /\ GoIdle(w)
  /\ seenExpired' = seenExpired \ {w}
  /\ UNCHANGED <<turns, caseVars, turnVars, decided, dstate, attempts, owner, live, run>>

\* lease_until passes: of an actor at work, because it stalled longer than a
\* lease lasts, or of one that is gone.
Stall(t) ==
  /\ dstate[t] \in Active /\ live[t] /\ AtWork(t) /\ faults < MaxFaults
  /\ faults' = faults + 1
  /\ live' = [live EXCEPT ![t] = FALSE]
  /\ UNCHANGED <<turns, caseVars, turnVars, decided, dstate, attempts, owner, seenExpired,
                 run, actorVars>>

OrphanExpires(t) ==
  /\ dstate[t] \in Active /\ live[t] /\ ~AtWork(t)
  /\ live' = [live EXCEPT ![t] = FALSE]
  /\ UNCHANGED <<turns, caseVars, turnVars, decided, dstate, attempts, owner, seenExpired,
                 run, actorVars, faults>>

-----------------------------------------------------------------------------
\* acceptInbound has just committed the first turn; its request is about to
\* start it.
Init ==
  /\ turns = 1
  /\ caseStatus = "new" /\ activeTurn = 1 /\ nativeTurn = 0
  /\ approval = FALSE /\ draft = FALSE /\ caseReply = "none"
  /\ outcome = [t \in Turns |-> NoOutcome]
  /\ reply = [t \in Turns |-> "none"]
  /\ decided = {}
  /\ dstate = [t \in Turns |-> IF t = 1 THEN "pending" ELSE "absent"]
  /\ attempts = [t \in Turns |-> 0]
  /\ owner = [t \in Turns |-> NoWorker]
  /\ live = [t \in Turns |-> FALSE]
  /\ run = [t \in Turns |-> "none"]
  /\ \E h \in Handlers :
       /\ pc = [w \in Workers |-> IF w = h THEN "accepted" ELSE "idle"]
       /\ job = [w \in Workers |-> IF w = h THEN 1 ELSE 0]
  /\ via = [w \in Workers |-> "start"]
  /\ saw = [w \in Workers |-> NoOutcome]
  /\ seenExpired = {}
  /\ faults = 0

WorkflowStep(w) ==
  \/ Launch(w) \/ Relaunch(w)
  \/ RecordTrace(w) \/ ReadOutcome(w) \/ RecordTurnTelemetry(w) \/ DraftResponse(w)
  \/ NothingToApprove(w) \/ RecoverDecision(w) \/ PrepareCommand(w)
  \/ WriteWaiting(w) \/ SuspendRun(w) \/ AnswerGiven(w)
  \/ \E s \in Finals : FinalizeCaseAndEnqueue(w, s)
  \/ SucceedRun(w) \/ FailRun(w) \/ RunRejects(w)

\* What an actor that is not idle does next, unless it crashes.
Proceed(w) ==
  \/ Activate(w) \/ WorkflowStep(w)
  \/ CompleteDispatch(w) \/ RetryDispatch(w) \/ FailDispatchAndCase(w)
  \/ Abandon(w) \/ ResumeNativeTool(w) \/ CloseFailedAttempt(w) \/ ResumeRun(w)

HandlerStep(h) == ClaimForStart(h) \/ RecordApprovalDecision(h) \/ ClaimForResume(h)

LoopStep(l) ==
  ClaimUpdate(l) \/ InspectCase(l) \/ InspectSnapshot(l) \/ RecoveryThrows(l)

\* What an idle recovery loop finds to do.
Recover(l) ==
  \E t \in Turns : SweepExhausted(l, t) \/ ClaimSelect(l, t) \/ ClaimDecided(l, t)

Next ==
  \/ \E h \in Handlers : AppendFollowUp(h) \/ ReviewCase(h) \/ HandlerStep(h)
  \/ \E l \in Loops : Recover(l) \/ LoopStep(l)
  \/ \E w \in Workers : Proceed(w) \/ Crash(w)
  \/ \E t \in Turns : Stall(t) \/ OrphanExpires(t)

Spec == Init /\ [][Next]_vars

\* A request and a loop proceed unless they crash, every loop polls (the
\* five-second sweep), and time passes for a lease nobody renews.  Nothing
\* obliges a customer to write again or a reviewer to decide.
Fairness ==
  /\ \A h \in Handlers : WF_vars(HandlerStep(h) \/ Proceed(h))
  /\ \A l \in Loops : WF_vars(Recover(l) \/ LoopStep(l) \/ Proceed(l))
  /\ \A t \in Turns : WF_vars(OrphanExpires(t))

FairSpec == Spec /\ Fairness

-----------------------------------------------------------------------------
(* What must hold.                                                         *)

CaseTypeOK ==
  /\ turns \in Turns
  /\ caseStatus \in Statuses
  /\ activeTurn \in 0..MaxTurns /\ nativeTurn \in 0..MaxTurns
  /\ caseReply \in Finals \cup {"none"}
  /\ outcome \in [Turns -> TurnOutcomes]
  /\ reply \in [Turns -> Finals \cup {"none"}]
  /\ decided \in SUBSET Turns

FlagTypeOK == approval \in BOOLEAN /\ draft \in BOOLEAN

LeaseTypeOK ==
  /\ dstate \in [Turns -> {"absent", "pending"} \cup Holding \cup Settled]
  /\ attempts \in [Turns -> Nat]
  /\ owner \in [Turns -> Workers \cup {NoWorker}]
  /\ live \in [Turns -> BOOLEAN]
  /\ seenExpired \in SUBSET Loops

ActorTypeOK ==
  /\ pc \in [Workers -> PCs]
  /\ job \in [Workers -> 0..MaxTurns]
  /\ via \in [Workers -> {"start", "http", "recovery"}]
  /\ saw \in [Workers -> TurnOutcomes]
  /\ \A w \in Workers : pc[w] # "idle" => job[w] \in Turns

TypeOK ==
  /\ CaseTypeOK /\ FlagTypeOK /\ LeaseTypeOK /\ ActorTypeOK
  /\ run \in [Turns -> Snapshots]
  /\ faults \in 0..MaxFaults

\* Turns are executed one at a time and in the order the customer wrote them:
\* a dispatch leaves the queue only when every earlier one is settled,
\* whichever of the three claiming paths took it and however stale the SELECT
\* behind it was.
TurnsAreSerial ==
  \A t \in Turns : dstate[t] \in Holding \cup Settled =>
    \A e \in Turns : e < t => dstate[e] \in Settled

\* The rows and actors are well formed, and the queue is serial.
QueueIsSerial == TypeOK /\ TurnsAreSerial

\* A turn is claimed for execution at most three times, although the UPDATE
\* that claims it does not repeat the attempts condition of its SELECT.
AttemptsAreBounded == \A t \in Turns : attempts[t] <= MaxAttempts

\* While a dispatch is started, the case shows that turn or none: no other
\* turn's draft, command or response is ever projected under it.
ProjectionFollowsDispatch ==
  \A t \in Turns : dstate[t] = "started" => activeTurn \in {0, t}

\* A workflow step of an actor whose lease is gone (expired, taken over or
\* settled) may go on in memory but changes neither the case nor the outbox nor
\* the queue, and the outcome of a turn in one way only: recordTurnTelemetry has
\* no fence, and may put the outcome of its own turn back to what it was when
\* this actor read it.  retryDispatch is exempt: it may requeue on a lease that
\* has expired and that nobody has taken over.
StaleExecutionIsSilent ==
  [][\A w \in Workers :
       LET t == job[w]
           held == t \in Turns /\ dstate[t] \in Active /\ owner[t] = w
       IN  /\ pc[w] \in Executing \cup Outcomes /\ pc'[w] # pc[w]
           /\ ~(held /\ (live[t] \/ pc[w] = "gotFailure"))
           => /\ UNCHANGED <<caseVars, reply, dstate>>
              /\ \/ UNCHANGED outcome
                 \/ pc[w] = "telemetry" /\ outcome' = [outcome EXCEPT ![t] = saw[w]]]_vars

\* The reply a customer was promised for a turn is never replaced, even when
\* a crashed, retried or restarted run reaches another verdict.
ReplyIsFinal ==
  [][\A t \in Turns : reply[t] # "none" => reply'[t] = reply[t]]_vars

\* The phase of each turn in the queue of TurnQueue.
QueuePhase == [t \in Turns |-> CASE dstate[t] = "absent" -> "absent"
                                 [] dstate[t] = "pending" -> "waiting"
                                 [] dstate[t] \in Holding -> "held"
                                 [] OTHER -> "done"]

\* The dispatch rows implement the queue of TurnQueue: whatever interleaving
\* of requests, approvals, loops, crashes and expired leases moves a row, the
\* move is one the queue allows.
Queue == INSTANCE TurnQueue WITH phase <- QueuePhase

ImplementsTurnQueue == Queue!Spec

\* A settled dispatch is never executed again.
SettledStaysSettled ==
  [][\A t \in Turns : dstate[t] \in Settled => dstate'[t] = dstate[t]]_vars

\* Every claim ends: whatever crashes, a claimed or started dispatch is
\* eventually requeued, suspended, completed or failed.
ClaimsEnd == \A t \in Turns : dstate[t] \in Active ~> dstate[t] \notin Active

=============================================================================

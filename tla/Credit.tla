------------------------------- MODULE Credit -------------------------------
(***************************************************************************)
(* Subscription credits: the approved commands of several cases for one    *)
(* customer and one subscription.                                          *)
(*                                                                         *)
(* A command has one row of support_stripe_subscription_credit_attempts;   *)
(* the customer and subscription have one reservation.  A worker claims    *)
(* the suspended dispatch of an approved turn, for the reviewer's request  *)
(* or for the sweep, asks Stripe for a receipt, and otherwise resumes the  *)
(* native tool that posts the credit; then it resumes the workflow, which  *)
(* answers the customer.  The sweep of all dispatches claims the row too    *)
(* when its lease has lapsed: it inspects the run and suspends, restarts,   *)
(* completes or fails the turn, or gives it up for another attempt.         *)
(*                                                                         *)
(* External: Stripe, where a credit carries the identity of its command,   *)
(* and the native snapshot of Mastra, which can be resumed until its tool  *)
(* has returned.                                                           *)
(***************************************************************************)
EXTENDS Naturals, FiniteSets

CONSTANTS Commands,   \* approved turns of different cases
          NoCommand,  \* nothing reserved, nothing claimed
          Workers,    \* requests and sweeps that recover decisions
          NoWorker,   \* a lease token that nobody holds any more
          MaxAttempts, \* claims of a dispatch by its own sweep: 3 in the code
          MaxFaults   \* bound: crashes, and stalls longer than a lease

ASSUME CreditCommandsAssumption == NoCommand \notin Commands
ASSUME CreditWorkersAssumption == NoWorker \notin Workers
ASSUME CreditAttemptsAssumption == MaxAttempts \in Nat \ {0}
ASSUME CreditBoundAssumption == MaxFaults \in Nat

VARIABLES
  status, noEffect, prepared,  \* attempts: status, 'prepost-no-effect', lease_token
  reserved, rstatus,           \* the reservation: its command, its status
  receipt, tombstone,          \* support_idempotency: the effect, after retention
  dispatch, owner,             \* support_dispatch: state, holder of its lease_token
  live, attempts,              \* its lease_until is ahead, its attempts
  consumed,                    \* the native snapshot has been used up
  run,                         \* the run of the workflow, in its snapshot
  view,                        \* the case as far as it shows this turn
  told,                        \* outbox rows of the turn
  posts, credits, late,        \* Stripe: POSTs sent, carried out, given up
  pc, on, mode, todo,          \* workers: step, command, caller, status to write
  crashes, stalls

attemptVars == <<status, noEffect, prepared>>
reservationVars == <<reserved, rstatus>>
dispatchVars == <<dispatch, owner, live, attempts>>
stripeVars == <<posts, credits, late>>
workerVars == <<pc, on, mode, todo>>
faultVars == <<crashes, stalls>>
vars == <<attemptVars, reservationVars, receipt, tombstone, dispatchVars, consumed,
          run, view, told, stripeVars, workerVars, faultVars>>

Open == {"prepared", "unknown"}
Terminal == {"succeeded", "failed", "quarantined"}
Active == {"claimed", "started"}
Over == {"completed", "failed"}
Leaving == {"suspend", "complete", "fail"}  \* steps that end a claim

\* hasDispatchLease and the fences like it: token, state and time.
Owns(w) ==
  on[w] # NoCommand /\ dispatch[on[w]] \in Active /\ owner[on[w]] = w /\ live[on[w]]

\* The case shows the turn with its command.  A follow-up takes both away; to
\* activate the turn again brings back the turn but never the command.
OnDisplay(c) == view[c] # "reset"

\* What the tool is called by: a sweep or a reviewer's request.
InTool(w) == mode[w] \in {"tool", "request"}

\* idempotency: an effect counts only while the ledger says succeeded.
Idempotency(c) == receipt[c] /\ status[c] = "succeeded"

\* A worker forgets what it has written, and when it lets go of its dispatch who
\* called it.
Goto(w, label) ==
  /\ pc' = [pc EXCEPT ![w] = label] /\ UNCHANGED on
  /\ todo' = [todo EXCEPT ![w] = IF label \in {"project", "after"} \cup Leaving THEN "none" ELSE @]
  /\ mode' = [mode EXCEPT ![w] = IF label \in Leaving THEN "none" ELSE @]

\* Idle workers remember nothing, their lease tokens included.
GoIdle(w) ==
  /\ pc' = [pc EXCEPT ![w] = "idle"] /\ on' = [on EXCEPT ![w] = NoCommand]
  /\ mode' = [mode EXCEPT ![w] = "none"] /\ todo' = [todo EXCEPT ![w] = "none"]
  /\ prepared' = [c \in Commands |-> IF prepared[c] = w THEN NoWorker ELSE prepared[c]]

\* The token of a worker that leaves its dispatch as it is.
Forget(w) == owner' = [c \in Commands |-> IF owner[c] = w THEN NoWorker ELSE owner[c]]

Escalated(c) == IF OnDisplay(c) THEN "escalated" ELSE view[c]

\* Go on to write the attempt, then its reservation.
GoWrite(w, to) ==
  pc' = [pc EXCEPT ![w] = "write"] /\ todo' = [todo EXCEPT ![w] = to] /\ UNCHANGED <<on, mode>>

-----------------------------------------------------------------------------
(* Claiming a dispatch, and the receipt that a recovery looks for first.   *)

Lapsed(c) == ~live[c]

\* claimDispatchForResume: suspended, or claimed with a lease that has ended.
\* The command is that of the case read before; a case reset since has none.
\* The sweep looks for a receipt first, the request of the reviewer does not.
Claim(w, c) ==
  /\ pc[w] = "idle"
  /\ dispatch[c] = "suspended" \/ (dispatch[c] = "claimed" /\ Lapsed(c))
  /\ dispatch' = [dispatch EXCEPT ![c] = "claimed"] /\ owner' = [owner EXCEPT ![c] = w]
  /\ live' = [live EXCEPT ![c] = TRUE] /\ UNCHANGED attempts
  /\ on' = [on EXCEPT ![w] = c]
  /\ \E caller \in IF OnDisplay(c) THEN {"sweep", "request"} ELSE {"blind", "request"} :
       /\ mode' = [mode EXCEPT ![w] = caller]
       /\ pc' = [pc EXCEPT ![w] = IF caller = "sweep" THEN "reconcile" ELSE "resume"]
  /\ UNCHANGED <<todo, attemptVars, reservationVars, receipt, tombstone, consumed, run,
                 view, told, stripeVars, faultVars>>

\* reconcileApprovedSubscriptionCreditEffect, else ask Stripe about the attempt;
\* an effect that retention has replaced throws.
Reconcile(w) ==
  /\ pc[w] = "reconcile"
  /\ Goto(w, CASE tombstone[on[w]] -> "suspend"
               [] Idempotency(on[w]) -> "project"
               [] status[on[w]] = "absent" -> "resume"
               [] OTHER -> "search")
  /\ UNCHANGED <<attemptVars, reservationVars, receipt, tombstone, dispatchVars, consumed,
                 run, view, told, stripeVars, faultVars>>

\* findSubscriptionCreditReceipt: a credit is found by the identity of its command.
ReceiptFound(c) == credits[c]

\* A receipt is looked for by a sweep or by the tool; or Stripe is not reached.
Search(w) ==
  /\ pc[w] = "search"
  /\ \/ ReceiptFound(on[w]) /\ GoWrite(w, "succeeded")
     \/ /\ ~ReceiptFound(on[w])
        /\ IF InTool(w) THEN GoWrite(w, "unknown") ELSE Goto(w, "resume")
     \/ Goto(w, IF InTool(w) THEN "threw" ELSE "suspend")
  /\ UNCHANGED <<attemptVars, reservationVars, receipt, tombstone, dispatchVars, consumed,
                 run, view, told, stripeVars, faultVars>>

\* resumeApprovedNativeTool: a snapshot that is used up, or that Mastra cannot
\* load, throws.
Resume(w) ==
  /\ pc[w] = "resume"
  /\ \/ Goto(w, "suspend")
     \/ /\ ~consumed[on[w]]
        /\ pc' = [pc EXCEPT ![w] = "tool"]
        /\ mode' = [mode EXCEPT ![w] = IF @ = "sweep" THEN "tool" ELSE @]
        /\ UNCHANGED <<on, todo>>
  /\ UNCHANGED <<attemptVars, reservationVars, receipt, tombstone, dispatchVars, consumed,
                 run, view, told, stripeVars, faultVars>>

-----------------------------------------------------------------------------
(* The tool and the registry.                                              *)

\* The tool needs the approved command of the case, the lease and a receipt that
\* can be read.
Tool(w) ==
  /\ pc[w] = "tool"
  /\ Goto(w, CASE ~OnDisplay(on[w]) \/ ~Owns(w) \/ tombstone[on[w]] -> "threw"
               [] Idempotency(on[w]) -> "project"
               [] OTHER -> "prepare")
  /\ UNCHANGED <<attemptVars, reservationVars, receipt, tombstone, dispatchVars, consumed,
                 run, view, told, stripeVars, faultVars>>

MayReserve(c) == reserved \in {c, NoCommand}

\* prepareStripeSubscriptionCreditAttempt: attempt and reservation in one
\* transaction, without the lease; a command that retention has closed is refused.
Prepare(w) ==
  LET c == on[w]
      inserts == status[c] = "absent"
  IN /\ pc[w] = "prepare"
     /\ IF tombstone[c] \/ ~MayReserve(c)
        THEN Goto(w, "threw") /\ UNCHANGED <<attemptVars, reservationVars>>
        ELSE /\ Goto(w, IF inserts THEN "preflight" ELSE "existing")
             /\ status' = [status EXCEPT ![c] = IF inserts THEN "prepared" ELSE @]
             /\ prepared' = [prepared EXCEPT ![c] = IF inserts THEN w ELSE @]
             /\ UNCHANGED noEffect
             /\ IF reserved = NoCommand THEN reserved' = c /\ rstatus' = "prepared"
                                        ELSE UNCHANGED reservationVars
     /\ UNCHANGED <<receipt, tombstone, dispatchVars, consumed, run, view, told,
                    stripeVars, faultVars>>

\* Mutant: an attempt that was prepared but not marked is posted again.
Repost(c) == "preflight"

\* A prepared attempt may have been posted: only its receipt is looked for.
AfterEarlierAttempt(c) == IF noEffect[c] THEN "close" ELSE "search"

Existing(w) ==
  /\ pc[w] = "existing"
  /\ Goto(w, AfterEarlierAttempt(on[w]))
  /\ UNCHANGED <<attemptVars, reservationVars, receipt, tombstone, dispatchVars, consumed,
                 run, view, told, stripeVars, faultVars>>

\* Mutant: the ledger of Stripe is not asked for an earlier credit.
NoPriorIgnored(c) == TRUE

\* assertNoPriorSubscriptionCredit.
NoPrior(c) == \A d \in Commands \ {c} : ~credits[d]

Preflight(w) ==
  /\ pc[w] = "preflight"
  /\ \/ NoPrior(on[w]) /\ Goto(w, "fence")
     \/ Goto(w, "mark")
  /\ UNCHANGED <<attemptVars, reservationVars, receipt, tombstone, dispatchVars, consumed,
                 run, view, told, stripeVars, faultVars>>

\* authorizeStripeSubscriptionCreditFirstEffect.
MayPost(w) ==
  /\ Owns(w) /\ prepared[on[w]] = w
  /\ status[on[w]] = "prepared" /\ OnDisplay(on[w])

\* The published policy may deny the command: that is a decision, not a doubt.
Fence(w) ==
  /\ pc[w] = "fence"
  /\ IF MayPost(w) THEN Goto(w, "post") \/ GoWrite(w, "quarantined")
                   ELSE Goto(w, "mark")
  /\ UNCHANGED <<attemptVars, reservationVars, receipt, tombstone, dispatchVars, consumed,
                 run, view, told, stripeVars, faultVars>>

\* Mutant: a conflict (409) or a limit (429) counts as a refusal.
DefiniteAnyRefusal(happens) == TRUE

\* isDefiniteCreditNoEffect: 4xx, but not 408, 409 or 429.
Definite(happens) == ~happens

\* The POST is carried out or not, and answered, refused or lost.
Post(w) ==
  LET c == on[w]
  IN /\ pc[w] = "post"
     /\ posts' = [posts EXCEPT ![c] = @ + 1]
     /\ \E happens \in BOOLEAN :
          /\ credits' = [credits EXCEPT ![c] = @ \/ happens]
          /\ \/ happens /\ GoWrite(w, "succeeded") /\ UNCHANGED late
             \/ Definite(happens) /\ Goto(w, "close") /\ UNCHANGED late
             \/ late' = [late EXCEPT ![c] = ~happens] /\ GoWrite(w, "unknown")
     /\ UNCHANGED <<attemptVars, reservationVars, receipt, tombstone, dispatchVars, consumed,
                    run, view, told, faultVars>>

\* markStripeSubscriptionCreditPrePostNoEffect: the proof of the worker that
\* prepared the command, with or without its lease; a failed write is ignored.
Mark(w) ==
  LET c == on[w]
  IN /\ pc[w] = "mark"
     /\ Goto(w, "close")
     /\ noEffect' = [noEffect EXCEPT ![c] = @ \/ (prepared[c] = w /\ status[c] \in Open)]
     /\ UNCHANGED <<status, prepared, reservationVars, receipt, tombstone, dispatchVars,
                    consumed, run, view, told, stripeVars, faultVars>>

\* finalizeStripeSubscriptionCreditNoEffectFailure: the preparing or the current
\* worker, and nobody while a newer lease of the turn is alive.
MayClose(w) ==
  LET c == on[w]
  IN /\ status[c] \in Open
     /\ prepared[c] = w \/ Owns(w)
     /\ live[c] => owner[c] = w

\* A turn that is over may have a successor, whose lease forbids it as well.
CloseNoEffect(w) ==
  LET c == on[w]
  IN /\ pc[w] = "close"
     /\ Goto(w, "threw")
     /\ \/ /\ MayClose(w)
           /\ status' = [status EXCEPT ![c] = "failed"]
           /\ rstatus' = IF reserved = c THEN "failed" ELSE rstatus
           /\ receipt' = [receipt EXCEPT ![c] = FALSE]
           /\ told' = [told EXCEPT ![c] = @ \cup {"no-effect"}]
           /\ view' = [view EXCEPT ![c] = Escalated(c)]
        \/ /\ ~MayClose(w) \/ dispatch[c] \in Over
           /\ UNCHANGED <<status, rstatus, receipt, told, view>>
     /\ UNCHANGED <<noEffect, prepared, reserved, tombstone, dispatchVars, consumed, run,
                    stripeVars, faultVars>>

MayUpdate(c, to) == status[c] \notin Terminal \/ status[c] = to

\* updateStripeSubscriptionCreditAttempt: no lease; the reservation follows in
\* a write of its own.
Write(w) ==
  LET c == on[w]
  IN /\ pc[w] = "write"
     /\ IF MayUpdate(c, todo[w])
        THEN status' = [status EXCEPT ![c] = todo[w]] /\ Goto(w, "reserve")
        ELSE UNCHANGED status /\ Goto(w, IF todo[w] = "succeeded" THEN "project" ELSE "threw")
     /\ UNCHANGED <<noEffect, prepared, reservationVars, receipt, tombstone, dispatchVars,
                    consumed, run, view, told, stripeVars, faultVars>>

Reserve(w) ==
  /\ pc[w] = "reserve"
  /\ rstatus' = IF reserved = on[w] THEN todo[w] ELSE rstatus
  /\ Goto(w, IF todo[w] = "succeeded" THEN "project" ELSE "threw")
  /\ UNCHANGED <<reserved, attemptVars, receipt, tombstone, dispatchVars, consumed, run,
                 view, told, stripeVars, faultVars>>

\* projectSubscriptionCreditToolExecution: no lease, but the case must show the
\* command.  The native snapshot is used up when the tool returns.
Project(w) ==
  LET c == on[w]
  IN /\ pc[w] = "project"
     /\ IF ~OnDisplay(c)
        THEN Goto(w, IF InTool(w) THEN "threw" ELSE "suspend")
             /\ UNCHANGED <<receipt, consumed>>
        ELSE /\ receipt' = [receipt EXCEPT ![c] = TRUE]
             /\ consumed' = [consumed EXCEPT ![c] = @ \/ InTool(w)]
             /\ Goto(w, IF InTool(w) THEN "after" ELSE "workflow")
     /\ UNCHANGED <<attemptVars, reservationVars, tombstone, dispatchVars, run, view,
                    told, stripeVars, faultVars>>

\* A tool that threw has used up the snapshot; Mastra returns normally, or
\* throws on: a denial of the policy ends the turn, anything else suspends it.
ToolThrew(w) ==
  /\ pc[w] = "threw"
  /\ consumed' = [consumed EXCEPT ![on[w]] = TRUE]
  /\ Goto(w, "after") \/ Goto(w, IF todo[w] = "quarantined" THEN "fail" ELSE "suspend")
  /\ UNCHANGED <<attemptVars, reservationVars, receipt, tombstone, dispatchVars, run, view,
                 told, stripeVars, faultVars>>

-----------------------------------------------------------------------------
(* After the native tool: the workflow and its answer.                     *)

\* hasFailed..., hasUnknown..., reconcileApprovedSubscriptionCreditEffect, which
\* projects again; without the command a sweep that has it throws.
AfterTool(c) ==
  CASE status[c] = "failed" -> "complete" [] status[c] = "unknown" -> "suspend"
    [] tombstone[c] \/ (Idempotency(c) /\ ~OnDisplay(c)) -> "suspend"
    [] Idempotency(c) -> "workflow" [] OTHER -> "fail"

\* The request takes the command of the case as it is now; its errors are failures.
AfterRequest(c) ==
  CASE ~OnDisplay(c) \/ tombstone[c] -> "fail" [] Idempotency(c) -> "workflow"
    [] status[c] = "failed" -> "complete" [] status[c] = "unknown" -> "suspend"
    [] OTHER -> "fail"

\* Where an error after the tool leads: the request fails the turn.
Error(w) == IF mode[w] = "request" THEN "fail" ELSE "suspend"

After(w) ==
  /\ pc[w] = "after"
  /\ \/ Goto(w, CASE mode[w] = "blind" -> "workflow" [] mode[w] = "request" -> AfterRequest(on[w])
                 [] OTHER -> AfterTool(on[w]))
     \/ Goto(w, Error(w))
  /\ UNCHANGED <<attemptVars, reservationVars, receipt, tombstone, dispatchVars, consumed,
                 run, view, told, stripeVars, faultVars>>

\* createRun and run.resume: a run that is no longer suspended throws, as does
\* the request without the lease for its update of the case; of a resume that
\* another process has claimed the request just takes leave.
Workflow(w) ==
  LET c == on[w]
  IN /\ pc[w] = "workflow"
     /\ \/ Goto(w, Error(w)) /\ UNCHANGED <<owner, run, prepared>>
        \/ /\ run[c] # "suspended" /\ mode[w] = "request"
           /\ GoIdle(w) /\ Forget(w) /\ UNCHANGED run
        \/ /\ run[c] = "suspended" /\ (mode[w] = "request" => Owns(w))
           /\ run' = [run EXCEPT ![c] = "running"]
           /\ Goto(w, "answer") /\ UNCHANGED <<owner, prepared>>
     /\ UNCHANGED <<dispatch, live, attempts, status, noEffect, reservationVars, receipt,
                    tombstone, consumed, view, told, stripeVars, faultVars>>

\* completedSubscriptionCreditResponse.
Answer(c) == IF Idempotency(c) THEN "issued" ELSE "safe"

\* finalizeCaseAndEnqueue: under the lease, for the turn on display, once; the
\* steps before it need the draft, which a case activated again has not.
MayAnswer(w) ==
  LET c == on[w] IN Owns(w) /\ view[c] = "processing" /\ told[c] = {} /\ ~tombstone[c]

\* resolveCaseStep: any error in it fails the run.
AnswerCustomer(w) ==
  LET c == on[w]
  IN /\ pc[w] = "answer"
     /\ \/ /\ MayAnswer(w)
           /\ told' = [told EXCEPT ![c] = {Answer(c)}]
           /\ view' = [view EXCEPT ![c] = IF Answer(c) = "issued" THEN "resolved" ELSE "escalated"]
           /\ Goto(w, "ended") /\ UNCHANGED run
        \/ /\ run' = [run EXCEPT ![c] = "failed"]
           /\ Goto(w, IF mode[w] = "restart" THEN "retry" ELSE "fail")
           /\ UNCHANGED <<told, view>>
     /\ UNCHANGED <<attemptVars, reservationVars, receipt, tombstone, dispatchVars, consumed,
                    stripeVars, faultVars>>

\* Mastra records the end of the run after its last step.
EndRun(w) ==
  /\ pc[w] = "ended" /\ Goto(w, "complete")
  /\ run' = [run EXCEPT ![on[w]] = "succeeded"]
  /\ UNCHANGED <<attemptVars, reservationVars, receipt, tombstone, dispatchVars, consumed,
                 view, told, stripeVars, faultVars>>

\* completeDispatch and failDispatchAndCase, all fenced by the lease.
EndDispatch(w, to) ==
  /\ IF Owns(w)
     THEN /\ dispatch' = [dispatch EXCEPT ![on[w]] = to]
          /\ live' = [live EXCEPT ![on[w]] = FALSE]
          /\ view' = [view EXCEPT ![on[w]] = IF to = "failed" THEN Escalated(on[w]) ELSE @]
     ELSE UNCHANGED <<dispatch, live, view>>
  /\ GoIdle(w) /\ Forget(w)
  /\ UNCHANGED <<attempts, status, noEffect, reservationVars, receipt, tombstone, consumed, run,
                 told, stripeVars, faultVars>>

Suspend(w) == pc[w] = "suspend" /\ EndDispatch(w, "suspended")
Complete(w) == pc[w] = "complete" /\ EndDispatch(w, "completed")
Fail(w) == pc[w] = "fail" /\ EndDispatch(w, "failed")

-----------------------------------------------------------------------------
(* The sweep of all dispatches (workflow-recovery.ts).                     *)

\* claimDispatch takes what is pending and what has a lease that has ended.
RecoveryClaim(w, c) ==
  /\ pc[w] = "idle" /\ attempts[c] < MaxAttempts
  /\ dispatch[c] = "pending" \/ (dispatch[c] \in Active /\ Lapsed(c))
  /\ dispatch' = [dispatch EXCEPT ![c] = "claimed"] /\ owner' = [owner EXCEPT ![c] = w]
  /\ live' = [live EXCEPT ![c] = TRUE] /\ attempts' = [attempts EXCEPT ![c] = @ + 1]
  /\ on' = [on EXCEPT ![w] = c] /\ mode' = [mode EXCEPT ![w] = "restart"]
  /\ pc' = [pc EXCEPT ![w] = "inspect"]
  /\ UNCHANGED <<todo, attemptVars, reservationVars, receipt, tombstone, consumed, run,
                 view, told, stripeVars, faultVars>>

\* claimDispatch first fails the rows whose attempts are used up.
Exhaust(c) ==
  /\ dispatch[c] \in Active /\ Lapsed(c) /\ attempts[c] >= MaxAttempts
  /\ dispatch' = [dispatch EXCEPT ![c] = "failed"] /\ owner' = [owner EXCEPT ![c] = NoWorker]
  /\ view' = [view EXCEPT ![c] = Escalated(c)]
  /\ UNCHANGED <<live, attempts, attemptVars, reservationVars, receipt, tombstone, consumed,
                 run, told, stripeVars, workerVars, faultVars>>

\* Mutant: a run that has failed has ended too.
InspectedEnded(c) ==
  CASE run[c] = "suspended" -> "suspend" [] run[c] \in {"succeeded", "failed"} -> "complete"
    [] run[c] = "running" -> "activate"

\* What the snapshot of the run says about the turn.
Inspected(c) ==
  CASE run[c] = "suspended" -> "suspend" [] run[c] = "succeeded" -> "complete"
    [] run[c] = "failed" -> "fail" [] run[c] = "running" -> "activate"

\* Any error before the activation gives the turn up for a retry.
Inspect(w) ==
  /\ pc[w] = "inspect"
  /\ Goto(w, Inspected(on[w])) \/ Goto(w, "retry")
  /\ UNCHANGED <<attemptVars, reservationVars, receipt, tombstone, dispatchVars, consumed,
                 run, view, told, stripeVars, faultVars>>

Holds(w) == owner[on[w]] = w

\* activateDispatch: the token is enough.  A turn that a follow-up has replaced
\* comes back without its command.
Activate(w) ==
  LET c == on[w]
  IN /\ pc[w] = "activate"
     /\ IF Holds(w) /\ dispatch[c] = "claimed"
        THEN /\ dispatch' = [dispatch EXCEPT ![c] = "started"]
             /\ view' = [view EXCEPT ![c] = IF OnDisplay(c) THEN "processing" ELSE @]
             /\ Goto(w, "restart") /\ UNCHANGED <<owner, prepared>>
        ELSE GoIdle(w) /\ Forget(w) /\ UNCHANGED <<dispatch, view>>
     /\ UNCHANGED <<live, attempts, status, noEffect, reservationVars, receipt, tombstone,
                    consumed, run, told, stripeVars, faultVars>>

\* The lease is renewed once more before the run is restarted.
Restart(w) ==
  /\ pc[w] = "restart"
  /\ IF Owns(w) THEN Goto(w, "answer") /\ UNCHANGED <<owner, prepared>>
                 ELSE GoIdle(w) /\ Forget(w)
  /\ UNCHANGED <<dispatch, live, attempts, status, noEffect, reservationVars, receipt,
                 tombstone, consumed, run, view, told, stripeVars, faultVars>>

\* retryDispatch: the token is enough; no attempt left is a failure, under the
\* lease; a worker that has noticed the loss of its lease does nothing.
Retry(w) ==
  LET c == on[w]
      mayRetry == dispatch[c] \in Active /\ Holds(w) /\ attempts[c] < MaxAttempts
  IN /\ pc[w] = "retry"
     /\ \/ /\ mayRetry
           /\ dispatch' = [dispatch EXCEPT ![c] = "pending"]
           /\ live' = [live EXCEPT ![c] = FALSE]
           /\ GoIdle(w) /\ Forget(w)
        \/ ~mayRetry /\ Goto(w, "fail") /\ UNCHANGED <<dispatch, live, owner, prepared>>
        \/ ~Owns(w) /\ GoIdle(w) /\ Forget(w) /\ UNCHANGED <<dispatch, live>>
     /\ UNCHANGED <<attempts, status, noEffect, reservationVars, receipt, tombstone, consumed,
                    run, view, told, stripeVars, faultVars>>

-----------------------------------------------------------------------------
(* The customer, Stripe, retention, leases and crashes.                    *)

\* A follow-up resets a case whose status is final.
FollowUp(c) ==
  /\ view[c] \in {"resolved", "escalated"}
  /\ view' = [view EXCEPT ![c] = "reset"]
  /\ UNCHANGED <<attemptVars, reservationVars, receipt, tombstone, dispatchVars, consumed,
                 run, told, stripeVars, workerVars, faultVars>>

\* A POST that was given up is carried out, or never will be.
LatePost(c) ==
  /\ late[c] /\ late' = [late EXCEPT ![c] = FALSE]
  /\ \E happens \in BOOLEAN : credits' = [credits EXCEPT ![c] = @ \/ happens]
  /\ UNCHANGED <<posts, attemptVars, reservationVars, receipt, tombstone, dispatchVars,
                 consumed, run, view, told, workerVars, faultVars>>

Expirable == Terminal

\* minimizeExpiredTerminalFinancialAttempts, years later: a tombstone replaces
\* the attempt (whose last status is kept here), the reservation is removed.
Retain(c) ==
  /\ c \notin {on[w] : w \in Workers}
  /\ status[c] \in Expirable /\ ~tombstone[c]
  /\ tombstone' = [tombstone EXCEPT ![c] = TRUE]
  /\ receipt' = [receipt EXCEPT ![c] = FALSE]
  /\ IF reserved = c /\ rstatus \in Expirable
     THEN reserved' = NoCommand /\ rstatus' = "none" ELSE UNCHANGED reservationVars
  /\ UNCHANGED <<attemptVars, dispatchVars, consumed, run, view, told, stripeVars,
                 workerVars, faultVars>>

\* A lease ends under a worker that stalls, a fault, or after its worker is gone.
LeaseExpires(c) ==
  /\ live[c] /\ live' = [live EXCEPT ![c] = FALSE]
  /\ IF owner[c] # NoWorker THEN crashes + stalls < MaxFaults /\ stalls' = stalls + 1
                            ELSE UNCHANGED stalls
  /\ UNCHANGED <<dispatch, owner, attempts, attemptVars, reservationVars, receipt, tombstone,
                 consumed, run, view, told, stripeVars, workerVars, crashes>>

\* A process dies, or a worker leaves its claim because an error of the database
\* hid its lease from it.
Crash(w) ==
  /\ pc[w] # "idle" /\ crashes + stalls < MaxFaults /\ crashes' = crashes + 1
  /\ GoIdle(w) /\ Forget(w)
  /\ UNCHANGED <<dispatch, live, attempts, status, noEffect, reservationVars, receipt, tombstone,
                 consumed, run, view, told, stripeVars, stalls>>

-----------------------------------------------------------------------------
\* The reviewers have approved every command, and no run has been resumed.  A
\* turn may have taken several attempts to get there.
Init ==
  /\ status = [c \in Commands |-> "absent"] /\ noEffect = [c \in Commands |-> FALSE]
  /\ prepared = [c \in Commands |-> NoWorker]
  /\ reserved = NoCommand /\ rstatus = "none"
  /\ receipt = [c \in Commands |-> FALSE] /\ tombstone = [c \in Commands |-> FALSE]
  /\ dispatch = [c \in Commands |-> "suspended"] /\ owner = [c \in Commands |-> NoWorker]
  /\ live = [c \in Commands |-> FALSE] /\ attempts \in [Commands -> 1..MaxAttempts]
  /\ consumed = [c \in Commands |-> FALSE] /\ run = [c \in Commands |-> "suspended"]
  /\ view = [c \in Commands |-> "processing"] /\ told = [c \in Commands |-> {}]
  /\ posts = [c \in Commands |-> 0] /\ credits = [c \in Commands |-> FALSE]
  /\ late = [c \in Commands |-> FALSE]
  /\ pc = [w \in Workers |-> "idle"] /\ on = [w \in Workers |-> NoCommand]
  /\ mode = [w \in Workers |-> "none"] /\ todo = [w \in Workers |-> "none"]
  /\ crashes = 0 /\ stalls = 0

GoOn(w) ==
  \/ Reconcile(w) \/ Search(w) \/ Resume(w) \/ Tool(w) \/ Prepare(w) \/ Existing(w)
  \/ Preflight(w) \/ Fence(w) \/ Post(w) \/ Mark(w) \/ CloseNoEffect(w) \/ Write(w)
  \/ Reserve(w) \/ Project(w) \/ ToolThrew(w) \/ After(w) \/ Workflow(w)
  \/ AnswerCustomer(w) \/ EndRun(w) \/ Suspend(w) \/ Complete(w) \/ Fail(w)
  \/ Inspect(w) \/ Activate(w) \/ Restart(w) \/ Retry(w)

Next ==
  \/ \E w \in Workers : GoOn(w) \/ Crash(w) \/ \E c \in Commands : Claim(w, c) \/ RecoveryClaim(w, c)
  \/ \E c \in Commands : Exhaust(c) \/ FollowUp(c) \/ LatePost(c) \/ Retain(c)
                         \/ LeaseExpires(c)

Spec == Init /\ [][Next]_vars

-----------------------------------------------------------------------------
(* What must hold.                                                         *)

TypeOK ==
  /\ status \in [Commands -> {"absent"} \cup Open \cup Terminal]
  /\ {noEffect, receipt, tombstone, consumed, live, credits, late}
       \subseteq [Commands -> BOOLEAN]
  /\ {prepared, owner} \subseteq [Commands -> Workers \cup {NoWorker}]
  /\ reserved \in Commands \cup {NoCommand}
  /\ rstatus \in {"none"} \cup Open \cup Terminal
  /\ dispatch \in [Commands -> {"suspended", "pending"} \cup Active \cup Over]
  /\ attempts \in [Commands -> 1..MaxAttempts]
  /\ run \in [Commands -> {"suspended", "running", "succeeded", "failed"}]
  /\ view \in [Commands -> {"processing", "resolved", "escalated", "reset"}]
  /\ told \in [Commands -> SUBSET {"issued", "safe", "no-effect"}]
  /\ posts \in [Commands -> Nat]
  /\ on \in [Workers -> Commands \cup {NoCommand}]
  /\ mode \in [Workers -> {"none", "sweep", "tool", "request", "blind", "restart"}]
  /\ todo \in [Workers -> {"none", "succeeded", "unknown", "quarantined"}]
  /\ {crashes, stalls} \subseteq 0..MaxFaults

\* A command is posted at most once whoever crashes, stalls or resumes it again,
\* its verdict is final, and neither "confirmed-no-effect" nor a denial by the
\* policy is belied by a credit.
Verdict(c) ==
  CASE status[c] = "succeeded" -> "done" [] status[c] \in {"failed", "quarantined"} -> "none"
    [] OTHER -> "open"

Promise(c) == INSTANCE OneEffect WITH
  Attributed <- TRUE, sent <- posts[c], happened <- credits[c], verdict <- Verdict(c)

OneCredit ==
  /\ \A c \in Commands : Promise(c)!Init
  /\ [][\A c \in Commands : [Promise(c)!Next]_<<posts[c], credits[c], Verdict(c)>>]_vars

\* A customer and subscription get one credit, whichever case asks for it, even
\* after retention has forgotten the first one.
OnePerSubscription == Cardinality({c \in Commands : credits[c]}) <= 1

\* The customer hears once: of a credit that exists, or of a review if none does
\* and none ever will.
ToldIsTrue ==
  \A c \in Commands :
    \/ told[c] = {}
    \/ told[c] = {"issued"} /\ credits[c]
    \/ told[c] = {"no-effect"} /\ ~credits[c] /\ ~late[c]

AnswersAgree == TypeOK /\ ToldIsTrue

Answered(c) ==
  \/ status[c] = "succeeded" /\ "issued" \in told[c]
  \/ status[c] = "failed" /\ "no-effect" \in told[c]

\* Whoever inspects, restarts or gives up a turn, no turn counts as completed
\* before its customer was told the outcome, and none that failed goes on
\* looking like work in progress to the staff.
CompletedIsAnswered ==
  \A c \in Commands :
    /\ dispatch[c] = "completed" \/ run[c] = "succeeded" => Answered(c)
    /\ dispatch[c] = "failed" => view[c] # "processing"

=============================================================================

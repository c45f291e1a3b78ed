--------------------------- MODULE IntercomInbound ---------------------------
(***************************************************************************)
(* What Intercom tells the application about one conversation: messages of *)
(* the customer, which become turns of a case, and that an administrator   *)
(* has closed it, which is only a hint.  The hint is kept as an intent; a  *)
(* worker reads the conversation again and resolves the case if nothing    *)
(* has changed and nothing is under way.                                   *)
(*                                                                         *)
(* A notification arrives any number of times, in any order, or never:     *)
(* Intercom repeats what is not acknowledged and drops what is too old.    *)
(* The execution of a turn is one step here (see Dispatch), the delivery   *)
(* of the application's own status changes another (see Outbox).           *)
(***************************************************************************)
EXTENDS Naturals, Sequences, FiniteSets

CONSTANTS
  Messages,   \* messages of the customer, each with its notification
  Closes,     \* identities of notifications of a close
  Handlers,   \* requests of Intercom
  Workers,    \* recovery sweeps, one in each process
  None,
  MaxFaults   \* bound: crashes and failed reads of the sweeps, expired leases

ASSUME IntercomInboundAssumption == None \notin Workers /\ MaxFaults \in Nat

VARIABLES
  conversation,       \* at Intercom: "open" or "closed"
  sent, emitted,      \* messages written, notifications of a close
  acknowledged,       \* messages whose notification was answered with success
  turns, status,      \* of the case: its turns in order, support_cases.status
  fresh,              \* sweeps that read what still is support_cases.version
  manual,             \* support_manual_resolutions has a row
  channel,            \* status change that waits in the outbox
  intent,             \* support_intercom_close_intents: state, token, lease
  crowded,            \* ten older intents of other conversations can be claimed
  hpc, message,       \* of each request: step, the message it carries
  wpc, close, verdict,  \* of each sweep: step, intent, result
  faults,
  closedSince,        \* closed at some time since the last message (history)
  byClose,            \* the case was resolved by the last close (history)
  last                \* notification of a close that still stands (history)

projection == <<turns, status, manual, channel>>
caseVars == <<projection, fresh>>
handlerVars == <<acknowledged, hpc, message>>
workerVars == <<wpc, close, verdict>>
history == <<closedSince, byClose, last>>
vars == <<conversation, sent, emitted, caseVars, handlerVars, intent, workerVars,
          crowded, faults, history>>

Final == {"resolved", "escalated"}
TurnStates == {"queued", "waiting", "decided", "undecided", "unsettled", "ended"}
Unclaimed == [state |-> "none", owner |-> None, live |-> FALSE]

-----------------------------------------------------------------------------
(* The conversation at Intercom.                                           *)

\* The customer writes: a conversation that was closed is open again.
Send(m) ==
  /\ m \notin sent /\ sent' = sent \cup {m}
  /\ conversation' = "open" /\ last' = None
  /\ UNCHANGED <<crowded, emitted, caseVars, handlerVars, intent, workerVars, faults,
                 closedSince, byClose>>

\* Somebody closes it; the notification of that may be lost.
Closed ==
  /\ conversation' = "closed" /\ closedSince' = TRUE
  /\ \/ last' = None /\ UNCHANGED emitted
     \/ \E e \in Closes \ emitted : emitted' = emitted \cup {e} /\ last' = e

AdminClose ==
  /\ conversation = "open" /\ sent # {}
  /\ Closed
  /\ UNCHANGED <<crowded, sent, caseVars, handlerVars, intent, workerVars, faults, byClose>>

\* The outbox delivers the status that the application decided on.
DeliverStatus ==
  /\ channel # "none" /\ channel' = "none"
  /\ IF channel = "closed" /\ conversation = "open" THEN Closed
     ELSE /\ conversation' = channel
          /\ last' = IF channel = "open" THEN None ELSE last
          /\ UNCHANGED <<emitted, closedSince>>
  /\ UNCHANGED <<crowded, sent, turns, status, fresh, manual, handlerVars, intent, workerVars,
                 faults, byClose>>

-----------------------------------------------------------------------------
(* A request with a message: two transactions, and a crash between them.   *)

Stored(m) == \E i \in DOMAIN turns : turns[i].message = m

Acknowledge(m) == acknowledged' = acknowledged \cup {m}

\* Every write to the case increments its version.
Write == fresh' = {}

NewTurn(m) ==
  /\ turns' = Append(turns, [message |-> m, state |-> "queued"])
  /\ Write
  /\ closedSince' = (conversation = "closed") /\ byClose' = FALSE /\ last' = None

\* acceptInbound: an event that is known, a new case, or a further turn.
Accept(h, m) ==
  /\ hpc[h] = "idle" /\ m \in sent
  /\ IF Stored(m) \/ turns = <<>>
     THEN Acknowledge(m) /\ UNCHANGED <<hpc, message>>
     ELSE /\ hpc' = [hpc EXCEPT ![h] = "append"] /\ message' = [message EXCEPT ![h] = m]
          /\ UNCHANGED acknowledged
  /\ IF turns = <<>> THEN NewTurn(m) /\ status' = "processing"
     ELSE UNCHANGED <<turns, fresh, status, history>>
  /\ UNCHANGED <<crowded, conversation, sent, emitted, manual, channel, intent, workerVars, faults>>

\* Mutant: the event is not looked up again in the second transaction.
SeenBefore(m) == FALSE

Seen(m) == Stored(m)

\* A follow-up ends the wait for a reviewer: the dispatch that was suspended
\* is completed, and its command is never decided.
Invalidated(t) == IF t.state = "waiting" THEN [t EXCEPT !.state = "undecided"] ELSE t

\* appendFollowUp
AppendFollowUp(h) ==
  /\ hpc[h] = "append"
  /\ hpc' = [hpc EXCEPT ![h] = "idle"] /\ message' = [message EXCEPT ![h] = None]
  /\ Acknowledge(message[h])
  /\ IF Seen(message[h]) THEN UNCHANGED <<turns, status, fresh, channel, history>>
     ELSE /\ turns' = Append([i \in DOMAIN turns |-> Invalidated(turns[i])],
                             [message |-> message[h], state |-> "queued"])
          /\ status' = IF status \in Final \cup {"waiting"} THEN "processing" ELSE status
          /\ Write
          /\ channel' \in {channel, "none"}
          /\ closedSince' = (conversation = "closed") /\ byClose' = FALSE /\ last' = None
  /\ UNCHANGED <<crowded, conversation, sent, emitted, manual, intent, workerVars, faults>>

HandlerDies(h) ==
  /\ hpc[h] = "append"
  /\ hpc' = [hpc EXCEPT ![h] = "idle"] /\ message' = [message EXCEPT ![h] = None]
  /\ UNCHANGED <<crowded, conversation, sent, emitted, acknowledged, caseVars, intent, workerVars,
                 faults, history>>

-----------------------------------------------------------------------------
(* The turns, and the resolution of an escalated case by staff.            *)

Conclude(i, state, verdictOfTurn) ==
  /\ turns' = [turns EXCEPT ![i].state = state]
  /\ status' = verdictOfTurn /\ Write /\ byClose' = FALSE
  /\ channel' = CASE verdictOfTurn = "resolved" -> "closed"
                  [] verdictOfTurn = "escalated" -> "open"
                  [] OTHER -> channel
  /\ UNCHANGED <<crowded, conversation, sent, emitted, manual, handlerVars, intent, workerVars, faults,
                 closedSince, last>>

\* The dispatch of the turn is over: its command was never decided, or is approved
\* without a result, or its attempt at Stripe is open, unknown or quarantined.
Over == {"undecided", "unsettled", "ended"}

\* A turn is executed after the one before it: it ends, asks for a reviewer,
\* or fails after its command was bound to it.
ExecuteTurn(i) ==
  /\ i \in DOMAIN turns /\ turns[i].state = "queued"
  /\ \A j \in 1..(i-1) : turns[j].state \in Over
  /\ \/ \E f \in Final : Conclude(i, "ended", f)
     \/ Conclude(i, "waiting", "waiting")
     \/ Conclude(i, "undecided", "escalated")

\* The reviewer decides; the turn then goes on under its dispatch.
Decide(i) ==
  /\ i \in DOMAIN turns /\ turns[i].state = "waiting" /\ status = "waiting"
  /\ Conclude(i, "decided", "processing")

Finish(i) ==
  /\ i \in DOMAIN turns /\ turns[i].state = "decided"
  /\ \E f \in Final, s \in {"ended", "unsettled"} : Conclude(i, s, f)

\* A reconciler settles the attempt of a turn that is over, for all that is known
\* here at no particular time, and may escalate the case.
Reconcile(i) ==
  /\ i \in DOMAIN turns /\ turns[i].state = "unsettled"
  /\ \/ Conclude(i, "ended", "escalated")
     \/ /\ turns' = [turns EXCEPT ![i].state = "ended"] /\ Write
        /\ UNCHANGED <<crowded, conversation, sent, emitted, status, manual, channel, handlerVars,
                       intent, workerVars, faults, history>>

\* hasResolutionBlocker: an open dispatch, a command nobody has decided or whose
\* approval has no result, an attempt that is not settled.
Blocked == \E i \in DOMAIN turns : turns[i].state # "ended"

ResolveManually ==
  /\ status = "escalated" /\ ~Blocked
  /\ status' = "resolved" /\ Write
  /\ manual' = TRUE /\ channel' = "closed" /\ byClose' = FALSE
  /\ UNCHANGED <<crowded, conversation, sent, emitted, turns, handlerVars, intent, workerVars, faults,
                 closedSince, last>>

-----------------------------------------------------------------------------
(* The intents.                                                            *)

\* One row for each notification; a repetition finds it and changes nothing.
Record(e) ==
  /\ e \in emitted /\ intent[e].state = "none"
  /\ intent' = [intent EXCEPT ![e].state = "pending"]
  /\ UNCHANGED <<crowded, conversation, sent, emitted, caseVars, handlerVars, workerVars, faults, history>>


Claimable(e) ==
  \/ intent[e].state \in {"pending", "deferred"}
  \/ intent[e].state = "claimed" /\ ~intent[e].live

\* A sweep takes the ten oldest intents that it may take, and here one after the
\* other; a deferred intent keeps its place among them.
Claim(w, e) ==
  /\ wpc[w] = "idle" /\ Claimable(e) /\ ~crowded
  /\ intent' = [intent EXCEPT ![e] = [state |-> "claimed", owner |-> w, live |-> TRUE]]
  /\ wpc' = [wpc EXCEPT ![w] = "snapshot"] /\ close' = [close EXCEPT ![w] = e]
  /\ UNCHANGED <<crowded, conversation, sent, emitted, caseVars, handlerVars, verdict, faults, history>>

\* Sweeps claim, defer and settle the intents of the other conversations.
Crowd ==
  /\ crowded' = ~crowded
  /\ UNCHANGED <<conversation, sent, emitted, caseVars, handlerVars, intent, workerVars, faults,
                 history>>

Conclusion(w, result) ==
  /\ wpc' = [wpc EXCEPT ![w] = "settle"] /\ verdict' = [verdict EXCEPT ![w] = result]
  /\ fresh' = fresh \ {w} /\ UNCHANGED close

Free(w) ==
  /\ wpc' = [wpc EXCEPT ![w] = "idle"] /\ close' = [close EXCEPT ![w] = None]
  /\ verdict' = [verdict EXCEPT ![w] = "none"]

\* conversationSnapshot finds a case.
Known == turns # <<>>

\* The version of the case, before the conversation is read.
Snapshot(w) ==
  /\ wpc[w] = "snapshot"
  /\ IF Known
     THEN /\ wpc' = [wpc EXCEPT ![w] = "get"] /\ fresh' = fresh \cup {w}
          /\ UNCHANGED <<close, verdict>>
     ELSE Conclusion(w, "superseded")
  /\ UNCHANGED <<crowded, conversation, sent, emitted, projection, handlerVars, intent, faults, history>>

Get(w) ==
  /\ wpc[w] = "get"
  /\ IF conversation = "closed"
     THEN wpc' = [wpc EXCEPT ![w] = "apply"] /\ UNCHANGED <<close, verdict, fresh>>
     ELSE Conclusion(w, "superseded")
  /\ UNCHANGED <<crowded, conversation, sent, emitted, projection, handlerVars, intent, faults, history>>

GetFails(w) ==
  /\ wpc[w] = "get" /\ faults < MaxFaults /\ faults' = faults + 1
  /\ Conclusion(w, "deferred")
  /\ UNCHANGED <<crowded, conversation, sent, emitted, projection, handlerVars, intent, history>>

\* Mutant: nobody asks who holds the intent.
OwnsClaimed(w) == intent[close[w]].state = "claimed"

Owns(w) == intent[close[w]].state = "claimed" /\ intent[close[w]].owner = w

\* Mutant: the version that was read is not compared.
CurrentAlways(w) == TRUE

Current(w) == w \in fresh

Settled(result) == [state |-> result, owner |-> None, live |-> FALSE]

\* The app has closed the conversation itself: nothing is left to do.
ResolvedByStaff == status = "resolved" /\ manual

\* applyIntercomClose: one transaction that resolves the case and ends the
\* intent, or changes nothing.
Apply(w) ==
  /\ wpc[w] = "apply"
  /\ IF Current(w) /\ ~Blocked /\ ~ResolvedByStaff /\ Owns(w)
     THEN /\ status' = "resolved" /\ Write /\ byClose' = TRUE
          /\ intent' = [intent EXCEPT ![close[w]] = Settled("applied")]
          /\ Free(w)
     ELSE /\ Conclusion(w, IF Current(w) /\ ~Blocked /\ ResolvedByStaff
                           THEN "applied" ELSE "deferred")
          /\ UNCHANGED <<status, byClose, intent>>
  /\ UNCHANGED <<crowded, conversation, sent, emitted, turns, manual, channel, handlerVars, faults,
                 closedSince, last>>

\* complete and defer, for the holder of the token.
Settle(w) ==
  /\ wpc[w] = "settle"
  /\ intent' = IF Owns(w) THEN [intent EXCEPT ![close[w]] = Settled(verdict[w])] ELSE intent
  /\ Free(w)
  /\ UNCHANGED <<crowded, conversation, sent, emitted, caseVars, handlerVars, faults, history>>

WorkerDies(w) ==
  /\ wpc[w] # "idle" /\ faults < MaxFaults /\ faults' = faults + 1
  /\ Free(w) /\ fresh' = fresh \ {w}
  /\ UNCHANGED <<crowded, conversation, sent, emitted, projection, handlerVars, intent, history>>

\* Nobody holds the intent any more; or its holder is slow, which is a fault.
LeaseExpires(e) ==
  /\ intent[e].live
  /\ intent' = [intent EXCEPT ![e].live = FALSE]
  /\ IF close[intent[e].owner] = e THEN faults < MaxFaults /\ faults' = faults + 1
     ELSE UNCHANGED faults
  /\ UNCHANGED <<crowded, conversation, sent, emitted, caseVars, handlerVars, workerVars, history>>

-----------------------------------------------------------------------------
Init ==
  /\ conversation = "open" /\ sent = {} /\ emitted = {} /\ acknowledged = {}
  /\ turns = <<>> /\ status = "none" /\ fresh = {} /\ manual = FALSE /\ channel = "none"
  /\ intent = [e \in Closes |-> Unclaimed] /\ crowded = FALSE
  /\ hpc = [h \in Handlers |-> "idle"] /\ message = [h \in Handlers |-> None]
  /\ wpc = [w \in Workers |-> "idle"] /\ close = [w \in Workers |-> None]
  /\ verdict = [w \in Workers |-> "none"]
  /\ faults = 0
  /\ closedSince = FALSE /\ byClose = FALSE /\ last = None

Intercom == (\E m \in Messages : Send(m)) \/ AdminClose \/ DeliverStatus

Request(h) == (\E m \in Messages : Accept(h, m)) \/ AppendFollowUp(h) \/ HandlerDies(h)

Casework ==
  \/ ResolveManually
  \/ \E i \in DOMAIN turns : ExecuteTurn(i) \/ Decide(i) \/ Finish(i) \/ Reconcile(i)

Proceed(w) == Snapshot(w) \/ Get(w) \/ Apply(w) \/ Settle(w)

Sweep(w) == (\E e \in Closes : Claim(w, e)) \/ Proceed(w) \/ GetFails(w) \/ WorkerDies(w)

Next ==
  \/ Intercom \/ Casework \/ Crowd
  \/ \E h \in Handlers : Request(h)
  \/ \E e \in Closes : Record(e) \/ LeaseExpires(e)
  \/ \E w \in Workers : Sweep(w)

\* Sweeps go on, each takes what its batch has room for, and time passes.
Fairness ==
  /\ \A w \in Workers : WF_vars(Proceed(w))
  /\ \A e \in Closes : WF_vars(\E w \in Workers : Claim(w, e)) /\ WF_vars(LeaseExpires(e))

Spec == Init /\ [][Next]_vars /\ Fairness

-----------------------------------------------------------------------------
(* Properties.                                                             *)

\* Types; a sweep that reads or applies has read a version of the case.
TypeOK ==
  /\ conversation \in {"open", "closed"} /\ sent \subseteq Messages /\ emitted \subseteq Closes
  /\ acknowledged \subseteq sent
  /\ turns \in Seq([message : sent, state : TurnStates])
  /\ status \in {"none", "processing", "waiting"} \cup Final
  /\ fresh \subseteq Workers /\ manual \in BOOLEAN /\ channel \in {"none", "open", "closed"}
  /\ intent \in [Closes -> [state : {"none", "pending", "claimed", "deferred", "applied", "superseded"},
                            owner : Workers \cup {None}, live : BOOLEAN]]
  /\ crowded \in BOOLEAN
  /\ \A e \in Closes : intent[e].owner # None <=> intent[e].state = "claimed"
  /\ hpc \in [Handlers -> {"idle", "append"}] /\ message \in [Handlers -> sent \cup {None}]
  /\ wpc \in [Workers -> {"idle", "snapshot", "get", "apply", "settle"}]
  /\ close \in [Workers -> emitted \cup {None}]
  /\ verdict \in [Workers -> {"none", "applied", "superseded", "deferred"}]
  /\ faults \in 0..MaxFaults
  /\ \A w \in Workers : wpc[w] \in {"get", "apply"} => turns # <<>>

\* case-store-cases.ts: however often and however concurrently a notification
\* arrives, its message is one turn, and none that was acknowledged is lost.
OneTurnPerMessage ==
  \A m \in Messages :
    LET copies == {i \in DOMAIN turns : turns[i].message = m}
    IN  Cardinality(copies) <= 1 /\ (m \in acknowledged => copies # {})

\* intercom-close-recovery.ts: a case is resolved for a conversation that was
\* closed since the last message of the customer, never for an older close.
CloseIsCurrent == byClose => closedSince

\* resolution-blockers.ts: a case that was resolved by a close has no turn to
\* execute, no reviewer who is still asked, no command without a decision or a
\* result and no unsettled attempt, whichever turn of the case it belongs to.
ClosedHasNoWork == byClose => \A i \in DOMAIN turns : turns[i].state = "ended"

\* A case is resolved by a close only if that stands and nothing is left to do.
CloseIsJustified == TypeOK /\ CloseIsCurrent /\ ClosedHasNoWork

\* case-store-intercom-close.ts: a sweep whose intent was taken over by
\* another one changes neither the case nor the intent.
StaleSweepIsSilent ==
  [][\A w \in Workers :
       wpc[w] \in {"apply", "settle"} /\ wpc'[w] # wpc[w] /\ intent[close[w]].owner # w
         => UNCHANGED <<status, byClose, intent>>]_vars


=============================================================================

----------------------------- MODULE CreditProofs -----------------------------
(***************************************************************************)
(* Theorems about Credit, for any commands for one subscription, any       *)
(* number of workers and any bound on faults.                              *)
(***************************************************************************)
EXTENDS Credit, FiniteSetTheorems, TLAPS

-----------------------------------------------------------------------------
(* The inductive invariant.                                                *)

Posting == {"preflight", "fence", "post"}

\* Steps before a worker knows what it will write.
Asking ==
  {"reconcile", "search", "resume", "tool", "prepare", "existing", "mark", "close"} \cup Posting

\* Steps of the sweep of all dispatches.
Sweeping == {"inspect", "activate", "restart", "retry"}

PCs ==
  {"idle", "write", "reserve", "project", "threw", "after", "workflow", "answer", "ended",
   "suspend", "complete", "fail"} \cup Asking \cup Sweeping

\* A worker works on a command, and has something to write once it is known.
AtWork ==
  /\ pc \in [Workers -> PCs]
  /\ \A w \in Workers : pc[w] = "idle" <=> on[w] = NoCommand
  /\ \A w \in Workers : pc[w] = "idle" => mode[w] = "none"
  /\ \A w \in Workers : pc[w] \in Asking \cup {"idle"} => todo[w] = "none"
  /\ \A w \in Workers : pc[w] \in {"write", "reserve"} => todo[w] # "none"
  /\ \A w \in Workers : pc[w] = "reconcile" => mode[w] = "sweep"

\* Nothing has happened for this command, and nothing will.
Clear(c) ==
  /\ status[c] # "absent" /\ ~credits[c] /\ ~late[c]
  /\ \A w \in Workers : on[w] = c => pc[w] \notin Posting

\* A command is posted once, by the only worker that inserted its attempt.
PostedOnce ==
  /\ \A c \in Commands :
       /\ posts[c] <= 1 /\ (posts[c] = 0 => ~credits[c] /\ ~late[c])
       /\ late[c] => ~credits[c]
       /\ status[c] = "absent" => posts[c] = 0
  /\ \A w \in Workers : pc[w] \in Posting =>
       /\ posts[on[w]] = 0 /\ status[on[w]] # "absent"
       /\ \A v \in Workers \ {w} : on[v] = on[w] => pc[v] \notin Posting

\* Whoever says that nothing happened has a proof.
ProvedClear ==
  /\ \A c \in Commands : noEffect[c] \/ status[c] \in {"failed", "quarantined"} => Clear(c)
  /\ \A w \in Workers : pc[w] \in {"mark", "close"} \/ todo[w] = "quarantined" => Clear(on[w])

\* Whoever says that the credit exists has seen it, and so was told the customer.
SeenCredit ==
  /\ \A c \in Commands :
       /\ status[c] = "succeeded" => credits[c]
       /\ "issued" \in told[c] => status[c] = "succeeded"
       /\ "no-effect" \in told[c] => status[c] = "failed"
  /\ \A w \in Workers :
       /\ todo[w] = "succeeded" => credits[on[w]]
       /\ pc[w] = "project" \/ (pc[w] = "reserve" /\ todo[w] = "succeeded")
            => status[on[w]] = "succeeded"

\* A credit of another command rules a POST out, and the reservation is kept as
\* long as one may still be carried out.
Exclusive ==
  /\ \A c, d \in Commands : credits[c] /\ credits[d] => c = d
  /\ \A c \in Commands : late[c] => reserved = c /\ \A d \in Commands : ~credits[d]
  /\ \A w \in Workers : pc[w] \in Posting => reserved = on[w]
  /\ \A w \in Workers : pc[w] \in {"fence", "post"} => \A d \in Commands : ~credits[d]

\* The outcome of the command is known and on record.
Kept(c) == status[c] = "succeeded" /\ (receipt[c] \/ tombstone[c])

\* The customer hears what the attempt says, and of a refusal with its closing.
Heard ==
  \A c \in Commands :
    "safe" \notin told[c] /\ (status[c] = "failed" => "no-effect" \in told[c])

\* The workflow of a turn on display goes on only with the receipt of its credit.
Ready ==
  /\ \A c \in Commands : run[c] # "suspended" /\ OnDisplay(c) => Kept(c)
  /\ \A w \in Workers : mode[w] = "blind" => ~OnDisplay(on[w])
  /\ \A w \in Workers : pc[w] = "workflow" /\ OnDisplay(on[w]) => Kept(on[w])
  /\ \A w \in Workers :
       pc[w] \in {"answer", "ended", "activate", "restart"} => run[on[w]] # "suspended"

\* Whoever ends a turn, or a run, knows that the customer was told.
Done ==
  /\ \A c \in Commands : dispatch[c] = "completed" \/ run[c] = "succeeded" => Answered(c)
  /\ \A w \in Workers : pc[w] \in {"ended", "complete"} => Answered(on[w])
  /\ \A c \in Commands : dispatch[c] = "failed" => view[c] # "processing"

IInv ==
  /\ TypeOK /\ AtWork /\ PostedOnce /\ ProvedClear /\ SeenCredit /\ Exclusive
  /\ Heard /\ Ready /\ Done

-----------------------------------------------------------------------------
(* Type correctness.                                                       *)

Statuses == {"absent"} \cup Open \cup Terminal
Flags == [Commands -> BOOLEAN]

AttemptTypeOK ==
  /\ status \in [Commands -> Statuses] /\ noEffect \in Flags
  /\ prepared \in [Commands -> Workers \cup {NoWorker}]
ReservationTypeOK ==
  reserved \in Commands \cup {NoCommand} /\ rstatus \in {"none"} \cup Open \cup Terminal
ReceiptTypeOK == receipt \in Flags /\ tombstone \in Flags
DispatchTypeOK ==
  /\ dispatch \in [Commands -> {"suspended", "pending"} \cup Active \cup Over]
  /\ owner \in [Commands -> Workers \cup {NoWorker}]
  /\ live \in Flags /\ attempts \in [Commands -> 1..MaxAttempts]
RunTypeOK ==
  consumed \in Flags /\ run \in [Commands -> {"suspended", "running", "succeeded", "failed"}]
CaseTypeOK ==
  /\ view \in [Commands -> {"processing", "resolved", "escalated", "reset"}]
  /\ told \in [Commands -> SUBSET {"issued", "safe", "no-effect"}]
StripeTypeOK == posts \in [Commands -> Nat] /\ credits \in Flags /\ late \in Flags
WorkerTypeOK ==
  /\ pc \in [Workers -> PCs]
  /\ on \in [Workers -> Commands \cup {NoCommand}]
  /\ mode \in [Workers -> {"none", "sweep", "tool", "request", "blind", "restart"}]
  /\ todo \in [Workers -> {"none", "succeeded", "unknown", "quarantined"}]
FaultTypeOK == crashes \in 0..MaxFaults /\ stalls \in 0..MaxFaults

AllTypesOK ==
  /\ AttemptTypeOK /\ ReservationTypeOK /\ ReceiptTypeOK /\ DispatchTypeOK /\ RunTypeOK
  /\ CaseTypeOK /\ StripeTypeOK /\ WorkerTypeOK /\ FaultTypeOK

\* The parts are the type invariant of the module.
LEMMA TypeParts == TypeOK /\ pc \in [Workers -> PCs] <=> AllTypesOK
  BY DEF TypeOK, AllTypesOK, AttemptTypeOK, ReservationTypeOK, ReceiptTypeOK, DispatchTypeOK,
     RunTypeOK, CaseTypeOK, StripeTypeOK, WorkerTypeOK, FaultTypeOK, Statuses, Flags

\* What is left alone keeps its type.
LEMMA UnchangedType ==
  ASSUME AllTypesOK
  PROVE  /\ UNCHANGED attemptVars => AttemptTypeOK'
         /\ UNCHANGED reservationVars => ReservationTypeOK'
         /\ UNCHANGED <<receipt, tombstone>> => ReceiptTypeOK'
         /\ UNCHANGED dispatchVars => DispatchTypeOK'
         /\ UNCHANGED <<consumed, run>> => RunTypeOK'
         /\ UNCHANGED <<view, told>> => CaseTypeOK'
         /\ UNCHANGED stripeVars => StripeTypeOK'
         /\ UNCHANGED workerVars => WorkerTypeOK'
         /\ UNCHANGED faultVars => FaultTypeOK'
<1> USE DEF AllTypesOK
<1>1. UNCHANGED attemptVars => AttemptTypeOK'
  BY DEF AttemptTypeOK, attemptVars
<1>2. UNCHANGED reservationVars => ReservationTypeOK'
  BY DEF ReservationTypeOK, reservationVars
<1>3. UNCHANGED <<receipt, tombstone>> => ReceiptTypeOK'
  BY DEF ReceiptTypeOK
<1>4. UNCHANGED dispatchVars => DispatchTypeOK'
  BY DEF DispatchTypeOK, dispatchVars
<1>5. UNCHANGED <<consumed, run>> => RunTypeOK'
  BY DEF RunTypeOK
<1>6. UNCHANGED <<view, told>> => CaseTypeOK'
  BY DEF CaseTypeOK
<1>7. UNCHANGED stripeVars => StripeTypeOK'
  BY DEF StripeTypeOK, stripeVars
<1>8. UNCHANGED workerVars => WorkerTypeOK'
  BY DEF WorkerTypeOK, workerVars
<1>9. UNCHANGED faultVars => FaultTypeOK'
  BY DEF FaultTypeOK, faultVars
<1> QED
  BY <1>1, <1>2, <1>3, <1>4, <1>5, <1>6, <1>7, <1>8, <1>9

\* The ways a worker moves.
LEMMA GotoType ==
  ASSUME WorkerTypeOK, NEW w \in Workers, NEW label \in PCs, Goto(w, label)
  PROVE  WorkerTypeOK'
  BY DEF WorkerTypeOK, Goto

LEMMA GoWriteType ==
  ASSUME WorkerTypeOK, NEW w \in Workers, NEW to \in {"succeeded", "unknown", "quarantined"},
         GoWrite(w, to)
  PROVE  WorkerTypeOK'
<1>1. "write" \in PCs
  BY DEF PCs
<1> QED
  BY <1>1 DEF WorkerTypeOK, GoWrite

LEMMA GoIdleType ==
  ASSUME AttemptTypeOK, WorkerTypeOK, NEW w \in Workers, GoIdle(w), UNCHANGED <<status, noEffect>>
  PROVE  WorkerTypeOK' /\ AttemptTypeOK'
<1>1. "idle" \in PCs
  BY DEF PCs
<1>2. prepared' \in [Commands -> Workers \cup {NoWorker}]
  BY DEF GoIdle, AttemptTypeOK
<1> QED
  BY <1>1, <1>2 DEF WorkerTypeOK, GoIdle, AttemptTypeOK

\* The steps that a worker takes from one label to another.
Hops(w) ==
  Reconcile(w) \/ Search(w) \/ Resume(w) \/ Tool(w) \/ Existing(w) \/ Preflight(w) \/ Fence(w)
    \/ After(w) \/ Inspect(w)

\* A worker that does something has a command, and its run has a state.
LEMMA HasCommand ==
  ASSUME AllTypesOK, AtWork, NEW w \in Workers, pc[w] # "idle"
  PROVE  on[w] \in Commands
  BY DEF AllTypesOK, WorkerTypeOK, AtWork

LEMMA HasRun ==
  ASSUME AllTypesOK, AtWork, NEW w \in Workers, pc[w] # "idle"
  PROVE  run[on[w]] \in {"suspended", "running", "succeeded", "failed"}
  BY HasCommand DEF AllTypesOK, RunTypeOK

LEMMA HopsType ==
  ASSUME AllTypesOK, AtWork, NEW w \in Workers, Hops(w)
  PROVE  /\ WorkerTypeOK' /\ UNCHANGED on
         /\ UNCHANGED <<attemptVars, reservationVars, receipt, tombstone, dispatchVars, consumed,
                        run, view, told, stripeVars, faultVars>>
<1>0. WorkerTypeOK
  BY DEF AllTypesOK
<1>1. {"write", "after", "workflow", "suspend", "complete", "fail", "project", "threw"} \subseteq PCs
      /\ Asking \subseteq PCs /\ Sweeping \subseteq PCs
      /\ {"resume", "search", "tool", "prepare", "close", "fence", "mark", "post"} \subseteq Asking
  BY DEF PCs, Asking, Posting
<1>2. UNCHANGED <<attemptVars, reservationVars, receipt, tombstone, dispatchVars, consumed,
                  run, view, told, stripeVars, faultVars>> /\ UNCHANGED on
  BY DEF Hops, Reconcile, Search, Resume, Tool, Existing, Preflight, Fence, After, Inspect,
     Goto, GoWrite
<1>3. CASE (\E label \in PCs : Goto(w, label))
           \/ \E to \in {"succeeded", "unknown", "quarantined"} : GoWrite(w, to)
  BY <1>0, <1>2, <1>3, GotoType, GoWriteType
<1>4. CASE Resume(w)
  BY <1>0, <1>1, <1>2, <1>4, GotoType DEF Resume, WorkerTypeOK
<1>5. CASE Reconcile(w)
  <2>1. \E label \in PCs : Goto(w, label)
    BY <1>1, <1>5 DEF Reconcile
  <2> QED
    BY <1>3, <2>1
<1>6. CASE Search(w)
  BY <1>1, <1>3, <1>6 DEF Search
<1>7. CASE Tool(w)
  <2>1. \E label \in PCs : Goto(w, label)
    BY <1>1, <1>7 DEF Tool
  <2> QED
    BY <1>3, <2>1
<1>8. CASE Existing(w) \/ Preflight(w) \/ Fence(w)
  BY <1>1, <1>3, <1>8 DEF Existing, AfterEarlierAttempt, Preflight, Fence
<1>9. CASE After(w)
  <2>1. \E label \in PCs : Goto(w, label)
    BY <1>1, <1>9 DEF After, AfterTool, AfterRequest, Error
  <2> QED
    BY <1>3, <2>1
<1>10. CASE Inspect(w)
  <2>1. Inspected(on[w]) \in PCs
    BY <1>1, HasRun, <1>10 DEF Inspected, Inspect, Sweeping
  <2>2. "retry" \in PCs
    BY <1>1 DEF Sweeping
  <2> QED
    BY <1>3, <1>10, <2>1, <2>2 DEF Inspect
<1> QED
  BY <1>4, <1>5, <1>6, <1>7, <1>8, <1>9, <1>10 DEF Hops

\* The steps of a worker that write to the tables.
LEMMA WritesType ==
  ASSUME AllTypesOK, AtWork, NEW w \in Workers,
         Prepare(w) \/ Post(w) \/ Mark(w) \/ CloseNoEffect(w) \/ Write(w) \/ Reserve(w)
           \/ Project(w) \/ ToolThrew(w) \/ AnswerCustomer(w) \/ EndRun(w)
  PROVE  AllTypesOK' /\ UNCHANGED on
<1> USE DEF AllTypesOK
<1>0. on[w] \in Commands
  BY HasCommand
  DEF Prepare, Post, Mark, CloseNoEffect, Write, Reserve, Project, ToolThrew, AnswerCustomer, EndRun
<1>1. {"write", "reserve", "after", "workflow", "suspend", "complete", "fail", "project", "threw",
       "preflight", "existing", "close", "ended", "retry"} \subseteq PCs
  BY DEF PCs, Asking, Posting, Sweeping
<1>2. UNCHANGED faultVars /\ UNCHANGED on
  BY DEF Prepare, Post, Mark, CloseNoEffect, Write, Reserve, Project, ToolThrew, AnswerCustomer,
     EndRun, Goto, GoWrite
<1>3. ASSUME \/ \E label \in PCs : Goto(w, label)
             \/ \E to \in {"succeeded", "unknown", "quarantined"} : GoWrite(w, to)
      PROVE  WorkerTypeOK'
  BY <1>3, GotoType, GoWriteType
<1>4. CASE Prepare(w)
  <2>1. WorkerTypeOK'
    BY <1>1, <1>3, <1>4 DEF Prepare
  <2>2. AttemptTypeOK' /\ ReservationTypeOK'
    <3>1. CASE tombstone[on[w]] \/ ~MayReserve(on[w])
      BY <1>4, <3>1, UnchangedType DEF Prepare
    <3>2. CASE ~(tombstone[on[w]] \/ ~MayReserve(on[w]))
      <4>1. ReservationTypeOK'
        BY <1>0, <1>4, <3>2 DEF Prepare, ReservationTypeOK, reservationVars, Open
      <4>2. AttemptTypeOK'
        BY <1>0, <1>4, <3>2 DEF Prepare, AttemptTypeOK, Statuses, Open
      <4> QED
        BY <4>1, <4>2
    <3> QED
      BY <3>1, <3>2
  <2> QED
    BY <1>2, <1>4, <2>1, <2>2, UnchangedType DEF Prepare
<1>5. CASE Post(w)
  <2>1. WorkerTypeOK'
    BY <1>1, <1>3, <1>5 DEF Post
  <2>2. StripeTypeOK'
    <3>1. posts[on[w]] + 1 \in Nat
      BY <1>0 DEF StripeTypeOK
    <3>2. posts' \in [Commands -> Nat]
      BY <1>5, <3>1 DEF Post, StripeTypeOK
    <3>3. credits' \in Flags /\ late' \in Flags
      BY <1>0, <1>5 DEF Post, StripeTypeOK, Flags
    <3> QED
      BY <3>2, <3>3 DEF StripeTypeOK
  <2> QED
    BY <1>2, <1>5, <2>1, <2>2, UnchangedType DEF Post
<1>6. CASE Mark(w)
  <2>1. WorkerTypeOK'
    BY <1>1, <1>3, <1>6 DEF Mark
  <2>2. AttemptTypeOK'
    BY <1>0, <1>6 DEF Mark, AttemptTypeOK, Flags
  <2> QED
    BY <1>2, <1>6, <2>1, <2>2, UnchangedType DEF Mark
<1>7. CASE CloseNoEffect(w)
  <2>1. WorkerTypeOK'
    BY <1>1, <1>3, <1>7 DEF CloseNoEffect
  <2>2. CASE UNCHANGED <<status, rstatus, receipt, told, view>>
    BY <1>2, <1>7, <2>1, <2>2, UnchangedType DEF CloseNoEffect, attemptVars, reservationVars
  <2>3. CASE /\ status' = [status EXCEPT ![on[w]] = "failed"]
             /\ rstatus' = IF reserved = on[w] THEN "failed" ELSE rstatus
             /\ receipt' = [receipt EXCEPT ![on[w]] = FALSE]
             /\ told' = [told EXCEPT ![on[w]] = @ \cup {"no-effect"}]
             /\ view' = [view EXCEPT ![on[w]] = Escalated(on[w])]
    <3>1. AttemptTypeOK' /\ ReservationTypeOK' /\ ReceiptTypeOK'
      BY <1>0, <1>7, <2>3
      DEF CloseNoEffect, AttemptTypeOK, ReservationTypeOK, ReceiptTypeOK, Statuses, Terminal, Flags
    <3>2. CaseTypeOK'
      BY <1>0, <2>3 DEF Escalated, CaseTypeOK
    <3> QED
      BY <1>2, <1>7, <2>1, <3>1, <3>2, UnchangedType DEF CloseNoEffect
  <2> QED
    BY <1>7, <2>2, <2>3 DEF CloseNoEffect
<1>8. CASE Write(w)
  <2>0. todo[w] # "none"
    BY <1>8 DEF Write, AtWork
  <2>1. WorkerTypeOK'
    BY <1>1, <1>3, <1>8 DEF Write
  <2>2. AttemptTypeOK'
    BY <1>0, <1>8, <2>0 DEF Write, AttemptTypeOK, WorkerTypeOK, Statuses, Terminal, Open
  <2> QED
    BY <1>2, <1>8, <2>1, <2>2, UnchangedType DEF Write
<1>9. CASE Reserve(w)
  <2>0. todo[w] # "none"
    BY <1>9 DEF Reserve, AtWork
  <2>1. WorkerTypeOK'
    BY <1>1, <1>3, <1>9 DEF Reserve
  <2>2. ReservationTypeOK'
    BY <1>9, <2>0 DEF Reserve, ReservationTypeOK, WorkerTypeOK, Terminal, Open
  <2> QED
    BY <1>2, <1>9, <2>1, <2>2, UnchangedType DEF Reserve
<1>10. CASE Project(w)
  <2>1. WorkerTypeOK'
    BY <1>1, <1>3, <1>10 DEF Project
  <2>2. ReceiptTypeOK' /\ RunTypeOK'
    BY <1>0, <1>10 DEF Project, ReceiptTypeOK, RunTypeOK, Flags
  <2> QED
    BY <1>2, <1>10, <2>1, <2>2, UnchangedType DEF Project
<1>11. CASE ToolThrew(w)
  <2>1. WorkerTypeOK'
    BY <1>1, <1>3, <1>11 DEF ToolThrew
  <2>2. RunTypeOK'
    BY <1>0, <1>11 DEF ToolThrew, RunTypeOK, Flags
  <2> QED
    BY <1>2, <1>11, <2>1, <2>2, UnchangedType DEF ToolThrew
<1>12. CASE AnswerCustomer(w)
  <2>1. WorkerTypeOK'
    BY <1>1, <1>3, <1>12 DEF AnswerCustomer
  <2>2. RunTypeOK' /\ CaseTypeOK'
    <3>1. CASE run' = [run EXCEPT ![on[w]] = "failed"] /\ UNCHANGED <<told, view>>
      BY <1>0, <1>12, <3>1, UnchangedType DEF AnswerCustomer, RunTypeOK
    <3>2. CASE /\ told' = [told EXCEPT ![on[w]] = {Answer(on[w])}] /\ UNCHANGED run
               /\ view' = [view EXCEPT ![on[w]] =
                              IF Answer(on[w]) = "issued" THEN "resolved" ELSE "escalated"]
      BY <1>0, <1>12, <3>2, UnchangedType DEF AnswerCustomer, CaseTypeOK, Answer
    <3> QED
      BY <1>12, <3>1, <3>2 DEF AnswerCustomer
  <2> QED
    BY <1>2, <1>12, <2>1, <2>2, UnchangedType DEF AnswerCustomer
<1>13. CASE EndRun(w)
  <2>1. WorkerTypeOK'
    BY <1>1, <1>3, <1>13 DEF EndRun
  <2>2. RunTypeOK'
    BY <1>0, <1>13 DEF EndRun, RunTypeOK
  <2> QED
    BY <1>2, <1>13, <2>1, <2>2, UnchangedType DEF EndRun
<1> QED
  BY <1>4, <1>5, <1>6, <1>7, <1>8, <1>9, <1>10, <1>11, <1>12, <1>13

\* A worker that leaves its dispatch forgets its tokens.
LEMMA ForgetType ==
  ASSUME DispatchTypeOK, NEW w \in Workers, Forget(w) \/ UNCHANGED owner
  PROVE  owner' \in [Commands -> Workers \cup {NoWorker}]
  BY DEF DispatchTypeOK, Forget

\* The steps at which a worker goes on or takes leave.
Forks(w) == Workflow(w) \/ Activate(w) \/ Restart(w) \/ Retry(w)

LEMMA ForksType ==
  ASSUME AllTypesOK, AtWork, NEW w \in Workers, Forks(w)
  PROVE  AllTypesOK'
<1> USE DEF AllTypesOK
<1>0. on[w] \in Commands
  BY HasCommand DEF Forks, Workflow, Activate, Restart, Retry
<1>1. {"suspend", "fail", "answer", "restart"} \subseteq PCs
  BY DEF PCs, Sweeping
<1>2. ASSUME UNCHANGED <<status, noEffect>>,
             GoIdle(w) \/ ((\E label \in PCs : Goto(w, label)) /\ UNCHANGED prepared)
      PROVE  WorkerTypeOK' /\ AttemptTypeOK'
  BY <1>2, GoIdleType, GotoType, UnchangedType DEF attemptVars
<1>3. CASE Workflow(w)
  <2>1. WorkerTypeOK' /\ AttemptTypeOK'
    BY <1>1, <1>2, <1>3 DEF Workflow, Error
  <2>2. owner' \in [Commands -> Workers \cup {NoWorker}]
    BY <1>3, ForgetType DEF Workflow
  <2>3. DispatchTypeOK'
    BY <1>3, <2>2 DEF Workflow, DispatchTypeOK
  <2>4. RunTypeOK'
    BY <1>0, <1>3 DEF Workflow, RunTypeOK
  <2> QED
    BY <1>3, <2>1, <2>3, <2>4, UnchangedType DEF Workflow
<1>4. CASE Activate(w)
  <2>1. WorkerTypeOK' /\ AttemptTypeOK'
    BY <1>1, <1>2, <1>4 DEF Activate
  <2>2. owner' \in [Commands -> Workers \cup {NoWorker}]
    BY <1>4, ForgetType DEF Activate
  <2>3. DispatchTypeOK' /\ CaseTypeOK'
    BY <1>0, <1>4, <2>2 DEF Activate, DispatchTypeOK, CaseTypeOK, Active
  <2> QED
    BY <1>4, <2>1, <2>3, UnchangedType DEF Activate
<1>5. CASE Restart(w)
  <2>1. WorkerTypeOK' /\ AttemptTypeOK'
    BY <1>1, <1>2, <1>5 DEF Restart
  <2>2. owner' \in [Commands -> Workers \cup {NoWorker}]
    BY <1>5, ForgetType DEF Restart
  <2>3. DispatchTypeOK'
    BY <1>5, <2>2 DEF Restart, DispatchTypeOK
  <2> QED
    BY <1>5, <2>1, <2>3, UnchangedType DEF Restart
<1>6. CASE Retry(w)
  <2>1. WorkerTypeOK' /\ AttemptTypeOK'
    BY <1>1, <1>2, <1>6 DEF Retry
  <2>2. owner' \in [Commands -> Workers \cup {NoWorker}]
    BY <1>6, ForgetType DEF Retry
  <2>3. DispatchTypeOK'
    BY <1>0, <1>6, <2>2 DEF Retry, DispatchTypeOK, Flags
  <2> QED
    BY <1>6, <2>1, <2>3, UnchangedType DEF Retry
<1> QED
  BY <1>3, <1>4, <1>5, <1>6 DEF Forks

LEMMA EndsType ==
  ASSUME AllTypesOK, AtWork, NEW w \in Workers, NEW to \in {"suspended", "completed", "failed"},
         pc[w] # "idle", EndDispatch(w, to)
  PROVE  AllTypesOK'
<1> USE DEF AllTypesOK
<1>0. on[w] \in Commands
  BY HasCommand
<1>1. WorkerTypeOK' /\ AttemptTypeOK'
  BY GoIdleType DEF EndDispatch
<1>2. DispatchTypeOK' /\ CaseTypeOK'
  <2>0. owner' \in [Commands -> Workers \cup {NoWorker}]
    BY ForgetType DEF EndDispatch
  <2>1. CASE Owns(w)
    <3>1. DispatchTypeOK'
      BY <1>0, <2>0, <2>1 DEF EndDispatch, DispatchTypeOK, Over, Flags
    <3>2. CaseTypeOK'
      BY <1>0, <2>1 DEF EndDispatch, CaseTypeOK, Escalated
    <3> QED
      BY <3>1, <3>2
  <2>2. CASE ~Owns(w)
    BY <2>0, <2>2 DEF EndDispatch, DispatchTypeOK, CaseTypeOK
  <2> QED
    BY <2>1, <2>2
<1> QED
  BY <1>1, <1>2, UnchangedType DEF EndDispatch

LEMMA ClaimType ==
  ASSUME AllTypesOK, NEW w \in Workers, NEW c \in Commands, Claim(w, c) \/ RecoveryClaim(w, c)
  PROVE  AllTypesOK'
<1> USE DEF AllTypesOK
<1>1. {"resume", "reconcile", "inspect"} \subseteq PCs
  BY DEF PCs, Asking, Sweeping
<1>2. WorkerTypeOK'
  BY <1>1 DEF Claim, RecoveryClaim, WorkerTypeOK
<1>3. DispatchTypeOK'
  <2>1. CASE Claim(w, c)
    BY <2>1 DEF Claim, DispatchTypeOK, Active, Flags
  <2>2. CASE RecoveryClaim(w, c)
    <3>1. attempts[c] + 1 \in 1..MaxAttempts
      BY <2>2, CreditAttemptsAssumption DEF RecoveryClaim, DispatchTypeOK
    <3> QED
      BY <2>2, <3>1 DEF RecoveryClaim, DispatchTypeOK, Active, Flags
  <2> QED
    BY <2>1, <2>2
<1> QED
  BY <1>2, <1>3, UnchangedType DEF Claim, RecoveryClaim

\* The steps of a row that no worker takes.
LEMMA OtherType ==
  ASSUME AllTypesOK, NEW c \in Commands,
         Exhaust(c) \/ FollowUp(c) \/ LatePost(c) \/ Retain(c) \/ LeaseExpires(c)
  PROVE  AllTypesOK'
<1> USE DEF AllTypesOK
<1>1. CASE Exhaust(c)
  <2>1. DispatchTypeOK'
    BY <1>1 DEF Exhaust, DispatchTypeOK, Over
  <2>2. CaseTypeOK'
    BY <1>1 DEF Exhaust, CaseTypeOK, Escalated
  <2> QED
    BY <1>1, <2>1, <2>2, UnchangedType DEF Exhaust
<1>2. CASE FollowUp(c)
  <2>1. CaseTypeOK'
    BY <1>2 DEF FollowUp, CaseTypeOK
  <2> QED
    BY <1>2, <2>1, UnchangedType DEF FollowUp
<1>3. CASE LatePost(c)
  <2>1. StripeTypeOK'
    BY <1>3 DEF LatePost, StripeTypeOK, Flags
  <2> QED
    BY <1>3, <2>1, UnchangedType DEF LatePost
<1>4. CASE Retain(c)
  <2>1. ReceiptTypeOK' /\ ReservationTypeOK'
    BY <1>4 DEF Retain, ReceiptTypeOK, ReservationTypeOK, reservationVars, Flags
  <2> QED
    BY <1>4, <2>1, UnchangedType DEF Retain
<1>5. CASE LeaseExpires(c)
  <2>1. DispatchTypeOK'
    BY <1>5 DEF LeaseExpires, DispatchTypeOK, Flags
  <2>2. FaultTypeOK'
    <3>1. UNCHANGED crashes
          /\ (UNCHANGED stalls \/ (crashes + stalls < MaxFaults /\ stalls' = stalls + 1))
      BY <1>5 DEF LeaseExpires
    <3> QED
      BY <3>1, CreditBoundAssumption DEF FaultTypeOK
  <2> QED
    BY <1>5, <2>1, <2>2, UnchangedType DEF LeaseExpires
<1> QED
  BY <1>1, <1>2, <1>3, <1>4, <1>5

LEMMA CrashType ==
  ASSUME AllTypesOK, NEW w \in Workers, Crash(w)
  PROVE  AllTypesOK'
<1> USE DEF AllTypesOK
<1>1. WorkerTypeOK' /\ AttemptTypeOK'
  BY GoIdleType DEF Crash
<1>2. FaultTypeOK'
  BY CreditBoundAssumption DEF Crash, FaultTypeOK
<1>3. owner' \in [Commands -> Workers \cup {NoWorker}]
  BY ForgetType DEF Crash
<1>4. DispatchTypeOK'
  BY <1>3 DEF Crash, DispatchTypeOK
<1> QED
  BY <1>1, <1>2, <1>4, UnchangedType DEF Crash

\* Every step keeps the types.
LEMMA TypeStep ==
  ASSUME IInv, [Next]_vars
  PROVE  AllTypesOK' /\ TypeOK'
<1>1. AllTypesOK /\ AtWork
  BY TypeParts DEF IInv, AtWork
<1>2. AllTypesOK'
  <2>1. CASE UNCHANGED vars
    BY <1>1, <2>1, UnchangedType DEF vars, AllTypesOK
  <2>2. ASSUME NEW w \in Workers, GoOn(w) PROVE AllTypesOK'
    <3>1. CASE Hops(w)
      BY <1>1, <3>1, HopsType, UnchangedType DEF AllTypesOK
    <3>2. CASE Suspend(w) \/ Complete(w) \/ Fail(w)
      BY <1>1, <3>2, EndsType DEF Suspend, Complete, Fail
    <3>3. CASE Forks(w)
      BY <1>1, <3>3, ForksType
    <3> QED
      BY <1>1, <2>2, <3>1, <3>2, <3>3, WritesType DEF GoOn, Hops, Forks
  <2> QED
    BY <1>1, <2>1, <2>2, ClaimType, OtherType, CrashType DEF Next
<1>3. AllTypesOK' => TypeOK'
  BY TypeParts, PTL
<1> QED
  BY <1>2, <1>3

-----------------------------------------------------------------------------
(* What a step may do.                                                     *)

Moves(w) == GoOn(w) \/ Crash(w) \/ \E c \in Commands : Claim(w, c) \/ RecoveryClaim(w, c)

Stays(w) == pc'[w] = pc[w] /\ on'[w] = on[w] /\ mode'[w] = mode[w] /\ todo'[w] = todo[w]

Others(c) == Exhaust(c) \/ FollowUp(c) \/ LatePost(c) \/ Retain(c) \/ LeaseExpires(c)

LEMMA StateParts ==
  ASSUME IInv
  PROVE  AllTypesOK /\ AtWork /\ \A w \in Workers : pc[w] # "idle" => on[w] \in Commands
<1>1. AllTypesOK /\ AtWork
  BY TypeParts DEF IInv, AtWork
<1> QED
  BY <1>1, HasCommand

\* A worker moves alone.
LEMMA MovesAlone ==
  ASSUME AllTypesOK, NEW w \in Workers, Moves(w), NEW v \in Workers, v # w
  PROVE  Stays(v)
<1>0. WorkerTypeOK
  BY DEF AllTypesOK
<1>1. ASSUME NEW label, Goto(w, label) PROVE Stays(v)
  BY <1>0, <1>1 DEF Goto, Stays, WorkerTypeOK
<1>2. ASSUME NEW to, GoWrite(w, to) PROVE Stays(v)
  BY <1>0, <1>2 DEF GoWrite, Stays, WorkerTypeOK
<1>3. GoIdle(w) => Stays(v)
  BY <1>0 DEF GoIdle, Stays, WorkerTypeOK
<1>4. CASE \E c \in Commands : Claim(w, c) \/ RecoveryClaim(w, c)
  BY <1>0, <1>4 DEF Claim, RecoveryClaim, Stays, WorkerTypeOK
<1>5. CASE Resume(w)
  BY <1>0, <1>1, <1>5 DEF Resume, Stays, WorkerTypeOK
<1>6. CASE Crash(w) \/ Suspend(w) \/ Complete(w) \/ Fail(w)
  BY <1>3, <1>6 DEF Crash, Suspend, Complete, Fail, EndDispatch
<1>7. CASE \/ Reconcile(w) \/ Search(w) \/ Tool(w) \/ Existing(w) \/ Preflight(w) \/ Fence(w)
           \/ After(w) \/ Inspect(w)
  BY <1>1, <1>2, <1>7 DEF Reconcile, Search, Tool, Existing, Preflight, Fence, After, Inspect
<1>8. CASE \/ Prepare(w) \/ Post(w) \/ Mark(w) \/ CloseNoEffect(w) \/ Write(w) \/ Reserve(w)
           \/ Project(w) \/ ToolThrew(w) \/ AnswerCustomer(w) \/ EndRun(w)
  BY <1>1, <1>2, <1>8
  DEF Prepare, Post, Mark, CloseNoEffect, Write, Reserve, Project, ToolThrew, AnswerCustomer, EndRun
<1>9. CASE Forks(w)
  BY <1>1, <1>3, <1>9 DEF Forks, Workflow, Activate, Restart, Retry
<1> QED
  BY <1>4, <1>5, <1>6, <1>7, <1>8, <1>9 DEF Moves, GoOn, Forks

LEMMA WhoMoves ==
  ASSUME IInv, [Next]_vars
  PROVE  /\ \A w \in Workers : Stays(w) \/ Moves(w)
         /\ \/ \E w \in Workers : Moves(w)
            \/ (\E c \in Commands : Others(c)) /\ UNCHANGED workerVars
            \/ UNCHANGED vars
<1>1. \/ \E w \in Workers : Moves(w)
      \/ (\E c \in Commands : Others(c)) /\ UNCHANGED workerVars
      \/ UNCHANGED vars
  BY DEF Next, Moves, Others, Exhaust, FollowUp, LatePost, Retain, LeaseExpires
<1>2. UNCHANGED workerVars => \A w \in Workers : Stays(w)
  BY DEF workerVars, Stays
<1>3. UNCHANGED vars => UNCHANGED workerVars
  BY DEF vars
<1> QED
  BY <1>1, <1>2, <1>3, MovesAlone, StateParts

\* The status of an attempt.
Inserts(w) ==
  /\ pc[w] = "prepare" /\ Prepare(w) /\ status[on[w]] = "absent"
  /\ status'[on[w]] = "prepared" /\ reserved' = on[w] /\ reserved \in {on[w], NoCommand}
Closes(w) ==
  /\ pc[w] = "close" /\ CloseNoEffect(w) /\ status[on[w]] \in Open /\ status'[on[w]] = "failed"
Writes(w) ==
  /\ pc[w] = "write" /\ Write(w) /\ status[on[w]] \notin Terminal /\ status'[on[w]] = todo[w]

LEMMA StatusStep ==
  ASSUME IInv, [Next]_vars, NEW c \in Commands
  PROVE  \/ status'[c] = status[c]
         \/ \E w \in Workers : on[w] = c /\ (Inserts(w) \/ Closes(w) \/ Writes(w))
<1>0. AllTypesOK /\ AtWork /\ \A w \in Workers : pc[w] # "idle" => on[w] \in Commands
  BY StateParts
<1>1. UNCHANGED status => status'[c] = status[c]
  OBVIOUS
<1>2. ASSUME NEW w \in Workers, Prepare(w)
      PROVE  status'[c] = status[c] \/ (on[w] = c /\ Inserts(w))
  <2>1. CASE tombstone[on[w]] \/ ~MayReserve(on[w])
    BY <1>2, <2>1 DEF Prepare, attemptVars
  <2>2. CASE ~(tombstone[on[w]] \/ ~MayReserve(on[w]))
    <3>1. on[w] \in Commands /\ status \in [Commands -> Statuses]
      BY <1>0, <1>2 DEF Prepare, AllTypesOK, AttemptTypeOK
    <3>2. status' = [status EXCEPT ![on[w]] = IF status[on[w]] = "absent" THEN "prepared" ELSE @]
      BY <1>2, <2>2 DEF Prepare
    <3>3. reserved' = on[w] /\ reserved \in {on[w], NoCommand}
      BY <1>2, <2>2 DEF Prepare, MayReserve, reservationVars
    <3> QED
      BY <1>2, <3>1, <3>2, <3>3 DEF Inserts, Prepare
  <2> QED
    BY <2>1, <2>2
<1>3. ASSUME NEW w \in Workers, CloseNoEffect(w)
      PROVE  status'[c] = status[c] \/ (on[w] = c /\ Closes(w))
  BY <1>0, <1>3 DEF CloseNoEffect, MayClose, Closes, AllTypesOK, AttemptTypeOK
<1>4. ASSUME NEW w \in Workers, Write(w)
      PROVE  status'[c] = status[c] \/ (on[w] = c /\ Writes(w))
  BY <1>0, <1>4 DEF Write, MayUpdate, Writes, AllTypesOK, AttemptTypeOK
<1>5. ASSUME NEW w \in Workers, Moves(w), ~Prepare(w), ~CloseNoEffect(w), ~Write(w)
      PROVE  UNCHANGED status
  BY <1>5
  DEF Moves, GoOn, Reconcile, Search, Resume, Tool, Existing, Preflight, Fence, Post, Mark, Reserve,
      Project, ToolThrew, After, Workflow, AnswerCustomer,
      EndRun, Suspend, Complete, Fail, Inspect, Activate, Restart, Retry, EndDispatch, Claim, RecoveryClaim, Crash,
      attemptVars
<1>6. ASSUME NEW d \in Commands, Others(d) PROVE UNCHANGED status
  BY <1>6
  DEF Others, Exhaust, FollowUp, LatePost, Retain, LeaseExpires, attemptVars
<1>7. UNCHANGED vars => UNCHANGED status
  BY DEF vars, attemptVars
<1> QED
  BY <1>1, <1>2, <1>3, <1>4, <1>5, <1>6, <1>7, WhoMoves

\* What has a final status keeps it, and an attempt stays.
LEMMA StatusIsFinal ==
  ASSUME IInv, [Next]_vars, NEW c \in Commands
  PROVE  /\ status[c] \in Terminal => status'[c] = status[c]
         /\ status'[c] = "absent" => status[c] = "absent"
<1>0. AllTypesOK /\ AtWork
  BY StateParts
<1>1. ASSUME NEW w \in Workers, pc[w] = "write" PROVE todo[w] \in {"succeeded", "unknown", "quarantined"}
  BY <1>0, <1>1 DEF AllTypesOK, WorkerTypeOK, AtWork
<1> QED
  BY <1>1, StatusStep DEF Inserts, Closes, Writes, Open, Terminal

\* A credit at Stripe.
Posts(w) == pc[w] = "post" /\ Post(w)
Lates(c) == late[c] /\ LatePost(c)

LEMMA StripeStep ==
  ASSUME IInv, [Next]_vars, NEW c \in Commands
  PROVE  \/ posts'[c] = posts[c] /\ credits'[c] = credits[c] /\ late'[c] = late[c]
         \/ \E w \in Workers : on[w] = c /\ Posts(w)
         \/ Lates(c)
<1>0. AllTypesOK /\ AtWork /\ \A w \in Workers : pc[w] # "idle" => on[w] \in Commands
  BY StateParts
<1> DEFINE Same == posts'[c] = posts[c] /\ credits'[c] = credits[c] /\ late'[c] = late[c]
<1>1. UNCHANGED stripeVars => Same
  BY DEF stripeVars
<1>2. ASSUME NEW w \in Workers, Post(w) PROVE Same \/ (on[w] = c /\ Posts(w))
  <2>1. on[w] # c => Same
    BY <1>0, <1>2 DEF Post, AllTypesOK, StripeTypeOK, Flags
  <2> QED
    BY <1>2, <2>1 DEF Posts, Post
<1>3. ASSUME NEW d \in Commands, LatePost(d) PROVE Same \/ Lates(c)
  <2>1. d # c => Same
    BY <1>0, <1>3 DEF LatePost, AllTypesOK, StripeTypeOK, Flags
  <2> QED
    BY <1>3, <2>1 DEF Lates, LatePost
<1>4. ASSUME NEW w \in Workers, Moves(w), ~Post(w) PROVE UNCHANGED stripeVars
  BY <1>4
  DEF Moves, GoOn, Reconcile, Search, Resume, Tool, Prepare, Existing, Preflight, Fence, Mark,
      CloseNoEffect, Write, Reserve, Project, ToolThrew, After, Workflow, AnswerCustomer,
      EndRun, Suspend, Complete, Fail, Inspect, Activate, Restart, Retry,
      EndDispatch, Claim, RecoveryClaim, Crash
<1>5. ASSUME NEW d \in Commands, Others(d), ~LatePost(d) PROVE UNCHANGED stripeVars
  BY <1>5 DEF Others, Exhaust, FollowUp, Retain, LeaseExpires
<1>6. UNCHANGED vars => UNCHANGED stripeVars
  BY DEF vars
<1> QED
  BY <1>1, <1>2, <1>3, <1>4, <1>5, <1>6, WhoMoves

-----------------------------------------------------------------------------
(* The steps of a worker.                                                  *)

\* Where a worker goes from each label, unless it goes idle.
From(label) ==
  CASE label = "reconcile" -> {"project", "resume", "search", "suspend"}
    [] label = "search" -> {"write", "resume", "threw", "suspend"}
    [] label = "resume" -> {"tool", "suspend"}
    [] label = "tool" -> {"threw", "project", "prepare"}
    [] label = "prepare" -> {"threw", "preflight", "existing"}
    [] label = "existing" -> {"close", "search"}
    [] label = "preflight" -> {"fence", "mark"}
    [] label = "fence" -> {"post", "write", "mark"}
    [] label = "post" -> {"write", "close"}
    [] label = "mark" -> {"close"}
    [] label = "close" -> {"threw"}
    [] label = "write" -> {"reserve", "project", "threw"}
    [] label = "reserve" -> {"project", "threw"}
    [] label = "project" -> {"threw", "suspend", "after", "workflow"}
    [] label = "threw" -> {"after", "suspend", "fail"}
    [] label = "after" -> {"workflow", "complete", "suspend", "fail"}
    [] label = "workflow" -> {"answer", "suspend", "fail"}
    [] label = "answer" -> {"ended", "retry", "fail"}
    [] label = "ended" -> {"complete"}
    [] label = "inspect" -> {"suspend", "complete", "fail", "activate", "retry"}
    [] label = "activate" -> {"restart"}
    [] label = "restart" -> {"answer"}
    [] label = "retry" -> {"fail"}
    [] OTHER -> {}

\* What a worker does is said by its label.
LEMMA ByLabel ==
  ASSUME NEW w \in Workers, Moves(w), ~Crash(w)
  PROVE  /\ pc[w] = "idle" => \E c \in Commands : Claim(w, c) \/ RecoveryClaim(w, c)
         /\ pc[w] = "reconcile" => Reconcile(w)
         /\ pc[w] = "search" => Search(w)
         /\ pc[w] = "resume" => Resume(w)
         /\ pc[w] = "tool" => Tool(w)
         /\ pc[w] = "prepare" => Prepare(w)
         /\ pc[w] = "existing" => Existing(w)
         /\ pc[w] = "preflight" => Preflight(w)
         /\ pc[w] = "fence" => Fence(w)
         /\ pc[w] = "post" => Post(w)
         /\ pc[w] = "mark" => Mark(w)
         /\ pc[w] = "close" => CloseNoEffect(w)
         /\ pc[w] = "write" => Write(w)
         /\ pc[w] = "reserve" => Reserve(w)
         /\ pc[w] = "project" => Project(w)
         /\ pc[w] = "threw" => ToolThrew(w)
         /\ pc[w] = "after" => After(w)
         /\ pc[w] = "workflow" => Workflow(w)
         /\ pc[w] = "answer" => AnswerCustomer(w)
         /\ pc[w] = "ended" => EndRun(w)
         /\ pc[w] = "inspect" => Inspect(w)
         /\ pc[w] = "activate" => Activate(w)
         /\ pc[w] = "restart" => Restart(w)
         /\ pc[w] = "retry" => Retry(w)
         /\ pc[w] = "suspend" => Suspend(w)
         /\ pc[w] = "complete" => Complete(w)
         /\ pc[w] = "fail" => Fail(w)
  BY DEF Moves, GoOn, Claim, RecoveryClaim, Reconcile, Search, Resume, Tool, Prepare, Existing,
     Preflight, Fence, Post, Mark, CloseNoEffect, Write, Reserve, Project, ToolThrew, After, Workflow,
     AnswerCustomer, EndRun, Suspend, Complete, Fail, Inspect, Activate, Restart, Retry

Rests(w) == pc'[w] = "idle" /\ on'[w] = NoCommand /\ mode'[w] = "none" /\ todo'[w] = "none"
Starts(w) ==
  /\ pc[w] = "idle" /\ pc'[w] \in {"reconcile", "resume", "inspect"} /\ on'[w] \in Commands
  /\ mode'[w] # "none" /\ todo'[w] = todo[w]
  /\ pc'[w] = "reconcile" => mode'[w] = "sweep"
  /\ mode'[w] = "blind" => ~OnDisplay(on'[w])
  /\ UNCHANGED view
Continues(w) ==
  /\ pc[w] # "idle" /\ on'[w] = on[w] /\ pc'[w] \in From(pc[w])
  /\ pc'[w] # "write" => todo'[w] = todo[w] \/ (todo'[w] = "none" /\ pc'[w] # "reserve")
  /\ pc'[w] = "write" => todo'[w] \in {"succeeded", "unknown", "quarantined"}
  /\ mode'[w] \in {mode[w], "none"} \/ (pc[w] = "resume" /\ mode'[w] = "tool")

\* A worker rests, starts, or continues.
LEMMA HowMoves ==
  ASSUME AllTypesOK, AtWork, NEW w \in Workers, Moves(w)
  PROVE  \/ Rests(w)
         \/ Starts(w)
         \/ Continues(w) /\ ~Crash(w)
<1>0. WorkerTypeOK
  BY DEF AllTypesOK
<1>1. ASSUME NEW label \in From(pc[w]), label # "write", Goto(w, label), pc[w] # "idle"
      PROVE  Continues(w)
  <2>1. on'[w] = on[w] /\ pc'[w] = label /\ mode'[w] \in {mode[w], "none"}
    BY <1>0, <1>1 DEF Goto, WorkerTypeOK
  <2>2. todo'[w] = todo[w] \/ (todo'[w] = "none" /\ label # "reserve")
    BY <1>0, <1>1 DEF Goto, Leaving, WorkerTypeOK
  <2> QED
    BY <1>1, <2>1, <2>2 DEF Continues
<1>2. ASSUME NEW to \in {"succeeded", "unknown", "quarantined"}, GoWrite(w, to),
             "write" \in From(pc[w]), pc[w] # "idle"
      PROVE  Continues(w)
  BY <1>0, <1>2 DEF GoWrite, Continues, WorkerTypeOK
<1>3. GoIdle(w) => Rests(w)
  BY <1>0 DEF GoIdle, Rests, WorkerTypeOK
<1>4. ASSUME NEW c \in Commands, Claim(w, c) \/ RecoveryClaim(w, c) PROVE Starts(w)
  <2>1. on'[w] = c
    BY <1>0, <1>4 DEF Claim, RecoveryClaim, WorkerTypeOK
  <2> QED
    BY <1>0, <1>4, <2>1 DEF Claim, RecoveryClaim, Starts, WorkerTypeOK
<1>5. CASE Crash(w) \/ Suspend(w) \/ Complete(w) \/ Fail(w)
  BY <1>3, <1>5 DEF Crash, Suspend, Complete, Fail, EndDispatch
<1>6. ASSUME Resume(w) PROVE Continues(w)
  <2>1. pc[w] = "resume" /\ From(pc[w]) = {"tool", "suspend"}
    BY <1>6 DEF Resume, From
  <2> QED
    BY <1>0, <1>1, <1>6, <2>1 DEF Resume, Continues, WorkerTypeOK
<1>7. ASSUME Reconcile(w) PROVE Continues(w)
  BY <1>1, <1>7 DEF Reconcile, From
<1>8. ASSUME Search(w) PROVE Continues(w)
  <2>1. pc[w] = "search" /\ From(pc[w]) = {"write", "resume", "threw", "suspend"}
    BY <1>8 DEF Search, From
  <2> QED
    BY <1>1, <1>2, <1>8, <2>1 DEF Search
<1>9. ASSUME Tool(w) PROVE Continues(w)
  BY <1>1, <1>9 DEF Tool, From
<1>10. ASSUME Prepare(w) PROVE Continues(w)
  <2>1. pc[w] = "prepare" /\ From(pc[w]) = {"threw", "preflight", "existing"}
    BY <1>10 DEF Prepare, From
  <2> QED
    BY <1>1, <1>10, <2>1 DEF Prepare
<1>11. ASSUME Existing(w) \/ Preflight(w) \/ Mark(w) \/ CloseNoEffect(w) PROVE Continues(w)
  BY <1>1, <1>11 DEF Existing, AfterEarlierAttempt, Preflight, Mark, CloseNoEffect, From
<1>12. ASSUME Fence(w) PROVE Continues(w)
  <2>1. pc[w] = "fence" /\ From(pc[w]) = {"post", "write", "mark"}
    BY <1>12 DEF Fence, From
  <2> QED
    BY <1>1, <1>2, <1>12, <2>1 DEF Fence
<1>13. ASSUME Post(w) PROVE Continues(w)
  <2>1. pc[w] = "post" /\ From(pc[w]) = {"write", "close"}
    BY <1>13 DEF Post, From
  <2> QED
    BY <1>1, <1>2, <1>13, <2>1 DEF Post
<1>14. ASSUME Write(w) \/ Reserve(w) PROVE Continues(w)
  BY <1>1, <1>14 DEF Write, Reserve, From
<1>15. ASSUME Project(w) PROVE Continues(w)
  BY <1>1, <1>15 DEF Project, From
<1>16. ASSUME ToolThrew(w) PROVE Continues(w)
  BY <1>1, <1>16 DEF ToolThrew, From
<1>17. ASSUME After(w) PROVE Continues(w)
  BY <1>1, <1>17 DEF After, AfterTool, AfterRequest, Error, From
<1>18. ASSUME Workflow(w) PROVE Continues(w) \/ Rests(w)
  <2>1. pc[w] = "workflow" /\ From(pc[w]) = {"answer", "suspend", "fail"}
    BY <1>18 DEF Workflow, From
  <2> QED
    BY <1>1, <1>3, <1>18, <2>1 DEF Workflow, Error
<1>19. ASSUME AnswerCustomer(w) PROVE Continues(w)
  <2>1. pc[w] = "answer" /\ From(pc[w]) = {"ended", "retry", "fail"}
    BY <1>19 DEF AnswerCustomer, From
  <2> QED
    BY <1>1, <1>19, <2>1 DEF AnswerCustomer
<1>20. ASSUME EndRun(w) PROVE Continues(w)
  <2>1. pc[w] = "ended" /\ From(pc[w]) = {"complete"}
    BY <1>20 DEF EndRun, From
  <2> QED
    BY <1>1, <1>20, <2>1 DEF EndRun
<1>21. ASSUME Inspect(w) PROVE Continues(w)
  <2>1. pc[w] = "inspect" /\ From(pc[w]) = {"suspend", "complete", "fail", "activate", "retry"}
    BY <1>21 DEF Inspect, From
  <2>2. Inspected(on[w]) \in {"suspend", "complete", "fail", "activate"}
    BY <2>1, HasRun DEF Inspected
  <2> QED
    BY <1>1, <1>21, <2>1, <2>2 DEF Inspect
<1>22. ASSUME Activate(w) PROVE Continues(w) \/ Rests(w)
  <2>1. pc[w] = "activate" /\ From(pc[w]) = {"restart"}
    BY <1>22 DEF Activate, From
  <2> QED
    BY <1>1, <1>3, <1>22, <2>1 DEF Activate
<1>23. ASSUME Restart(w) PROVE Continues(w) \/ Rests(w)
  <2>1. pc[w] = "restart" /\ From(pc[w]) = {"answer"}
    BY <1>23 DEF Restart, From
  <2> QED
    BY <1>1, <1>3, <1>23, <2>1 DEF Restart
<1>24. ASSUME Retry(w) PROVE Continues(w) \/ Rests(w)
  <2>1. pc[w] = "retry" /\ From(pc[w]) = {"fail"}
    BY <1>24 DEF Retry, From
  <2> QED
    BY <1>1, <1>3, <1>24, <2>1 DEF Retry
<1> QED
  BY <1>4, <1>5, <1>6, <1>7, <1>8, <1>9, <1>10, <1>11, <1>12, <1>13, <1>14, <1>15, <1>16, <1>17,
     <1>18, <1>19, <1>20, <1>21, <1>22, <1>23, <1>24 DEF Moves, GoOn

\* A worker in the middle of something was there, or came from before.
LEMMA WorkerCases ==
  ASSUME IInv, [Next]_vars, NEW w \in Workers
  PROVE  \/ Stays(w)
         \/ Rests(w)
         \/ Starts(w)
         \/ Continues(w) /\ Moves(w) /\ ~Crash(w)
  BY WhoMoves, StateParts, HowMoves

LEMMA AtWorkStep ==
  ASSUME IInv, [Next]_vars
  PROVE  AtWork'
<1>0. AllTypesOK /\ AtWork
  BY StateParts
<1>1. pc' \in [Workers -> PCs]
  BY TypeStep DEF AllTypesOK, WorkerTypeOK
<1>2. ASSUME NEW w \in Workers
      PROVE  /\ pc'[w] = "idle" <=> on'[w] = NoCommand
             /\ pc'[w] = "idle" => mode'[w] = "none"
             /\ pc'[w] \in Asking \cup {"idle"} => todo'[w] = "none"
             /\ pc'[w] \in {"write", "reserve"} => todo'[w] # "none"
             /\ pc'[w] = "reconcile" => mode'[w] = "sweep"
  <2>1. CASE Stays(w)
    BY <1>0, <2>1 DEF Stays, AtWork
  <2>2. CASE Rests(w)
    BY <2>2 DEF Rests
  <2>3. CASE Starts(w)
    BY <1>0, <2>3, CreditCommandsAssumption DEF Starts, AtWork
  <2>4. CASE Continues(w)
    <3>1. pc[w] \in PCs /\ pc[w] # "idle" /\ pc'[w] \in From(pc[w])
      BY <1>0, <2>4 DEF Continues, AtWork
    <3>2. pc'[w] \in Asking \cup {"idle"} => pc[w] \in Asking /\ pc'[w] # "idle" /\ pc'[w] # "write"
      BY <3>1 DEF From, Asking, Posting
    <3>3. pc'[w] # "idle" /\ pc'[w] # "reconcile"
      BY <3>1 DEF From
    <3>4. pc'[w] = "reserve" => pc[w] = "write"
      BY <3>1 DEF From
    <3> QED
      BY <1>0, <2>4, <3>1, <3>2, <3>3, <3>4 DEF Continues, AtWork
  <2> QED
    BY <2>1, <2>2, <2>3, <2>4, WorkerCases
<1> QED
  BY <1>1, <1>2 DEF AtWork

-----------------------------------------------------------------------------
(* One POST for each command.                                              *)

\* How a worker comes to post.
LEMMA EntersPosting ==
  ASSUME IInv, [Next]_vars, NEW w \in Workers, pc'[w] \in Posting
  PROVE  /\ on'[w] = on[w] /\ on[w] \in Commands
         /\ \/ Stays(w) /\ pc[w] \in Posting
            \/ Inserts(w) /\ pc'[w] = "preflight"
            \/ pc[w] = "preflight" /\ Preflight(w) /\ NoPrior(on[w]) /\ pc'[w] = "fence"
            \/ pc[w] = "fence" /\ Fence(w) /\ pc'[w] = "post"
<1>0. AllTypesOK /\ AtWork /\ \A v \in Workers : pc[v] # "idle" => on[v] \in Commands
  BY StateParts
<1>1. CASE Stays(w)
  BY <1>0, <1>1 DEF Stays, Posting
<1>2. CASE Continues(w) /\ Moves(w) /\ ~Crash(w)
  <2>1. pc[w] \in {"prepare", "preflight", "fence"}
    BY <1>0, <1>2 DEF Continues, From, Posting
  <2>2. CASE pc[w] = "prepare"
    <3>1. Prepare(w)
      BY <1>2, <2>2, ByLabel
    <3>2. pc'[w] # "threw" /\ pc'[w] # "existing"
      BY DEF Posting
    <3>3. status[on[w]] = "absent" /\ ~(tombstone[on[w]] \/ ~MayReserve(on[w])) /\ pc'[w] = "preflight"
      BY <1>0, <3>1, <3>2 DEF Prepare, Goto, AllTypesOK, WorkerTypeOK
    <3>4. on[w] \in Commands
      BY <1>0, <2>2
    <3>5. status'[on[w]] = "prepared"
      BY <1>0, <3>1, <3>3, <3>4 DEF Prepare, AllTypesOK, AttemptTypeOK
    <3>6. reserved' = on[w] /\ reserved \in {on[w], NoCommand}
      BY <3>1, <3>3 DEF Prepare, MayReserve, reservationVars
    <3> QED
      BY <1>2, <2>2, <3>1, <3>3, <3>4, <3>5, <3>6 DEF Inserts, Continues
  <2>3. CASE pc[w] = "preflight"
    <3>1. Preflight(w)
      BY <1>2, <2>3, ByLabel
    <3>2. NoPrior(on[w]) /\ pc'[w] = "fence"
      BY <1>0, <3>1 DEF Preflight, Goto, Posting, AllTypesOK, WorkerTypeOK
    <3> QED
      BY <1>0, <1>2, <2>3, <3>1, <3>2 DEF Continues
  <2>4. CASE pc[w] = "fence"
    <3>1. Fence(w)
      BY <1>2, <2>4, ByLabel
    <3>2. pc'[w] = "post"
      BY <1>2, <2>4 DEF Continues, From, Posting
    <3> QED
      BY <1>0, <1>2, <2>4, <3>1, <3>2 DEF Continues
  <2> QED
    BY <2>1, <2>2, <2>3, <2>4
<1>3. ~Rests(w) /\ ~Starts(w)
  BY DEF Rests, Starts, Posting
<1> QED
  BY <1>1, <1>2, <1>3, WorkerCases

\* The POST itself.
LEMMA PostEffect ==
  ASSUME IInv, NEW w \in Workers, Posts(w)
  PROVE  LET c == on[w] IN
         /\ c \in Commands /\ posts'[c] = 1 /\ UNCHANGED <<attemptVars, reservationVars, told>>
         /\ pc'[w] \in {"write", "close"} /\ on'[w] = c
         /\ late'[c] => ~credits'[c] /\ pc'[w] = "write" /\ todo'[w] = "unknown"
         /\ todo'[w] = "succeeded" => credits'[c]
         /\ pc'[w] = "close" => ~credits'[c] /\ ~late'[c] /\ todo'[w] = "none"
         /\ todo'[w] # "quarantined"
<1>0. AllTypesOK /\ AtWork /\ on[w] \in Commands
  BY StateParts DEF Posts
<1>1. posts[on[w]] = 0 /\ ~credits[on[w]] /\ ~late[on[w]]
  BY <1>0 DEF IInv, PostedOnce, Posts, Posting
<1>2. todo[w] = "none"
  BY <1>0 DEF AtWork, Posts, Asking, Posting
<1>3. posts'[on[w]] = 1 /\ UNCHANGED <<attemptVars, reservationVars, told>> /\ on'[w] = on[w]
  BY <1>0, <1>1 DEF Posts, Post, AllTypesOK, StripeTypeOK, Goto, GoWrite
<1>4. PICK happens \in BOOLEAN :
        /\ credits' = [credits EXCEPT ![on[w]] = @ \/ happens]
        /\ \/ happens /\ GoWrite(w, "succeeded") /\ UNCHANGED late
           \/ Definite(happens) /\ Goto(w, "close") /\ UNCHANGED late
           \/ late' = [late EXCEPT ![on[w]] = ~happens] /\ GoWrite(w, "unknown")
  BY DEF Posts, Post
<1>5. credits'[on[w]] = happens
  BY <1>0, <1>1, <1>4 DEF AllTypesOK, StripeTypeOK, Flags
<1>6. CASE happens /\ GoWrite(w, "succeeded") /\ UNCHANGED late
  BY <1>0, <1>1, <1>3, <1>5, <1>6 DEF GoWrite, AllTypesOK, WorkerTypeOK
<1>7. CASE Definite(happens) /\ Goto(w, "close") /\ UNCHANGED late
  BY <1>0, <1>1, <1>2, <1>3, <1>5, <1>7 DEF Definite, Goto, AllTypesOK, WorkerTypeOK
<1>8. CASE late' = [late EXCEPT ![on[w]] = ~happens] /\ GoWrite(w, "unknown")
  BY <1>0, <1>3, <1>5, <1>8 DEF GoWrite, AllTypesOK, WorkerTypeOK, StripeTypeOK, Flags
<1> QED
  BY <1>4, <1>6, <1>7, <1>8

LEMMA PostedOnceStep ==
  ASSUME IInv, [Next]_vars
  PROVE  PostedOnce'
<1>0. AllTypesOK /\ AtWork /\ PostedOnce
  BY StateParts DEF IInv
<1>1. ASSUME NEW c \in Commands
      PROVE  /\ posts'[c] <= 1 /\ (posts'[c] = 0 => ~credits'[c] /\ ~late'[c])
             /\ late'[c] => ~credits'[c]
             /\ status'[c] = "absent" => posts'[c] = 0
  <2>1. CASE posts'[c] = posts[c] /\ credits'[c] = credits[c] /\ late'[c] = late[c]
    BY <1>0, <2>1, StatusIsFinal DEF PostedOnce
  <2>2. ASSUME NEW w \in Workers, on[w] = c, Posts(w)
        PROVE  /\ posts'[c] = 1 /\ (late'[c] => ~credits'[c]) /\ status'[c] # "absent"
    <3>1. status[c] # "absent"
      BY <1>0, <2>2 DEF PostedOnce, Posts, Posting
    <3> QED
      BY <2>2, <3>1, PostEffect, StatusIsFinal
  <2>3. CASE Lates(c)
    <3>0. late \in Flags
      BY <1>0 DEF AllTypesOK, StripeTypeOK
    <3>1. late[c] /\ ~late'[c] /\ posts'[c] = posts[c] /\ status' = status
      BY <2>3, <3>0 DEF Lates, LatePost, attemptVars, Flags
    <3>2. posts[c] # 0 /\ posts[c] <= 1 /\ status[c] # "absent"
      BY <1>0, <3>1 DEF PostedOnce
    <3> QED
      BY <3>1, <3>2
  <2> QED
    BY <2>1, <2>2, <2>3, StripeStep
<1>2. ASSUME NEW w \in Workers, pc'[w] \in Posting
      PROVE  /\ posts'[on'[w]] = 0 /\ status'[on'[w]] # "absent"
             /\ \A v \in Workers \ {w} : on'[v] = on'[w] => pc'[v] \notin Posting
  <2>1. on'[w] = on[w] /\ on[w] \in Commands /\ posts[on[w]] = 0 /\ status'[on[w]] # "absent"
    BY <1>0, <1>2, EntersPosting, StatusIsFinal DEF PostedOnce, Posting, Inserts
  <2>2. posts'[on[w]] = 0
    <3>1. CASE Lates(on[w])
      BY <1>0, <2>1, <3>1 DEF Lates, PostedOnce
    <3>2. ASSUME NEW v \in Workers, on[v] = on[w], Posts(v) PROVE FALSE
      <4>1. CASE v = w
        BY <1>2, <3>2, <4>1, PostEffect DEF Posting
      <4>2. CASE v # w
        <5>1. Stays(w)
          BY <1>0, <3>2, <4>2, MovesAlone DEF Posts, Moves, GoOn
        <5> QED
          BY <1>0, <1>2, <3>2, <4>2, <5>1 DEF Stays, Posts, PostedOnce, Posting
      <4> QED
        BY <4>1, <4>2
    <3> QED
      BY <2>1, <3>1, <3>2, StripeStep
  <2>3. ASSUME NEW v \in Workers \ {w}, on'[v] = on'[w], pc'[v] \in Posting PROVE FALSE
    <3>1. on'[v] = on[v] /\ on[v] = on[w]
      BY <2>1, <2>3, EntersPosting
    <3>2. pc[w] \in Posting \/ pc[v] \in Posting
      <4>1. Stays(v) \/ Stays(w)
        BY <1>0, <2>3, MovesAlone, WhoMoves
      <4> QED
        BY <1>2, <2>3, <4>1 DEF Stays
    <3>3. status[on[w]] # "absent"
      BY <1>0, <3>1, <3>2 DEF PostedOnce
    <3>4. pc[w] \in Posting /\ pc[v] \in Posting
      BY <1>2, <2>3, <3>1, <3>3, EntersPosting DEF Inserts, Posting
    <3> QED
      BY <1>0, <2>3, <3>1, <3>4 DEF PostedOnce
  <2> QED
    BY <2>1, <2>2, <2>3
<1> QED
  BY <1>1, <1>2 DEF PostedOnce

-----------------------------------------------------------------------------
(* Proofs that nothing happened.                                           *)

\* A proof that nothing happened, and nothing will, stays one.
LEMMA ClearStays ==
  ASSUME IInv, [Next]_vars, NEW c \in Commands, Clear(c)
  PROVE  Clear(c)'
<1>1. status'[c] # "absent"
  BY StatusIsFinal DEF Clear
<1>2. ~credits'[c] /\ ~late'[c]
  <2>1. ~Lates(c)
    BY DEF Lates, Clear
  <2>2. ASSUME NEW w \in Workers, on[w] = c, Posts(w) PROVE FALSE
    BY <2>2 DEF Posts, Clear, Posting
  <2> QED
    BY <2>1, <2>2, StripeStep DEF Clear
<1>3. ASSUME NEW w \in Workers, on'[w] = c, pc'[w] \in Posting PROVE FALSE
  <2>1. on[w] = c /\ pc[w] \notin Posting /\ status[c] # "absent"
    BY <1>3, EntersPosting DEF Clear
  <2> QED
    BY <1>3, <2>1, EntersPosting DEF Inserts, Posting
<1> QED
  BY <1>1, <1>2, <1>3 DEF Clear

\* The worker that gives up before its POST knows that nothing happened.
LEMMA GivesUpClear ==
  ASSUME IInv, [Next]_vars, NEW w \in Workers, pc[w] \in {"preflight", "fence"},
         pc'[w] \notin Posting, on'[w] = on[w], UNCHANGED stripeVars
  PROVE  Clear(on[w])'
<1>0. AllTypesOK /\ AtWork /\ PostedOnce /\ on[w] \in Commands
  BY StateParts DEF IInv
<1>1. posts[on[w]] = 0 /\ status[on[w]] # "absent"
  BY <1>0 DEF PostedOnce, Posting
<1>2. ~credits'[on[w]] /\ ~late'[on[w]]
  BY <1>0, <1>1 DEF PostedOnce, stripeVars
<1>3. status'[on[w]] # "absent"
  BY <1>0, <1>1, StatusIsFinal
<1>4. ASSUME NEW v \in Workers, on'[v] = on[w], pc'[v] \in Posting PROVE FALSE
  <2>1. v # w /\ on[v] = on[w]
    BY <1>4, EntersPosting
  <2>2. pc[v] \notin Posting
    BY <1>0, <2>1 DEF PostedOnce, Posting
  <2> QED
    BY <1>1, <1>4, <2>1, <2>2, EntersPosting DEF Inserts, Posting
<1>5. on'[w] = on[w]
  OBVIOUS
<1> QED
  BY <1>2, <1>3, <1>4, <1>5 DEF Clear

\* A refusal by Stripe is such a proof as well.
LEMMA RefusedClear ==
  ASSUME IInv, [Next]_vars, NEW w \in Workers, Posts(w), pc'[w] = "close"
  PROVE  Clear(on[w])'
<1>0. AllTypesOK /\ PostedOnce /\ on[w] \in Commands
  BY StateParts DEF IInv, Posts
<1>1. ~credits'[on[w]] /\ ~late'[on[w]]
  BY PostEffect
<1>2. status[on[w]] # "absent"
  BY <1>0 DEF PostedOnce, Posts, Posting
<1>3. ASSUME NEW v \in Workers, on'[v] = on[w], pc'[v] \in Posting PROVE FALSE
  <2>1. v # w /\ on[v] = on[w]
    BY <1>3, EntersPosting DEF Posting
  <2>2. pc[v] \notin Posting
    BY <1>0, <2>1 DEF PostedOnce, Posting, Posts
  <2> QED
    BY <1>2, <1>3, <2>1, <2>2, EntersPosting DEF Inserts, Posting
<1>4. status'[on[w]] # "absent"
  BY <1>0, <1>2, StatusIsFinal
<1>5. on'[w] = on[w]
  BY PostEffect
<1> QED
  BY <1>1, <1>3, <1>4, <1>5 DEF Clear

\* Only a worker that has a proof writes one down.
LEMMA NoEffectStep ==
  ASSUME IInv, [Next]_vars, NEW c \in Commands, noEffect'[c]
  PROVE  noEffect[c] \/ \E w \in Workers : pc[w] = "mark" /\ on[w] = c
<1>0. AllTypesOK
  BY StateParts
<1>1. ASSUME NEW w \in Workers, Mark(w) PROVE noEffect[c] \/ (pc[w] = "mark" /\ on[w] = c)
  BY <1>0, <1>1 DEF Mark, AllTypesOK, AttemptTypeOK, Flags
<1>2. ASSUME NEW w \in Workers, Moves(w), ~Mark(w) PROVE UNCHANGED noEffect
  BY <1>2
  DEF Moves, GoOn, Reconcile, Search, Resume, Tool, Prepare, Existing, Preflight, Fence, Post,
      CloseNoEffect, Write, Reserve, Project, ToolThrew, After, Workflow, AnswerCustomer,
      EndRun, Suspend, Complete, Fail, Inspect, Activate, Restart, Retry,
      EndDispatch, Claim, RecoveryClaim, Crash, attemptVars
<1>3. ASSUME NEW d \in Commands, Others(d) PROVE UNCHANGED noEffect
  BY <1>3
  DEF Others, Exhaust, FollowUp, LatePost, Retain, LeaseExpires, attemptVars
<1>4. UNCHANGED vars => UNCHANGED noEffect
  BY DEF vars, attemptVars
<1> QED
  BY <1>1, <1>2, <1>3, <1>4, WhoMoves

LEMMA ProvedClearStep ==
  ASSUME IInv, [Next]_vars
  PROVE  ProvedClear'
<1>0. AllTypesOK /\ AtWork /\ ProvedClear /\ \A w \in Workers : pc[w] # "idle" => on[w] \in Commands
  BY StateParts DEF IInv
<1>1. ASSUME NEW c \in Commands, noEffect'[c] \/ status'[c] \in {"failed", "quarantined"}
      PROVE  Clear(c)'
  <2>1. Clear(c)
    <3>1. CASE noEffect'[c]
      BY <1>0, <3>1, NoEffectStep DEF ProvedClear
    <3>2. CASE status'[c] \in {"failed", "quarantined"}
      <4>1. CASE status'[c] = status[c]
        BY <1>0, <3>2, <4>1 DEF ProvedClear
      <4>2. ASSUME NEW w \in Workers, on[w] = c, Closes(w) PROVE Clear(c)
        BY <1>0, <4>2 DEF ProvedClear, Closes
      <4>3. ASSUME NEW w \in Workers, on[w] = c, Writes(w) PROVE Clear(c)
        <5>1. todo[w] \in {"none", "succeeded", "unknown", "quarantined"}
          BY <1>0 DEF AllTypesOK, WorkerTypeOK
        <5>2. todo[w] = "quarantined"
          BY <3>2, <4>3, <5>1 DEF Writes
        <5> QED
          BY <1>0, <4>3, <5>2 DEF ProvedClear
      <4>4. ASSUME NEW w \in Workers, on[w] = c, Inserts(w) PROVE FALSE
        BY <3>2, <4>4 DEF Inserts
      <4> QED
        BY <4>1, <4>2, <4>3, <4>4, StatusStep
    <3> QED
      BY <1>1, <3>1, <3>2
  <2> QED
    BY <2>1, ClearStays
<1>2. ASSUME NEW w \in Workers, pc'[w] \in {"mark", "close"} \/ todo'[w] = "quarantined",
             NEW c, c = on'[w]
      PROVE  Clear(c)'
  <2>1. ASSUME on[w] \in Commands, on'[w] = on[w], Clear(on[w]) PROVE Clear(c)'
    BY <1>2, <2>1, ClearStays
  <2>2. CASE Stays(w)
    <3>1. pc[w] # "idle" /\ Clear(on[w]) /\ on'[w] = on[w]
      BY <1>0, <1>2, <2>2 DEF Stays, ProvedClear, AtWork
    <3> QED
      BY <1>0, <2>1, <3>1
  <2>3. CASE Rests(w)
    BY <1>2, <2>3 DEF Rests
  <2>4. CASE Starts(w)
    BY <1>0, <1>2, <2>4 DEF Starts, AtWork
  <2>5. CASE Continues(w) /\ Moves(w) /\ ~Crash(w)
    <3>1. on[w] \in Commands /\ on'[w] = on[w] /\ pc'[w] \in From(pc[w])
      BY <1>0, <2>5 DEF Continues
    <3>2. CASE pc[w] = "mark" \/ todo[w] = "quarantined"
      BY <1>0, <2>1, <3>1, <3>2 DEF ProvedClear
    <3>3. CASE pc[w] = "existing" /\ pc'[w] = "close"
      <4>1. noEffect[on[w]]
        BY <1>0, <2>5, <3>3, ByLabel
        DEF Existing, AfterEarlierAttempt, Goto, AllTypesOK, WorkerTypeOK
      <4> QED
        BY <1>0, <2>1, <3>1, <4>1 DEF ProvedClear
    <3>4. CASE pc[w] \in {"preflight", "fence"} /\ pc'[w] \in {"mark", "write"}
      <4>1. UNCHANGED stripeVars
        BY <2>5, <3>4, ByLabel DEF Preflight, Fence
      <4> QED
        BY <1>2, <3>1, <3>4, <4>1, GivesUpClear DEF Posting
    <3>5. CASE pc[w] = "post"
      <4>1. Posts(w)
        BY <2>5, <3>5, ByLabel DEF Posts
      <4> QED
        BY <1>2, <3>1, <4>1, PostEffect, RefusedClear
    <3>6. CASE pc[w] = "search" /\ pc'[w] = "write"
      <4>1. todo'[w] # "quarantined"
        BY <1>0, <2>5, <3>6, ByLabel DEF Search, GoWrite, Goto, AllTypesOK, WorkerTypeOK
      <4> QED
        BY <1>2, <3>6, <4>1
    <3>7. pc'[w] \in {"mark", "close"} \/ (pc'[w] = "write" /\ todo'[w] = "quarantined")
            \/ todo[w] = "quarantined"
      BY <1>2, <2>5 DEF Continues
    <3>8. \/ pc[w] \in {"mark", "post"} \/ todo[w] = "quarantined"
          \/ pc[w] = "existing" /\ pc'[w] = "close"
          \/ pc[w] \in {"preflight", "fence"} /\ pc'[w] \in {"mark", "write"}
          \/ pc[w] = "search" /\ pc'[w] = "write"
      BY <3>1, <3>7 DEF From
    <3> QED
      BY <3>2, <3>3, <3>4, <3>5, <3>6, <3>8
  <2> QED
    BY <2>2, <2>3, <2>4, <2>5, WorkerCases
<1>3. ASSUME NEW w \in Workers, pc'[w] \in {"mark", "close"} \/ todo'[w] = "quarantined"
      PROVE  Clear(on[w])'
  BY <1>2, <1>3 DEF Clear
<1> QED
  BY <1>1, <1>3 DEF ProvedClear

-----------------------------------------------------------------------------
(* Who says that the credit exists, and who answers the customer.          *)

\* A credit stays.
LEMMA CreditsStay ==
  ASSUME IInv, [Next]_vars, NEW c \in Commands, credits[c]
  PROVE  credits'[c]
<1>0. credits \in Flags
  BY StateParts DEF AllTypesOK, StripeTypeOK
<1>1. ASSUME NEW w \in Workers, on[w] = c, Posts(w) PROVE credits'[c]
  BY <1>0, <1>1 DEF Posts, Post, Flags
<1>2. CASE Lates(c)
  BY <1>0, <1>2 DEF Lates, LatePost, Flags
<1> QED
  BY <1>1, <1>2, StripeStep

\* The workflow of a worker answers the customer.
Answers(w) ==
  LET c == on[w] IN
  /\ pc[w] = "answer" /\ AnswerCustomer(w) /\ MayAnswer(w) /\ pc'[w] = "ended"
  /\ told' = [told EXCEPT ![c] = {Answer(c)}] /\ UNCHANGED <<attemptVars, receipt, tombstone>>

\* The customer hears from a closing tool, or from the workflow.
LEMMA ToldStep ==
  ASSUME IInv, [Next]_vars, NEW c \in Commands
  PROVE  \/ told'[c] = told[c] /\ ~\E w \in Workers : on[w] = c /\ Closes(w)
         \/ \E w \in Workers :
              on[w] = c /\ Closes(w) /\ told'[c] = told[c] \cup {"no-effect"}
         \/ \E w \in Workers :
              on[w] = c /\ Answers(w) /\ told[c] = {} /\ told'[c] = {Answer(c)}
<1>0. AllTypesOK /\ AtWork /\ \A w \in Workers : pc[w] # "idle" => on[w] \in Commands
  BY StateParts
<1>t. told \in [Commands -> SUBSET {"issued", "safe", "no-effect"}]
      /\ status \in [Commands -> Statuses]
  BY <1>0 DEF AllTypesOK, CaseTypeOK, AttemptTypeOK
<1>1. ASSUME NEW w \in Workers, CloseNoEffect(w)
      PROVE  \/ UNCHANGED <<told, status>>
             \/ on[w] # c /\ told'[c] = told[c] /\ status'[c] = status[c]
             \/ on[w] = c /\ Closes(w) /\ told'[c] = told[c] \cup {"no-effect"}
  <2>1. CASE UNCHANGED <<status, rstatus, receipt, told, view>>
    BY <2>1
  <2>2. CASE /\ MayClose(w) /\ status' = [status EXCEPT ![on[w]] = "failed"]
             /\ told' = [told EXCEPT ![on[w]] = @ \cup {"no-effect"}]
    <3>1. on[w] = c => Closes(w)
      BY <1>1, <1>t, <2>2 DEF Closes, MayClose, CloseNoEffect
    <3> QED
      BY <1>t, <2>2, <3>1
  <2> QED
    BY <1>1, <2>1, <2>2 DEF CloseNoEffect
<1>2. ASSUME NEW w \in Workers, AnswerCustomer(w)
      PROVE  \/ UNCHANGED told
             \/ on[w] # c /\ told'[c] = told[c]
             \/ on[w] = c /\ Answers(w) /\ told[c] = {} /\ told'[c] = {Answer(c)}
  <2>1. CASE UNCHANGED told
    BY <2>1
  <2>2. CASE /\ MayAnswer(w) /\ told' = [told EXCEPT ![on[w]] = {Answer(on[w])}]
             /\ Goto(w, "ended")
    <3>1. pc'[w] = "ended"
      BY <1>0, <2>2 DEF Goto, AllTypesOK, WorkerTypeOK
    <3>2. Answers(w)
      BY <1>2, <2>2, <3>1 DEF Answers, AnswerCustomer
    <3> QED
      BY <1>t, <2>2, <3>2 DEF MayAnswer
  <2> QED
    BY <1>2, <2>1, <2>2 DEF AnswerCustomer
<1>3. ASSUME NEW w \in Workers, Moves(w), ~CloseNoEffect(w), ~AnswerCustomer(w)
      PROVE  UNCHANGED told
  BY <1>3
  DEF Moves, GoOn, Reconcile, Search, Resume, Tool, Prepare, Existing, Preflight, Fence, Post, Mark,
      Write, Reserve, Project, ToolThrew, After, Workflow, EndRun, Suspend, Complete, Fail, Inspect,
      Activate, Restart, Retry, EndDispatch, Claim, RecoveryClaim, Crash
<1>4. ASSUME NEW d \in Commands, Others(d) PROVE UNCHANGED told
  BY <1>4 DEF Others, Exhaust, FollowUp, LatePost, Retain, LeaseExpires
<1>5. UNCHANGED vars => UNCHANGED told
  BY DEF vars
<1>6. ASSUME NEW w \in Workers, on[w] = c, Closes(w)
      PROVE  told'[c] = told[c] \cup {"no-effect"}
  <2>1. status'[c] # status[c]
    BY <1>6 DEF Closes, Open
  <2> QED
    BY <1>1, <1>6, <2>1 DEF Closes
<1> QED
  BY <1>1, <1>2, <1>3, <1>4, <1>5, <1>6, WhoMoves

LEMMA SeenCreditStep ==
  ASSUME IInv, [Next]_vars
  PROVE  SeenCredit'
<1>0. AllTypesOK /\ AtWork /\ SeenCredit /\ \A w \in Workers : pc[w] # "idle" => on[w] \in Commands
  BY StateParts DEF IInv
<1>1. ASSUME NEW c \in Commands, status'[c] = "succeeded" PROVE credits'[c]
  <2>1. CASE status'[c] = status[c]
    BY <1>0, <1>1, <2>1, CreditsStay DEF SeenCredit
  <2>2. ASSUME NEW w \in Workers, on[w] = c, Writes(w) PROVE credits'[c]
    BY <1>0, <1>1, <2>2, CreditsStay DEF SeenCredit, Writes
  <2> QED
    BY <1>1, <2>1, <2>2, StatusStep DEF Inserts, Closes
<1>2. ASSUME NEW c \in Commands, "issued" \in told'[c] PROVE status'[c] = "succeeded"
  <2>1. CASE "issued" \in told[c]
    BY <1>0, <2>1, StatusIsFinal DEF SeenCredit, Terminal
  <2>2. ASSUME NEW w \in Workers, on[w] = c, Answers(w), "issued" = Answer(c)
        PROVE  status'[c] = "succeeded"
    BY <2>2 DEF Answer, Answers, Idempotency, attemptVars
  <2>3. CASE "issued" \notin told[c]
    <3>1. "issued" # "no-effect"
      OBVIOUS
    <3> QED
      BY <1>2, <2>2, <2>3, <3>1, ToldStep
  <2> QED
    BY <2>1, <2>3
<1>3. ASSUME NEW c \in Commands, "no-effect" \in told'[c] PROVE status'[c] = "failed"
  <2>1. CASE "no-effect" \in told[c]
    BY <1>0, <2>1, StatusIsFinal DEF SeenCredit, Terminal
  <2>2. Answer(c) # "no-effect"
    BY DEF Answer
  <2>3. CASE "no-effect" \notin told[c]
    BY <1>3, <2>2, <2>3, ToldStep DEF Closes
  <2> QED
    BY <2>1, <2>3
<1>4. ASSUME NEW w \in Workers, todo'[w] = "succeeded" PROVE credits'[on'[w]]
  <2>1. CASE todo[w] = "succeeded" /\ on'[w] = on[w]
    <3>1. on[w] \in Commands
      BY <1>0, <2>1 DEF AtWork
    <3> QED
      BY <1>0, <2>1, <3>1, CreditsStay DEF SeenCredit
  <2>2. CASE Stays(w)
    BY <1>4, <2>1, <2>2 DEF Stays
  <2>3. CASE Rests(w) \/ Starts(w)
    BY <1>0, <1>4, <2>3 DEF Rests, Starts, AtWork
  <2>4. CASE Continues(w) /\ Moves(w) /\ ~Crash(w)
    <3>1. on[w] \in Commands /\ on'[w] = on[w] /\ pc'[w] \in From(pc[w])
      BY <1>0, <2>4 DEF Continues
    <3>2. CASE pc'[w] # "write"
      BY <1>4, <2>1, <2>4, <3>1, <3>2 DEF Continues
    <3>3. CASE pc'[w] = "write"
      <4>1. pc[w] \in {"search", "fence", "post"}
        BY <3>1, <3>3 DEF From
      <4>2. CASE pc[w] = "search"
        <5>1. Search(w)
          BY <2>4, <4>2, ByLabel
        <5>2. credits[on[w]]
          BY <1>0, <1>4, <3>3, <5>1 DEF Search, ReceiptFound, GoWrite, Goto, AllTypesOK, WorkerTypeOK
        <5> QED
          BY <3>1, <5>2, CreditsStay
      <4>3. CASE pc[w] = "fence"
        <5>1. Fence(w)
          BY <2>4, <4>3, ByLabel
        <5>2. todo'[w] = "quarantined"
          BY <1>0, <3>3, <5>1 DEF Fence, GoWrite, Goto, AllTypesOK, WorkerTypeOK
        <5> QED
          BY <1>4, <5>2
      <4>4. CASE pc[w] = "post"
        <5>1. Posts(w)
          BY <2>4, <4>4, ByLabel DEF Posts
        <5> QED
          BY <1>4, <3>1, <5>1, PostEffect
      <4> QED
        BY <4>1, <4>2, <4>3, <4>4
    <3> QED
      BY <3>2, <3>3
  <2> QED
    BY <2>2, <2>3, <2>4, WorkerCases
<1>5. ASSUME NEW w \in Workers,
             pc'[w] = "project" \/ (pc'[w] = "reserve" /\ todo'[w] = "succeeded")
      PROVE  status'[on'[w]] = "succeeded"
  <2>1. CASE status[on[w]] = "succeeded" /\ on'[w] = on[w] /\ on[w] \in Commands
    BY <2>1, StatusIsFinal DEF Terminal
  <2>2. CASE Stays(w)
    <3>1. status[on[w]] = "succeeded" /\ on'[w] = on[w] /\ pc[w] # "idle"
      BY <1>0, <1>5, <2>2 DEF Stays, SeenCredit
    <3> QED
      BY <1>0, <2>1, <3>1
  <2>3. ~Rests(w) /\ ~Starts(w)
    BY <1>5 DEF Rests, Starts
  <2>4. CASE Continues(w) /\ Moves(w) /\ ~Crash(w)
    <3>1. on[w] \in Commands /\ on'[w] = on[w] /\ pc'[w] \in From(pc[w])
          /\ (pc'[w] = "reserve" => todo'[w] = todo[w])
      BY <1>0, <2>4 DEF Continues
    <3>2. pc[w] \in {"reconcile", "tool", "write", "reserve"}
      BY <1>5, <3>1 DEF From
    <3>6. CASE pc[w] = "reconcile"
      <4>1. Reconcile(w) /\ pc'[w] = "project"
        BY <1>5, <2>4, <3>1, <3>6, ByLabel DEF From
      <4>2. Idempotency(on[w])
        BY <1>0, <4>1 DEF Reconcile, Goto, AllTypesOK, WorkerTypeOK
      <4> QED
        BY <2>1, <3>1, <4>2 DEF Idempotency
    <3>3. CASE pc[w] = "tool"
      <4>1. Tool(w) /\ pc'[w] = "project"
        BY <1>5, <2>4, <3>1, <3>3, ByLabel DEF From
      <4>2. Idempotency(on[w])
        BY <1>0, <4>1 DEF Tool, Goto, AllTypesOK, WorkerTypeOK
      <4> QED
        BY <2>1, <3>1, <4>2 DEF Idempotency
    <3>4. CASE pc[w] = "write"
      <4>1. Write(w)
        BY <2>4, <3>4, ByLabel
      <4>2. todo[w] = "succeeded"
        <5>1. CASE pc'[w] = "reserve"
          BY <1>5, <3>1, <5>1
        <5>2. CASE pc'[w] = "project"
          BY <1>0, <4>1, <5>2 DEF Write, Goto, AllTypesOK, WorkerTypeOK
        <5> QED
          BY <1>5, <5>1, <5>2
      <4>3. credits[on[w]]
        BY <1>0, <4>2 DEF SeenCredit
      <4>4. status[on[w]] \notin {"failed", "quarantined"}
        BY <3>1, <4>3 DEF IInv, ProvedClear, Clear
      <4>5. MayUpdate(on[w], todo[w])
        BY <4>2, <4>4 DEF MayUpdate, Terminal
      <4>6. status'[on[w]] = "succeeded"
        BY <1>0, <3>1, <4>1, <4>2, <4>5 DEF Write, AllTypesOK, AttemptTypeOK
      <4> QED
        BY <3>1, <4>6
    <3>5. CASE pc[w] = "reserve"
      <4>1. todo[w] = "succeeded"
        <5>1. Reserve(w) /\ pc'[w] = "project"
          BY <1>5, <2>4, <3>1, <3>5, ByLabel DEF From
        <5> QED
          BY <1>0, <5>1 DEF Reserve, Goto, AllTypesOK, WorkerTypeOK
      <4> QED
        BY <1>0, <2>1, <3>1, <3>5, <4>1 DEF SeenCredit
    <3> QED
      BY <3>2, <3>3, <3>4, <3>5, <3>6
  <2> QED
    BY <2>2, <2>3, <2>4, WorkerCases
<1> QED
  BY <1>1, <1>2, <1>3, <1>4, <1>5 DEF SeenCredit

-----------------------------------------------------------------------------
(* One credit for the subscription.                                        *)

\* A credit is new only where the reservation is, and if there was none.
LEMMA CreditStep ==
  ASSUME IInv, [Next]_vars, NEW c \in Commands, credits'[c]
  PROVE  credits[c] \/ (reserved = c /\ \A d \in Commands : ~credits[d])
<1>1. Exclusive
  BY DEF IInv
<1>2. ASSUME NEW w \in Workers, on[w] = c, Posts(w)
      PROVE  reserved = c /\ \A d \in Commands : ~credits[d]
  BY <1>1, <1>2 DEF Exclusive, Posts, Posting
<1>3. CASE Lates(c)
  BY <1>1, <1>3 DEF Exclusive, Lates
<1> QED
  BY <1>2, <1>3, StripeStep

\* The reservation changes while nobody has it, or when its command is over.
LEMMA ReservedStep ==
  ASSUME IInv, [Next]_vars
  PROVE  \/ reserved' = reserved
         \/ reserved = NoCommand
         \/ /\ reserved \in Commands /\ status[reserved] \in Terminal
            /\ \A w \in Workers : on[w] # reserved
<1>1. ASSUME NEW w \in Workers, Prepare(w) PROVE reserved' = reserved \/ reserved = NoCommand
  BY <1>1 DEF Prepare, reservationVars
<1>2. ASSUME NEW c \in Commands, Retain(c)
      PROVE  \/ reserved' = reserved
             \/ /\ reserved = c /\ status[c] \in Terminal
                /\ \A w \in Workers : on[w] # c
  BY <1>2 DEF Retain, reservationVars, Expirable
<1>3. ASSUME NEW w \in Workers, Moves(w), ~Prepare(w) PROVE reserved' = reserved
  BY <1>3
  DEF Moves, GoOn, Reconcile, Search, Resume, Tool, Existing, Preflight, Fence, Post, Mark,
      CloseNoEffect, Write, Reserve, Project, ToolThrew, After, Workflow, AnswerCustomer,
      EndRun, Suspend, Complete, Fail, Inspect, Activate, Restart, Retry,
      EndDispatch, Claim, RecoveryClaim, Crash, reservationVars
<1>4. ASSUME NEW c \in Commands, Others(c), ~Retain(c) PROVE reserved' = reserved
  BY <1>4 DEF Others, Exhaust, FollowUp, LatePost, LeaseExpires, reservationVars
<1>5. UNCHANGED vars => reserved' = reserved
  BY DEF vars, reservationVars
<1> QED
  BY <1>1, <1>2, <1>3, <1>4, <1>5, WhoMoves

LEMMA ExclusiveStep ==
  ASSUME IInv, [Next]_vars
  PROVE  Exclusive'
<1>0. AllTypesOK /\ AtWork /\ Exclusive /\ \A w \in Workers : pc[w] # "idle" => on[w] \in Commands
  BY StateParts DEF IInv
<1>1. ASSUME NEW c \in Commands, NEW d \in Commands, credits'[c], credits'[d] PROVE c = d
  BY <1>0, <1>1, CreditStep DEF Exclusive
<1>2. PostedOnce'
  BY PostedOnceStep
<1>3. ASSUME NEW c \in Commands, late'[c] PROVE reserved' = c /\ \A d \in Commands : ~credits'[d]
  <2>1. CASE late[c]
    <3>1. reserved = c /\ \A d \in Commands : ~credits[d]
      BY <1>0, <2>1 DEF Exclusive
    <3>2. status[c] \notin Terminal
      BY <2>1, <3>1 DEF IInv, ProvedClear, Clear, SeenCredit, Terminal
    <3>3. reserved' = c
      BY <3>1, <3>2, ReservedStep, CreditCommandsAssumption
    <3>4. ~credits'[c]
      BY <1>2, <1>3 DEF PostedOnce
    <3> QED
      BY <3>1, <3>3, <3>4, CreditStep
  <2>2. ASSUME NEW w \in Workers, on[w] = c, Posts(w)
        PROVE  reserved' = c /\ \A d \in Commands : ~credits'[d]
    <3>1. reserved = c /\ \A d \in Commands : ~credits[d]
      BY <1>0, <2>2 DEF Exclusive, Posts, Posting
    <3>2. reserved' = c
      BY <2>2, <3>1, PostEffect DEF reservationVars
    <3>3. ~credits'[c]
      BY <1>2, <1>3 DEF PostedOnce
    <3> QED
      BY <3>1, <3>2, <3>3, CreditStep
  <2>3. CASE late'[c] = late[c] \/ Lates(c)
    BY <1>3, <2>1, <2>3 DEF Lates
  <2> QED
    BY <2>2, <2>3, StripeStep
<1>4. ASSUME NEW w \in Workers, pc'[w] \in Posting PROVE reserved' = on'[w]
  <2>1. on'[w] = on[w] /\ on[w] \in Commands
    BY <1>4, EntersPosting
  <2>2. CASE Inserts(w)
    BY <2>1, <2>2 DEF Inserts
  <2>3. CASE pc[w] \in Posting
    <3>1. reserved = on[w]
      BY <1>0, <2>3 DEF Exclusive
    <3> QED
      BY <2>1, <3>1, ReservedStep, CreditCommandsAssumption
  <2> QED
    BY <1>4, <2>2, <2>3, EntersPosting DEF Posting
<1>5. ASSUME NEW w \in Workers, pc'[w] \in {"fence", "post"}, NEW d \in Commands PROVE ~credits'[d]
  <2>1. pc'[w] \in Posting /\ on'[w] = on[w] /\ on[w] \in Commands
    BY <1>5, EntersPosting DEF Posting
  <2>2. ~credits'[on[w]]
    BY <1>2, <2>1 DEF PostedOnce
  <2>3. pc[w] \in Posting /\ reserved = on[w]
    <3>1. pc[w] \in Posting
      BY <1>5, <2>1, EntersPosting DEF Posting, Inserts
    <3> QED
      BY <1>0, <3>1 DEF Exclusive
  <2>4. d # on[w] => ~credits[d]
    <3>1. CASE pc[w] \in {"fence", "post"}
      BY <1>0, <3>1 DEF Exclusive
    <3>2. CASE pc[w] = "preflight"
      <4>1. NoPrior(on[w])
        BY <1>5, <2>1, <3>2, EntersPosting DEF Stays, Inserts
      <4> QED
        BY <4>1 DEF NoPrior
    <3> QED
      BY <2>3, <3>1, <3>2 DEF Posting
  <2> QED
    BY <2>2, <2>3, <2>4, CreditStep
<1> QED
  BY <1>1, <1>3, <1>4, <1>5 DEF Exclusive

-----------------------------------------------------------------------------
(* What the customer was told, and how a turn ends.                        *)

\* What was said stays said, and the outcome on record stays on record.
LEMMA AnsweredStays ==
  ASSUME IInv, [Next]_vars, NEW c \in Commands, Answered(c)
  PROVE  Answered(c)'
<1>1. status'[c] = status[c]
  BY StatusIsFinal DEF Answered, Terminal
<1>2. told[c] \subseteq told'[c]
  BY ToldStep DEF Answered
<1> QED
  BY <1>1, <1>2 DEF Answered

\* Tombstones stay, and receipts but for a closing and for retention.
LEMMA KeptStays ==
  ASSUME IInv, [Next]_vars, NEW c \in Commands, Kept(c)
  PROVE  Kept(c)'
<1>0. AllTypesOK /\ AtWork
  BY StateParts
<1>t. receipt \in Flags /\ tombstone \in Flags
  BY <1>0 DEF AllTypesOK, ReceiptTypeOK
<1>1. status'[c] = "succeeded"
  BY StatusIsFinal DEF Kept, Terminal
<1>2. CASE UNCHANGED <<receipt, tombstone>>
  BY <1>1, <1>2 DEF Kept
<1>3. ASSUME NEW w \in Workers, CloseNoEffect(w)
      PROVE  receipt'[c] = receipt[c] /\ tombstone' = tombstone
  <2>1. CASE MayClose(w) /\ receipt' = [receipt EXCEPT ![on[w]] = FALSE]
    <3>1. on[w] # c
      BY <2>1 DEF MayClose, Kept, Open
    <3> QED
      BY <1>3, <1>t, <2>1, <3>1 DEF CloseNoEffect, Flags
  <2> QED
    BY <1>3, <2>1 DEF CloseNoEffect
<1>4. ASSUME NEW w \in Workers, Project(w)
      PROVE  (receipt[c] => receipt'[c]) /\ tombstone' = tombstone
  BY <1>4, <1>t DEF Project, Flags
<1>5. ASSUME NEW d \in Commands, Retain(d)
      PROVE  IF d = c THEN tombstone'[c]
             ELSE receipt'[c] = receipt[c] /\ tombstone'[c] = tombstone[c]
  BY <1>5, <1>t DEF Retain, Flags
<1>6. ASSUME NEW w \in Workers, Moves(w), ~CloseNoEffect(w), ~Project(w)
      PROVE  UNCHANGED <<receipt, tombstone>>
  BY <1>6
  DEF Moves, GoOn, Reconcile, Search, Resume, Tool, Prepare, Existing, Preflight, Fence, Post, Mark,
      Write, Reserve, ToolThrew, After, Workflow, AnswerCustomer,
      EndRun, Suspend, Complete, Fail, Inspect, Activate, Restart, Retry, EndDispatch, Claim, RecoveryClaim, Crash
<1>7. ASSUME NEW d \in Commands, Others(d), ~Retain(d) PROVE UNCHANGED <<receipt, tombstone>>
  BY <1>7 DEF Others, Exhaust, FollowUp, LatePost, LeaseExpires
<1>8. UNCHANGED vars => UNCHANGED <<receipt, tombstone>>
  BY DEF vars
<1> QED
  BY <1>1, <1>2, <1>3, <1>4, <1>5, <1>6, <1>7, <1>8, WhoMoves DEF Kept

LEMMA HeardStep ==
  ASSUME IInv, [Next]_vars
  PROVE  Heard'
<1>0. AllTypesOK /\ AtWork /\ Heard /\ Ready
  BY StateParts DEF IInv
<1>1. ASSUME NEW c \in Commands, "safe" \in told'[c] PROVE FALSE
  <2>1. "safe" \notin told[c] /\ "safe" # "no-effect"
    BY <1>0 DEF Heard
  <2>2. ASSUME NEW w \in Workers, on[w] = c, Answers(w) PROVE Answer(c) = "issued"
    <3>1. run[c] # "suspended" /\ OnDisplay(c) /\ ~tombstone[c]
      BY <1>0, <2>2 DEF Ready, Answers, MayAnswer, OnDisplay
    <3>2. Idempotency(c)
      BY <1>0, <3>1 DEF Ready, Kept, Idempotency
    <3> QED
      BY <3>2 DEF Answer
  <2> QED
    BY <1>1, <2>1, <2>2, ToldStep
<1>2. ASSUME NEW c \in Commands, status'[c] = "failed" PROVE "no-effect" \in told'[c]
  <2>1. CASE status[c] = "failed"
    <3>1. "no-effect" \in told[c]
      BY <1>0, <2>1 DEF Heard
    <3> QED
      BY <3>1, ToldStep
  <2>2. CASE status[c] # "failed"
    <3>1. ASSUME NEW w \in Workers, on[w] = c, Inserts(w) \/ Writes(w) PROVE FALSE
      BY <1>0, <1>2, <3>1 DEF Inserts, Writes, AllTypesOK, WorkerTypeOK
    <3>2. PICK w \in Workers : on[w] = c /\ Closes(w)
      BY <1>2, <2>2, <3>1, StatusStep
    <3>3. ASSUME NEW v \in Workers, on[v] = c, Answers(v) PROVE FALSE
      BY <1>2, <2>2, <3>3 DEF Answers, attemptVars
    <3> QED
      BY <3>2, <3>3, ToldStep
  <2> QED
    BY <2>1, <2>2
<1> QED
  BY <1>1, <1>2 DEF Heard

\* What a follow-up has reset never shows its command again.
LEMMA DisplayEnds ==
  ASSUME IInv, [Next]_vars, NEW c \in Commands, ~OnDisplay(c)
  PROVE  ~OnDisplay(c)'
<1>0. view \in [Commands -> {"processing", "resolved", "escalated", "reset"}]
      /\ \A w \in Workers : pc[w] # "idle" => on[w] \in Commands
  BY StateParts DEF AllTypesOK, CaseTypeOK
<1>r. view[c] = "reset"
  BY DEF OnDisplay
<1>1. ASSUME view'[c] = "reset" PROVE ~OnDisplay(c)'
  BY <1>1 DEF OnDisplay
<1>2. ASSUME NEW w \in Workers, CloseNoEffect(w) PROVE view'[c] = "reset"
  BY <1>0, <1>2, <1>r DEF CloseNoEffect, Escalated, OnDisplay
<1>3. ASSUME NEW w \in Workers, AnswerCustomer(w) PROVE view'[c] = "reset"
  BY <1>0, <1>3, <1>r DEF AnswerCustomer, MayAnswer
<1>4. ASSUME NEW w \in Workers, Suspend(w) \/ Complete(w) \/ Fail(w) PROVE view'[c] = "reset"
  BY <1>0, <1>4, <1>r DEF Suspend, Complete, Fail, EndDispatch, Escalated, OnDisplay
<1>5. ASSUME NEW w \in Workers, Activate(w) PROVE view'[c] = "reset"
  BY <1>0, <1>5, <1>r DEF Activate, OnDisplay
<1>6. ASSUME NEW d \in Commands, Others(d) PROVE view'[c] = "reset"
  BY <1>0, <1>6, <1>r
  DEF Others, Exhaust, FollowUp, LatePost, Retain, LeaseExpires, Escalated, OnDisplay
<1>7. ASSUME NEW w \in Workers, Moves(w), ~CloseNoEffect(w), ~AnswerCustomer(w), ~Suspend(w),
             ~Complete(w), ~Fail(w), ~Activate(w)
      PROVE  UNCHANGED view
  BY <1>7
  DEF Moves, GoOn, Reconcile, Search, Resume, Tool, Prepare, Existing, Preflight, Fence, Post, Mark,
      Write, Reserve, Project, ToolThrew, After, Workflow, EndRun, Inspect, Restart, Retry, Claim,
      RecoveryClaim, Crash
<1>8. UNCHANGED vars => UNCHANGED view
  BY DEF vars
<1> QED
  BY <1>1, <1>2, <1>3, <1>4, <1>5, <1>6, <1>7, <1>8, <1>r, WhoMoves

\* How a run moves: it is resumed, it ends, it never waits for the reviewer again.
Resumes(w) == pc[w] = "workflow" /\ Workflow(w) /\ pc'[w] = "answer"
Ends(w) == pc[w] = "ended" /\ EndRun(w)

LEMMA RunStep ==
  ASSUME IInv, [Next]_vars, NEW c \in Commands
  PROVE  \/ run'[c] = run[c]
         \/ \E w \in Workers : on[w] = c /\ Resumes(w) /\ run'[c] = "running"
         \/ \E w \in Workers : on[w] = c /\ pc[w] = "answer" /\ run'[c] = "failed"
         \/ \E w \in Workers : on[w] = c /\ Ends(w) /\ run'[c] = "succeeded"
<1>0. AllTypesOK /\ AtWork /\ \A w \in Workers : pc[w] # "idle" => on[w] \in Commands
  BY StateParts
<1>t. run \in [Commands -> {"suspended", "running", "succeeded", "failed"}]
  BY <1>0 DEF AllTypesOK, RunTypeOK
<1>1. ASSUME NEW w \in Workers, Workflow(w)
      PROVE  run'[c] = run[c] \/ (on[w] = c /\ Resumes(w) /\ run'[c] = "running")
  <2>1. CASE UNCHANGED run
    BY <2>1
  <2>2. CASE run' = [run EXCEPT ![on[w]] = "running"] /\ Goto(w, "answer")
    BY <1>0, <1>1, <1>t, <2>2 DEF Resumes, Workflow, Goto, AllTypesOK, WorkerTypeOK
  <2> QED
    BY <1>1, <2>1, <2>2 DEF Workflow
<1>2. ASSUME NEW w \in Workers, AnswerCustomer(w)
      PROVE  run'[c] = run[c] \/ (on[w] = c /\ pc[w] = "answer" /\ run'[c] = "failed")
  BY <1>0, <1>2, <1>t DEF AnswerCustomer
<1>3. ASSUME NEW w \in Workers, EndRun(w)
      PROVE  run'[c] = run[c] \/ (on[w] = c /\ Ends(w) /\ run'[c] = "succeeded")
  BY <1>0, <1>3, <1>t DEF EndRun, Ends
<1>4. ASSUME NEW w \in Workers, Moves(w), ~Workflow(w), ~AnswerCustomer(w), ~EndRun(w)
      PROVE  UNCHANGED run
  BY <1>4
  DEF Moves, GoOn, Reconcile, Search, Resume, Tool, Prepare, Existing, Preflight, Fence, Post, Mark,
      CloseNoEffect, Write, Reserve, Project, ToolThrew, After, Suspend, Complete, Fail, Inspect,
      Activate, Restart, Retry, EndDispatch, Claim, RecoveryClaim, Crash
<1>5. ASSUME NEW d \in Commands, Others(d) PROVE UNCHANGED run
  BY <1>5 DEF Others, Exhaust, FollowUp, LatePost, Retain, LeaseExpires
<1>6. UNCHANGED vars => UNCHANGED run
  BY DEF vars
<1> QED
  BY <1>1, <1>2, <1>3, <1>4, <1>5, <1>6, WhoMoves

\* The workflow is reached with a receipt, or when the case shows the turn no more.
LEMMA ReachesWorkflow ==
  ASSUME IInv, NEW w \in Workers, Continues(w), Moves(w), ~Crash(w), pc'[w] = "workflow"
  PROVE  ~OnDisplay(on[w]) \/ Kept(on[w])'
<1>0. AllTypesOK /\ AtWork /\ Ready /\ on[w] \in Commands /\ on'[w] = on[w]
  BY StateParts DEF IInv, Continues
<1>1. pc[w] \in {"project", "after"}
  BY <1>0 DEF AtWork, Continues, From
<1>2. CASE pc[w] = "project"
  <2>1. Project(w)
    BY <1>2, ByLabel
  <2>2. OnDisplay(on[w]) => receipt'[on[w]]
    BY <1>0, <2>1 DEF Project, AllTypesOK, ReceiptTypeOK, Flags
  <2>3. status'[on[w]] = "succeeded"
    BY <1>2, <2>1 DEF Project, IInv, SeenCredit, attemptVars
  <2> QED
    BY <1>0, <2>2, <2>3 DEF Kept
<1>3. CASE pc[w] = "after"
  <2>1. After(w)
    BY <1>3, ByLabel
  <2>2. pc' = [pc EXCEPT ![w] = Error(w)] => pc'[w] # "workflow"
    BY <1>0 DEF Error, AllTypesOK, WorkerTypeOK
  <2>3. CASE mode[w] = "blind"
    BY <1>0, <2>3 DEF Ready
  <2>4. CASE mode[w] # "blind"
    <3>1. Idempotency(on[w])
      <4>1. CASE mode[w] = "request"
        <5>1. AfterRequest(on[w]) = "workflow"
          BY <1>0, <2>1, <2>2, <4>1 DEF After, Goto, AllTypesOK, WorkerTypeOK
        <5> QED
          BY <5>1 DEF AfterRequest
      <4>2. CASE mode[w] # "request"
        <5>1. AfterTool(on[w]) = "workflow"
          BY <1>0, <2>1, <2>2, <2>4, <4>2 DEF After, Goto, AllTypesOK, WorkerTypeOK
        <5> QED
          BY <5>1 DEF AfterTool
      <4> QED
        BY <4>1, <4>2
    <3>2. UNCHANGED <<status, receipt>>
      BY <2>1 DEF After, attemptVars
    <3> QED
      BY <1>0, <3>1, <3>2 DEF Idempotency, Kept
  <2> QED
    BY <2>3, <2>4
<1> QED
  BY <1>1, <1>2, <1>3

LEMMA ReadyStep ==
  ASSUME IInv, [Next]_vars
  PROVE  Ready'
<1>0. AllTypesOK /\ AtWork /\ Ready /\ \A w \in Workers : pc[w] # "idle" => on[w] \in Commands
  BY StateParts DEF IInv
<1>1. ASSUME NEW c \in Commands, run'[c] # "suspended", OnDisplay(c)' PROVE Kept(c)'
  <2>1. OnDisplay(c)
    BY <1>1, DisplayEnds
  <2>2. Kept(c)
    <3>1. CASE run[c] # "suspended"
      BY <1>0, <2>1, <3>1 DEF Ready
    <3>2. ASSUME NEW w \in Workers, on[w] = c, Resumes(w) PROVE Kept(c)
      BY <1>0, <2>1, <3>2 DEF Ready, Resumes
    <3>3. ASSUME NEW w \in Workers, on[w] = c, pc[w] = "answer" \/ Ends(w)
          PROVE  run[c] # "suspended"
      BY <1>0, <3>3 DEF Ready, Ends
    <3> QED
      BY <1>1, <3>1, <3>2, <3>3, RunStep
  <2> QED
    BY <2>2, KeptStays
<1>2. ASSUME NEW w \in Workers, mode'[w] = "blind" PROVE ~OnDisplay(on[w])'
  <2>1. ASSUME mode[w] = "blind", on'[w] = on[w] PROVE ~OnDisplay(on[w])'
    <3>1. on[w] \in Commands /\ ~OnDisplay(on[w])
      BY <1>0, <2>1 DEF AtWork, Ready
    <3> QED
      BY <2>1, <3>1, DisplayEnds DEF OnDisplay
  <2>2. CASE Starts(w)
    BY <1>2, <2>2 DEF Starts, OnDisplay
  <2> QED
    BY <1>2, <2>1, <2>2, WorkerCases DEF Stays, Rests, Continues
<1>3. ASSUME NEW w \in Workers, pc'[w] = "workflow", OnDisplay(on[w])' PROVE Kept(on[w])'
  <2>1. CASE Stays(w)
    <3>1. on'[w] = on[w] /\ on[w] \in Commands /\ pc[w] = "workflow"
      BY <1>0, <1>3, <2>1 DEF Stays
    <3>2. OnDisplay(on[w])
      BY <1>3, <3>1, DisplayEnds DEF OnDisplay
    <3>3. Kept(on[w])
      BY <1>0, <3>1, <3>2 DEF Ready
    <3> QED
      BY <3>1, <3>3, KeptStays DEF Kept
  <2>2. CASE Continues(w) /\ Moves(w) /\ ~Crash(w)
    <3>1. on'[w] = on[w] /\ on[w] \in Commands
      BY <1>0, <2>2 DEF Continues
    <3>2. OnDisplay(on[w])
      BY <1>3, <3>1, DisplayEnds DEF OnDisplay
    <3> QED
      BY <1>3, <2>2, <3>1, <3>2, ReachesWorkflow DEF Kept
  <2> QED
    BY <1>3, <2>1, <2>2, WorkerCases DEF Rests, Starts
<1>4. ASSUME NEW w \in Workers, pc'[w] \in {"answer", "ended", "activate", "restart"}
      PROVE  run'[on'[w]] # "suspended"
  <2>1. ASSUME on'[w] = on[w], on[w] \in Commands, run[on[w]] # "suspended"
        PROVE  run'[on'[w]] # "suspended"
    BY <2>1, RunStep
  <2>2. CASE Stays(w)
    BY <1>0, <1>4, <2>1, <2>2 DEF Stays, Ready
  <2>3. CASE Continues(w) /\ Moves(w) /\ ~Crash(w)
    <3>1. on'[w] = on[w] /\ on[w] \in Commands /\ pc'[w] \in From(pc[w]) /\ pc[w] \in PCs
      BY <1>0, <2>3 DEF Continues, AtWork
    <3>2. pc[w] \in {"workflow", "answer", "inspect", "activate", "restart"}
      BY <1>4, <3>1 DEF From
    <3>3. CASE pc[w] \in {"answer", "activate", "restart"}
      BY <1>0, <2>1, <3>1, <3>3 DEF Ready
    <3>4. CASE pc[w] = "workflow"
      <4>1. Workflow(w) /\ pc'[w] = "answer"
        BY <1>4, <2>3, <3>1, <3>4, ByLabel DEF From
      <4>2. ~GoIdle(w) /\ ~Goto(w, Error(w))
        BY <1>0, <4>1 DEF GoIdle, Goto, Error, AllTypesOK, WorkerTypeOK
      <4>3. run' = [run EXCEPT ![on[w]] = "running"]
        BY <4>1, <4>2 DEF Workflow
      <4> QED
        BY <1>0, <3>1, <4>3 DEF AllTypesOK, RunTypeOK
    <3>5. CASE pc[w] = "inspect"
      <4>1. Inspect(w) /\ pc'[w] = "activate"
        BY <1>4, <2>3, <3>1, <3>5, ByLabel DEF From
      <4>2. Inspected(on[w]) = "activate"
        BY <1>0, <4>1 DEF Inspect, Goto, AllTypesOK, WorkerTypeOK
      <4>3. run[on[w]] # "suspended"
        BY <4>2 DEF Inspected
      <4> QED
        BY <2>1, <3>1, <4>3
    <3> QED
      BY <3>2, <3>3, <3>4, <3>5
  <2> QED
    BY <1>4, <2>2, <2>3, WorkerCases DEF Rests, Starts
<1> QED
  BY <1>1, <1>2, <1>3, <1>4 DEF Ready

\* A turn is completed by a worker that is about to.
LEMMA CompletedStep ==
  ASSUME IInv, [Next]_vars, NEW c \in Commands, dispatch'[c] = "completed"
  PROVE  dispatch[c] = "completed" \/ \E w \in Workers : pc[w] = "complete" /\ on[w] = c
<1>t. /\ dispatch \in [Commands -> {"suspended", "pending"} \cup Active \cup Over]
      /\ \A w \in Workers : pc[w] # "idle" => on[w] \in Commands
  BY StateParts DEF AllTypesOK, DispatchTypeOK
<1>1. ASSUME NEW w \in Workers, Complete(w)
      PROVE  dispatch[c] = "completed" \/ (pc[w] = "complete" /\ on[w] = c)
  BY <1>1, <1>t DEF Complete, EndDispatch
<1>2. ASSUME NEW w \in Workers, Suspend(w) \/ Fail(w) PROVE dispatch[c] = "completed"
  BY <1>2, <1>t DEF Suspend, Fail, EndDispatch
<1>3. ASSUME NEW w \in Workers, NEW d \in Commands, Claim(w, d) \/ RecoveryClaim(w, d)
      PROVE  dispatch[c] = "completed"
  BY <1>3, <1>t DEF Claim, RecoveryClaim
<1>4. ASSUME NEW w \in Workers, Activate(w) \/ Retry(w) PROVE dispatch[c] = "completed"
  BY <1>4, <1>t DEF Activate, Retry
<1>5. ASSUME NEW d \in Commands, Others(d) PROVE dispatch[c] = "completed"
  BY <1>5, <1>t DEF Others, Exhaust, FollowUp, LatePost, Retain, LeaseExpires, dispatchVars
<1>6. ASSUME NEW w \in Workers, Moves(w), ~Complete(w), ~Suspend(w), ~Fail(w), ~Activate(w), ~Retry(w),
             ~\E d \in Commands : Claim(w, d) \/ RecoveryClaim(w, d)
      PROVE  UNCHANGED dispatch
  BY <1>6
  DEF Moves, GoOn, Reconcile, Search, Resume, Tool, Prepare, Existing, Preflight, Fence, Post, Mark,
      CloseNoEffect, Write, Reserve, Project, ToolThrew, After, Workflow, AnswerCustomer, EndRun,
      Inspect, Restart, Crash, dispatchVars
<1>7. UNCHANGED vars => UNCHANGED dispatch
  BY DEF vars, dispatchVars
<1> QED
  BY <1>1, <1>2, <1>3, <1>4, <1>5, <1>6, <1>7, WhoMoves

\* No way to fail a turn, and nothing after it, shows the turn as work in progress.
LEMMA FailedStep ==
  ASSUME IInv, [Next]_vars, NEW c \in Commands, dispatch'[c] = "failed"
  PROVE  view'[c] # "processing"
<1>t. /\ dispatch \in [Commands -> {"suspended", "pending"} \cup Active \cup Over]
      /\ view \in [Commands -> {"processing", "resolved", "escalated", "reset"}]
      /\ \A w \in Workers : pc[w] # "idle" => on[w] \in Commands
      /\ dispatch[c] = "failed" => view[c] # "processing"
  BY StateParts DEF AllTypesOK, DispatchTypeOK, CaseTypeOK, IInv, Done
<1>e. \A d \in Commands : Escalated(d) # "processing"
  BY <1>t DEF Escalated, OnDisplay
<1>1. ASSUME NEW w \in Workers, Complete(w) \/ Suspend(w) \/ Fail(w) PROVE view'[c] # "processing"
  <2>1. PICK to \in {"suspended", "completed", "failed"} : EndDispatch(w, to) /\ on[w] \in Commands
    BY <1>1, <1>t DEF Complete, Suspend, Fail
  <2>2. CASE ~Owns(w) \/ on[w] # c
    BY <1>t, <2>1, <2>2 DEF EndDispatch
  <2>3. CASE Owns(w) /\ on[w] = c
    <3>1. dispatch'[c] = to /\ view'[c] = (IF to = "failed" THEN Escalated(c) ELSE view[c])
      BY <1>t, <2>1, <2>3 DEF EndDispatch
    <3> QED
      BY <1>e, <3>1
  <2> QED
    BY <2>2, <2>3
<1>2. ASSUME NEW w \in Workers, NEW d \in Commands, Claim(w, d) \/ RecoveryClaim(w, d)
      PROVE  view'[c] # "processing"
  BY <1>2, <1>t DEF Claim, RecoveryClaim
<1>3. ASSUME NEW w \in Workers, Activate(w) \/ Retry(w) PROVE view'[c] # "processing"
  BY <1>3, <1>t DEF Activate, Retry
<1>4. ASSUME NEW w \in Workers, CloseNoEffect(w) PROVE view'[c] # "processing"
  <2>1. on[w] \in Commands /\ dispatch[c] = "failed"
    BY <1>4, <1>t DEF CloseNoEffect, dispatchVars
  <2> QED
    BY <1>4, <1>t, <1>e, <2>1 DEF CloseNoEffect
<1>5. ASSUME NEW w \in Workers, AnswerCustomer(w) PROVE view'[c] # "processing"
  <2>1. on[w] \in Commands /\ dispatch[c] = "failed"
    BY <1>5, <1>t DEF AnswerCustomer, dispatchVars
  <2> QED
    BY <1>5, <1>t, <2>1 DEF AnswerCustomer
<1>6. ASSUME NEW d \in Commands, Exhaust(d) PROVE view'[c] # "processing"
  BY <1>6, <1>t, <1>e DEF Exhaust
<1>7. ASSUME NEW d \in Commands, FollowUp(d) \/ LatePost(d) \/ Retain(d) \/ LeaseExpires(d)
      PROVE  view'[c] # "processing"
  BY <1>7, <1>t DEF FollowUp, LatePost, Retain, LeaseExpires, dispatchVars
<1>8. ASSUME NEW w \in Workers, Moves(w), ~Complete(w), ~Suspend(w), ~Fail(w), ~Activate(w), ~Retry(w),
             ~CloseNoEffect(w), ~AnswerCustomer(w),
             ~\E d \in Commands : Claim(w, d) \/ RecoveryClaim(w, d)
      PROVE  UNCHANGED <<dispatch, view>>
  BY <1>8
  DEF Moves, GoOn, Reconcile, Search, Resume, Tool, Prepare, Existing, Preflight, Fence, Post, Mark,
      Write, Reserve, Project, ToolThrew, After, Workflow, EndRun, Inspect, Restart, Crash,
      dispatchVars
<1>9. UNCHANGED vars => UNCHANGED <<dispatch, view>>
  BY DEF vars, dispatchVars
<1> QED
  BY <1>1, <1>2, <1>3, <1>4, <1>5, <1>6, <1>7, <1>8, <1>9, <1>t, WhoMoves DEF Others

\* A worker learns that its customer was told from its own answer, from an attempt
\* that was closed, or from a run that has succeeded.
LEMMA LearnsAnswered ==
  ASSUME IInv, [Next]_vars, NEW w \in Workers, Continues(w), Moves(w), ~Crash(w),
         pc'[w] \in {"ended", "complete"}
  PROVE  Answered(on[w]) \/ (on'[w] = on[w] /\ Answered(on[w])')
<1>0. AllTypesOK /\ AtWork /\ Heard /\ Ready /\ Done /\ on[w] \in Commands /\ pc[w] \in PCs
      /\ pc'[w] \in From(pc[w]) /\ on'[w] = on[w]
  BY StateParts DEF IInv, Continues, AtWork
<1>1. pc[w] \in {"after", "answer", "ended", "inspect"}
  BY <1>0 DEF From
<1>2. CASE pc[w] = "ended"
  BY <1>0, <1>2 DEF Done
<1>3. CASE pc[w] = "inspect"
  <2>1. Inspect(w) /\ pc'[w] = "complete"
    BY <1>0, <1>3, ByLabel DEF From
  <2>2. Inspected(on[w]) = "complete"
    BY <1>0, <2>1 DEF Inspect, Goto, AllTypesOK, WorkerTypeOK
  <2>3. run[on[w]] = "succeeded"
    BY <1>0, <2>2 DEF Inspected, AllTypesOK, RunTypeOK
  <2> QED
    BY <1>0, <2>3 DEF Done
<1>4. CASE pc[w] = "after"
  <2>1. After(w) /\ pc'[w] = "complete"
    BY <1>0, <1>4, ByLabel DEF From
  <2>2. AfterRequest(on[w]) = "complete" \/ AfterTool(on[w]) = "complete"
    BY <1>0, <2>1 DEF After, Error, Goto, AllTypesOK, WorkerTypeOK
  <2>3. status[on[w]] = "failed"
    BY <2>2 DEF AfterRequest, AfterTool
  <2> QED
    BY <1>0, <2>3 DEF Heard, Answered
<1>5. CASE pc[w] = "answer"
  <2>1. AnswerCustomer(w) /\ pc'[w] = "ended"
    BY <1>0, <1>5, ByLabel DEF From
  <2>2. MayAnswer(w) /\ told' = [told EXCEPT ![on[w]] = {Answer(on[w])}]
    <3>1. ASSUME Goto(w, IF mode[w] = "restart" THEN "retry" ELSE "fail") PROVE FALSE
      BY <1>0, <2>1, <3>1 DEF Goto, AllTypesOK, WorkerTypeOK
    <3> QED
      BY <2>1, <3>1 DEF AnswerCustomer
  <2>3. Idempotency(on[w])
    <3>1. run[on[w]] # "suspended" /\ OnDisplay(on[w]) /\ ~tombstone[on[w]]
      BY <1>0, <1>5, <2>2 DEF Ready, MayAnswer, OnDisplay
    <3> QED
      BY <1>0, <3>1 DEF Ready, Kept, Idempotency
  <2>4. told'[on[w]] = {"issued"}
    BY <1>0, <2>2, <2>3 DEF Answer, AllTypesOK, CaseTypeOK
  <2>5. status'[on[w]] = "succeeded"
    BY <2>1, <2>3 DEF AnswerCustomer, Idempotency, attemptVars
  <2> QED
    BY <1>0, <2>4, <2>5 DEF Answered
<1> QED
  BY <1>1, <1>2, <1>3, <1>4, <1>5

LEMMA DoneStep ==
  ASSUME IInv, [Next]_vars
  PROVE  Done'
<1>0. AllTypesOK /\ AtWork /\ Done /\ \A w \in Workers : pc[w] # "idle" => on[w] \in Commands
  BY StateParts DEF IInv
<1>1. ASSUME NEW c \in Commands, dispatch'[c] = "completed" \/ run'[c] = "succeeded"
      PROVE  Answered(c)'
  <2>1. Answered(c)
    <3>1. CASE dispatch'[c] = "completed"
      BY <1>0, <3>1, CompletedStep DEF Done
    <3>2. CASE run'[c] = "succeeded"
      BY <1>0, <3>2, RunStep DEF Done, Ends
    <3> QED
      BY <1>1, <3>1, <3>2
  <2> QED
    BY <2>1, AnsweredStays
<1>2. ASSUME NEW w \in Workers, pc'[w] \in {"ended", "complete"} PROVE Answered(on[w])'
  <2>1. ASSUME on'[w] = on[w], on[w] \in Commands, Answered(on[w]) PROVE Answered(on[w])'
    BY <2>1, AnsweredStays DEF Answered
  <2>2. CASE Stays(w)
    <3>1. on'[w] = on[w] /\ on[w] \in Commands /\ Answered(on[w])
      BY <1>0, <1>2, <2>2 DEF Stays, Done
    <3> QED
      BY <2>1, <3>1
  <2>3. CASE Continues(w) /\ Moves(w) /\ ~Crash(w)
    <3>1. on'[w] = on[w] /\ on[w] \in Commands
      BY <1>0, <2>3 DEF Continues
    <3> QED
      BY <1>2, <2>1, <2>3, <3>1, LearnsAnswered
  <2> QED
    BY <1>2, <2>2, <2>3, WorkerCases DEF Rests, Starts
<1> QED
  BY <1>1, <1>2, FailedStep DEF Done

-----------------------------------------------------------------------------
(* The invariant holds.                                                    *)

LEMMA InitInvariant == Init => IInv
<1> SUFFICES ASSUME Init PROVE IInv
  OBVIOUS
<1> USE DEF Init
<1>1. TypeOK
  BY CreditBoundAssumption DEF TypeOK, Open, Terminal, Active, Over
<1>2. AtWork
  BY DEF AtWork, PCs
<1>3. \A w \in Workers : pc[w] = "idle" /\ todo[w] = "none" /\ on[w] = NoCommand /\ mode[w] = "none"
  OBVIOUS
<1>4. \A c \in Commands :
        /\ status[c] = "absent" /\ told[c] = {} /\ posts[c] = 0 /\ dispatch[c] = "suspended"
        /\ ~credits[c] /\ ~late[c] /\ ~noEffect[c] /\ run[c] = "suspended"
  OBVIOUS
<1>5. PostedOnce
  BY <1>3, <1>4 DEF PostedOnce, Posting
<1>6. ProvedClear
  BY <1>3, <1>4 DEF ProvedClear
<1>7. SeenCredit
  BY <1>3, <1>4 DEF SeenCredit
<1>8. Exclusive
  BY <1>3, <1>4 DEF Exclusive, Posting
<1>9. Heard /\ Ready /\ Done
  BY <1>3, <1>4 DEF Heard, Ready, Done
<1> QED
  BY <1>1, <1>2, <1>5, <1>6, <1>7, <1>8, <1>9 DEF IInv

LEMMA InvariantStep == IInv /\ [Next]_vars => IInv'
  BY TypeStep, AtWorkStep, PostedOnceStep, ProvedClearStep, SeenCreditStep, ExclusiveStep,
     HeardStep, ReadyStep, DoneStep
  DEF IInv

LEMMA Invariant == Spec => []IInv
  BY InitInvariant, InvariantStep, PTL DEF Spec

-----------------------------------------------------------------------------
(* What follows.                                                           *)

\* A customer and subscription get one credit, whichever case asks for it and
\* however late the POST is carried out: the reservation of
\* prepareStripeSubscriptionCreditAttempt and the search for prior credits
\* exclude the others, also once retention has forgotten the first.
THEOREM OneCreditEach == Spec => []OnePerSubscription
<1>1. ASSUME IInv PROVE OnePerSubscription
  <2> DEFINE S == {c \in Commands : credits[c]}
  <2>1. \A c, d \in S : c = d
    BY <1>1 DEF IInv, Exclusive
  <2>2. CASE S = {}
    <3>1. Cardinality(S) = 0
      BY <2>2, FS_EmptySet
    <3> QED
      BY <3>1 DEF OnePerSubscription
  <2>3. ASSUME NEW c \in S PROVE OnePerSubscription
    <3>1. S = {c}
      BY <2>1, <2>3
    <3>2. Cardinality({c}) = 1
      BY FS_Singleton, Zenon
    <3>3. Cardinality(S) = 1
      BY <3>1, <3>2
    <3> QED
      BY <3>3 DEF OnePerSubscription
  <2> QED
    BY <2>2, <2>3
<1> QED
  BY <1>1, Invariant, PTL

\* The customer hears once, of a credit that Stripe has or of a review when it
\* has none and never will have one: whoever resumes the turn, restarts its run or
\* closes the attempt, the answer is that of the attempt.
THEOREM CustomerIsTold == Spec => []AnswersAgree
<1>1. ASSUME IInv PROVE AnswersAgree
  <2>1. ASSUME NEW c \in Commands
        PROVE  \/ told[c] = {}
               \/ told[c] = {"issued"} /\ credits[c]
               \/ told[c] = {"no-effect"} /\ ~credits[c] /\ ~late[c]
    <3>1. told[c] \subseteq {"issued", "no-effect"}
      BY <1>1 DEF IInv, TypeOK, Heard
    <3>2. "issued" \in told[c] => credits[c] /\ "no-effect" \notin told[c]
      BY <1>1 DEF IInv, SeenCredit
    <3>3. "no-effect" \in told[c] => ~credits[c] /\ ~late[c]
      BY <1>1 DEF IInv, SeenCredit, ProvedClear, Clear
    <3> QED
      BY <3>1, <3>2, <3>3
  <2> QED
    BY <1>1, <2>1 DEF IInv, AnswersAgree, ToldIsTrue
<1> QED
  BY <1>1, Invariant, PTL

\* A dispatch is completed, and a run succeeds, only after the customer was told
\* the outcome, whichever of completeDispatch, the request, the sweep of decisions
\* and the sweep of all dispatches ends it; and every way in which a turn fails,
\* exhaustion of its attempts included, escalates a case that still shows it.
THEOREM CompletedAfterAnswer == Spec => []CompletedIsAnswered
<1>1. IInv => CompletedIsAnswered
  BY DEF IInv, Done, CompletedIsAnswered
<1> QED
  BY <1>1, Invariant, PTL

\* Each command is one effect: it is posted at most once whoever crashes, stalls
\* or resumes it, its verdict is final, and a credit never belies a verdict that
\* nothing happened.  Credit implements OneEffect, once for each command.
THEOREM CreditedOnce == Spec => OneCredit
<1>1. Init => \A c \in Commands : Promise(c)!Init
  BY DEF Init, Promise!Init, Verdict
<1>2. ASSUME IInv, [Next]_vars, NEW c \in Commands
      PROVE  [Promise(c)!Next]_<<posts[c], credits[c], Verdict(c)>>
  <2>0. /\ posts[c] \in Nat /\ credits[c] \in BOOLEAN /\ credits'[c] \in BOOLEAN
        /\ todo \in [Workers -> {"none", "succeeded", "unknown", "quarantined"}]
    BY <1>2, StateParts, TypeStep DEF AllTypesOK, StripeTypeOK, WorkerTypeOK, Flags
  <2>1. ASSUME NEW w \in Workers, on[w] = c, Posts(w)
        PROVE  [Promise(c)!Next]_<<posts[c], credits[c], Verdict(c)>>
    <3>1. posts[c] = 0
      BY <1>2, <2>1 DEF IInv, PostedOnce, Posts, Posting
    <3>2. posts'[c] = 1 /\ status' = status
      BY <1>2, <2>1, PostEffect DEF attemptVars
    <3>3. Verdict(c)' = Verdict(c)
      BY <3>2 DEF Verdict
    <3>4. status[c] \notin {"failed", "quarantined"}
      BY <1>2, <2>1 DEF IInv, ProvedClear, Clear, Posts, Posting
    <3>5. Verdict(c) # "none"
      BY <3>4 DEF Verdict
    <3> QED
      BY <2>0, <3>1, <3>2, <3>3, <3>5 DEF Promise!Next, Promise!Send
  <2>2. ASSUME Lates(c)
        PROVE  [Promise(c)!Next]_<<posts[c], credits[c], Verdict(c)>>
    <3>1. late[c] /\ posts' = posts /\ status' = status
      BY <2>2 DEF Lates, LatePost, attemptVars
    <3>2. posts[c] # 0 /\ posts[c] <= 1 /\ ~credits[c]
      BY <1>2, <3>1 DEF IInv, PostedOnce
    <3>3. posts[c] = 1
      BY <2>0, <3>2
    <3>4. Verdict(c)' = Verdict(c) /\ Verdict(c) # "none"
      <4>1. status[c] \notin {"failed", "quarantined"}
        BY <1>2, <3>1 DEF IInv, ProvedClear, Clear
      <4> QED
        BY <3>1, <4>1 DEF Verdict
    <3>5. CASE credits'[c]
      <4>1. credits'[c] = TRUE /\ credits[c] = FALSE
        BY <2>0, <3>2, <3>5
      <4> QED
        BY <3>1, <3>3, <3>4, <4>1 DEF Promise!Next, Promise!Happen
    <3>6. CASE ~credits'[c]
      <4>1. credits'[c] = credits[c]
        BY <2>0, <3>2, <3>6
      <4> QED
        BY <3>1, <3>4, <4>1
    <3> QED
      BY <3>5, <3>6
  <2>3. ASSUME posts'[c] = posts[c] /\ credits'[c] = credits[c] /\ late'[c] = late[c]
        PROVE  [Promise(c)!Next]_<<posts[c], credits[c], Verdict(c)>>
    <3>1. CASE status'[c] = status[c]
      <4>1. Verdict(c)' = Verdict(c)
        BY <3>1 DEF Verdict
      <4> QED
        BY <2>3, <4>1
    <3>2. CASE status'[c] # status[c]
      <4>1. status[c] \notin Terminal
        BY <1>2, <3>2, StatusIsFinal
      <4>2. Verdict(c) = "open"
        BY <4>1 DEF Verdict, Terminal
      <4>3. Verdict(c)' = "done" => credits[c]
        <5>1. status'[c] = "succeeded" => credits'[c]
          BY <1>2, SeenCreditStep DEF SeenCredit
        <5> QED
          BY <2>3, <5>1 DEF Verdict
      <4>4. Verdict(c)' = "none" => ~credits[c]
        <5>1. status'[c] \in {"failed", "quarantined"} => ~credits'[c]
          BY <1>2, ProvedClearStep DEF ProvedClear, Clear
        <5> QED
          BY <2>3, <5>1 DEF Verdict
      <4>5. Verdict(c)' \in {"open", "done", "none"}
        BY DEF Verdict
      <4> QED
        BY <2>3, <4>2, <4>3, <4>4, <4>5 DEF Promise!Next, Promise!Close
    <3> QED
      BY <3>1, <3>2
  <2> QED
    BY <1>2, <2>1, <2>2, <2>3, StripeStep
<1>3. IInv /\ [Next]_vars
        => [\A c \in Commands : [Promise(c)!Next]_<<posts[c], credits[c], Verdict(c)>>]_vars
  BY <1>2
<1> QED
  BY <1>1, <1>3, Invariant, PTL DEF Spec, OneCredit

==============================================================================

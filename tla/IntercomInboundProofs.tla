------------------------- MODULE IntercomInboundProofs -------------------------
(***************************************************************************)
(* Theorems about IntercomInbound, for any number of messages, closes,     *)
(* requests and sweeps, and any bound on faults.                           *)
(***************************************************************************)
EXTENDS IntercomInbound, FiniteSetTheorems, SequenceTheorems, TLAPS

-----------------------------------------------------------------------------
(* The inductive invariant.                                                *)

\* A message is one turn, and one that was acknowledged is a turn.
Distinct ==
  \A i, j \in DOMAIN turns : turns[i].message = turns[j].message => i = j

AcknowledgedIsStored == \A m \in acknowledged : Stored(m)

\* A request carries a message; a sweep works on an intent, which stands for a
\* notification of a close.
AtWork ==
  /\ \A h \in Handlers : hpc[h] = "append" => message[h] \in sent
  /\ \A e \in Closes : intent[e].state # "none" => e \in emitted
  /\ \A w \in Workers : wpc[w] # "idle" => close[w] \in emitted

\* A sweep that is about to apply a close, and whose version of the case is
\* current, has seen the conversation closed since the last message.
SeenClosed ==
  /\ conversation = "closed" => closedSince
  /\ \A w \in Workers : wpc[w] = "apply" /\ w \in fresh => closedSince

IInv ==
  /\ TypeOK /\ AtWork /\ Distinct /\ AcknowledgedIsStored /\ SeenClosed
  /\ CloseIsCurrent /\ ClosedHasNoWork

-----------------------------------------------------------------------------
(* The turns of the case.                                                  *)

Turn == [message : sent, state : TurnStates]

\* Turns keep their messages, and a new one has a message that is not stored.
TurnsGrow ==
  /\ turns' \in Seq(Turn)
  /\ Len(turns') \in {Len(turns), Len(turns) + 1}
  /\ \A i \in 1..Len(turns) : turns'[i].message = turns[i].message
  /\ Len(turns') = Len(turns) + 1 =>
       \A i \in 1..Len(turns) : turns[i].message # turns'[Len(turns')].message

LEMMA TurnsUnchanged ==
  ASSUME turns \in Seq(Turn), UNCHANGED turns
  PROVE  TurnsGrow
<1>1. Len(turns) \in Nat
  BY LenProperties
<1> QED
  BY <1>1 DEF TurnsGrow

LEMMA Appended ==
  ASSUME turns \in Seq(Turn), NEW s \in Seq(Turn), Len(s) = Len(turns),
         \A i \in 1..Len(turns) : s[i].message = turns[i].message,
         NEW m \in sent, ~Stored(m),
         turns' = Append(s, [message |-> m, state |-> "queued"])
  PROVE  TurnsGrow
<1> DEFINE t == [message |-> m, state |-> "queued"]
<1>1. t \in Turn
  BY DEF Turn, TurnStates
<1>2. Len(turns) \in Nat /\ DOMAIN turns = 1..Len(turns)
  BY LenProperties
<1>3. t.message = m
  OBVIOUS
<1> HIDE DEF t
<1>4. Append(s, t) \in Seq(Turn) /\ Len(Append(s, t)) = Len(s) + 1
  BY <1>1
<1>5. Append(s, t)[Len(s) + 1] = t
  BY <1>1
<1>6. \A i \in 1..Len(s) : Append(s, t)[i] = s[i]
  BY <1>1
<1>7. turns' = Append(s, t)
  BY DEF t
<1>8. \A i \in 1..Len(turns) : turns[i].message # m
  BY <1>2 DEF Stored
<1> QED
  BY <1>2, <1>3, <1>4, <1>5, <1>6, <1>7, <1>8 DEF TurnsGrow

LEMMA NewTurnGrows ==
  ASSUME turns \in Seq(Turn), turns = <<>>, NEW m \in sent, NewTurn(m)
  PROVE  TurnsGrow
<1>1. ~Stored(m)
  BY DEF Stored
<1> QED
  BY <1>1, Appended DEF NewTurn

\* A follow-up may end the wait of a turn.
LEMMA InvalidatedTurns ==
  ASSUME turns \in Seq(Turn)
  PROVE  LET s == [i \in DOMAIN turns |-> Invalidated(turns[i])]
         IN  s \in Seq(Turn) /\ Len(s) = Len(turns)
             /\ \A i \in 1..Len(turns) : s[i].message = turns[i].message
<1> DEFINE s == [i \in DOMAIN turns |-> Invalidated(turns[i])]
<1>1. Len(turns) \in Nat /\ DOMAIN turns = 1..Len(turns) /\ \A i \in 1..Len(turns) : turns[i] \in Turn
  BY LenProperties
<1>2. ASSUME NEW t \in Turn PROVE Invalidated(t) \in Turn /\ Invalidated(t).message = t.message
  BY DEF Invalidated, Turn, TurnStates
<1>3. s \in [1..Len(turns) -> Turn]
  BY <1>1, <1>2
<1>4. s \in Seq(Turn)
  BY <1>1, <1>3, SeqDef
<1>5. Len(s) = Len(turns)
  BY <1>1, <1>3, <1>4, LenProperties
<1> QED
  BY <1>1, <1>2, <1>4, <1>5

LEMMA AppendGrows ==
  ASSUME turns \in Seq(Turn), NEW h \in Handlers, message[h] \in sent, AppendFollowUp(h)
  PROVE  TurnsGrow
<1>1. CASE Seen(message[h])
  BY <1>1, TurnsUnchanged DEF AppendFollowUp
<1>2. CASE ~Seen(message[h])
  <2>1. turns' = Append([i \in DOMAIN turns |-> Invalidated(turns[i])],
                        [message |-> message[h], state |-> "queued"])
    BY <1>2 DEF AppendFollowUp
  <2>2. ~Stored(message[h])
    BY <1>2 DEF Seen
  <2> QED
    BY <2>1, <2>2, InvalidatedTurns, Appended
<1> QED
  BY <1>1, <1>2

LEMMA StateGrows ==
  ASSUME turns \in Seq(Turn), NEW i \in DOMAIN turns, NEW state \in TurnStates,
         turns' = [turns EXCEPT ![i].state = state]
  PROVE  TurnsGrow
<1>1. Len(turns) \in Nat /\ DOMAIN turns = 1..Len(turns) /\ turns[i] \in Turn
  BY LenProperties
<1>2. [turns[i] EXCEPT !.state = state] \in Turn
       /\ [turns[i] EXCEPT !.state = state].message = turns[i].message
  BY <1>1 DEF Turn
<1>3. turns' = [turns EXCEPT ![i] = [turns[i] EXCEPT !.state = state]]
  OBVIOUS
<1>4. turns' \in Seq(Turn) /\ Len(turns') = Len(turns)
  BY <1>1, <1>2, <1>3, ExceptSeq
<1>5. \A j \in 1..Len(turns) : turns'[j].message = turns[j].message
  BY <1>1, <1>2, <1>3
<1>6. Len(turns') # Len(turns) + 1
  <2>1. Len(turns) \in Nat
    BY <1>1
  <2>2. Len(turns') = Len(turns)
    BY <1>4
  <2>3. \A n \in Nat : n # n + 1
    OBVIOUS
  <2> QED
    BY ONLY <2>1, <2>2, <2>3
<1> QED
  BY <1>4, <1>5, <1>6 DEF TurnsGrow

LEMMA ConcludeGrows ==
  ASSUME turns \in Seq(Turn), NEW i \in DOMAIN turns, NEW state \in TurnStates, NEW v,
         Conclude(i, state, v)
  PROVE  TurnsGrow
  BY StateGrows DEF Conclude

-----------------------------------------------------------------------------
(* Type correctness.                                                       *)

IntentStates == {"none", "pending", "claimed", "deferred", "applied", "superseded"}
Intents == [state : IntentStates, owner : Workers \cup {None}, live : BOOLEAN]

RemoteTypeOK ==
  conversation \in {"open", "closed"} /\ sent \subseteq Messages /\ emitted \subseteq Closes
CaseTypeOK ==
  /\ status \in {"none", "processing", "waiting"} \cup Final
  /\ manual \in BOOLEAN /\ channel \in {"none", "open", "closed"}
FreshTypeOK == fresh \subseteq Workers
IntentTypeOK ==
  /\ intent \in [Closes -> Intents]
  /\ \A e \in Closes : intent[e].owner # None <=> intent[e].state = "claimed"
HandlerTypeOK ==
  /\ acknowledged \subseteq sent
  /\ hpc \in [Handlers -> {"idle", "append"}] /\ message \in [Handlers -> sent \cup {None}]
WorkerTypeOK ==
  /\ wpc \in [Workers -> {"idle", "snapshot", "get", "apply", "settle"}]
  /\ close \in [Workers -> emitted \cup {None}]
  /\ verdict \in [Workers -> {"none", "applied", "superseded", "deferred"}]
FaultTypeOK == faults \in 0..MaxFaults /\ crowded \in BOOLEAN

\* A sweep that reads the conversation has found a case.
Found == \A w \in Workers : wpc[w] \in {"get", "apply"} => turns # <<>>

AllTypesOK ==
  /\ RemoteTypeOK /\ turns \in Seq(Turn) /\ CaseTypeOK /\ FreshTypeOK /\ IntentTypeOK
  /\ HandlerTypeOK /\ WorkerTypeOK /\ FaultTypeOK /\ Found

\* The parts are the type invariant of the module.
LEMMA TypeParts == TypeOK <=> AllTypesOK
  BY DEF TypeOK, AllTypesOK, RemoteTypeOK, Turn, CaseTypeOK, FreshTypeOK, IntentTypeOK, Intents,
     IntentStates, HandlerTypeOK, WorkerTypeOK, FaultTypeOK, Found

\* What grows at Intercom does not disturb what is typed with it.
RemoteStays == UNCHANGED <<conversation, sent, emitted>>

LEMMA UnchangedType ==
  ASSUME AllTypesOK, RemoteStays
  PROVE  /\ RemoteTypeOK'
         /\ TurnsGrow => turns' \in Seq(Turn')
         /\ UNCHANGED <<status, manual, channel>> => CaseTypeOK'
         /\ UNCHANGED fresh => FreshTypeOK'
         /\ UNCHANGED intent => IntentTypeOK'
         /\ UNCHANGED handlerVars => HandlerTypeOK'
         /\ UNCHANGED workerVars => WorkerTypeOK'
         /\ UNCHANGED <<faults, crowded>> => FaultTypeOK'
<1> USE DEF AllTypesOK
<1>1. RemoteTypeOK'
  BY DEF RemoteStays, RemoteTypeOK
<1>2. TurnsGrow => turns' \in Seq(Turn')
  BY DEF TurnsGrow, Turn, RemoteStays
<1>3. UNCHANGED <<status, manual, channel>> => CaseTypeOK'
  BY DEF CaseTypeOK
<1>4. UNCHANGED fresh => FreshTypeOK'
  BY DEF FreshTypeOK
<1>5. UNCHANGED intent => IntentTypeOK'
  BY DEF IntentTypeOK
<1>6. UNCHANGED handlerVars => HandlerTypeOK'
  BY DEF HandlerTypeOK, handlerVars, RemoteStays
<1>7. UNCHANGED workerVars => WorkerTypeOK'
  BY DEF WorkerTypeOK, workerVars, RemoteStays
<1>8. UNCHANGED <<faults, crowded>> => FaultTypeOK'
  BY DEF FaultTypeOK
<1> QED
  BY <1>1, <1>2, <1>3, <1>4, <1>5, <1>6, <1>7, <1>8

\* A step that leaves the turns, or lets them grow, keeps what a sweep found.
LEMMA FoundStays ==
  ASSUME turns \in Seq(Turn), TurnsGrow, turns # <<>>
  PROVE  turns' # <<>>
<1>1. Len(turns) \in Nat \ {0}
  BY EmptySeq
<1>2. Len(turns') # 0
  BY <1>1 DEF TurnsGrow
<1> QED
  BY <1>2, EmptySeq

\* The messages and closes of Intercom become more.
LEMMA RemoteGrows ==
  ASSUME AllTypesOK, sent \subseteq sent', emitted \subseteq emitted', RemoteTypeOK',
         UNCHANGED <<turns, handlerVars, workerVars, intent, fresh, status, manual, faults, crowded>>
  PROVE  /\ turns' \in Seq(Turn') /\ HandlerTypeOK' /\ WorkerTypeOK' /\ IntentTypeOK'
         /\ FreshTypeOK' /\ FaultTypeOK' /\ Found'
<1> USE DEF AllTypesOK
<1>1. turns' \in Seq(Turn')
  <2>1. Turn \subseteq Turn'
    BY DEF Turn
  <2> QED
    BY <2>1, SeqMonotonic
<1>2. HandlerTypeOK'
  BY DEF HandlerTypeOK, handlerVars
<1>3. WorkerTypeOK' /\ Found'
  BY DEF WorkerTypeOK, workerVars, Found
<1>4. IntentTypeOK' /\ FreshTypeOK' /\ FaultTypeOK'
  BY DEF IntentTypeOK, FreshTypeOK, FaultTypeOK
<1> QED
  BY <1>1, <1>2, <1>3, <1>4

LEMMA IntercomType ==
  ASSUME AllTypesOK, Intercom
  PROVE  AllTypesOK'
<1> USE DEF AllTypesOK
<1>1. sent \subseteq sent' /\ emitted \subseteq emitted'
  BY DEF Intercom, Send, AdminClose, DeliverStatus, Closed
<1>2. RemoteTypeOK'
  BY DEF Intercom, Send, AdminClose, DeliverStatus, Closed, RemoteTypeOK, CaseTypeOK
<1>3. UNCHANGED <<turns, handlerVars, workerVars, intent, fresh, status, manual, faults, crowded>>
  BY DEF Intercom, Send, AdminClose, DeliverStatus, caseVars, projection
<1>4. CaseTypeOK'
  BY <1>3 DEF Intercom, Send, AdminClose, DeliverStatus, caseVars, projection, CaseTypeOK
<1> QED
  BY <1>1, <1>2, <1>3, <1>4, RemoteGrows

LEMMA ConcludeType ==
  ASSUME AllTypesOK, NEW i \in DOMAIN turns, NEW s \in TurnStates,
         NEW v \in Final \cup {"waiting", "processing"}, Conclude(i, s, v)
  PROVE  AllTypesOK' /\ TurnsGrow
<1> USE DEF AllTypesOK
<1>1. TurnsGrow
  BY ConcludeGrows
<1>2. RemoteStays /\ UNCHANGED <<manual, handlerVars, intent, workerVars, faults, crowded>>
  BY DEF Conclude, RemoteStays
<1>3. CaseTypeOK'
  <2>1. channel' \in {"none", "open", "closed"}
    BY DEF Conclude, CaseTypeOK
  <2> QED
    BY <1>2, <2>1 DEF Conclude, CaseTypeOK
<1>4. FreshTypeOK'
  BY DEF Conclude, Write, FreshTypeOK
<1>5. Found'
  BY <1>1, <1>2, FoundStays DEF Found, workerVars
<1> QED
  BY <1>1, <1>2, <1>3, <1>4, <1>5, UnchangedType

LEMMA CaseworkType ==
  ASSUME AllTypesOK, Casework
  PROVE  AllTypesOK' /\ TurnsGrow
<1>1. ASSUME NEW i \in DOMAIN turns, ExecuteTurn(i) \/ Decide(i) \/ Finish(i)
      PROVE  AllTypesOK' /\ TurnsGrow
  <2>1. {"ended", "waiting", "undecided", "decided", "unsettled"} \subseteq TurnStates
        /\ "escalated" \in Final
    BY DEF TurnStates, Final
  <2> QED
    BY <1>1, <2>1, ConcludeType DEF ExecuteTurn, Decide, Finish
<1>3. ASSUME NEW i \in DOMAIN turns, Reconcile(i) PROVE AllTypesOK' /\ TurnsGrow
  <2>1. "ended" \in TurnStates /\ "escalated" \in Final
    BY DEF TurnStates, Final
  <2>2. CASE Conclude(i, "ended", "escalated")
    BY <2>1, <2>2, ConcludeType
  <2>3. CASE /\ turns' = [turns EXCEPT ![i].state = "ended"] /\ Write
             /\ UNCHANGED <<crowded, conversation, sent, emitted, status, manual, channel, handlerVars,
                            intent, workerVars, faults, history>>
    <3>1. TurnsGrow
      BY <2>1, <2>3, StateGrows DEF AllTypesOK
    <3>2. RemoteStays /\ UNCHANGED <<status, manual, channel, handlerVars, intent, workerVars,
                                     faults, crowded>>
      BY <2>3 DEF RemoteStays
    <3>3. FreshTypeOK'
      BY <2>3 DEF Write, FreshTypeOK
    <3>4. Found'
      BY <3>1, <3>2, FoundStays DEF AllTypesOK, Found, workerVars
    <3> QED
      BY <3>1, <3>2, <3>3, <3>4, UnchangedType DEF AllTypesOK
  <2> QED
    BY <1>3, <2>2, <2>3 DEF Reconcile
<1>2. CASE ResolveManually
  <2>1. RemoteStays /\ UNCHANGED <<turns, handlerVars, intent, workerVars, faults, crowded>>
    BY <1>2 DEF ResolveManually, RemoteStays
  <2>2. TurnsGrow
    BY <2>1, TurnsUnchanged DEF AllTypesOK
  <2>3. CaseTypeOK' /\ FreshTypeOK'
    BY <1>2 DEF ResolveManually, Write, CaseTypeOK, FreshTypeOK, Final
  <2>4. Found'
    BY <2>1 DEF AllTypesOK, Found, workerVars
  <2> QED
    BY <2>1, <2>2, <2>3, <2>4, UnchangedType DEF AllTypesOK
<1> QED
  BY <1>1, <1>2, <1>3 DEF Casework

LEMMA RequestType ==
  ASSUME AllTypesOK, AtWork, NEW h \in Handlers, Request(h)
  PROVE  AllTypesOK' /\ TurnsGrow
<1> USE DEF AllTypesOK
<1>1. RemoteStays /\ UNCHANGED <<intent, workerVars, faults, crowded>>
  BY DEF Request, Accept, AppendFollowUp, HandlerDies, RemoteStays
<1>2. HandlerTypeOK'
  BY <1>1 DEF Request, Accept, AppendFollowUp, HandlerDies, Acknowledge, HandlerTypeOK, AtWork,
     RemoteStays
<1>3. TurnsGrow /\ CaseTypeOK' /\ FreshTypeOK'
  <2>1. ASSUME NEW m \in Messages, Accept(h, m) PROVE TurnsGrow /\ CaseTypeOK' /\ FreshTypeOK'
    <3>1. CASE turns = <<>>
      <4>1. NewTurn(m) /\ status' = "processing" /\ m \in sent /\ UNCHANGED <<manual, channel>>
        BY <2>1, <3>1 DEF Accept
      <4> QED
        BY <3>1, <4>1, NewTurnGrows DEF NewTurn, Write, CaseTypeOK, FreshTypeOK
    <3>2. CASE turns # <<>>
      BY <2>1, <3>2, TurnsUnchanged DEF Accept, CaseTypeOK, FreshTypeOK
    <3> QED
      BY <3>1, <3>2
  <2>2. CASE AppendFollowUp(h)
    <3>1. TurnsGrow
      BY <2>2, AppendGrows DEF AppendFollowUp, AtWork
    <3> QED
      BY <2>2, <3>1 DEF AppendFollowUp, Write, CaseTypeOK, FreshTypeOK
  <2>3. CASE HandlerDies(h)
    BY <2>3, TurnsUnchanged DEF HandlerDies, caseVars, projection, CaseTypeOK, FreshTypeOK
  <2> QED
    BY <2>1, <2>2, <2>3 DEF Request
<1>4. Found'
  BY <1>1, <1>3, FoundStays DEF Found, workerVars
<1> QED
  BY <1>1, <1>2, <1>3, <1>4, UnchangedType

\* The ways a sweep concludes or ends.
LEMMA ConclusionType ==
  ASSUME AllTypesOK, NEW w \in Workers, NEW r \in {"applied", "superseded", "deferred"},
         Conclusion(w, r), RemoteStays
  PROVE  WorkerTypeOK' /\ FreshTypeOK' /\ (UNCHANGED turns => Found')
  BY DEF AllTypesOK, Conclusion, WorkerTypeOK, FreshTypeOK, Found, RemoteStays

LEMMA FreeType ==
  ASSUME AllTypesOK, NEW w \in Workers, Free(w), RemoteStays
  PROVE  WorkerTypeOK' /\ (UNCHANGED turns => Found')
  BY DEF AllTypesOK, Free, WorkerTypeOK, Found, RemoteStays

\* An intent that ends has no owner.
LEMMA SettledType ==
  ASSUME AllTypesOK, AtWork, NEW w \in Workers, wpc[w] # "idle",
         NEW r \in {"none", "applied", "superseded", "deferred"},
         intent' = [intent EXCEPT ![close[w]] = Settled(r)]
  PROVE  IntentTypeOK'
<1>1. close[w] \in Closes
  BY DEF AtWork, AllTypesOK, RemoteTypeOK
<1>2. Settled(r) \in Intents /\ Settled(r).owner = None /\ Settled(r).state # "claimed"
  BY DEF Settled, Intents, IntentStates
<1> QED
  BY <1>1, <1>2 DEF AllTypesOK, IntentTypeOK

LEMMA SweepType ==
  ASSUME AllTypesOK, AtWork, NEW w \in Workers, Sweep(w)
  PROVE  AllTypesOK' /\ UNCHANGED turns
<1> USE DEF AllTypesOK
<1>1. RemoteStays /\ UNCHANGED <<turns, manual, channel, handlerVars>>
  BY DEF Sweep, Proceed, Claim, Snapshot, Get, GetFails, Apply, Settle, WorkerDies, RemoteStays,
     caseVars, projection
<1>2. TurnsGrow
  BY <1>1, TurnsUnchanged
<1>3. FaultTypeOK'
  <2>1. UNCHANGED crowded /\ (UNCHANGED faults \/ (faults < MaxFaults /\ faults' = faults + 1))
    BY DEF Sweep, Proceed, Claim, Snapshot, Get, GetFails, Apply, Settle, WorkerDies
  <2> QED
    BY <2>1, IntercomInboundAssumption DEF FaultTypeOK
<1>4. CaseTypeOK'
  BY DEF Sweep, Proceed, Claim, Snapshot, Get, GetFails, Apply, Settle, WorkerDies,
     caseVars, projection, CaseTypeOK, Final
<1> DEFINE Rest == WorkerTypeOK' /\ FreshTypeOK' /\ IntentTypeOK' /\ Found'
<1>5. ASSUME NEW e \in Closes, Claim(w, e) PROVE Rest
  <2>1. e \in emitted
    BY <1>5 DEF Claim, Claimable, AtWork
  <2>2. [state |-> "claimed", owner |-> w, live |-> TRUE] \in Intents /\ w # None
    BY IntercomInboundAssumption DEF Intents, IntentStates
  <2>3. IntentTypeOK'
    BY <1>5, <2>2 DEF Claim, IntentTypeOK
  <2> QED
    BY <1>1, <1>5, <2>1, <2>3
    DEF Claim, WorkerTypeOK, caseVars, FreshTypeOK, Found, RemoteStays
<1>6. ASSUME Snapshot(w) PROVE Rest
  <2>1. CASE Known
    BY <1>1, <1>6, <2>1
    DEF Snapshot, Known, WorkerTypeOK, FreshTypeOK, IntentTypeOK, Found, RemoteStays
  <2>2. CASE ~Known
    BY <1>1, <1>6, <2>2, ConclusionType DEF Snapshot, IntentTypeOK
  <2> QED
    BY <2>1, <2>2
<1>7. ASSUME Get(w) PROVE Rest
  <2>1. CASE conversation = "closed"
    BY <1>1, <1>7, <2>1
    DEF Get, WorkerTypeOK, FreshTypeOK, IntentTypeOK, Found, RemoteStays
  <2>2. CASE conversation # "closed"
    BY <1>1, <1>7, <2>2, ConclusionType DEF Get, IntentTypeOK
  <2> QED
    BY <2>1, <2>2
<1>8. ASSUME GetFails(w) PROVE Rest
  BY <1>1, <1>8, ConclusionType DEF GetFails, IntentTypeOK
<1>9. ASSUME Apply(w) PROVE Rest
  <2> DEFINE may == Current(w) /\ ~Blocked /\ ~ResolvedByStaff /\ Owns(w)
  <2>1. CASE may
    <3>1. fresh' = {} /\ intent' = [intent EXCEPT ![close[w]] = Settled("applied")] /\ Free(w)
      BY <1>9, <2>1 DEF Apply, Write
    <3> QED
      BY <1>1, <1>9, <3>1, FreeType, SettledType DEF Apply, FreshTypeOK
  <2>2. CASE ~may
    <3>1. UNCHANGED intent /\ \E r \in {"applied", "deferred"} : Conclusion(w, r)
      BY <1>9, <2>2 DEF Apply
    <3> QED
      BY <1>1, <3>1, ConclusionType DEF IntentTypeOK
  <2> QED
    BY <2>1, <2>2
<1>10. ASSUME Settle(w) PROVE Rest
  <2>1. IntentTypeOK'
    <3>1. verdict[w] \in {"none", "applied", "superseded", "deferred"}
      BY DEF WorkerTypeOK
    <3> QED
      BY <1>10, <3>1, SettledType DEF Settle, IntentTypeOK
  <2> QED
    BY <1>1, <1>10, <2>1, FreeType DEF Settle, caseVars, FreshTypeOK
<1>11. ASSUME WorkerDies(w) PROVE Rest
  BY <1>1, <1>11, FreeType DEF WorkerDies, IntentTypeOK, FreshTypeOK
<1>12. Rest
  BY <1>5, <1>6, <1>7, <1>8, <1>9, <1>10, <1>11 DEF Sweep, Proceed
<1> QED
  BY <1>1, <1>2, <1>3, <1>4, <1>12, UnchangedType

LEMMA IntentStepType ==
  ASSUME AllTypesOK, NEW e \in Closes, Record(e) \/ LeaseExpires(e)
  PROVE  AllTypesOK' /\ UNCHANGED turns
<1> USE DEF AllTypesOK
<1>1. RemoteStays /\ UNCHANGED <<turns, fresh, status, manual, channel, handlerVars, workerVars>>
  BY DEF Record, LeaseExpires, RemoteStays, caseVars, projection
<1>2. IntentTypeOK'
  <2>1. CASE Record(e)
    <3>1. [intent[e] EXCEPT !.state = "pending"] \in Intents
      BY DEF IntentTypeOK, Intents, IntentStates
    <3> QED
      BY <2>1, <3>1 DEF Record, IntentTypeOK, Intents
  <2>2. CASE LeaseExpires(e)
    <3>1. [intent[e] EXCEPT !.live = FALSE] \in Intents
      BY DEF IntentTypeOK, Intents
    <3> QED
      BY <2>2, <3>1 DEF LeaseExpires, IntentTypeOK, Intents
  <2> QED
    BY <2>1, <2>2
<1>3. FaultTypeOK'
  <2>1. UNCHANGED crowded /\ (UNCHANGED faults \/ (faults < MaxFaults /\ faults' = faults + 1))
    BY DEF Record, LeaseExpires
  <2> QED
    BY <2>1, IntercomInboundAssumption DEF FaultTypeOK
<1>4. TurnsGrow /\ Found'
  BY <1>1, TurnsUnchanged DEF Found, workerVars
<1> QED
  BY <1>1, <1>2, <1>3, <1>4, UnchangedType

\* Every step keeps the types, and the turns.
LEMMA TypeStep ==
  ASSUME IInv, [Next]_vars
  PROVE  TypeOK' /\ TurnsGrow
<1>1. AllTypesOK /\ AtWork
  BY TypeParts DEF IInv
<1>2. AllTypesOK' /\ TurnsGrow
  <2>1. UNCHANGED turns => TurnsGrow
    BY <1>1, TurnsUnchanged DEF AllTypesOK
  <2>2. CASE Intercom
    <3>1. UNCHANGED turns
      BY <2>2 DEF Intercom, Send, AdminClose, DeliverStatus, caseVars, projection
    <3> QED
      BY <1>1, <2>1, <2>2, <3>1, IntercomType
  <2>3. CASE UNCHANGED vars
    <3>1. RemoteStays /\ UNCHANGED <<turns, fresh, status, manual, channel, handlerVars, intent,
                                     workerVars, faults, crowded>>
      BY <2>3 DEF vars, RemoteStays, caseVars, projection
    <3>2. Found'
      BY <1>1, <3>1 DEF AllTypesOK, Found, workerVars
    <3> QED
      BY <1>1, <2>1, <3>1, <3>2, UnchangedType DEF AllTypesOK
  <2>4. CASE Crowd
    <3>1. RemoteStays /\ UNCHANGED <<turns, fresh, status, manual, channel, handlerVars, intent,
                                     workerVars>>
      BY <2>4 DEF Crowd, RemoteStays, caseVars, projection
    <3>2. Found' /\ FaultTypeOK'
      BY <1>1, <2>4, <3>1 DEF Crowd, AllTypesOK, Found, FaultTypeOK, workerVars
    <3> QED
      BY <1>1, <2>1, <3>1, <3>2, UnchangedType DEF AllTypesOK
  <2> QED
    BY <1>1, <2>1, <2>2, <2>3, <2>4, CaseworkType, RequestType, SweepType, IntentStepType DEF Next
<1>3. AllTypesOK' => TypeOK'
  BY TypeParts, PTL
<1> QED
  BY <1>2, <1>3

-----------------------------------------------------------------------------
(* The parts of the invariant.                                             *)

LEMMA TurnDomain ==
  ASSUME IInv, [Next]_vars
  PROVE  /\ Len(turns) \in Nat /\ DOMAIN turns = 1..Len(turns)
         /\ Len(turns') \in Nat /\ DOMAIN (turns') = 1..Len(turns')
<1>1. turns \in Seq(Turn) /\ turns' \in Seq(Turn)
  BY TypeStep, TypeParts DEF IInv, AllTypesOK, TurnsGrow
<1> QED
  BY <1>1, LenProperties

LEMMA DistinctStep ==
  ASSUME IInv, [Next]_vars
  PROVE  Distinct'
<1> DEFINE n == Len(turns)
<1>1. /\ n \in Nat /\ DOMAIN turns = 1..n
      /\ DOMAIN (turns') = 1..Len(turns')
      /\ Len(turns') = n \/ Len(turns') = n + 1
      /\ \A i \in 1..n : turns'[i].message = turns[i].message
      /\ Len(turns') = n + 1 => \A i \in 1..n : turns[i].message # turns'[n + 1].message
  BY TurnDomain, TypeStep DEF TurnsGrow
<1>2. \A i, j \in 1..n : turns[i].message = turns[j].message => i = j
  BY <1>1 DEF IInv, Distinct
<1> HIDE DEF n
<1>3. ASSUME NEW i \in 1..Len(turns'), NEW j \in 1..Len(turns'),
             turns'[i].message = turns'[j].message
      PROVE  i = j
  <2>0. ASSUME NEW l, l = n \/ l = n + 1, n \in Nat, NEW k \in 1..l
        PROVE  k \in 1..n \/ (k = n + 1 /\ l = n + 1)
    BY ONLY <2>0
  <2>1. i \in 1..n \/ (i = n + 1 /\ Len(turns') = n + 1)
    BY <1>1, <1>3, <2>0
  <2>2. j \in 1..n \/ (j = n + 1 /\ Len(turns') = n + 1)
    BY <1>1, <1>3, <2>0
  <2> QED
    BY <1>1, <1>2, <1>3, <2>1, <2>2
<1> QED
  BY <1>1, <1>3 DEF Distinct

\* What is a turn stays one.
LEMMA StoredStays ==
  ASSUME IInv, [Next]_vars, NEW m, Stored(m)
  PROVE  Stored(m)'
<1>1. PICK i \in 1..Len(turns) : turns[i].message = m
  BY TurnDomain DEF Stored
<1>2. turns'[i].message = m
  BY <1>1, TypeStep DEF TurnsGrow
<1>3. i \in 1..Len(turns')
  <2>1. Len(turns') = Len(turns) \/ Len(turns') = Len(turns) + 1
    BY TypeStep DEF TurnsGrow
  <2> QED
    BY <1>1, <2>1, TurnDomain
<1> QED
  BY <1>2, <1>3, TurnDomain DEF Stored

\* A turn that is appended stores its message.
LEMMA StoresNew ==
  ASSUME IInv, [Next]_vars, NEW m, NEW s \in Seq(Turn),
         turns' = Append(s, [message |-> m, state |-> "queued"])
  PROVE  Stored(m)'
<1>1. Len(s) \in Nat
  BY LenProperties
<1>2. Len(turns') = Len(s) + 1 /\ turns'[Len(s) + 1] = [message |-> m, state |-> "queued"]
  OBVIOUS
<1>3. Len(s) + 1 \in DOMAIN (turns')
  BY <1>1, <1>2, TurnDomain
<1> QED
  BY <1>2, <1>3 DEF Stored

LEMMA AcknowledgedIsStoredStep ==
  ASSUME IInv, [Next]_vars
  PROVE  AcknowledgedIsStored'
<1>0. turns \in Seq(Turn) /\ AcknowledgedIsStored
  BY TypeParts DEF IInv, AllTypesOK
<1>1. ASSUME acknowledged' \subseteq acknowledged PROVE AcknowledgedIsStored'
  BY <1>0, <1>1, StoredStays DEF AcknowledgedIsStored, Stored
<1>2. ASSUME NEW m, acknowledged' = acknowledged \cup {m}, Stored(m)' PROVE AcknowledgedIsStored'
  BY <1>0, <1>2, StoredStays DEF AcknowledgedIsStored, Stored
<1>3. ASSUME NEW h \in Handlers, NEW m \in Messages, Accept(h, m) PROVE AcknowledgedIsStored'
  <2>1. CASE turns = <<>>
    <3>1. turns' = Append(turns, [message |-> m, state |-> "queued"])
      BY <1>3, <2>1 DEF Accept, NewTurn
    <3> QED
      BY <1>0, <1>2, <1>3, <2>1, <3>1, StoresNew DEF Accept, Acknowledge
  <2>2. CASE turns # <<>> /\ Stored(m)
    BY <1>2, <1>3, <2>2, StoredStays DEF Accept, Acknowledge
  <2>3. CASE turns # <<>> /\ ~Stored(m)
    BY <1>1, <1>3, <2>3 DEF Accept
  <2> QED
    BY <2>1, <2>2, <2>3
<1>4. ASSUME NEW h \in Handlers, AppendFollowUp(h) PROVE AcknowledgedIsStored'
  <2>1. acknowledged' = acknowledged \cup {message[h]}
    BY <1>4 DEF AppendFollowUp, Acknowledge
  <2>2. ASSUME NEW m, m = message[h] PROVE Stored(m)'
    <3>1. CASE Stored(m)
      BY <3>1, StoredStays
    <3>2. CASE ~Stored(m)
      <4>1. turns' = Append([i \in DOMAIN turns |-> Invalidated(turns[i])],
                            [message |-> m, state |-> "queued"])
        BY <1>4, <2>2, <3>2 DEF AppendFollowUp, Seen, Stored
      <4> QED
        BY <1>0, <4>1, StoresNew, InvalidatedTurns
    <3> QED
      BY <3>1, <3>2
  <2> QED
    BY <1>2, <2>1, <2>2
<1>5. ASSUME NEW h \in Handlers, HandlerDies(h) PROVE AcknowledgedIsStored'
  BY <1>1, <1>5 DEF HandlerDies
<1>6. ASSUME UNCHANGED handlerVars PROVE AcknowledgedIsStored'
  BY <1>1, <1>6 DEF handlerVars
<1>7. ASSUME NEW w \in Workers, Sweep(w) PROVE UNCHANGED handlerVars
  BY <1>7 DEF Sweep, Proceed, Claim, Snapshot, Get, GetFails, Apply, Settle, WorkerDies
<1>8. Intercom \/ Casework \/ Crowd => UNCHANGED handlerVars
  BY DEF Intercom, Send, AdminClose, DeliverStatus, Casework, ResolveManually, ExecuteTurn,
     Decide, Finish, Reconcile, Conclude, Crowd
<1>9. ASSUME NEW e \in Closes, Record(e) \/ LeaseExpires(e) PROVE UNCHANGED handlerVars
  BY <1>9 DEF Record, LeaseExpires
<1> QED
  BY <1>3, <1>4, <1>5, <1>6, <1>7, <1>8, <1>9 DEF Next, vars, Request

\* A step of one sweep leaves the others where they are.
LEMMA OneSweepMoves ==
  ASSUME IInv, [Next]_vars
  PROVE  \A w \in Workers : \/ Sweep(w)
                            \/ wpc'[w] = wpc[w] /\ close'[w] = close[w]
<1>0. WorkerTypeOK
  BY TypeParts DEF IInv, AllTypesOK
<1>1. ASSUME NEW w \in Workers, Sweep(w), NEW v \in Workers, v # w
      PROVE  wpc'[v] = wpc[v] /\ close'[v] = close[v]
  BY <1>0, <1>1 DEF Sweep, Proceed, Claim, Snapshot, Get, GetFails, Apply, Settle, WorkerDies,
     Conclusion, Free, WorkerTypeOK
<1>2. (\E w \in Workers : Sweep(w)) \/ UNCHANGED workerVars
  <2>1. ASSUME NEW h \in Handlers, Request(h) PROVE UNCHANGED workerVars
    BY <2>1 DEF Request, Accept, AppendFollowUp, HandlerDies
  <2>2. Intercom \/ Casework \/ Crowd => UNCHANGED workerVars
    BY DEF Intercom, Send, AdminClose, DeliverStatus, Casework, ResolveManually, ExecuteTurn,
       Decide, Finish, Reconcile, Conclude, Crowd
  <2>3. ASSUME NEW e \in Closes, Record(e) \/ LeaseExpires(e) PROVE UNCHANGED workerVars
    BY <2>3 DEF Record, LeaseExpires
  <2> QED
    BY <2>1, <2>2, <2>3 DEF Next, vars
<1> QED
  BY <1>1, <1>2 DEF workerVars

\* Nothing that Intercom has is forgotten.
LEMMA RemoteOnlyGrows ==
  ASSUME [Next]_vars
  PROVE  sent \subseteq sent' /\ emitted \subseteq emitted'
<1>1. ASSUME NEW h \in Handlers, Request(h) PROVE UNCHANGED <<sent, emitted>>
  BY <1>1 DEF Request, Accept, AppendFollowUp, HandlerDies
<1>2. ASSUME NEW w \in Workers, Sweep(w) PROVE UNCHANGED <<sent, emitted>>
  BY <1>2 DEF Sweep, Proceed, Claim, Snapshot, Get, GetFails, Apply, Settle, WorkerDies
<1>3. Intercom \/ Casework \/ Crowd => sent \subseteq sent' /\ emitted \subseteq emitted'
  BY DEF Intercom, Send, AdminClose, DeliverStatus, Closed, Casework, ResolveManually,
     ExecuteTurn, Decide, Finish, Reconcile, Conclude, Crowd
<1>4. ASSUME NEW e \in Closes, Record(e) \/ LeaseExpires(e) PROVE UNCHANGED <<sent, emitted>>
  BY <1>4 DEF Record, LeaseExpires
<1> QED
  BY <1>1, <1>2, <1>3, <1>4 DEF Next, vars

LEMMA AtWorkStep ==
  ASSUME IInv, [Next]_vars
  PROVE  AtWork'
<1>0. HandlerTypeOK /\ IntentTypeOK /\ RemoteTypeOK /\ AtWork
  BY TypeParts DEF IInv, AllTypesOK
<1>1. ASSUME NEW h \in Handlers, hpc'[h] = "append" PROVE message'[h] \in sent'
  <2>1. CASE UNCHANGED handlerVars
    BY <1>0, <1>1, <2>1, RemoteOnlyGrows DEF handlerVars, AtWork
  <2>2. ASSUME NEW g \in Handlers, Request(g) PROVE message'[h] \in sent'
    BY <1>0, <1>1, <2>2, RemoteOnlyGrows
    DEF Request, Accept, AppendFollowUp, HandlerDies, HandlerTypeOK, AtWork
  <2>3. ASSUME NEW w \in Workers, Sweep(w) PROVE UNCHANGED handlerVars
    BY <2>3 DEF Sweep, Proceed, Claim, Snapshot, Get, GetFails, Apply, Settle, WorkerDies
  <2>4. Intercom \/ Casework \/ Crowd => UNCHANGED handlerVars
    BY DEF Intercom, Send, AdminClose, DeliverStatus, Casework, ResolveManually, ExecuteTurn,
       Decide, Finish, Reconcile, Conclude, Crowd
  <2>5. ASSUME NEW e \in Closes, Record(e) \/ LeaseExpires(e) PROVE UNCHANGED handlerVars
    BY <2>5 DEF Record, LeaseExpires
  <2> QED
    BY <2>1, <2>2, <2>3, <2>4, <2>5 DEF Next, vars
<1>2. ASSUME NEW w \in Workers, wpc'[w] # "idle" PROVE close'[w] \in emitted'
  <2>0. WorkerTypeOK
    BY TypeParts DEF IInv, AllTypesOK
  <2>1. CASE wpc'[w] = wpc[w] /\ close'[w] = close[w]
    BY <1>0, <1>2, <2>1, RemoteOnlyGrows DEF AtWork
  <2>2. ASSUME NEW e \in Closes, Claim(w, e) PROVE close'[w] \in emitted'
    <3>1. e \in emitted /\ close'[w] = e
      BY <1>0, <2>0, <2>2 DEF Claim, Claimable, AtWork, WorkerTypeOK
    <3> QED
      BY <3>1, RemoteOnlyGrows
  <2>3. CASE Proceed(w) \/ GetFails(w)
    <3>1. wpc[w] # "idle" /\ close'[w] = close[w]
      BY <1>2, <2>0, <2>3
      DEF Proceed, Snapshot, Get, GetFails, Apply, Settle, Conclusion, Free, WorkerTypeOK
    <3> QED
      BY <1>0, <3>1, RemoteOnlyGrows DEF AtWork
  <2>4. CASE WorkerDies(w)
    BY <1>2, <2>0, <2>4 DEF WorkerDies, Free, WorkerTypeOK
  <2> QED
    BY <2>1, <2>2, <2>3, <2>4, OneSweepMoves DEF Sweep
<1>3. ASSUME NEW e \in Closes, intent'[e].state # "none" PROVE e \in emitted'
  <2>1. e \in emitted
    <3>1. CASE UNCHANGED intent
      BY <1>0, <1>3, <3>1 DEF AtWork
    <3>2. ASSUME NEW w \in Workers, Sweep(w), ~UNCHANGED intent PROVE e \in emitted
      <4>1. ASSUME NEW d \in Closes, Claim(w, d) PROVE e \in emitted
        BY <1>0, <1>3, <4>1 DEF Claim, Claimable, IntentTypeOK, AtWork
      <4>2. CASE Apply(w) \/ Settle(w)
        <5>1. PICK r : wpc[w] # "idle" /\ intent' = [intent EXCEPT ![close[w]] = Settled(r)]
          BY <3>2, <4>2 DEF Apply, Settle
        <5>2. close[w] \in emitted /\ (e # close[w] => intent'[e] = intent[e])
          BY <1>0, <5>1 DEF IntentTypeOK, AtWork
        <5> QED
          BY <1>0, <1>3, <5>2 DEF AtWork
      <4>3. CASE Snapshot(w) \/ Get(w) \/ GetFails(w) \/ WorkerDies(w)
        BY <3>2, <4>3 DEF Snapshot, Get, GetFails, WorkerDies
      <4> QED
        BY <3>2, <4>1, <4>2, <4>3 DEF Sweep, Proceed
    <3>3. ASSUME NEW d \in Closes, Record(d) PROVE e \in emitted
      BY <1>0, <1>3, <3>3 DEF Record, IntentTypeOK, AtWork
    <3>4. ASSUME NEW d \in Closes, LeaseExpires(d) PROVE e \in emitted
      <4>1. intent'[e].state = intent[e].state
        BY <1>0, <3>4 DEF LeaseExpires, IntentTypeOK, Intents
      <4> QED
        BY <1>0, <1>3, <4>1 DEF AtWork
    <3>5. ASSUME NEW h \in Handlers, Request(h) PROVE UNCHANGED intent
      BY <3>5 DEF Request, Accept, AppendFollowUp, HandlerDies
    <3>6. Intercom \/ Casework \/ Crowd => UNCHANGED intent
      BY DEF Intercom, Send, AdminClose, DeliverStatus, Casework, ResolveManually, ExecuteTurn,
         Decide, Finish, Reconcile, Conclude, Crowd
    <3> QED
      BY <3>1, <3>2, <3>3, <3>4, <3>5, <3>6 DEF Next, vars
  <2> QED
    BY <2>1, RemoteOnlyGrows
<1> QED
  BY <1>1, <1>2, <1>3 DEF AtWork

\* The history of closes, and the versions that are current, by step.
LEMMA SeenClosedStep ==
  ASSUME IInv, [Next]_vars
  PROVE  SeenClosed'
<1>0. AllTypesOK /\ SeenClosed
  BY TypeParts DEF IInv
<1> DEFINE Sees == \A w \in Workers : wpc'[w] = "apply" /\ w \in fresh' => closedSince'
           Has == conversation' = "closed" => closedSince'
<1>1. ASSUME closedSince => closedSince', UNCHANGED <<wpc, fresh>> PROVE Sees
  BY <1>0, <1>1 DEF SeenClosed
<1>2. ASSUME fresh' = {} PROVE Sees
  BY <1>2
<1>3. CASE Intercom
  <2>1. (closedSince => closedSince') /\ UNCHANGED <<wpc, fresh>>
    BY <1>3 DEF Intercom, Send, AdminClose, DeliverStatus, Closed, workerVars, caseVars
  <2>2. Has
    BY <1>0, <1>3
    DEF Intercom, Send, AdminClose, DeliverStatus, Closed, SeenClosed, AllTypesOK, RemoteTypeOK
  <2> QED
    BY <1>1, <2>1, <2>2 DEF SeenClosed
<1>4. ASSUME NEW h \in Handlers, Request(h) PROVE SeenClosed'
  <2>1. UNCHANGED <<conversation, wpc>>
    BY <1>4 DEF Request, Accept, AppendFollowUp, HandlerDies, workerVars
  <2>2. UNCHANGED <<fresh, closedSince>>
        \/ (fresh' = {} /\ closedSince' = (conversation = "closed"))
    BY <1>4
    DEF Request, Accept, AppendFollowUp, HandlerDies, NewTurn, Write, caseVars, history
  <2> QED
    BY <1>0, <1>1, <1>2, <2>1, <2>2 DEF SeenClosed
<1>5. CASE Casework
  <2>1. UNCHANGED <<conversation, closedSince>> /\ fresh' = {}
    BY <1>5 DEF Casework, ResolveManually, ExecuteTurn, Decide, Finish,
        Reconcile, Conclude, Write, history
  <2> QED
    BY <1>0, <1>2, <2>1 DEF SeenClosed
<1>6. ASSUME NEW w \in Workers, Sweep(w) PROVE SeenClosed'
  <2>1. UNCHANGED <<conversation, closedSince>>
    BY <1>6
    DEF Sweep, Proceed, Claim, Snapshot, Get, GetFails, Apply, Settle, WorkerDies, history
  <2>2. ASSUME NEW v \in Workers, wpc'[v] = "apply", v \in fresh' PROVE closedSince'
    <3>1. CASE wpc[v] = "apply" /\ v \in fresh
      BY <1>0, <2>1, <3>1 DEF SeenClosed
    <3>2. CASE conversation = "closed"
      BY <1>0, <2>1, <3>2 DEF SeenClosed
    <3>3. CASE conversation # "closed" /\ ~(wpc[v] = "apply" /\ v \in fresh)
      BY <1>0, <1>6, <2>2, <3>3
      DEF Sweep, Proceed, Claim, Snapshot, Get, GetFails, Apply, Settle, WorkerDies, Conclusion,
          Free, Write, caseVars, AllTypesOK, WorkerTypeOK
    <3> QED
      BY <3>1, <3>2, <3>3
  <2> QED
    BY <1>0, <2>1, <2>2 DEF SeenClosed
<1>7. ASSUME NEW e \in Closes, Record(e) \/ LeaseExpires(e) PROVE SeenClosed'
  BY <1>0, <1>7 DEF Record, LeaseExpires, caseVars, workerVars, history, SeenClosed
<1>8. CASE Crowd \/ UNCHANGED vars
  BY <1>0, <1>8 DEF Crowd, vars, caseVars, workerVars, history, SeenClosed
<1> QED
  BY <1>3, <1>4, <1>5, <1>6, <1>7, <1>8 DEF Next

\* A case that a close resolves has been closed since the last message, and
\* has no turn with anything left to do.
LEMMA JustifiedStep ==
  ASSUME IInv, [Next]_vars
  PROVE  CloseIsCurrent' /\ ClosedHasNoWork'
<1>0. SeenClosed /\ CloseIsCurrent /\ ClosedHasNoWork
  BY DEF IInv
<1>1. ASSUME byClose' => byClose, closedSince => closedSince', UNCHANGED turns
      PROVE  CloseIsCurrent' /\ ClosedHasNoWork'
  BY <1>0, <1>1 DEF CloseIsCurrent, ClosedHasNoWork
<1>2. ASSUME ~byClose' PROVE CloseIsCurrent' /\ ClosedHasNoWork'
  BY <1>2 DEF CloseIsCurrent, ClosedHasNoWork
<1>3. CASE Intercom
  BY <1>1, <1>3 DEF Intercom, Send, AdminClose, DeliverStatus, Closed, caseVars, projection
<1>4. ASSUME NEW h \in Handlers, Request(h) PROVE CloseIsCurrent' /\ ClosedHasNoWork'
  <2>1. ~byClose' \/ UNCHANGED <<byClose, closedSince, turns>>
    BY <1>4
    DEF Request, Accept, AppendFollowUp, HandlerDies, NewTurn, caseVars, projection, history
  <2> QED
    BY <1>1, <1>2, <2>1
<1>5. CASE Casework
  <2>1. ~byClose'
    <3>1. ASSUME NEW i \in DOMAIN turns, Reconcile(i) PROVE ~byClose'
      BY <1>0, <3>1 DEF Reconcile, Conclude, ClosedHasNoWork, history
    <3> QED
      BY <1>5, <3>1 DEF Casework, ResolveManually, ExecuteTurn, Decide, Finish, Conclude
  <2> QED
    BY <1>2, <2>1
<1>6. ASSUME NEW w \in Workers, Sweep(w) PROVE CloseIsCurrent' /\ ClosedHasNoWork'
  <2>1. UNCHANGED <<turns, closedSince>>
    BY <1>6
    DEF Sweep, Proceed, Claim, Snapshot, Get, GetFails, Apply, Settle, WorkerDies, history,
        caseVars, projection
  <2>2. CASE UNCHANGED byClose
    BY <1>1, <2>1, <2>2
  <2>3. CASE Apply(w) /\ ~UNCHANGED byClose
    <3>1. wpc[w] = "apply" /\ w \in fresh /\ ~Blocked
      BY <2>3 DEF Apply, Current
    <3> QED
      BY <1>0, <2>1, <3>1 DEF SeenClosed, CloseIsCurrent, ClosedHasNoWork, Blocked
  <2> QED
    BY <1>6, <2>2, <2>3 DEF Sweep, Proceed, Claim, Snapshot, Get, GetFails, Settle, WorkerDies, history
<1>7. ASSUME NEW e \in Closes, Record(e) \/ LeaseExpires(e)
      PROVE  CloseIsCurrent' /\ ClosedHasNoWork'
  BY <1>1, <1>7 DEF Record, LeaseExpires, caseVars, projection, history
<1>8. CASE Crowd \/ UNCHANGED vars
  BY <1>1, <1>8 DEF Crowd, vars, caseVars, projection, history
<1> QED
  BY <1>3, <1>4, <1>5, <1>6, <1>7, <1>8 DEF Next

-----------------------------------------------------------------------------
(* The theorems.                                                           *)

LEMMA InitInvariant == Init => IInv
<1> SUFFICES ASSUME Init PROVE IInv
  OBVIOUS
<1>1. turns \in Seq(Turn) /\ DOMAIN turns = {}
  BY EmptySeq DEF Init
<1>2. RemoteTypeOK /\ CaseTypeOK /\ FreshTypeOK /\ HandlerTypeOK /\ WorkerTypeOK /\ Found
  BY DEF Init, RemoteTypeOK, CaseTypeOK, FreshTypeOK, HandlerTypeOK, WorkerTypeOK, Found
<1>3. IntentTypeOK
  BY DEF Init, IntentTypeOK, Intents, IntentStates, Unclaimed
<1>4. FaultTypeOK
  <2>1. faults \in 0..MaxFaults
    BY IntercomInboundAssumption DEF Init
  <2>2. crowded \in BOOLEAN
    BY Zenon DEF Init
  <2> QED
    BY <2>1, <2>2 DEF FaultTypeOK
<1>5. AtWork
  BY DEF Init, AtWork, Unclaimed
<1>6. SeenClosed /\ CloseIsCurrent /\ ClosedHasNoWork /\ AcknowledgedIsStored
  BY DEF Init, SeenClosed, CloseIsCurrent, ClosedHasNoWork, AcknowledgedIsStored
<1>7. Distinct
  BY <1>1 DEF Distinct
<1> QED
  BY <1>1, <1>2, <1>3, <1>4, <1>5, <1>6, <1>7, TypeParts DEF IInv, AllTypesOK

LEMMA InvariantStep == IInv /\ [Next]_vars => IInv'
  BY TypeStep, DistinctStep, AcknowledgedIsStoredStep, AtWorkStep, SeenClosedStep, JustifiedStep
  DEF IInv

LEMMA Invariant == Spec => []IInv
  BY InitInvariant, InvariantStep, PTL DEF Spec

\* case-store-cases.ts: however often and however concurrently a notification
\* arrives, its message is one turn of the case, and none that was
\* acknowledged is lost.
THEOREM OneTurn == Spec => []OneTurnPerMessage
<1>1. IInv => OneTurnPerMessage
  <2> SUFFICES ASSUME IInv, NEW m \in Messages
               PROVE  LET copies == {i \in DOMAIN turns : turns[i].message = m}
                      IN  Cardinality(copies) <= 1 /\ (m \in acknowledged => copies # {})
    BY DEF OneTurnPerMessage
  <2> DEFINE copies == {i \in DOMAIN turns : turns[i].message = m}
  <2>1. Cardinality(copies) <= 1
    <3>1. CASE copies = {}
      BY <3>1, FS_EmptySet
    <3>2. CASE copies # {}
      <4>1. PICK i \in copies : TRUE
        BY <3>2
      <4>2. copies = {i}
        BY <4>1 DEF IInv, Distinct
      <4>3. Cardinality(copies) = 1
        BY <4>2, FS_Singleton, Zenon
      <4> QED
        BY <4>3
    <3> QED
      BY <3>1, <3>2
  <2>2. m \in acknowledged => copies # {}
    BY DEF IInv, AcknowledgedIsStored, Stored
  <2> QED
    BY <2>1, <2>2
<1> QED
  BY <1>1, Invariant, PTL

\* intercom-close-recovery.ts and resolution-blockers.ts: a close resolves the
\* case only if it is newer than the last message and nothing is under way.
THEOREM ClosesAreJustified == Spec => []CloseIsJustified
<1>1. IInv => CloseIsJustified
  BY DEF IInv, CloseIsJustified
<1> QED
  BY <1>1, Invariant, PTL

\* case-store-intercom-close.ts: whoever has lost an intent to another sweep
\* changes neither the case nor the intent.
THEOREM StaleSweepsAreSilent == Spec => StaleSweepIsSilent
<1>1. IInv /\ [Next]_vars =>
        [\A w \in Workers :
           wpc[w] \in {"apply", "settle"} /\ wpc'[w] # wpc[w] /\ intent[close[w]].owner # w
             => UNCHANGED <<status, byClose, intent>>]_vars
  <2> SUFFICES ASSUME IInv, [Next]_vars, NEW w \in Workers, wpc[w] \in {"apply", "settle"},
                      wpc'[w] # wpc[w], intent[close[w]].owner # w
               PROVE  UNCHANGED <<status, byClose, intent>>
    OBVIOUS
  <2>1. Sweep(w)
    BY OneSweepMoves
  <2>2. ~Owns(w)
    BY DEF Owns
  <2>3. CASE Apply(w)
    BY <2>2, <2>3 DEF Apply
  <2>4. CASE Settle(w)
    BY <2>2, <2>4 DEF Settle, caseVars, projection, history
  <2>5. CASE WorkerDies(w)
    BY <2>5 DEF WorkerDies, projection, history
  <2> QED
    BY <2>1, <2>3, <2>4, <2>5 DEF Sweep, Proceed, Claim, Snapshot, Get, GetFails
<1> QED
  BY <1>1, Invariant, PTL DEF Spec, StaleSweepIsSilent

==============================================================================

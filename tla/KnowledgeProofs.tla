--------------------------- MODULE KnowledgeProofs ---------------------------
(***************************************************************************)
(* Theorems about Knowledge, for any number of administrators, cases,      *)
(* articles, versions and generations, with and without vector search.     *)
(***************************************************************************)
EXTENDS Knowledge, TLAPS

USE KnowledgeAssumption

-----------------------------------------------------------------------------
(* The inductive invariant.                                                *)

\* What a caller has fetched was published when it was fetched.
FetchedWasPublished ==
  \A c \in Callers : \A s \in Sources :
    got[c][s] # 0 => <<s, got[c][s]>> \notin Withdrawn

\* What has ever served has documents and, in vector mode, its index.
ServedIsWhole ==
  \A g \in Generations : state[g] \in {"active", "rolled_back"} =>
    DocumentsOf(g) # {} /\ (Vector => g \in indexed)

\* What a caller is about to publish is sealed; while it is a candidate it
\* holds what the caller has fetched; before it serves it is indexed.
SealedBy(c) ==
  /\ chosen[c] \in Generations /\ state[chosen[c]] # "unused"
  /\ state[chosen[c]] = "candidate" => docs[chosen[c]] = got[c]
  /\ pc[c] = "activate" /\ Vector => chosen[c] \in indexed

CandidateIsSealed ==
  \A c \in Callers : pc[c] \in {"vector", "activate"} => SealedBy(c)

\* What a case searches has served, and what it reviews was found.
SearchedHasServed ==
  /\ \A c \in Callers : pc[c] = "read" =>
       chosen[c] \in Generations /\ state[chosen[c]] \in {"active", "rolled_back"}
  /\ \A c \in Cases : pc[c] = "review" => cited[c].gen # None

\* A base is never ahead of the pointer; a case has one only without a publication.
BaseIsPast ==
  /\ \A c \in Callers : base[c].revision <= serving.revision
  /\ \A c \in Cases : pc[c] \in {"list", "fetch", "vector", "activate"} => base[c].gen = None

\* While the base of a caller is current, what it has fetched is not older
\* than what the provider had when that base was published.
FetchedSinceBase ==
  /\ \A s \in Sources : before[s] <= source[s]
  /\ \A c \in Callers : pc[c] = "idle" => got[c] = Empty
  /\ \A c \in Callers : base[c] = serving =>
       \A s \in Sources : got[c][s] # 0 => got[c][s] >= before[s]

IInv ==
  /\ TypeOK /\ OneServing /\ FreshServing /\ CitedWasServed
  /\ FetchedWasPublished /\ ServedIsWhole /\ CandidateIsSealed /\ SearchedHasServed
  /\ BaseIsPast /\ FetchedSinceBase

-----------------------------------------------------------------------------
(* Type correctness.                                                       *)

\* The variables of the callers, and the others.
LocalTypeOK ==
  /\ pc \in [Callers -> Stages] /\ chosen \in [Callers -> Generations \cup {None}]
  /\ base \in [Callers -> [gen : Generations \cup {None}, revision : Nat]]
  /\ todo \in [Callers -> SUBSET Sources] /\ got \in [Callers -> Documents]

SharedTypeOK ==
  /\ source \in [Sources -> Versions] /\ before \in [Sources -> Versions] /\ floor \in Documents
  /\ expired \subseteq Expiring /\ indexed \subseteq Generations
  /\ state \in [Generations -> {"unused", "candidate", "active", "rolled_back"}]
  /\ docs \in [Generations -> Documents]
  /\ \A g \in Generations : DocumentsOf(g) \cap Withdrawn = {}
  /\ serving \in [gen : Generations \cup {None}, revision : Nat]
  /\ cited \in [Cases -> [gen : Generations \cup {None}, docs : SUBSET (Sources \X Versions)]]

\* The two are the type invariant of the module.
LEMMA TypeParts == TypeOK <=> LocalTypeOK /\ SharedTypeOK
  BY DEF TypeOK, LocalTypeOK, SharedTypeOK

\* The versions of an article up to its last one are versions.
LEMMA VersionsOf ==
  ASSUME NEW s \in Sources, NEW n \in 1..Last[s]
  PROVE  n \in Versions
  BY DEF Versions

\* Versions are positive numbers, and a generation without documents is one.
LEMMA VersionsArePositive ==
  /\ Versions \subseteq Nat \ {0}
  /\ Empty \in Documents
<1>1. Versions \subseteq Nat \ {0}
  <2> SUFFICES ASSUME NEW s \in Sources, NEW n \in 1..Last[s] PROVE n \in Nat \ {0}
    BY DEF Versions
  <2> QED
    BY DEF Versions
<1> QED
  BY <1>1 DEF Empty, Documents

\* Ending a call keeps the types of the callers.
LEMMA LeaveType ==
  ASSUME LocalTypeOK, NEW c \in Callers, NEW stage \in Stages, Leave(c, stage)
  PROVE  LocalTypeOK'
  BY VersionsArePositive DEF LocalTypeOK, Leave, NoPublication

\* So does moving one to another stage.
LEMMA StageType ==
  ASSUME LocalTypeOK, NEW c \in Callers, NEW stage \in Stages,
         pc' = [pc EXCEPT ![c] = stage], UNCHANGED local
  PROVE  LocalTypeOK'
  BY DEF LocalTypeOK, local

\* A step that leaves the shared variables alone keeps their types.
LEMMA SharedUnchangedType ==
  ASSUME SharedTypeOK,
         UNCHANGED <<source, expired, state, docs, indexed, serving, cited, history>>
  PROVE  SharedTypeOK'
  BY DEF SharedTypeOK, history, DocumentsOf

\* Every initial state has the declared types.
LEMMA InitType == Init => TypeOK
<1> SUFFICES ASSUME Init PROVE TypeOK
  OBVIOUS
<1>1. LocalTypeOK
  BY VersionsArePositive DEF Init, LocalTypeOK, Stages, NoPublication
<1>2. \A s \in Sources : 1 \in Versions
  BY VersionsOf
<1>3. \A g \in Generations : DocumentsOf(g) = {}
  BY VersionsArePositive DEF Init, DocumentsOf, Empty
<1>4. SharedTypeOK
  BY <1>2, <1>3, VersionsArePositive DEF Init, SharedTypeOK, NoPublication, NoCitation
<1> QED
  BY <1>1, <1>4, TypeParts

\* Every step keeps the declared types; what a caller seals was published.
LEMMA TypeStep ==
  TypeOK /\ FetchedWasPublished /\ CandidateIsSealed /\ [Next]_vars => TypeOK'
<1> SUFFICES ASSUME LocalTypeOK, SharedTypeOK, FetchedWasPublished, CandidateIsSealed,
                    [Next]_vars
             PROVE  LocalTypeOK' /\ SharedTypeOK'
  BY DEF TypeOK, LocalTypeOK, SharedTypeOK
<1>1. ASSUME NEW s \in Sources, Edit(s) PROVE LocalTypeOK' /\ SharedTypeOK'
  <2>1. source[s] + 1 \in 1..Last[s]
    <3>1. source[s] \in Nat \ {0} /\ Last[s] \in Nat
      BY VersionsArePositive DEF SharedTypeOK
    <3> QED
      BY <1>1, <3>1 DEF Edit
  <2>2. SharedTypeOK'
    BY <1>1, <2>1, VersionsOf DEF Edit, SharedTypeOK, history, DocumentsOf
  <2> QED
    BY <1>1, <2>2 DEF Edit, LocalTypeOK, local
<1>2. ASSUME NEW d \in Expiring, Expire(d) PROVE LocalTypeOK' /\ SharedTypeOK'
  BY <1>2 DEF Expire, LocalTypeOK, SharedTypeOK, local, history, DocumentsOf
<1>3. ASSUME NEW c \in Callers, Begin(c) PROVE LocalTypeOK' /\ SharedTypeOK'
  <2>1. "search" \in Stages /\ "list" \in Stages
    BY DEF Stages
  <2>2. CASE c \in Cases /\ serving.gen # None
    BY <1>3, <2>1, <2>2, LeaveType, SharedUnchangedType DEF Begin
  <2>3. CASE ~(c \in Cases /\ serving.gen # None)
    <3>1. SharedTypeOK'
      BY <1>3, SharedUnchangedType DEF Begin
    <3>2. /\ base' = [base EXCEPT ![c] = serving]
          /\ pc' = [pc EXCEPT ![c] = "list"]
          /\ UNCHANGED <<todo, got, chosen>>
      BY <1>3, <2>3 DEF Begin
    <3>3. LocalTypeOK'
      BY <2>1, <3>2 DEF LocalTypeOK, SharedTypeOK
    <3> QED
      BY <3>1, <3>3
  <2> QED
    BY <2>2, <2>3
<1>4. ASSUME NEW c \in Callers, List(c) PROVE LocalTypeOK' /\ SharedTypeOK'
  BY <1>4, SharedUnchangedType DEF List, LocalTypeOK, Stages
<1>5. ASSUME NEW c \in Callers, NEW s \in Sources, Fetch(c, s) PROVE LocalTypeOK' /\ SharedTypeOK'
  <2>1. SharedTypeOK'
    BY <1>5, SharedUnchangedType DEF Fetch
  <2>2. CASE Fetched(s)
    <3>1. /\ got' = [got EXCEPT ![c][s] = source[s]]
          /\ todo' = [todo EXCEPT ![c] = @ \ {s}]
          /\ UNCHANGED <<pc, base, chosen>>
      BY <1>5, <2>2 DEF Fetch
    <3>2. got' \in [Callers -> Documents]
      BY <3>1 DEF LocalTypeOK, SharedTypeOK, Documents
    <3>3. todo' \in [Callers -> SUBSET Sources]
      BY <3>1 DEF LocalTypeOK
    <3> QED
      BY <2>1, <3>1, <3>2, <3>3 DEF LocalTypeOK
  <2>3. CASE ~Fetched(s)
    BY <1>5, <2>1, <2>3, LeaveType DEF Fetch, Stages
  <2> QED
    BY <2>1, <2>2, <2>3
<1>6. ASSUME NEW c \in Callers, Build(c) PROVE LocalTypeOK' /\ SharedTypeOK'
  <2>1. CASE Complete({d \in Sources \X Versions : got[c][d[1]] = d[2]})
    <3>1. PICK g \in Generations :
            /\ state[g] = "unused"
            /\ state' = [state EXCEPT ![g] = "candidate"]
            /\ docs' = [docs EXCEPT ![g] = got[c]]
            /\ chosen' = [chosen EXCEPT ![c] = g]
            /\ pc' = [pc EXCEPT ![c] = AfterBuild]
            /\ UNCHANGED <<base, todo, got>>
      BY <1>6, <2>1 DEF Build
    <3>2. LocalTypeOK'
      BY <3>1 DEF LocalTypeOK, Stages, AfterBuild
    <3>3. \A h \in Generations : DocumentsOf(h)' \cap Withdrawn = {}
      <4> SUFFICES ASSUME NEW h \in Generations, NEW d \in Sources \X Versions,
                          docs'[h][d[1]] = d[2], d \in Withdrawn
                   PROVE  FALSE
        BY DEF DocumentsOf
      <4>1. CASE h = g
        BY <3>1, <4>1, VersionsArePositive DEF FetchedWasPublished, SharedTypeOK
      <4>2. CASE h # g
        BY <3>1, <4>2 DEF SharedTypeOK, DocumentsOf
      <4> QED
        BY <4>1, <4>2
    <3>4. SharedTypeOK'
      BY <1>6, <3>1, <3>3 DEF Build, SharedTypeOK, LocalTypeOK, history
    <3> QED
      BY <3>2, <3>4
  <2>2. CASE ~Complete({d \in Sources \X Versions : got[c][d[1]] = d[2]})
    BY <1>6, <2>2, LeaveType, SharedUnchangedType DEF Build, Stages
  <2> QED
    BY <2>1, <2>2
<1>7. ASSUME NEW c \in Callers, BuildIndex(c) PROVE LocalTypeOK' /\ SharedTypeOK'
  <2>1. PICK stage \in Stages : pc' = [pc EXCEPT ![c] = stage]
    BY <1>7 DEF BuildIndex, Stages
  <2>2. chosen[c] \in Generations
    BY <1>7 DEF BuildIndex, CandidateIsSealed, SealedBy
  <2>3. LocalTypeOK'
    BY <1>7, <2>1, StageType DEF BuildIndex
  <2>4. SharedTypeOK'
    BY <1>7, <2>2 DEF BuildIndex, SharedTypeOK, history, DocumentsOf
  <2> QED
    BY <2>3, <2>4
<1>8. ASSUME NEW c \in Callers, Activate(c) PROVE LocalTypeOK' /\ SharedTypeOK'
  <2>1. CASE MayServe(chosen[c]) /\ Current(c)
    <3>1. LocalTypeOK'
      BY <1>8, <2>1, LeaveType DEF Activate, Stages
    <3>2. chosen[c] \in Generations
      BY <1>8 DEF Activate, CandidateIsSealed, SealedBy
    <3>3. SharedTypeOK'
      BY <1>8, <2>1, <3>2, VersionsArePositive
      DEF Activate, Serve, SharedTypeOK, Documents, DocumentsOf
    <3> QED
      BY <3>1, <3>3
  <2>2. CASE ~(MayServe(chosen[c]) /\ Current(c))
    BY <1>8, <2>2, LeaveType, SharedUnchangedType DEF Activate, AfterLoss, Stages
  <2> QED
    BY <2>1, <2>2
<1>9. ASSUME NEW c \in Callers, NEW g \in Generations, Rollback(c, g)
      PROVE  LocalTypeOK' /\ SharedTypeOK'
  BY <1>9, SharedUnchangedType DEF Rollback, LocalTypeOK, SharedTypeOK, Stages
<1>10. ASSUME NEW c \in Callers, Interrupt(c) PROVE LocalTypeOK' /\ SharedTypeOK'
  BY <1>10, LeaveType, SharedUnchangedType DEF Interrupt, Stages
<1>11. ASSUME NEW c \in Cases, ReadPointer(c) PROVE LocalTypeOK' /\ SharedTypeOK'
  BY <1>11, SharedUnchangedType DEF ReadPointer, Searched, LocalTypeOK, SharedTypeOK, Stages
<1>12. ASSUME NEW c \in Cases, ReadDocuments(c) PROVE LocalTypeOK' /\ SharedTypeOK'
  <2>1. c \in Callers
    BY DEF Callers
  <2>2. LocalTypeOK'
    BY <1>12, <2>1, LeaveType DEF ReadDocuments, Stages
  <2>3. CASE UNCHANGED cited
    BY <1>12, <2>2, <2>3, SharedUnchangedType DEF ReadDocuments
  <2>4. CASE \E found \in SUBSET (DocumentsOf(chosen[c]) \ expired) :
               cited' = [cited EXCEPT ![c] = [gen |-> chosen[c], docs |-> found]]
    <3>1. DocumentsOf(chosen[c]) \subseteq Sources \X Versions
      BY DEF DocumentsOf
    <3> QED
      BY <1>12, <2>1, <2>2, <2>4, <3>1
      DEF ReadDocuments, SharedTypeOK, LocalTypeOK, history, DocumentsOf
  <2> QED
    BY <1>12, <2>3, <2>4 DEF ReadDocuments
<1>13. ASSUME NEW c \in Cases, Execute(c) PROVE LocalTypeOK' /\ SharedTypeOK'
  <2>1. PICK stage \in Stages : pc' = [pc EXCEPT ![c] = stage]
    BY <1>13 DEF Execute, Stages
  <2>2. LocalTypeOK'
    BY <1>13, <2>1, StageType DEF Execute, Callers
  <2>3. SharedTypeOK'
    BY <1>13 DEF Execute, SharedTypeOK, NoCitation, history, DocumentsOf
  <2> QED
    BY <2>2, <2>3
<1>14. CASE UNCHANGED vars
  BY <1>14 DEF vars, LocalTypeOK, SharedTypeOK, local, history, DocumentsOf
<1> QED
  BY <1>1, <1>2, <1>3, <1>4, <1>5, <1>6, <1>7, <1>8, <1>9, <1>10, <1>11, <1>12,
     <1>13, <1>14 DEF Next, Publish, Resolve

-----------------------------------------------------------------------------
(* What one step may do to the shared state, and to a caller.              *)

\* The locals of a caller.
Same(c) ==
  /\ pc'[c] = pc[c] /\ base'[c] = base[c] /\ chosen'[c] = chosen[c] /\ got'[c] = got[c]
  /\ c \in Cases => cited'[c] = cited[c]

\* A step is a step of the provider, of the clock or of one caller.
LEMMA OtherCallersWait ==
  ASSUME TypeOK, [Next]_vars, NEW c \in Callers
  PROVE  Same(c) \/ Publish(c) \/ (c \in Cases /\ Resolve(c))
<1> USE DEF Same, local, Leave
<1>1. ASSUME NEW s \in Sources, Edit(s) PROVE Same(c)
  BY <1>1 DEF Edit
<1>2. ASSUME NEW d \in Expiring, Expire(d) PROVE Same(c)
  BY <1>2 DEF Expire
<1>3. ASSUME NEW o \in Callers, o # c, Publish(o) PROVE Same(c)
  <2>1. ASSUME Begin(o) PROVE Same(c)
    BY <1>3, <2>1 DEF Begin, TypeOK
  <2>2. ASSUME List(o) PROVE Same(c)
    BY <1>3, <2>2 DEF List, TypeOK
  <2>3. ASSUME Build(o) PROVE Same(c)
    BY <1>3, <2>3 DEF Build, TypeOK
  <2>4. ASSUME BuildIndex(o) PROVE Same(c)
    BY <1>3, <2>4 DEF BuildIndex, TypeOK
  <2>5. ASSUME Activate(o) PROVE Same(c)
    BY <1>3, <2>5 DEF Activate, TypeOK
  <2>6. ASSUME Interrupt(o) PROVE Same(c)
    BY <1>3, <2>6 DEF Interrupt, TypeOK
  <2>7. ASSUME NEW s \in Sources, Fetch(o, s) PROVE Same(c)
    BY <1>3, <2>7 DEF Fetch, TypeOK
  <2>8. ASSUME NEW g \in Generations, Rollback(o, g) PROVE Same(c)
    BY <1>3, <2>8 DEF Rollback, TypeOK
  <2> QED
    BY <1>3, <2>1, <2>2, <2>3, <2>4, <2>5, <2>6, <2>7, <2>8 DEF Publish
<1>4. ASSUME NEW o \in Cases, o # c, Resolve(o) PROVE Same(c)
  <2>1. ASSUME ReadPointer(o) PROVE Same(c)
    BY <1>4, <2>1 DEF ReadPointer, TypeOK
  <2>2. ASSUME ReadDocuments(o) PROVE Same(c)
    BY <1>4, <2>2 DEF ReadDocuments, TypeOK
  <2>3. ASSUME Execute(o) PROVE Same(c)
    BY <1>4, <2>3 DEF Execute, TypeOK
  <2> QED
    BY <1>4, <2>1, <2>2, <2>3 DEF Resolve
<1>5. CASE UNCHANGED vars
  BY <1>5 DEF vars
<1> QED
  BY <1>1, <1>2, <1>3, <1>4, <1>5 DEF Next

\* A caller moves the pointer to its candidate.
Moved(c) ==
  /\ pc[c] = "activate" /\ Current(c) /\ MayServe(chosen[c])
  /\ Serve(chosen[c]) /\ docs' = docs /\ source' = source

\* The pointer, and what it was published from, stay.
Stays == serving' = serving /\ before' = before /\ floor' = floor

\* The documents and the index of a generation stay, and it never goes back.
Forward ==
  /\ indexed \subseteq indexed'
  /\ \A s \in Sources : source[s] <= source'[s]
  /\ \A g \in Generations : state[g] # "unused" =>
       /\ docs'[g] = docs[g] /\ state'[g] # "unused"
       /\ state'[g] = "candidate" => state[g] = "candidate"

\* The states that a generation with the pointer elsewhere may have changed to.
StatesStay ==
  \A g \in Generations :
    state'[g] = state[g] \/ (state[g] = "unused" /\ state'[g] = "candidate")

\* What was sealed stays, and the pointer moves only in an activation.
LEMMA SharedStep ==
  ASSUME TypeOK, CandidateIsSealed, [Next]_vars
  PROVE  Forward /\ ((Stays /\ StatesStay) \/ (\E c \in Callers : Moved(c)))
<1> USE DEF history
<1>0. ASSUME source' = source PROVE \A s \in Sources : source[s] <= source'[s]
  <2>1. \A s \in Sources : source[s] \in Nat
    BY VersionsArePositive DEF TypeOK
  <2> QED
    BY <1>0, <2>1
<1>1. ASSUME NEW s \in Sources, Edit(s) PROVE Forward /\ Stays /\ StatesStay
  <2>1. \A r \in Sources : source[r] \in Nat
    BY VersionsArePositive DEF TypeOK
  <2>2. \A r \in Sources : source[r] <= source'[r]
    BY <1>1, <2>1 DEF Edit, TypeOK
  <2> QED
    BY <1>1, <2>2 DEF Edit, Forward, Stays, StatesStay
<1>2. ASSUME UNCHANGED <<source, state, docs, indexed, serving, history>>
      PROVE  Forward /\ Stays /\ StatesStay
  <2>1. \A s \in Sources : source[s] <= source'[s]
    BY <1>0, <1>2
  <2>2. Stays
    BY <1>2 DEF Stays
  <2>3. StatesStay
    BY <1>2 DEF StatesStay
  <2>4. \A g \in Generations : state[g] # "unused" =>
          /\ docs'[g] = docs[g] /\ state'[g] # "unused"
          /\ state'[g] = "candidate" => state[g] = "candidate"
    BY <1>2
  <2>5. indexed \subseteq indexed'
    BY <1>2
  <2> QED
    BY <2>1, <2>2, <2>3, <2>4, <2>5 DEF Forward
<1>3. ASSUME NEW c \in Callers, Build(c) PROVE Forward /\ Stays /\ StatesStay
  <2>1. \A s \in Sources : source[s] <= source'[s]
    BY <1>0, <1>3 DEF Build
  <2>2. CASE UNCHANGED <<state, docs>>
    BY <1>2, <1>3, <2>2 DEF Build
  <2>3. CASE \E g \in Generations : /\ state[g] = "unused"
                                    /\ state' = [state EXCEPT ![g] = "candidate"]
                                    /\ docs' = [docs EXCEPT ![g] = got[c]]
    BY <1>3, <2>1, <2>3 DEF Build, Forward, Stays, StatesStay, TypeOK
  <2> QED
    BY <1>3, <2>2, <2>3 DEF Build
<1>4. ASSUME NEW c \in Callers, BuildIndex(c) PROVE Forward /\ Stays /\ StatesStay
  <2>1. \A s \in Sources : source[s] <= source'[s]
    BY <1>0, <1>4 DEF BuildIndex
  <2> QED
    BY <1>4, <2>1 DEF BuildIndex, Forward, Stays, StatesStay
<1>5. ASSUME NEW c \in Callers, Activate(c), MayServe(chosen[c]), Current(c)
      PROVE  Forward /\ Moved(c)
  <2>1. Moved(c)
    BY <1>5 DEF Activate, Moved
  <2>2. state' = [h \in Generations |-> IF h = chosen[c] THEN "active"
                                        ELSE IF h = serving.gen THEN "rolled_back"
                                        ELSE state[h]]
    BY <2>1 DEF Moved, Serve
  <2>3. Forward
    BY <1>0, <1>5, <2>2 DEF Activate, Forward
  <2> QED
    BY <2>1, <2>3
<1>6. ASSUME NEW c \in Callers, Activate(c), ~(MayServe(chosen[c]) /\ Current(c))
      PROVE  Forward /\ Stays /\ StatesStay
  BY <1>2, <1>6 DEF Activate
<1>7. ASSUME NEW c \in Callers,
             Begin(c) \/ List(c) \/ Interrupt(c) \/ (\E s \in Sources : Fetch(c, s))
               \/ (\E g \in Generations : Rollback(c, g)) \/ Resolve(c)
      PROVE  Forward /\ Stays /\ StatesStay
  BY <1>2, <1>7 DEF Begin, List, Interrupt, Fetch, Rollback, Resolve, ReadPointer,
                    ReadDocuments, Execute
<1>8. ASSUME NEW d \in Expiring, Expire(d) PROVE Forward /\ Stays /\ StatesStay
  BY <1>2, <1>8 DEF Expire
<1>9. CASE UNCHANGED vars
  BY <1>2, <1>9 DEF vars
<1> QED
  BY <1>1, <1>3, <1>4, <1>5, <1>6, <1>7, <1>8, <1>9 DEF Next, Publish, Callers

-----------------------------------------------------------------------------
(* The invariant is inductive: one lemma per conjunct.                     *)

\* A generation whose row stays holds the same documents.
LEMMA SameDocuments ==
  ASSUME NEW g, docs'[g] = docs[g]
  PROVE  DocumentsOf(g)' = DocumentsOf(g)
  BY DEF DocumentsOf

\* What a caller fetches is published at that moment.
LEMMA FetchedStep == IInv /\ [Next]_vars => FetchedWasPublished'
<1> SUFFICES ASSUME IInv, [Next]_vars, NEW c \in Callers, NEW s \in Sources
             PROVE  got'[c][s] # 0 => <<s, got'[c][s]>> \notin Withdrawn
  BY DEF FetchedWasPublished
<1>1. TypeOK /\ (got[c][s] # 0 => <<s, got[c][s]>> \notin Withdrawn)
  BY DEF IInv, FetchedWasPublished
<1>2. CASE Same(c)
  BY <1>1, <1>2 DEF Same
<1>3. ASSUME NEW r \in Sources, Fetch(c, r), Fetched(r)
      PROVE  got'[c][s] # 0 => <<s, got'[c][s]>> \notin Withdrawn
  <2>1. got' = [got EXCEPT ![c][r] = source[r]] /\ <<r, source[r]>> \notin Withdrawn
    BY <1>3 DEF Fetch, Fetched, Published
  <2>2. got'[c][s] = IF s = r THEN source[r] ELSE got[c][s]
    BY <1>1, <2>1 DEF TypeOK, Documents
  <2> QED
    BY <1>1, <2>1, <2>2
<1>4. CASE got' = got
  BY <1>1, <1>4
<1>5. ASSUME NEW stage, Leave(c, stage)
      PROVE  got'[c][s] # 0 => <<s, got'[c][s]>> \notin Withdrawn
  BY <1>1, <1>5 DEF Leave, Empty, TypeOK
<1>6. CASE Publish(c)
  BY <1>3, <1>4, <1>5, <1>6 DEF Publish, Begin, List, Build, BuildIndex, Activate,
     Interrupt, Fetch, Rollback, local
<1>7. CASE Resolve(c)
  BY <1>4, <1>5, <1>7 DEF Resolve, ReadPointer, ReadDocuments, Execute, local
<1> QED
  BY <1>1, <1>2, <1>6, <1>7, OtherCallersWait

\* Only a sealed candidate that has documents and its index begins to serve.
LEMMA WholeStep == IInv /\ [Next]_vars => ServedIsWhole'
<1> SUFFICES ASSUME IInv, [Next]_vars, NEW g \in Generations,
                    state'[g] \in {"active", "rolled_back"}
             PROVE  DocumentsOf(g)' # {} /\ (Vector => g \in indexed')
  BY DEF ServedIsWhole
<1>1. Forward
  BY SharedStep DEF IInv
<1>2. CASE state[g] \in {"active", "rolled_back"}
  BY <1>1, <1>2, SameDocuments DEF Forward, IInv, ServedIsWhole
<1>3. CASE state[g] \notin {"active", "rolled_back"}
  <2>1. PICK c \in Callers : Moved(c)
    BY <1>3, SharedStep DEF StatesStay, IInv
  <2>2. g = chosen[c]
    BY <1>3, <2>1 DEF Moved, Serve, IInv, OneServing
  <2>3. DocumentsOf(g)' # {}
    BY <2>1, <2>2 DEF Moved, MayServe, Complete, DocumentsOf
  <2> QED
    BY <1>1, <2>1, <2>2, <2>3 DEF Moved, IInv, CandidateIsSealed, SealedBy, Forward
<1> QED
  BY <1>2, <1>3

\* A candidate is sealed with what its caller fetched, and stays so until it serves.
LEMMA SealedStep == IInv /\ [Next]_vars => CandidateIsSealed'
<1> SUFFICES ASSUME IInv, [Next]_vars, NEW c \in Callers, pc'[c] \in {"vector", "activate"}
             PROVE  SealedBy(c)'
  BY DEF CandidateIsSealed
<1>1. TypeOK /\ Forward /\ (pc[c] \in {"vector", "activate"} => SealedBy(c))
  BY SharedStep DEF IInv, CandidateIsSealed
<1>2. CASE Same(c)
  BY <1>1, <1>2 DEF Same, Forward, SealedBy
<1>3. CASE Build(c)
  BY <1>1, <1>3 DEF Build, Leave, AfterBuild, SealedBy, TypeOK
<1>4. CASE BuildIndex(c)
  BY <1>1, <1>4 DEF BuildIndex, local, SealedBy, TypeOK
<1>5. ASSUME NEW g \in Generations, Rollback(c, g) PROVE SealedBy(c)'
  BY <1>1, <1>5, SharedStep DEF Rollback, SealedBy, TypeOK, IInv, ServedIsWhole
<1>6. ASSUME NEW stage \in Stages \ {"vector", "activate"}, pc' = [pc EXCEPT ![c] = stage]
      PROVE  FALSE
  BY <1>1, <1>6 DEF TypeOK
<1>7. ~Begin(c) /\ ~List(c) /\ ~Activate(c) /\ ~Interrupt(c) /\ ~Resolve(c)
  BY <1>6 DEF Begin, List, Activate, AfterLoss, Interrupt, Resolve, ReadPointer,
     ReadDocuments, Execute, Leave, Stages
<1>8. ASSUME NEW s \in Sources PROVE ~Fetch(c, s)
  BY <1>6 DEF Fetch, Leave, Stages
<1> QED
  BY <1>1, <1>2, <1>3, <1>4, <1>5, <1>7, <1>8, OtherCallersWait DEF Publish

\* A case reads what serves at that moment, and reviews only what it has cited.
LEMMA SearchedStep == IInv /\ [Next]_vars => SearchedHasServed'
<1> SUFFICES ASSUME IInv, [Next]_vars PROVE SearchedHasServed'
  OBVIOUS
<1>0. TypeOK /\ TypeOK' /\ Forward /\ SearchedHasServed /\ OneServing
  BY SharedStep, TypeStep DEF IInv
<1>1. ASSUME NEW c \in Callers, pc'[c] = "read"
      PROVE  chosen'[c] \in Generations /\ state'[chosen'[c]] \in {"active", "rolled_back"}
  <2>1. CASE Same(c)
    <3>1. chosen[c] \in Generations /\ state[chosen[c]] \in {"active", "rolled_back"}
      BY <1>0, <1>1, <2>1 DEF Same, SearchedHasServed
    <3>2. state'[chosen[c]] \in {"active", "rolled_back"}
      <4>1. state'[chosen[c]] \in {"unused", "candidate", "active", "rolled_back"}
        BY <1>0, <3>1 DEF TypeOK
      <4> QED
        BY <1>0, <3>1, <4>1 DEF Forward
    <3> QED
      BY <2>1, <3>1, <3>2 DEF Same
  <2>2. CASE c \in Cases /\ ReadPointer(c)
    <3>1. serving.gen \in Generations /\ state[serving.gen] = "active"
      BY <1>0, <2>2 DEF ReadPointer, OneServing, TypeOK
    <3>2. chosen'[c] = serving.gen /\ state' = state
      BY <1>0, <2>2 DEF ReadPointer, Searched, TypeOK
    <3> QED
      BY <3>1, <3>2
  <2>3. ASSUME NEW stage \in Stages \ {"read"}, pc' = [pc EXCEPT ![c] = stage] PROVE FALSE
    BY <1>0, <1>1, <2>3 DEF TypeOK
  <2>4. CASE c \in Cases /\ Resolve(c)
    BY <2>2, <2>3, <2>4 DEF Resolve, ReadDocuments, Execute, Leave, Stages
  <2>5. CASE Publish(c)
    BY <1>1, <2>3, <2>5 DEF Publish, Begin, List, Fetch, Build, AfterBuild, BuildIndex, Activate,
       AfterLoss, Interrupt, Rollback, Leave, Stages
  <2> QED
    BY <1>0, <2>1, <2>4, <2>5, OtherCallersWait
<1>2. ASSUME NEW c \in Cases, pc'[c] = "review" PROVE cited'[c].gen # None
  <2>0. c \in Callers
    BY DEF Callers
  <2>1. CASE Same(c)
    BY <1>0, <1>2, <2>1 DEF Same, SearchedHasServed
  <2>2. CASE ReadDocuments(c)
    BY <1>0, <1>2, <2>0, <2>2 DEF ReadDocuments, Leave, SearchedHasServed, TypeOK
  <2>3. ASSUME NEW stage \in Stages \ {"review"}, pc' = [pc EXCEPT ![c] = stage] PROVE FALSE
    BY <1>0, <1>2, <2>0, <2>3 DEF TypeOK
  <2>4. CASE Resolve(c)
    BY <2>2, <2>3, <2>4 DEF Resolve, ReadPointer, Execute, Stages
  <2>5. CASE Publish(c)
    BY <1>2, <2>3, <2>5 DEF Publish, Begin, List, Fetch, Build, AfterBuild, BuildIndex, Activate,
       AfterLoss, Interrupt, Rollback, Leave, Stages
  <2> QED
    BY <1>0, <2>0, <2>1, <2>4, <2>5, OtherCallersWait
<1> QED
  BY <1>1, <1>2 DEF SearchedHasServed

\* The pointer never returns to an earlier revision.
LEMMA RevisionStep ==
  ASSUME TypeOK, CandidateIsSealed, [Next]_vars
  PROVE  serving'.revision >= serving.revision /\ (serving' # serving => serving'.revision > serving.revision)
  BY SharedStep DEF Stays, Moved, Serve, TypeOK

\* A caller takes as its base what serves at that moment, or nothing.
LEMMA BaseTaken ==
  ASSUME TypeOK, [Next]_vars, NEW c \in Callers, ~Same(c)
  PROVE  base'[c] = base[c] \/ base'[c] = serving \/ base'[c] = NoPublication
<1>1. CASE Resolve(c)
  BY <1>1 DEF Resolve, ReadPointer, ReadDocuments, Execute, Leave, TypeOK, local
<1>2. CASE Publish(c)
  BY <1>2 DEF Publish, Begin, List, Fetch, Build, BuildIndex, Activate, Interrupt,
     Rollback, Leave, TypeOK, local
<1> QED
  BY <1>1, <1>2, OtherCallersWait

\* A base is read from the pointer; a case reads one only if nothing serves.
LEMMA BaseStep == IInv /\ [Next]_vars => BaseIsPast'
<1> SUFFICES ASSUME IInv, [Next]_vars PROVE BaseIsPast'
  OBVIOUS
<1>0. TypeOK /\ CandidateIsSealed /\ BaseIsPast
  BY DEF IInv
<1>1. ASSUME NEW c \in Callers PROVE base'[c].revision <= serving'.revision
  <2>1. base[c].revision <= serving.revision /\ serving.revision <= serving'.revision
    BY <1>0, RevisionStep DEF BaseIsPast
  <2>2. base[c].revision \in Nat /\ serving.revision \in Nat /\ serving'.revision \in Nat
    BY <1>0, TypeStep DEF TypeOK, IInv
  <2>3. base'[c] = base[c] \/ base'[c] = serving \/ base'[c] = NoPublication
    BY <1>0, BaseTaken DEF Same
  <2> QED
    BY <2>1, <2>2, <2>3 DEF NoPublication
<1>2. ASSUME NEW c \in Cases, pc'[c] \in {"list", "fetch", "vector", "activate"}
      PROVE  base'[c].gen = None
  <2>0. c \in Callers /\ c \notin Admins
    BY DEF Callers
  <2>1. CASE Same(c)
    BY <1>0, <1>2, <2>1 DEF Same, BaseIsPast
  <2>2. CASE Begin(c)
    BY <1>0, <1>2, <2>0, <2>2 DEF Begin, Leave, TypeOK
  <2>3. CASE base' = base /\ pc[c] \in {"list", "fetch", "vector", "activate"}
    BY <1>0, <1>2, <2>3 DEF BaseIsPast
  <2>4. ASSUME NEW stage, Leave(c, stage) PROVE base'[c].gen = None
    BY <1>0, <2>0, <2>4 DEF Leave, NoPublication, TypeOK
  <2>5. CASE Publish(c)
    BY <2>0, <2>2, <2>3, <2>4, <2>5 DEF Publish, List, Fetch, Build, BuildIndex, Activate,
       Interrupt, Rollback, local
  <2>6. CASE ReadPointer(c) \/ Execute(c)
    BY <1>0, <1>2, <2>0, <2>6 DEF ReadPointer, Execute, TypeOK
  <2>7. CASE Resolve(c)
    BY <2>4, <2>6, <2>7 DEF Resolve, ReadDocuments
  <2> QED
    BY <1>0, <2>0, <2>1, <2>5, <2>7, OtherCallersWait
<1> QED
  BY <1>1, <1>2 DEF BaseIsPast

\* What a caller fetches after it read its base is not older than that base.
LEMMA SinceStep == IInv /\ [Next]_vars => FetchedSinceBase'
<1> SUFFICES ASSUME IInv, [Next]_vars PROVE FetchedSinceBase'
  OBVIOUS
<1>0. TypeOK /\ TypeOK' /\ Forward /\ CandidateIsSealed /\ FetchedSinceBase /\ BaseIsPast
  BY SharedStep, TypeStep DEF IInv
<1>1. /\ \A s \in Sources : source[s] \in Nat /\ before[s] \in Nat /\ source'[s] \in Nat
      /\ \A c \in Callers, s \in Sources : got[c][s] \in Nat
  <2>1. \A s \in Sources : source[s] \in Nat /\ before[s] \in Nat /\ source'[s] \in Nat
    BY <1>0, VersionsArePositive DEF TypeOK
  <2>2. \A c \in Callers, s \in Sources : got[c][s] \in {0} \cup Versions
    BY <1>0 DEF TypeOK, Documents
  <2>3. {0} \cup Versions \subseteq Nat
    BY VersionsArePositive
  <2> QED
    BY <2>1, <2>2, <2>3
<1>2. ASSUME NEW s \in Sources PROVE before'[s] <= source'[s]
  <2>1. CASE Stays
    BY <1>0, <1>1, <2>1 DEF Stays, Forward, FetchedSinceBase
  <2>2. ASSUME NEW c \in Callers, Moved(c) PROVE before'[s] <= source'[s]
    BY <1>1, <2>2 DEF Moved, Serve
  <2> QED
    BY <1>0, <2>1, <2>2, SharedStep
<1>3. ASSUME NEW c \in Callers, pc'[c] = "idle" PROVE got'[c] = Empty
  <2>1. CASE Same(c)
    BY <1>0, <1>3, <2>1 DEF Same, FetchedSinceBase
  <2>2. ASSUME NEW stage, Leave(c, stage) PROVE got'[c] = Empty
    BY <1>0, <2>2 DEF Leave, TypeOK
  <2>3. ASSUME NEW stage \in Stages \ {"idle"}, pc' = [pc EXCEPT ![c] = stage] PROVE FALSE
    BY <1>0, <1>3, <2>3 DEF TypeOK
  <2>4. CASE Publish(c)
    BY <1>3, <2>2, <2>3, <2>4 DEF Publish, Begin, List, Fetch, Build, AfterBuild, BuildIndex,
       Activate, Interrupt, Rollback, Stages
  <2>5. CASE Resolve(c)
    BY <2>2, <2>3, <2>5 DEF Resolve, ReadPointer, ReadDocuments, Execute, Stages
  <2> QED
    BY <1>0, <2>1, <2>4, <2>5, OtherCallersWait
<1>4. ASSUME NEW c \in Callers, base'[c] = serving', NEW s \in Sources, got'[c][s] # 0
      PROVE  got'[c][s] >= before'[s]
  <2>1. CASE Stays
    <3>1. before' = before /\ serving' = serving /\ before[s] <= source[s]
      BY <1>0, <2>1 DEF Stays, FetchedSinceBase
    <3>2. CASE Same(c)
      BY <1>0, <1>4, <3>1, <3>2 DEF Same, FetchedSinceBase
    <3>3. ASSUME NEW stage, Leave(c, stage) PROVE FALSE
      BY <1>0, <1>4, <3>3 DEF Leave, Empty, TypeOK
    <3>4. CASE base' = base /\ got' = got
      BY <1>0, <1>4, <3>1, <3>4 DEF FetchedSinceBase
    <3>5. CASE pc[c] = "idle" /\ got' = got
      BY <1>0, <1>4, <3>5 DEF Empty, FetchedSinceBase
    <3>6. ASSUME NEW r \in Sources, Fetch(c, r), Fetched(r) PROVE got'[c][s] >= before'[s]
      <4>1. base' = base /\ got'[c][s] = IF s = r THEN source[r] ELSE got[c][s]
        BY <1>0, <3>6 DEF Fetch, TypeOK, Documents
      <4> QED
        BY <1>0, <1>1, <1>4, <3>1, <4>1 DEF FetchedSinceBase
    <3>7. CASE Publish(c)
      BY <3>3, <3>4, <3>5, <3>6, <3>7 DEF Publish, Begin, List, Fetch, Build, BuildIndex,
         Activate, Interrupt, Rollback, local
    <3>8. CASE Resolve(c)
      BY <3>3, <3>4, <3>8 DEF Resolve, ReadPointer, ReadDocuments, Execute, local
    <3> QED
      BY <1>0, <3>2, <3>7, <3>8, OtherCallersWait
  <2>2. ASSUME NEW o \in Callers, Moved(o) PROVE FALSE
    <3>1. serving'.revision = serving.revision + 1 /\ serving.revision \in Nat
      BY <1>0, <2>2 DEF Moved, Serve, TypeOK
    <3>2. base[c].revision \in Nat /\ base[c].revision <= serving.revision
      BY <1>0 DEF TypeOK, BaseIsPast
    <3>3. base'[c] = base[c] \/ base'[c] = serving \/ base'[c] = NoPublication
      BY <1>0, BaseTaken DEF Same
    <3> QED
      BY <1>4, <3>1, <3>2, <3>3 DEF NoPublication
  <2> QED
    BY <1>0, <2>1, <2>2, SharedStep
<1> QED
  BY <1>2, <1>3, <1>4 DEF FetchedSinceBase

\* The pointer and the active generation move together.
LEMMA ServingStep == IInv /\ [Next]_vars => OneServing'
<1> SUFFICES ASSUME IInv, [Next]_vars PROVE OneServing'
  OBVIOUS
<1>0. TypeOK /\ TypeOK' /\ OneServing /\ Forward /\ ServedIsWhole' /\ CandidateIsSealed
  BY SharedStep, TypeStep, WholeStep DEF IInv
<1>1. /\ {g \in Generations : state'[g] = "active"} = {serving'.gen} \ {None}
      /\ serving.gen # None => serving'.gen # None
      /\ (\E c \in Callers : Moved(c)) => serving'.gen # None
  <2>1. CASE Stays /\ StatesStay
    <3>1. \A g \in Generations : state'[g] = "active" <=> state[g] = "active"
      BY <1>0, <2>1 DEF StatesStay
    <3>2. ASSUME NEW c \in Callers, Moved(c) PROVE FALSE
      BY <1>0, <2>1, <3>2 DEF Stays, Moved, Serve, TypeOK
    <3> QED
      BY <1>0, <2>1, <3>1, <3>2 DEF Stays, OneServing
  <2>2. ASSUME NEW c \in Callers, Moved(c)
        PROVE  /\ {g \in Generations : state'[g] = "active"} = {serving'.gen} \ {None}
               /\ serving'.gen # None
    <3>1. chosen[c] \in Generations /\ chosen[c] # None
      BY <1>0, <2>2 DEF Moved, CandidateIsSealed, SealedBy
    <3>2. serving'.gen = chosen[c]
      BY <2>2 DEF Moved, Serve
    <3>3. \A g \in Generations : state'[g] = "active" <=> g = chosen[c]
      BY <1>0, <2>2 DEF Moved, Serve, OneServing
    <3> QED
      BY <3>1, <3>2, <3>3
  <2> QED
    BY <1>0, <2>1, <2>2, SharedStep
<1>2. serving'.gen # None =>
        DocumentsOf(serving.gen)' # {} /\ (Vector => serving'.gen \in indexed')
  <2> SUFFICES ASSUME serving'.gen # None
               PROVE  DocumentsOf(serving.gen)' # {} /\ (Vector => serving'.gen \in indexed')
    OBVIOUS
  <2>1. serving'.gen \in Generations /\ state'[serving'.gen] = "active"
    BY <1>0, <1>1 DEF TypeOK
  <2> QED
    BY <1>0, <2>1 DEF ServedIsWhole, DocumentsOf
<1>3. ASSUME NEW c \in Cases, pc'[c] = "search" PROVE serving'.gen # None
  <2>0. c \in Callers
    BY DEF Callers
  <2>1. CASE Same(c)
    BY <1>0, <1>1, <1>3, <2>1 DEF Same, OneServing
  <2>2. CASE Activate(c)
    <3>1. CASE MayServe(chosen[c]) /\ Current(c)
      BY <2>0, <2>2, <3>1, <1>1 DEF Activate, Moved
    <3>2. CASE ~(MayServe(chosen[c]) /\ Current(c))
      BY <1>0, <1>3, <2>0, <2>2, <3>2 DEF Activate, AfterLoss, Leave, TypeOK
    <3> QED
      BY <3>1, <3>2
  <2>3. CASE Begin(c)
    BY <1>0, <1>3, <2>0, <2>3 DEF Begin, Leave, TypeOK
  <2>4. ASSUME NEW stage \in Stages \ {"search"}, pc' = [pc EXCEPT ![c] = stage] PROVE FALSE
    BY <1>0, <1>3, <2>0, <2>4 DEF TypeOK
  <2>5. CASE Publish(c)
    BY <1>3, <2>2, <2>3, <2>4, <2>5 DEF Publish, List, Fetch, Build, AfterBuild, BuildIndex,
       Interrupt, Rollback, Leave, Stages
  <2>6. CASE Resolve(c)
    BY <2>4, <2>6 DEF Resolve, ReadPointer, ReadDocuments, Execute, Leave, Stages
  <2> QED
    BY <1>0, <2>0, <2>1, <2>5, <2>6, OtherCallersWait
<1> QED
  BY <1>1, <1>2, <1>3 DEF OneServing

\* A candidate that replaces its base is not older than what that base replaced.
LEMMA FreshStep == IInv /\ [Next]_vars => FreshServing'
<1> SUFFICES ASSUME IInv, [Next]_vars, serving'.gen # None, NEW d \in Sources \X Versions,
                    docs'[serving'.gen][d[1]] = d[2]
             PROVE  d[2] >= floor'[d[1]]
  BY DEF FreshServing, DocumentsOf
<1>0. TypeOK /\ TypeOK' /\ Forward /\ OneServing /\ FreshServing /\ FetchedSinceBase
  BY SharedStep, TypeStep DEF IInv
<1>1. d[1] \in Sources /\ d[2] \in Nat \ {0}
  BY VersionsArePositive
<1>2. CASE Stays
  <2>1. serving.gen # None /\ docs'[serving.gen] = docs[serving.gen]
    BY <1>0, <1>2 DEF Stays, TypeOK, Forward, OneServing
  <2>2. d \in DocumentsOf(serving.gen)
    BY <1>2, <2>1 DEF Stays, DocumentsOf
  <2> QED
    BY <1>0, <1>2, <2>1, <2>2 DEF Stays, FreshServing
<1>3. ASSUME NEW c \in Callers, Moved(c) PROVE d[2] >= floor'[d[1]]
  <2>1. serving'.gen = chosen[c] /\ docs' = docs /\ base[c] = serving
    BY <1>3 DEF Moved, Serve, Current
  <2>2. CASE state[chosen[c]] = "candidate"
    <3>1. floor' = before /\ docs[chosen[c]] = got[c]
      BY <1>3, <2>2 DEF Moved, Serve, IInv, CandidateIsSealed, SealedBy
    <3> QED
      BY <1>0, <1>1, <2>1, <3>1 DEF FetchedSinceBase
  <2>3. CASE state[chosen[c]] # "candidate"
    BY <1>1, <1>3, <2>3 DEF Moved, Serve, Empty
  <2> QED
    BY <2>2, <2>3
<1> QED
  BY <1>0, <1>2, <1>3, SharedStep DEF IInv

\* What a case has cited stays in a generation that has served.
LEMMA CitedStep == IInv /\ [Next]_vars => CitedWasServed'
<1> SUFFICES ASSUME IInv, [Next]_vars, NEW c \in Cases, cited'[c].gen # None
             PROVE  /\ state'[cited'[c].gen] \in {"active", "rolled_back"}
                    /\ cited'[c].docs \subseteq DocumentsOf(cited[c].gen)'
  BY DEF CitedWasServed
<1>0. TypeOK /\ TypeOK' /\ Forward /\ SearchedHasServed /\ CitedWasServed /\ c \in Callers
  BY SharedStep, TypeStep DEF IInv, Callers
<1>1. CASE cited'[c] = cited[c]
  <2>1. /\ cited[c].gen \in Generations /\ state[cited[c].gen] \in {"active", "rolled_back"}
        /\ cited[c].docs \subseteq DocumentsOf(cited[c].gen)
    BY <1>0, <1>1 DEF CitedWasServed, TypeOK
  <2>2. docs'[cited[c].gen] = docs[cited[c].gen]
    BY <1>0, <2>1 DEF Forward
  <2>3. DocumentsOf(cited[c].gen)' = DocumentsOf(cited[c].gen)
    BY <1>1, <2>2 DEF DocumentsOf
  <2> QED
    BY <1>0, <1>1, <2>1, <2>3 DEF Forward, TypeOK
<1>2. CASE ReadDocuments(c)
  <2>1. CASE UNCHANGED cited
    BY <1>1, <2>1
  <2>2. ASSUME NEW found \in SUBSET (DocumentsOf(chosen[c]) \ expired),
               cited' = [cited EXCEPT ![c] = [gen |-> chosen[c], docs |-> found]]
        PROVE  /\ state'[cited'[c].gen] \in {"active", "rolled_back"}
               /\ cited'[c].docs \subseteq DocumentsOf(cited[c].gen)'
    <3>1. cited'[c] = [gen |-> chosen[c], docs |-> found]
      BY <1>0, <2>2 DEF TypeOK
    <3>2. state' = state /\ docs' = docs /\ state[chosen[c]] \in {"active", "rolled_back"}
      BY <1>0, <1>2 DEF ReadDocuments, SearchedHasServed
    <3> QED
      BY <3>1, <3>2 DEF DocumentsOf
  <2> QED
    BY <1>2, <2>1, <2>2 DEF ReadDocuments
<1>3. CASE Execute(c)
  BY <1>0, <1>3 DEF Execute, NoCitation, TypeOK
<1>4. CASE ReadPointer(c) \/ Publish(c)
  BY <1>1, <1>4 DEF ReadPointer, Publish, Begin, List, Fetch, Build, BuildIndex, Activate,
     Interrupt, Rollback
<1> QED
  BY <1>0, <1>1, <1>2, <1>3, <1>4, OtherCallersWait DEF Resolve, Same

\* The invariant holds at the start.
LEMMA InitInvariant == Init => IInv
<1> SUFFICES ASSUME Init PROVE IInv
  OBVIOUS
<1>1. TypeOK
  BY InitType
<1>2. FreshServing
  BY DEF Init, FreshServing, NoPublication
<1>7. OneServing
  <2>1. {g \in Generations : state[g] = "active"} = {}
    BY DEF Init
  <2> QED
    BY <2>1 DEF Init, OneServing, NoPublication, Callers
<1>3. CitedWasServed /\ SearchedHasServed
  BY DEF Init, CitedWasServed, SearchedHasServed, NoCitation, Callers
<1>4. FetchedWasPublished /\ ServedIsWhole /\ CandidateIsSealed
  BY DEF Init, FetchedWasPublished, ServedIsWhole, CandidateIsSealed, Empty
<1>5. BaseIsPast
  BY DEF Init, BaseIsPast, NoPublication, Callers
<1>6. FetchedSinceBase
  BY DEF Init, FetchedSinceBase, Empty
<1> QED
  BY <1>1, <1>2, <1>3, <1>4, <1>5, <1>6, <1>7 DEF IInv

\* And every step keeps it.
LEMMA InvariantStep == IInv /\ [Next]_vars => IInv'
<1> SUFFICES ASSUME IInv, [Next]_vars PROVE IInv'
  OBVIOUS
<1>1. TypeOK'
  BY TypeStep DEF IInv
<1> QED
  BY <1>1, ServingStep, FreshStep, CitedStep, FetchedStep, WholeStep, SealedStep,
     SearchedStep, BaseStep, SinceStep DEF IInv

-----------------------------------------------------------------------------
(* The theorems.                                                           *)

LEMMA Invariant == Spec => []IInv
<1> QED
  BY InitInvariant, InvariantStep, PTL DEF Spec

\* knowledge-publications.ts, vector-store.ts: for any number of callers,
\* articles and generations, one generation serves, whole and indexed.
THEOREM PointerIsSound == Spec => []PublicationIsSound
<1>1. IInv => PublicationIsSound
  BY DEF IInv, PublicationIsSound
<1> QED
  BY <1>1, Invariant, PTL

\* publish-knowledge.ts: the comparison of the whole base, revision included,
\* keeps a slow publication from bringing a replaced article back.
THEOREM NeverOlder == Spec => []FreshServing
<1>1. IInv => FreshServing
  BY DEF IInv
<1> QED
  BY <1>1, Invariant, PTL

\* knowledge-publications.ts, search: a citation is of one published generation.
THEOREM CitesWhatServed == Spec => []CitedWasServed
<1>1. IInv => CitedWasServed
  BY DEF IInv
<1> QED
  BY <1>1, Invariant, PTL

\* publish-knowledge.ts, onlyIfMissing: a late first reader replaces nothing.
THEOREM ReadersOnlyFill == Spec => ReaderNeverReplaces
<1>1. ASSUME IInv, [Next]_vars
      PROVE  [\A c \in Cases : pc[c] = "activate" /\ pc'[c] = "search" /\ serving' # serving
              => serving.gen = None]_vars
  <2> SUFFICES ASSUME NEW c \in Cases, pc[c] = "activate", pc'[c] = "search", serving' # serving
               PROVE  serving.gen = None
    OBVIOUS
  <2>0. TypeOK /\ CandidateIsSealed /\ BaseIsPast /\ c \in Callers
    BY <1>1 DEF IInv, Callers
  <2>1. PICK o \in Callers : Moved(o)
    BY <1>1, <2>0, SharedStep DEF Stays
  <2>2. Publish(c)
    BY <1>1, <2>0, OtherCallersWait DEF Same, Resolve, ReadPointer, ReadDocuments, Execute
  <2>3. Activate(c)
    BY <2>0, <2>2 DEF Publish, Begin, List, Fetch, Build, BuildIndex, Interrupt, Rollback
  <2>4. base[c] = serving
    BY <2>3 DEF Activate, Current
  <2> QED
    BY <2>0, <2>4 DEF BaseIsPast
<1> QED
  BY <1>1, Invariant, PTL DEF Spec, ReaderNeverReplaces

\* refund-policy-evidence-persistence.ts: what a first effect rests on has not
\* expired and is not older than the generation before the serving one.
THEOREM EffectsAreFresh == Spec => EffectIsFresh
<1>1. ASSUME IInv, [Next]_vars
      PROVE  [\A c \in Cases : pc[c] = "review" /\ pc'[c] = "effect"
              => \A d \in cited[c].docs : d \notin expired /\ d[2] >= floor[d[1]]]_vars
  <2> SUFFICES ASSUME NEW c \in Cases, pc[c] = "review", pc'[c] = "effect",
                      NEW d \in cited[c].docs
               PROVE  d \notin expired /\ d[2] >= floor[d[1]]
    OBVIOUS
  <2>0. TypeOK /\ c \in Callers /\ FreshServing /\ SearchedHasServed
    BY <1>1 DEF IInv, Callers
  <2>1. Execute(c)
    BY <1>1, <2>0, OtherCallersWait DEF Same, Publish, Begin, List, Fetch, Build, BuildIndex,
       Activate, Interrupt, Rollback, Resolve, ReadPointer, ReadDocuments
  <2>2. MayExecute(c)
    BY <2>0, <2>1 DEF Execute, TypeOK
  <2> QED
    BY <2>0, <2>2 DEF MayExecute, FreshServing, SearchedHasServed
<1> QED
  BY <1>1, Invariant, PTL DEF Spec, EffectIsFresh

==============================================================================

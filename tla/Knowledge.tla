------------------------------ MODULE Knowledge ------------------------------
(***************************************************************************)
(* Policy knowledge: its publication in generations, its retrieval for a   *)
(* case, and the check of the cited policy when an approved command has    *)
(* its first effect.                                                       *)
(*                                                                         *)
(* A caller of publishKnowledge reads the serving pointer, then the        *)
(* provider, which may be edited between any two reads.  It writes a       *)
(* sealed candidate, in vector mode an index for it, and moves the pointer *)
(* if nobody has moved it since.  Administrators reindex.  A case calls it *)
(* only for an account without a publication, then searches, cites what it *)
(* found to the reviewer and executes the approved command.                *)
(***************************************************************************)
EXTENDS Naturals, FiniteSets

CONSTANTS
  Admins,       \* requests to reindex
  Cases,
  Sources,      \* articles at the provider
  Last,         \* bound: the last version of each article
  Withdrawn,    \* pairs of an article and a version that is not published
  Expiring,     \* pairs of an article and a version with an expiresAt
  Generations,  \* bound: identities of generations
  MaxRevision,  \* bound: rollbacks stop at this revision
  None,
  Vector        \* SUPPORT_KNOWLEDGE_RETRIEVAL is "vector"

Callers == Admins \cup Cases
Versions == UNION {1..Last[s] : s \in Sources}

ASSUME KnowledgeAssumption ==
  /\ Admins \cap Cases = {}
  /\ None \notin Generations
  /\ Last \in [Sources -> Nat \ {0}] /\ MaxRevision \in Nat
  /\ Withdrawn \subseteq Sources \X Versions /\ Expiring \subseteq Sources \X Versions
  /\ Vector \in BOOLEAN

VARIABLES
  source,    \* the version of each article at the provider
  expired,   \* article versions whose expiresAt has passed
  state,     \* of each generation; "unused" is not in the table
  docs,      \* its documents: the version of each article, or 0
  indexed,   \* generations with a complete vector index
  serving,   \* support_knowledge_publications of the account
  pc,        \* of each caller
  base,      \* the publication that it read
  todo,      \* listed articles that it has still to fetch
  got,       \* versions that it fetched
  chosen,    \* its candidate, or the generation that it searches
  cited,     \* of each case: policyMatches, then refund-policy-evidence
  before,    \* source when the serving generation was published (history)
  floor      \* source when the one it replaced was published (history)

local == <<base, todo, got, chosen>>
history == <<before, floor>>
vars == <<source, expired, state, docs, indexed, serving, pc, base, todo, got,
          chosen, cited, before, floor>>

Documents == [Sources -> {0} \cup Versions]
Empty == [s \in Sources |-> 0]
NoPublication == [gen |-> None, revision |-> 0]
NoCitation == [gen |-> None, docs |-> {}]
Stages == {"idle", "list", "fetch", "vector", "activate", "search", "read",
           "review", "effect", "refused"}

\* The documents of a generation.
DocumentsOf(g) == {d \in Sources \X Versions : docs[g][d[1]] = d[2]}

-----------------------------------------------------------------------------
(* The provider and the clock.                                             *)

Published(s) == <<s, source[s]>> \notin Withdrawn

Edit(s) ==
  /\ source[s] < Last[s]
  /\ source' = [source EXCEPT ![s] = @ + 1]
  /\ UNCHANGED <<expired, state, docs, indexed, serving, pc, cited, local, history>>

Expire(d) ==
  /\ d \in Expiring \ expired
  /\ expired' = expired \cup {d}
  /\ UNCHANGED <<source, state, docs, indexed, serving, pc, cited, local, history>>

\* A call ends, or throws: what it had read is forgotten.  An administrator may
\* ask again, and the dispatch of a case is tried again.
Leave(c, stage) ==
  /\ pc' = [pc EXCEPT ![c] = stage]
  /\ base' = [base EXCEPT ![c] = NoPublication] /\ chosen' = [chosen EXCEPT ![c] = None]
  /\ todo' = [todo EXCEPT ![c] = {}] /\ got' = [got EXCEPT ![c] = Empty]

-----------------------------------------------------------------------------
(* publishKnowledge: the base first, then the provider.                    *)

\* onlyIfMissing: a case that finds a publication goes on to search it.
Begin(c) ==
  /\ pc[c] = "idle"
  /\ IF c \in Cases /\ serving.gen # None THEN Leave(c, "search")
     ELSE /\ base' = [base EXCEPT ![c] = serving]
          /\ pc' = [pc EXCEPT ![c] = "list"]
          /\ UNCHANGED <<todo, got, chosen>>
  /\ UNCHANGED <<source, expired, state, docs, indexed, serving, cited, history>>

\* The listing: the published articles, on one page.
List(c) ==
  /\ pc[c] = "list"
  /\ todo' = [todo EXCEPT ![c] = {s \in Sources : Published(s)}]
  /\ pc' = [pc EXCEPT ![c] = "fetch"]
  /\ UNCHANGED <<source, expired, state, docs, indexed, serving, base, got, chosen, cited, history>>

Fetched(s) == Published(s)

\* The article is read again, and must not have been withdrawn meanwhile.
Fetch(c, s) ==
  /\ pc[c] = "fetch" /\ s \in todo[c]
  /\ IF Fetched(s)
     THEN /\ got' = [got EXCEPT ![c][s] = source[s]]
          /\ todo' = [todo EXCEPT ![c] = @ \ {s}]
          /\ UNCHANGED <<pc, base, chosen>>
     ELSE Leave(c, "idle")
  /\ UNCHANGED <<source, expired, state, docs, indexed, serving, cited, history>>

\* A candidate has documents, and none that has expired.
Complete(ds) == ds # {} /\ ds \cap expired = {}

\* Mutant: the vectors are left for later.
AfterBuildAtOnce == "activate"

AfterBuild == IF Vector THEN "vector" ELSE "activate"

\* buildCandidate: the documents and their seal are one transaction.
Build(c) ==
  /\ pc[c] = "fetch" /\ todo[c] = {}
  /\ IF Complete({d \in Sources \X Versions : got[c][d[1]] = d[2]})
     THEN \E g \in Generations :
            /\ state[g] = "unused"
            /\ state' = [state EXCEPT ![g] = "candidate"]
            /\ docs' = [docs EXCEPT ![g] = got[c]]
            /\ chosen' = [chosen EXCEPT ![c] = g]
            /\ pc' = [pc EXCEPT ![c] = AfterBuild]
            /\ UNCHANGED <<base, todo, got>>
     ELSE Leave(c, "idle") /\ UNCHANGED <<state, docs>>
  /\ UNCHANGED <<source, expired, indexed, serving, cited, history>>

\* buildPublishedVectorCandidate: the index, the embeddings, one upsert.
BuildIndex(c) ==
  /\ pc[c] = "vector"
  /\ indexed' = indexed \cup {chosen[c]}
  /\ pc' = [pc EXCEPT ![c] = "activate"]
  /\ UNCHANGED <<source, expired, state, docs, serving, cited, local, history>>

-----------------------------------------------------------------------------
(* activate: one transaction that moves the pointer or throws.             *)

MayServe(g) ==
  /\ state[g] \in {"candidate", "rolled_back"}
  /\ Complete(DocumentsOf(g))

\* Mutant: only the generation is compared, not the revision.
CurrentGeneration(c) == base[c].gen = serving.gen

\* Mutant: the pointer is read when it is moved.
CurrentAlways(c) == TRUE

Current(c) == base[c] = serving

Serve(g) ==
  /\ state' = [h \in Generations |-> IF h = g THEN "active"
                                     ELSE IF h = serving.gen THEN "rolled_back"
                                     ELSE state[h]]
  /\ serving' = [gen |-> g, revision |-> serving.revision + 1]
  /\ floor' = IF state[g] = "candidate" THEN before ELSE Empty
  /\ before' = source

\* A first reader that lost takes the publication of the winner, if any.
AfterLoss(c) == IF c \in Cases /\ serving.gen # None THEN "search" ELSE "idle"

Activate(c) ==
  /\ pc[c] = "activate"
  /\ IF MayServe(chosen[c]) /\ Current(c)
     THEN Serve(chosen[c]) /\ Leave(c, IF c \in Cases THEN "search" ELSE "idle")
     ELSE Leave(c, AfterLoss(c)) /\ UNCHANGED <<state, serving, history>>
  /\ UNCHANGED <<source, expired, docs, indexed, cited>>

\* rollback reads the pointer, then activates a generation that has served.
Rollback(c, g) ==
  /\ c \in Admins /\ pc[c] = "idle"
  /\ state[g] = "rolled_back" /\ serving.revision < MaxRevision
  /\ base' = [base EXCEPT ![c] = serving]
  /\ chosen' = [chosen EXCEPT ![c] = g]
  /\ pc' = [pc EXCEPT ![c] = "activate"]
  /\ UNCHANGED <<source, expired, state, docs, indexed, serving, todo, got, cited, history>>

\* The process dies, or a request to the provider or the model fails; as
\* often as it likes.
Interrupt(c) ==
  /\ pc[c] \in {"list", "fetch", "vector", "activate", "search", "read"}
  /\ Leave(c, "idle")
  /\ UNCHANGED <<source, expired, state, docs, indexed, serving, cited, history>>

-----------------------------------------------------------------------------
(* The case: search, evidence of the command, first effect.                *)

\* Mutant: any sealed generation of the account may be searched.
SearchedSealed(c) == {g \in Generations : state[g] # "unused"}

\* The search reads the pointer; in vector mode, once more before the query.
Searched(c) == {serving.gen}

ReadPointer(c) ==
  /\ pc[c] = "search"
  /\ chosen' \in {[chosen EXCEPT ![c] = g] : g \in Searched(c)}
  /\ pc' = [pc EXCEPT ![c] = "read"]
  /\ UNCHANGED <<source, expired, state, docs, indexed, serving, cited, base, todo, got, history>>

\* What of it the query finds; without the index the query fails.  The
\* command for the reviewer keeps what was found as its evidence.
ReadDocuments(c) ==
  /\ pc[c] = "read"
  /\ IF Vector /\ chosen[c] \notin indexed THEN Leave(c, "idle") /\ UNCHANGED cited
     ELSE \E found \in SUBSET (DocumentsOf(chosen[c]) \ expired) :
            IF found = {} THEN Leave(c, "refused") /\ UNCHANGED cited
            ELSE /\ cited' = [cited EXCEPT ![c] = [gen |-> chosen[c], docs |-> found]]
                 /\ Leave(c, "review")
  /\ UNCHANGED <<source, expired, state, docs, indexed, serving, history>>

\* Mutant: the cited rows are checked, not which generation serves.
MayExecuteRows(c) == cited[c].docs \subseteq DocumentsOf(cited[c].gen) \ expired

\* assertRefundPolicyEvidenceAtFirstEffect
MayExecute(c) ==
  /\ serving.gen = cited[c].gen /\ state[cited[c].gen] = "active"
  /\ cited[c].docs \subseteq DocumentsOf(cited[c].gen) \ expired

Execute(c) ==
  /\ pc[c] = "review"
  /\ pc' = [pc EXCEPT ![c] = IF MayExecute(c) THEN "effect" ELSE "refused"]
  /\ cited' = [cited EXCEPT ![c] = NoCitation]
  /\ UNCHANGED <<source, expired, state, docs, indexed, serving, local, history>>

-----------------------------------------------------------------------------
Init ==
  /\ source = [s \in Sources |-> 1] /\ expired = {}
  /\ state = [g \in Generations |-> "unused"] /\ docs = [g \in Generations |-> Empty]
  /\ indexed = {} /\ serving = NoPublication
  /\ pc = [c \in Callers |-> "idle"] /\ base = [c \in Callers |-> NoPublication]
  /\ todo = [c \in Callers |-> {}] /\ got = [c \in Callers |-> Empty] /\ chosen = [c \in Callers |-> None]
  /\ cited = [c \in Cases |-> NoCitation]
  /\ before = source /\ floor = Empty

Publish(c) ==
  \/ Begin(c) \/ List(c) \/ Build(c) \/ BuildIndex(c) \/ Activate(c) \/ Interrupt(c)
  \/ \E s \in Sources : Fetch(c, s)
  \/ \E g \in Generations : Rollback(c, g)

Resolve(c) == ReadPointer(c) \/ ReadDocuments(c) \/ Execute(c)

Next ==
  \/ \E s \in Sources : Edit(s)
  \/ \E d \in Expiring : Expire(d)
  \/ \E c \in Callers : Publish(c)
  \/ \E c \in Cases : Resolve(c)

Spec == Init /\ [][Next]_vars

-----------------------------------------------------------------------------
(* Properties.                                                             *)

\* Types; what is in a generation was published at the provider when it was read.
TypeOK ==
  /\ source \in [Sources -> Versions] /\ before \in [Sources -> Versions] /\ floor \in Documents
  /\ expired \subseteq Expiring /\ indexed \subseteq Generations
  /\ state \in [Generations -> {"unused", "candidate", "active", "rolled_back"}]
  /\ docs \in [Generations -> Documents]
  /\ \A g \in Generations : DocumentsOf(g) \cap Withdrawn = {}
  /\ serving \in [gen : Generations \cup {None}, revision : Nat]
  /\ pc \in [Callers -> Stages] /\ chosen \in [Callers -> Generations \cup {None}]
  /\ base \in [Callers -> [gen : Generations \cup {None}, revision : Nat]]
  /\ todo \in [Callers -> SUBSET Sources] /\ got \in [Callers -> Documents]
  /\ cited \in [Cases -> [gen : Generations \cup {None}, docs : SUBSET (Sources \X Versions)]]

\* knowledge-publications.ts, vector-store.ts: whatever dies or loses its race,
\* the pointer of the account is at the one active generation, which has
\* documents and, in vector mode, its whole index.  First readers that publish
\* at the same time go on only if there is one: who lost to nobody fails.
OneServing ==
  /\ {g \in Generations : state[g] = "active"} = {serving.gen} \ {None}
  /\ serving.gen # None =>
       DocumentsOf(serving.gen) # {} /\ (Vector => serving.gen \in indexed)
  /\ \A c \in Cases : pc[c] = "search" => serving.gen # None

\* The records are well formed, and what they serve is whole.
PublicationIsSound == TypeOK /\ OneServing

\* publish-knowledge.ts: a slow publication never brings back an article
\* that had been replaced when the generation before it was published, not
\* even after a rollback to the generation it started from.
FreshServing ==
  serving.gen # None => \A d \in DocumentsOf(serving.gen) : d[2] >= floor[d[1]]

\* knowledge-publications.ts, search: what a case cites was served to it, as
\* a whole, by one generation that was published; never by a candidate.
CitedWasServed ==
  \A c \in Cases : cited[c].gen # None =>
    /\ state[cited[c].gen] \in {"active", "rolled_back"}
    /\ cited[c].docs \subseteq DocumentsOf(cited[c].gen)

\* publish-knowledge.ts, onlyIfMissing: a first reader that is late never
\* replaces what an administrator, or another reader, has published.
ReaderNeverReplaces ==
  [][\A c \in Cases : pc[c] = "activate" /\ pc'[c] = "search" /\ serving' # serving
       => serving.gen = None]_vars

\* refund-policy-evidence-persistence.ts: however long the reviewer takes,
\* an effect rests on articles that have not expired and that had not been
\* replaced when the generation before the serving one was published.
EffectIsFresh ==
  [][\A c \in Cases : pc[c] = "review" /\ pc'[c] = "effect"
       => \A d \in cited[c].docs : d \notin expired /\ d[2] >= floor[d[1]]]_vars

=============================================================================

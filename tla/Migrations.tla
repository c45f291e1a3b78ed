----------------------------- MODULE Migrations -----------------------------
(***************************************************************************)
(* The schema of the case store: 26 scripts that a process applies when it *)
(* starts, each followed by a marker in support_schema_migrations.         *)
(*                                                                         *)
(* A command of a script is a transaction, or a list of statements that    *)
(* SQLite commits one by one.  The process may die between two commits,    *)
(* and a lock that another connection holds makes the client run a whole   *)
(* command again, or give up the start.                                    *)
(*                                                                         *)
(* The database is a set of pairs of a table and something it has: a       *)
(* column, an index, backfilled data or, as "rows", its rows.              *)
(***************************************************************************)
EXTENDS Naturals, SequencesExt

Latest == 26

VARIABLES
  db,       \* pairs of a table and something it has
  marks,    \* support_schema_migrations
  at,       \* "stopped", "migrating", "ready", "busy" (gave up), "broken" (SQL error)
  next,     \* the version, command and statement that a migrating process runs next
  first     \* the database at the beginning (history)

vars == <<db, marks, at, next, first>>

-----------------------------------------------------------------------------
(* Statements.                                                             *)

Statement(op, t, has, from, v) == [op |-> op, table |-> t, has |-> has, from |-> from, mark |-> v]

Create(t, has) == Statement("create", t, has, t, 0)
Ensure(t, has) == Statement("ensure", t, has, t, 0)
Index(t, i) == Statement("index", t, {i}, t, 0)
Drop(t) == Statement("drop", t, {}, t, 0)
Copy(from, t) == Statement("copy", t, {}, from, 0)
Rename(from, t) == Statement("rename", t, {}, from, 0)
Mark(v) == Statement("mark", "migrations", {}, "migrations", v)

\* ADD COLUMN whose "duplicate column" is caught, INDEX IF NOT EXISTS, and
\* backfills that skip what is filled: all may be repeated.
Add(t, has) == Statement("add", t, has, t, 0)

\* A table of the database, and what it has.
Exists(d, t) == \E p \in d : p[1] = t
Has(d, t, things) == \A x \in things : <<t, x>> \in d

Fails(d, m, s) ==
  CASE s.op = "create" -> Exists(d, s.table)
    [] s.op = "ensure" -> FALSE
    [] s.op = "rename" -> Exists(d, s.table) \/ ~Exists(d, s.from)
    [] s.op = "copy" -> ~Exists(d, s.from) \/ ~Exists(d, s.table) \/ Has(d, s.table, {"rows"})
    [] s.op = "index" -> ~Exists(d, s.table) \/ Has(d, s.table, s.has)
    [] s.op = "mark" -> s.mark \in m
    [] OTHER -> ~Exists(d, s.table)

Result(d, s) ==
  CASE s.op = "ensure" /\ Exists(d, s.table) -> d
    [] s.op = "drop" -> {p \in d : p[1] # s.table}
    [] s.op = "rename" -> {IF p[1] = s.from THEN <<s.table, p[2]>> ELSE p : p \in d}
    [] s.op = "copy" -> d \cup {<<s.table, p[2]>> : p \in d \cap {<<s.from, "rows">>}}
    [] s.op = "mark" -> d
    [] OTHER -> d \cup {<<s.table, x>> : x \in s.has}

\* A statement after one that failed changes nothing.
Execute(state, s) ==
  IF ~state.ok \/ Fails(state.db, state.marks, s) THEN [state EXCEPT !.ok = FALSE]
  ELSE [ok |-> TRUE, db |-> Result(state.db, s),
        marks |-> IF s.op = "mark" THEN state.marks \cup {s.mark} ELSE state.marks]

ExecuteAll(d, m, ss) == FoldLeft(Execute, [ok |-> TRUE, db |-> d, marks |-> m], ss)

-----------------------------------------------------------------------------
(* Commands: a transaction that is left out if a table already has         *)
(* something, or statements that are committed one by one.                 *)

Guarded(t, has, ss) == [atomic |-> TRUE, statements |-> ss, table |-> t, unless |-> has]
Transaction(ss) == Guarded("migrations", {}, ss)
Multiple(ss) == [atomic |-> FALSE, statements |-> ss, table |-> "migrations", unless |-> {}]
Adds(t, columns) == [i \in DOMAIN columns |-> Multiple(<<Add(t, {columns[i]})>>)]

Skipped(c, d) == c.unless # {} /\ Has(d, c.table, c.unless)

Rebuild(t, temporary, has) ==
  <<Create(temporary, has), Copy(t, temporary), Drop(t), Rename(temporary, t)>>

Marked(v) == <<Multiple(<<Mark(v)>>)>>

-----------------------------------------------------------------------------
(* The scripts.                                                            *)

Up1 == <<Multiple(<<Ensure("cases", {"v1"}), Add("cases", {"external"})>>)>> \o Marked(1)

Up2 ==
  Adds("cases", <<"version", "tenant", "binding">>)
  \o <<Multiple(<<Ensure("messages", {"v2"}), Ensure("events", {"v2"}), Ensure("actions", {"v2"}),
                  Ensure("idempotency", {"v2"}), Ensure("dispatch", {"v2"}),
                  Ensure("outbox", {"v2"}), Add("outbox", {"claimable"})>>),
       Multiple(<<Add("messages", {"backfilled"})>>)>>
  \o Marked(2)

Up3 ==
  Adds("outbox", <<"lease_until">>)
  \o <<Guarded("events", {"tenant"}, Rebuild("events", "events_v3", {"tenant"}))>>
  \o Marked(3)

Up4 ==
  <<Guarded("cases", {"scoped"},
            Rebuild("cases", "cases_v4", {"v1", "version", "tenant", "account", "binding"})
            \o <<Index("cases", "scoped")>>)>>
  \o Marked(4)

Up5 == Adds("dispatch", <<"lease_token">>) \o Adds("outbox", <<"lease_token">>) \o Marked(5)

Up6 ==
  <<Multiple(<<Ensure("turns", {"v6"}), Ensure("decisions", {"v6"}), Ensure("audit", {"v6"})>>)>>
  \o Marked(6)

Up7 ==
  <<Transaction(
      <<Add("turns", {"run_id", "command_fingerprint"})>>
      \o Rebuild("dispatch", "dispatch_v7", {"v7"})
      \o <<Index("dispatch", "claimable"), Index("dispatch", "case_state")>>
      \o Rebuild("decisions", "decisions_v7", {"v7"})
      \o <<Index("decisions", "command")>>)>>
  \o Marked(7)

Up8 ==
  Adds("turns", <<"message_data", "outcome_data">>)
  \o <<Multiple(<<Add("turns", {"backfilled"})>>)>>
  \o Marked(8)

Up9 ==
  <<Transaction(<<Add("cases", {"accepted_at"}), Ensure("conversations", {"v9"}),
                  Add("conversations", {"backfilled"}), Add("cases", {"accepted"}), Mark(9)>>)>>

Up10 ==
  <<Multiple(<<Ensure("feedback", {"v10"}), Add("feedback", {"case_created"})>>)>> \o Marked(10)

Up11 ==
  <<Transaction(
      <<Add("outbox", {"turn", "run", "trace", "correlation"}), Add("outbox", {"correlated"})>>
      \o Rebuild("feedback", "feedback_v11", {"v11"})
      \o <<Index("feedback", "exact_rating"), Index("feedback", "case_created"),
           Add("feedback", {"legacy"}), Mark(11)>>)>>

Up12 ==
  <<Multiple(<<Ensure("supervisor", {"v12"}), Add("supervisor", {"run"}),
               Add("supervisor", {"case_created"}), Add("supervisor", {"trace"})>>)>>
  \o Marked(12)

Up13 ==
  <<Transaction(<<Add("outbox", {"operation", "fingerprint", "next_attempt"}),
                  Ensure("limits", {"v13"}), Add("outbox", {"claimable_v13"}),
                  Add("outbox", {"fingerprinted"}), Mark(13)>>)>>

Up14 ==
  <<Multiple(<<Ensure("refunds", {"v14"}), Add("refunds", {"command"}),
               Add("refunds", {"reconcile"})>>)>>
  \o Marked(14)

Up15 == Adds("refunds", <<"turn_id", "command_data">>) \o Marked(15)

Up16 == Adds("refunds", <<"lease_token", "lease_until">>) \o Marked(16)

Up17 == Adds("refunds", <<"request_data">>) \o Marked(17)

Up18 ==
  Adds("refunds", <<"terminal_at", "attempts">>)
  \o <<Multiple(<<Add("refunds", {"terminal"})>>)>> \o Marked(18)

\* Mutant: the table is created without IF NOT EXISTS.
Up19Once ==
  <<Multiple(<<Create("cancellations", {"v19"}), Add("cancellations", {"command"})>>)>>
  \o Marked(19)

Up19 ==
  <<Multiple(<<Ensure("cancellations", {"v19"}), Add("cancellations", {"command"})>>)>>
  \o Marked(19)

\* Mutant: the old table is dropped before its rows are copied.
Up20Swapped ==
  <<Multiple(<<Create("cancellations_v20", {"v20"}), Drop("cancellations"),
               Copy("cancellations", "cancellations_v20"),
               Rename("cancellations_v20", "cancellations"),
               Index("cancellations", "command")>>)>>
  \o Marked(20)

Up20 ==
  <<Multiple(Rebuild("cancellations", "cancellations_v20", {"v20"})
             \o <<Index("cancellations", "command")>>)>>
  \o Marked(20)

Up21 ==
  <<Multiple(Rebuild("cancellations", "cancellations_v21", {"v21"})
             \o <<Index("cancellations", "command"), Index("cancellations", "recovery_due")>>)>>
  \o Marked(21)

Up22 ==
  <<Multiple(<<Ensure("receipts", {"v22"}), Add("receipts", {"retention"})>>)>> \o Marked(22)

Up23 == <<Multiple(<<Ensure("credits", {"v23"}), Add("credits", {"command"})>>)>> \o Marked(23)

Up24 ==
  <<Transaction(
      Rebuild("credits", "credits_v24", {"v24"})
      \o <<Index("credits", "command"), Ensure("reservations", {"v24"}),
           Add("reservations", {"retention"}), Add("reservations", {"backfilled"}), Mark(24)>>)>>

\* Mutant: the marker is written before the tables.
Up25MarkedFirst ==
  Marked(25)
  \o <<Multiple(<<Ensure("manual", {"v25"}), Add("manual", {"case"}),
                  Ensure("closes", {"v25"}), Add("closes", {"claimable"})>>)>>

Up25 ==
  <<Multiple(<<Ensure("manual", {"v25"}), Add("manual", {"case"}),
               Ensure("closes", {"v25"}), Add("closes", {"claimable"})>>)>>
  \o Marked(25)

Up26 == Marked(26)

Up == <<Up1, Up2, Up3, Up4, Up5, Up6, Up7, Up8, Up9, Up10, Up11, Up12, Up13, Up14, Up15, Up16,
        Up17, Up18, Up19, Up20, Up21, Up22, Up23, Up24, Up25, Up26>>

-----------------------------------------------------------------------------
(* The process.                                                            *)

Applied(m) == IF m = {} THEN 0 ELSE CHOOSE v \in m : \A u \in m : u <= v

version == next[1]
command == next[2]
statement == next[3]

\* The place from which a process goes on; all scripts done is ready.
Goto(v, c, s) ==
  /\ at' = IF v > Latest THEN "ready" ELSE "migrating"
  /\ next' = IF v > Latest THEN <<0, 0, 0>> ELSE <<v, c, s>>

Leave(place) == at' = place /\ next' = <<0, 0, 0>>

NextCommand == IF command < Len(Up[version]) THEN Goto(version, command + 1, 1)
                                             ELSE Goto(version + 1, 1, 1)

Current == Up[version][command]

\* ensured, migrate: the markers are read once.
Start ==
  /\ at = "stopped"
  /\ Goto(Applied(marks) + 1, 1, 1)
  /\ UNCHANGED <<db, marks, first>>

\* One commit: a transaction, or one statement of executeMultiple or execute.
Step ==
  /\ at = "migrating" /\ UNCHANGED first
  /\ LET single == SubSeq(Current.statements, statement, statement)
         state == ExecuteAll(db, marks, IF Current.atomic THEN Current.statements ELSE single)
     IN IF Skipped(Current, db) THEN NextCommand /\ UNCHANGED <<db, marks>>
        ELSE IF ~state.ok THEN Leave("broken") /\ UNCHANGED <<db, marks>>
        ELSE /\ db' = state.db /\ marks' = state.marks
             /\ IF Current.atomic \/ statement = Len(Current.statements) THEN NextCommand
                ELSE Goto(version, command, statement + 1)

\* withWriteLock, retryBusy: the operation is run again, or fails for good.
LockConflict ==
  /\ at = "migrating"
  /\ Goto(version, command, 1) \/ Leave("busy")
  /\ UNCHANGED <<db, marks, first>>

Crash ==
  /\ at = "migrating"
  /\ Leave("stopped")
  /\ UNCHANGED <<db, marks, first>>

\* ensured() keeps the rejected promise: only a new process tries again.
Restart ==
  /\ at \in {"ready", "busy", "broken"} /\ Leave("stopped")
  /\ UNCHANGED <<db, marks, first>>

\* The schema of version v, computed from what its scripts make and drop: what
\* is made in a temporary table belongs to the one that it replaces.
Statements(v) == UNION {Range(Up[v][c].statements) : c \in DOMAIN Up[v]}
Dropped(v) == {s.table : s \in {x \in Statements(v) : x.op = "drop"}}
Final(v, t) ==
  IF \E s \in Statements(v) : s.op = "rename" /\ s.from = t
  THEN (CHOOSE s \in Statements(v) : s.op = "rename" /\ s.from = t).table ELSE t
Made(v) == UNION {{<<Final(v, s.table), x>> : x \in s.has} :
                    s \in {y \in Statements(v) : y.op # "mark"}}

Schema ==
  [v \in 0..Latest |->
    {p \in UNION {Made(u) : u \in 1..v} :
       \E u \in 1..v : p \in Made(u) /\ \A later \in (u + 1)..v : p[1] \notin Dropped(later)}]

\* A database of an earlier release, new or with rows in all tables.
Init ==
  /\ \E v \in 0..Latest, rows \in SUBSET {"rows"} :
       /\ db = Schema[v] \cup ({p[1] : p \in Schema[v]} \X rows)
       /\ marks = 1..v
  /\ at = "stopped" /\ next = <<0, 0, 0>>
  /\ first = db

Next == Start \/ Step \/ LockConflict \/ Crash \/ Restart

Spec == Init /\ [][Next]_vars

-----------------------------------------------------------------------------
(* What must hold.                                                         *)

LeftOver == {t \in {"cancellations_v20", "cancellations_v21"} : Exists(db, t)}

\* The markers have no gap, and a process works on the first one that is missing.
TypeOK ==
  /\ marks \subseteq 1..Latest /\ marks = 1..Cardinality(marks)
  /\ at \in {"stopped", "migrating", "ready", "busy", "broken"}
  /\ at = "migrating" => version = Applied(marks) + 1

\* Whatever is marked as applied is there, however often the scripts were
\* interrupted and begun again, but for a table that the next script rebuilds.
MarkedIsBuilt ==
  LET v == Applied(marks)
  IN \A p \in Schema[v] : p \in db \/ (v < Latest /\ p[1] \in Dropped(v + 1))

\* A store that is ready has the schema of one that was never interrupted.
ReadyIsClean == at = "ready" => {p \in db : p[2] # "rows"} = Schema[Latest]

\* The schema is what its marks say, at every moment and when the store is used.
SchemaIsSound == TypeOK /\ MarkedIsBuilt /\ ReadyIsClean

\* The rows of a table survive in it or in the table that replaces it.
RowsSurvive ==
  \A p \in first : p[2] = "rows" =>
    p \in db \/ (p[1] = "cancellations" /\ \E t \in LeftOver : <<t, "rows">> \in db)

\* A start is refused by the schema, as every later start then is, only if one of
\* the two rebuilds that are not in a transaction was interrupted: its table is
\* left over.  After any other interruption a start gets through.
OnlyARebuildBlocks == at = "broken" => LeftOver # {}

=============================================================================

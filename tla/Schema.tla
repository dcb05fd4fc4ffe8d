------------------------------- MODULE Schema -------------------------------
(***************************************************************************)
(* Opening the database (open_default and migrate of db.rs): a program     *)
(* opens it once and keeps what came of it; the statements of a version    *)
(* and the row that says it was applied are separate transactions, two     *)
(* programs may be at it at once, and either may die anywhere.             *)
(***************************************************************************)
EXTENDS Integers, Sequences

CONSTANTS
  Programs,
  Versions,   \* versions of the schema
  Statements, \* statements of a version
  MaxRuns     \* bound: times a program is started

VARIABLES
  tables,   \* the statements that took effect, a version and a number each
  applied,  \* the rows of migrations
  program   \* program[p]: where it is, the version and statement it is at, its starts

vars == <<tables, applied, program>>

Statement == (1 .. Versions) \X (1 .. Statements)

TypeOK ==
  /\ tables \subseteq Statement /\ applied \subseteq 1 .. Versions
  /\ \A p \in Programs :
       /\ program[p].at \in {"off", "table", "current", "batch", "row", "ready", "failed"}
       /\ program[p].version \in 1 .. Versions + 1 /\ program[p].step \in 1 .. Statements + 1
       /\ program[p].runs \in 0 .. MaxRuns

Init ==
  /\ tables = {} /\ applied = {}
  /\ program = [p \in Programs |-> [at |-> "off", version |-> 1, step |-> 1, runs |-> 0]]

Goto(p, l) == program' = [program EXCEPT ![p].at = l]

-----------------------------------------------------------------------------
OpenDefault(p) ==
  /\ program[p].at = "off" /\ program[p].runs < MaxRuns
  /\ program' = [program EXCEPT ![p] = [at |-> "table", version |-> 1, step |-> 1, runs |-> @.runs + 1]]
  /\ UNCHANGED <<tables, applied>>

\* The table of versions; the folder, the file or the lock may refuse.
MigrationsTable(p) ==
  /\ program[p].at = "table"
  /\ Goto(p, "current") \/ Goto(p, "failed")
  /\ UNCHANGED <<tables, applied>>

\* COALESCE(MAX(version), 0)
Highest(S) == IF S = {} THEN 0 ELSE CHOOSE v \in S : \A w \in S : w <= v

Go(p, v) ==
  program' = [program EXCEPT ![p] = [@ EXCEPT !.at = IF v > Versions THEN "ready" ELSE "batch",
                                              !.version = v, !.step = 1]]

\* Versions up to the highest are taken as applied.
Current(p) ==
  /\ program[p].at = "current"
  /\ Go(p, Highest(applied) + 1)
  /\ UNCHANGED <<tables, applied>>

\* execute_batch: one statement at a time, each CREATE ... IF NOT EXISTS.
Execute(p) ==
  /\ program[p].at = "batch"
  /\ \/ /\ tables' = tables \cup {<<program[p].version, program[p].step>>}
        /\ program' = [program EXCEPT ![p] = [@ EXCEPT !.at = IF program[p].step = Statements THEN "row" ELSE "batch",
                                                       !.version = program[p].version, !.step = program[p].step + 1]]
     \/ /\ Goto(p, "failed")
        /\ UNCHANGED tables
  /\ UNCHANGED applied

\* Mutant: a version another program applied is taken as done by this one.
Row_Skips(p) ==
  /\ program[p].at = "row"
  /\ IF program[p].version \in applied
       THEN Goto(p, "ready") /\ UNCHANGED applied
       ELSE applied' = applied \cup {program[p].version} /\ Go(p, program[p].version + 1)
  /\ UNCHANGED tables

\* The version is a primary key: of two programs the second fails here, and
\* stays without a database until it is started again.
Row(p) ==
  /\ program[p].at = "row"
  /\ IF program[p].version \in applied
       THEN Goto(p, "failed") /\ UNCHANGED applied
       ELSE applied' = applied \cup {program[p].version} /\ Go(p, program[p].version + 1)
  /\ UNCHANGED tables

\* The program ends, or dies.
Quit(p) ==
  /\ program[p].at # "off"
  /\ Goto(p, "off")
  /\ UNCHANGED <<tables, applied>>

Next == \E p \in Programs :
  OpenDefault(p) \/ MigrationsTable(p) \/ Current(p) \/ Execute(p) \/ Row(p) \/ Quit(p)

Spec == Init /\ [][Next]_vars

-----------------------------------------------------------------------------
(* Properties. *)

\* A program that has its database has all of the schema, whatever other
\* programs did at the time and wherever earlier ones died; and a row of
\* migrations stands for the whole of its version and of those before
\* (db.rs:168-199).
SchemaIsComplete ==
  /\ \A p \in Programs : program[p].at = "ready" => tables = Statement /\ applied = 1 .. Versions
  /\ \A v \in applied : \A s \in Statement : s[1] <= v => s \in tables
=============================================================================

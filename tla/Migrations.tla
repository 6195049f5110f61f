------------------------------- MODULE Migrations -------------------------------
(* Migrators of one database: the worker's candidate task, which is told the    *)
(* manifest it must find, and the plain command. Each holds the session lock    *)
(* from before it reads the journal until its end. migrations.ts, jobs/migrate. *)
(* Abstractions: a migration stands for its journal row (hash and timestamp)    *)
(* and the SQL it ran, which one transaction writes; a candidate is the set of  *)
(* migrations of its manifest; the connections of a migrator end together.      *)
EXTENDS Integers, FiniteSets

CONSTANTS
  Candidates,   \* commits that can be released or migrated to
  Migrations,   \* SQL files of all of them
  Manifest,     \* the migrations of a candidate
  When,         \* their timestamps: two files may share one, two of a manifest not
  First,        \* 0000, which every manifest has and which creates the tables
  Tasks,        \* migrators, each run at most once
  None

ASSUME MigrationsAssumption ==
  /\ Manifest \in [Candidates -> SUBSET Migrations] /\ When \in [Migrations -> Nat]
  /\ First \in Migrations /\ \A c \in Candidates : First \in Manifest[c]
  /\ \A c \in Candidates : \A m, n \in Manifest[c] : m # n => When[m] # When[n]
  /\ None \notin Tasks

VARIABLES
  rows,     \* how often a migration is in the journal
  legacy,   \* application tables without a journal
  lock,     \* the holder of the advisory lock
  task      \* the migrators

migrationVars == <<rows, legacy, lock, task>>

Waiting == [at |-> "none", code |-> None, gated |-> FALSE, pending |-> {}]
Locked  == {"locked", "checked", "read", "applied", "attested"}

Journal == {m \in Migrations : rows[m] > 0}

\* assertJournal: the rows are the first of the manifest, or all of them.
IsPrefix(c) ==
  /\ \A m \in Migrations : rows[m] <= IF m \in Manifest[c] THEN 1 ELSE 0
  /\ \A m \in Manifest[c], n \in Journal : When[m] < When[n] => m \in Journal
IsComplete(c) == \A m \in Migrations : rows[m] = IF m \in Manifest[c] THEN 1 ELSE 0

\* Drizzle's migrate: what is newer than the last row of the journal.
Newer(c) == {m \in Manifest[c] : \A n \in Journal : When[n] < When[m]}

MigrationsInit(full) ==
  /\ rows = [m \in Migrations |-> IF m \in full THEN 1 ELSE 0]
  /\ legacy = FALSE
  /\ lock = None
  /\ task = [t \in Tasks |-> Waiting]

Moves(t, at) == task' = [task EXCEPT ![t].at = at]

\* The end of a migrator, at whatever point: its lock goes with it.
Ends(t, at) ==
  /\ Moves(t, at)
  /\ lock' = IF lock = t THEN None ELSE lock

Launch(t, c, gated) ==
  /\ task[t].at = "none"
  /\ task' = [task EXCEPT ![t] = [at |-> "waiting", code |-> c, gated |-> gated, pending |-> {}]]
  /\ UNCHANGED <<rows, legacy, lock>>

\* mutant: the lock is not waited for
AcquireAnyway(t) ==
  /\ task[t].at = "waiting"
  /\ Moves(t, "locked") /\ lock' = t
  /\ UNCHANGED <<rows, legacy>>

Acquire(t) ==
  /\ task[t].at = "waiting" /\ lock = None
  /\ Moves(t, "locked") /\ lock' = t
  /\ UNCHANGED <<rows, legacy>>

\* A candidate goes on only from a prefix of its own history, and from an empty
\* one only if there are no tables.
CheckPrefix(t) ==
  /\ task[t].at = "locked"
  /\ IF task[t].gated => IsPrefix(task[t].code) /\ (Journal = {} => ~legacy)
     THEN Moves(t, "checked") /\ UNCHANGED lock
     ELSE Ends(t, "failed")
  /\ UNCHANGED <<rows, legacy>>

ReadLast(t) ==
  /\ task[t].at = "checked"
  /\ task' = [task EXCEPT ![t].at = "read", ![t].pending = Newer(task[t].code)]
  /\ UNCHANGED <<rows, legacy, lock>>

\* One transaction for all pending files and their rows; 0000 fails on tables
\* that exist.
Apply(t) ==
  /\ task[t].at = "read"
  /\ IF First \in task[t].pending /\ (legacy \/ First \in Journal)
     THEN Ends(t, "failed") /\ UNCHANGED rows
     ELSE /\ rows' = [m \in Migrations |-> rows[m] + IF m \in task[t].pending THEN 1 ELSE 0]
          /\ Moves(t, "applied") /\ UNCHANGED lock
  /\ UNCHANGED legacy

Attest(t) ==
  /\ task[t].at = "applied" /\ task[t].gated
  /\ IF IsComplete(task[t].code) THEN Moves(t, "attested") /\ UNCHANGED lock ELSE Ends(t, "failed")
  /\ UNCHANGED <<rows, legacy>>

Unlock(t) ==
  /\ task[t].at = IF task[t].gated THEN "attested" ELSE "applied"
  /\ Ends(t, "done")
  /\ UNCHANGED <<rows, legacy>>

\* It is stopped or dies, waits too long for the lock, its SQL fails and rolls
\* back, or the schema does not satisfy the readiness contract.
Kill(t) ==
  /\ task[t].at \in {"waiting"} \union Locked
  /\ Ends(t, "failed")
  /\ UNCHANGED <<rows, legacy>>

Migrate(t) ==
  Acquire(t) \/ CheckPrefix(t) \/ ReadLast(t) \/ Apply(t) \/ Attest(t) \/ Unlock(t) \/ Kill(t)
=================================================================================

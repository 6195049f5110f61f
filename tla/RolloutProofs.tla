----------------------------- MODULE RolloutProofs -----------------------------
(* For any number of candidates, releases and migrators: what runs is migrated  *)
(* to, the journal never forks, and hosts are started and kept deliberately.    *)
EXTENDS Rollout, TLAPS

USE DEF Locked, Stable, Journal

TaskType == [at : {"none", "waiting", "done", "failed"} \union Locked,
             code : Candidates \union {None}, gated : BOOLEAN, pending : SUBSET Migrations]
MigrationTypes ==
  rows \in [Migrations -> Nat] /\ legacy \in BOOLEAN /\ lock \in Tasks \union {None}
  /\ task \in [Tasks -> TaskType]

\* The holder of the lock is the one migrator between its lock and its end.
LockHeld == \A t \in Tasks : task[t].at \in Locked <=> lock = t

Once == \A m \in Migrations : rows[m] <= 1
NoRows == legacy => Journal = {}

\* What a migrator found under the lock is still so.
Found(t) ==
  /\ task[t].at # "none" => task[t].code \in Candidates
  /\ task[t].at = "read" => task[t].pending = Newer(task[t].code)
  /\ task[t].gated =>
       /\ task[t].at \in {"checked", "read"} => IsPrefix(task[t].code)
       /\ task[t].at \in {"applied", "attested"} => IsComplete(task[t].code)
       /\ task[t].at = "done" => Manifest[task[t].code] \subseteq Journal

MigrationInv == MigrationTypes /\ LockHeld /\ Once /\ NoRows /\ \A t \in Tasks : Found(t)

-------------------------------------------------------------------------------
(* Migrators                                                                  *)

\* A step of t that leaves the journal alone.
LEMMA Steps ==
  ASSUME MigrationInv, NEW t \in Tasks, NEW new \in TaskType, UNCHANGED <<rows, legacy>>,
         task' = [task EXCEPT ![t] = new], lock' \in Tasks \union {None},
         new.at \in Locked <=> lock' = t,
         \A u \in Tasks \ {t} : lock = u <=> lock' = u,
         Found(t)'
  PROVE  MigrationInv'
<1>1. \A u \in Tasks : task'[u] = IF u = t THEN new ELSE task[u]
  BY DEF MigrationInv, MigrationTypes
<1>2. MigrationTypes'
  BY <1>1 DEF MigrationInv, MigrationTypes
<1>3. LockHeld'
  BY <1>1 DEF MigrationInv, LockHeld
<1>4. Once' /\ NoRows'
  BY DEF MigrationInv, Once, NoRows
<1>5. \A u \in Tasks : Found(u)'
  <2> SUFFICES ASSUME NEW u \in Tasks, u # t PROVE Found(u)'
    OBVIOUS
  <2> QED
    BY <1>1 DEF MigrationInv, Found, IsPrefix, IsComplete, Newer
<1> QED
  BY <1>2, <1>3, <1>4, <1>5 DEF MigrationInv

\* A migrator that ends gives its lock back, and no other one.
LEMMA Ending ==
  ASSUME MigrationInv, NEW t \in Tasks, NEW at \in {"done", "failed"}, Ends(t, at),
         UNCHANGED <<rows, legacy>>, Found(t)'
  PROVE  MigrationInv'
<1> DEFINE new == [task[t] EXCEPT !.at = at]
<1>1. new \in TaskType /\ new.at = at /\ task' = [task EXCEPT ![t] = new]
  BY DEF MigrationInv, MigrationTypes, TaskType, Ends, Moves
<1>2. lock' \in Tasks \union {None} /\ lock' # t /\ \A u \in Tasks \ {t} : lock = u <=> lock' = u
  BY MigrationsAssumption DEF MigrationInv, MigrationTypes, Ends
<1> HIDE DEF new
<1> QED
  BY <1>1, <1>2, Steps

\* What Drizzle adds to a prefix of a manifest completes it.
LEMMA Completes ==
  ASSUME MigrationInv, NEW c \in Candidates, IsPrefix(c),
         rows' = [m \in Migrations |-> rows[m] + IF m \in Newer(c) THEN 1 ELSE 0]
  PROVE  IsComplete(c)'
<1> SUFFICES ASSUME NEW m \in Migrations
             PROVE  rows'[m] = IF m \in Manifest[c] THEN 1 ELSE 0
  BY DEF IsComplete
<1>1. rows[m] \in Nat /\ When[m] \in Nat
  BY MigrationsAssumption DEF MigrationInv, MigrationTypes
<1>2. rows[m] <= IF m \in Manifest[c] THEN 1 ELSE 0
  BY DEF IsPrefix
<1>3. rows'[m] = rows[m] + IF m \in Newer(c) THEN 1 ELSE 0
  OBVIOUS
<1>4. CASE m \notin Manifest[c]
  BY <1>1, <1>2, <1>3, <1>4 DEF Newer
<1>5. CASE m \in Manifest[c] /\ m \in Journal
  <2>1. m \notin Newer(c)
    BY <1>1, <1>5 DEF Newer
  <2> QED
    BY <1>1, <1>2, <1>3, <1>5, <2>1
<1>6. CASE m \in Manifest[c] /\ m \notin Journal
  <2>1. ASSUME NEW n \in Journal PROVE When[n] < When[m]
    <3>1. n \in Migrations /\ rows[n] \in Nat /\ rows[n] > 0 /\ When[n] \in Nat
      BY MigrationsAssumption DEF MigrationInv, MigrationTypes
    <3>2. n \in Manifest[c]
      BY <3>1 DEF IsPrefix
    <3>3. n # m
      BY <1>6
    <3>4. When[n] # When[m]
      BY <1>6, <3>2, <3>3, MigrationsAssumption
    <3>5. ~(When[m] < When[n])
      BY <1>6 DEF IsPrefix
    <3> QED
      BY <1>1, <3>1, <3>4, <3>5
  <2>2. m \in Newer(c)
    BY <1>6, <2>1 DEF Newer
  <2> QED
    BY <1>1, <1>3, <1>6, <2>2
<1> QED
  BY <1>4, <1>5, <1>6

LEMMA ApplyStep ==
  ASSUME MigrationInv, NEW t \in Tasks, Apply(t)
  PROVE  MigrationInv' /\ Journal \subseteq Journal'
<1>0. task[t].at = "read" /\ lock = t /\ task[t].pending = Newer(task[t].code)
      /\ task[t].code \in Candidates /\ task[t] \in TaskType
  BY DEF Apply, MigrationInv, LockHeld, Found, MigrationTypes
<1>1. CASE First \in task[t].pending /\ (legacy \/ First \in Journal)
  <2>1. Ends(t, "failed") /\ UNCHANGED <<rows, legacy>>
    BY <1>1 DEF Apply
  <2>2. Found(t)'
    BY <1>0, <2>1 DEF Ends, Moves, Found, MigrationInv, MigrationTypes, TaskType
  <2> QED
    BY <2>1, <2>2, Ending
<1>2. CASE ~(First \in task[t].pending /\ (legacy \/ First \in Journal))
  <2>1. /\ rows' = [m \in Migrations |-> rows[m] + IF m \in Newer(task[t].code) THEN 1 ELSE 0]
        /\ Moves(t, "applied") /\ UNCHANGED <<lock, legacy>>
    BY <1>0, <1>2 DEF Apply
  <2>2. \A u \in Tasks : task'[u] = IF u = t THEN [task[t] EXCEPT !.at = "applied"] ELSE task[u]
    BY <2>1 DEF Moves, MigrationInv, MigrationTypes
  <2>3. \A m \in Migrations : rows[m] \in Nat /\ rows'[m] \in Nat /\ rows[m] <= rows'[m]
    BY <2>1 DEF MigrationInv, MigrationTypes
  <2>4. MigrationTypes'
    <3>1. [task[t] EXCEPT !.at = "applied"] \in TaskType
      BY <1>0 DEF TaskType
    <3>2. task' \in [Tasks -> TaskType]
      BY <2>1, <3>1 DEF Moves, MigrationInv, MigrationTypes
    <3>3. rows' \in [Migrations -> Nat]
      BY <2>1, <2>3
    <3> QED
      BY <2>1, <3>2, <3>3 DEF MigrationInv, MigrationTypes
  <2>5. LockHeld'
    BY <1>0, <2>1, <2>2 DEF MigrationInv, LockHeld, TaskType
  <2>6. Journal \subseteq Journal'
    BY <2>3
  <2>7. Once'
    <3> SUFFICES ASSUME NEW m \in Migrations PROVE rows'[m] <= 1
      BY DEF Once
    <3>1. rows[m] > 0 => m \notin Newer(task[t].code)
      BY MigrationsAssumption DEF Newer
    <3> QED
      BY <2>1, <2>3, <3>1 DEF MigrationInv, Once
  <2>8. NoRows'
    <3> SUFFICES ASSUME legacy PROVE FALSE
      BY <2>1 DEF NoRows
    <3>1. Journal = {}
      BY DEF MigrationInv, NoRows
    <3>2. First \in Newer(task[t].code)
      BY <1>0, <3>1, MigrationsAssumption DEF Newer
    <3> QED
      BY <1>0, <1>2, <3>2
  <2>9. \A u \in Tasks : Found(u)'
    <3> SUFFICES ASSUME NEW u \in Tasks PROVE Found(u)'
      OBVIOUS
    <3>1. CASE u = t
      <4>1. task'[t].at = "applied" /\ task'[t].code = task[t].code /\ task'[t].gated = task[t].gated
        BY <1>0, <2>2 DEF TaskType
      <4>2. task[t].gated => IsPrefix(task[t].code)
        BY <1>0 DEF MigrationInv, Found
      <4>3. ASSUME NEW c \in Candidates, c = task[t].code, IsPrefix(c) PROVE IsComplete(c)'
        BY <1>0, <2>1, <4>3, Completes
      <4>4. task'[t].gated => IsComplete(task[t].code)'
        BY <1>0, <4>1, <4>2, <4>3 DEF IsComplete
      <4> QED
        BY <1>0, <3>1, <4>1, <4>4 DEF Found
    <3>2. CASE u # t
      <4>1. task'[u] = task[u] /\ task[u].at \notin Locked
        BY <1>0, <2>2, <3>2 DEF MigrationInv, LockHeld
      <4> QED
        BY <2>6, <4>1 DEF MigrationInv, Found
    <3> QED
      BY <3>1, <3>2
  <2> QED
    BY <2>4, <2>5, <2>6, <2>7, <2>8, <2>9 DEF MigrationInv
<1> QED
  BY <1>1, <1>2

\* A step of a migrator keeps the invariant, and the journal only grows.
LEMMA MigrateStep ==
  ASSUME MigrationInv, NEW t \in Tasks, Migrate(t)
  PROVE  /\ MigrationInv' /\ Journal \subseteq Journal' /\ task[t].at # "none"
         /\ \A u \in Tasks : /\ task'[u].code = task[u].code /\ task'[u].gated = task[u].gated
                             /\ task'[u].at = "none" <=> task[u].at = "none"
<1>0. task[t] \in TaskType /\ Found(t) /\ (task[t].at \in Locked <=> lock = t)
  BY DEF MigrationInv, MigrationTypes, LockHeld
<1>1. task[t].at # "none"
  BY <1>0 DEF Migrate, Acquire, CheckPrefix, ReadLast, Apply, Attest, Unlock, Kill, TaskType
<1>2. \E at \in {"locked", "checked", "read", "applied", "attested", "done", "failed"} :
        \E p \in SUBSET Migrations :
          task' = [task EXCEPT ![t] = [task[t] EXCEPT !.at = at, !.pending = p]]
  <2>1. task[t].pending \in SUBSET Migrations /\ Newer(task[t].code) \in SUBSET Migrations
    BY <1>0, <1>1, MigrationsAssumption DEF TaskType, Found, Newer
  <2>2. \E at \in {"locked", "checked", "read", "applied", "attested", "done", "failed"} :
          ReadLast(t) \/ Moves(t, at)
    BY DEF Migrate, Acquire, CheckPrefix, Apply, Attest, Unlock, Kill, Ends
  <2>3. CASE ReadLast(t)
    <3>1. PICK p \in SUBSET Migrations : p = Newer(task[t].code)
      BY <2>1
    <3>2. task' = [task EXCEPT ![t].at = "read", ![t].pending = p]
      BY <2>3, <3>1 DEF ReadLast
    <3>3. task' = [task EXCEPT ![t] = [task[t] EXCEPT !.at = "read", !.pending = p]]
      BY <1>0, <3>2 DEF TaskType
    <3> QED
      BY <3>3
  <2>4. ASSUME NEW at, Moves(t, at)
        PROVE  task' = [task EXCEPT ![t] = [task[t] EXCEPT !.at = at, !.pending = task[t].pending]]
    BY <1>0, <2>4 DEF Moves, TaskType
  <2> QED
    BY <2>1, <2>2, <2>3, <2>4
<1>3. \A u \in Tasks : /\ task'[u].code = task[u].code /\ task'[u].gated = task[u].gated
                       /\ task'[u].at = "none" <=> task[u].at = "none"
  BY <1>0, <1>1, <1>2 DEF MigrationInv, MigrationTypes, TaskType
<1>4. Apply(t) => MigrationInv' /\ Journal \subseteq Journal'
  BY ApplyStep
<1>5. ASSUME ~Apply(t) PROVE UNCHANGED <<rows, legacy>>
  BY <1>5 DEF Migrate, Acquire, CheckPrefix, ReadLast, Attest, Unlock, Kill
<1>6. ASSUME UNCHANGED <<rows, legacy>>, NEW at, Moves(t, at), UNCHANGED lock, lock = t,
             at \in Locked, Found(t)'
      PROVE  MigrationInv'
  <2> DEFINE new == [task[t] EXCEPT !.at = at]
  <2>1. new \in TaskType /\ new.at = at /\ task' = [task EXCEPT ![t] = new]
    BY <1>0, <1>6 DEF TaskType, Moves
  <2> HIDE DEF new
  <2> QED
    BY <1>6, <2>1, Steps DEF MigrationInv, MigrationTypes
<1>7. CASE Acquire(t)
  <2> DEFINE new == [task[t] EXCEPT !.at = "locked"]
  <2>1. new \in TaskType /\ new.at = "locked" /\ task' = [task EXCEPT ![t] = new]
    BY <1>0, <1>7 DEF TaskType, Moves, Acquire
  <2>2. Found(t)'
    BY <1>0, <1>7, <2>1 DEF Found, Acquire, MigrationInv, MigrationTypes, TaskType
  <2>3. lock = None /\ lock' = t /\ None \notin Tasks /\ UNCHANGED <<rows, legacy>>
    BY <1>7, MigrationsAssumption DEF Acquire
  <2> HIDE DEF new
  <2> QED
    BY <1>1, <1>3, <2>1, <2>2, <2>3, Steps
<1>8. CASE CheckPrefix(t)
  <2>1. CASE task[t].gated => IsPrefix(task[t].code) /\ (Journal = {} => ~legacy)
    <3>1. Moves(t, "checked") /\ UNCHANGED <<rows, legacy, lock>> /\ lock = t
      BY <1>0, <1>8, <2>1 DEF CheckPrefix
    <3>2. task'[t] = [task[t] EXCEPT !.at = "checked"]
      BY <3>1 DEF Moves, MigrationInv, MigrationTypes
    <3>3. Found(t)'
      BY <1>0, <1>1, <2>1, <3>1, <3>2 DEF Found, TaskType, IsPrefix
    <3> QED
      BY <1>1, <1>3, <1>6, <3>1, <3>3
  <2>2. CASE ~(task[t].gated => IsPrefix(task[t].code) /\ (Journal = {} => ~legacy))
    <3>1. Ends(t, "failed") /\ UNCHANGED <<rows, legacy>>
      BY <1>8, <2>2 DEF CheckPrefix
    <3>2. Found(t)'
      BY <1>0, <1>1, <3>1 DEF Ends, Moves, Found, MigrationInv, MigrationTypes, TaskType
    <3> QED
      BY <1>1, <1>3, <3>1, <3>2, Ending
  <2> QED
    BY <2>1, <2>2
<1>9. CASE ReadLast(t)
  <2> DEFINE new == [task[t] EXCEPT !.at = "read", !.pending = Newer(task[t].code)]
  <2>1. Newer(task[t].code) \subseteq Migrations
    BY <1>0, <1>1, MigrationsAssumption DEF Found, Newer
  <2>2. new \in TaskType /\ new.at = "read" /\ task' = [task EXCEPT ![t] = new]
        /\ task'[t] = new /\ UNCHANGED <<rows, legacy, lock>> /\ lock = t
    BY <1>0, <1>9, <2>1 DEF TaskType, ReadLast, MigrationInv, MigrationTypes
  <2>3. Found(t)'
    BY <1>0, <1>1, <1>9, <2>2 DEF Found, ReadLast, Newer, IsPrefix, TaskType
  <2> HIDE DEF new
  <2> QED
    BY <1>1, <1>3, <2>2, <2>3, Steps
<1>10. CASE Attest(t)
  <2>1. CASE IsComplete(task[t].code)
    <3>1. Moves(t, "attested") /\ UNCHANGED <<rows, legacy, lock>> /\ lock = t
      BY <1>0, <1>10, <2>1 DEF Attest
    <3>2. task'[t] = [task[t] EXCEPT !.at = "attested"]
      BY <3>1 DEF Moves, MigrationInv, MigrationTypes
    <3>3. Found(t)'
      BY <1>0, <1>1, <2>1, <3>1, <3>2 DEF Found, TaskType, IsComplete
    <3> QED
      BY <1>1, <1>3, <1>6, <3>1, <3>3
  <2>2. CASE ~IsComplete(task[t].code)
    <3>1. Ends(t, "failed") /\ UNCHANGED <<rows, legacy>>
      BY <1>10, <2>2 DEF Attest
    <3>2. Found(t)'
      BY <1>0, <1>1, <3>1 DEF Ends, Moves, Found, MigrationInv, MigrationTypes, TaskType
    <3> QED
      BY <1>1, <1>3, <3>1, <3>2, Ending
  <2> QED
    BY <2>1, <2>2
<1>11. CASE Unlock(t)
  <2>1. Ends(t, "done") /\ UNCHANGED <<rows, legacy>>
    BY <1>11 DEF Unlock
  <2>2. task'[t] = [task[t] EXCEPT !.at = "done"]
    BY <2>1 DEF Ends, Moves, MigrationInv, MigrationTypes
  <2>3. task[t].gated => Manifest[task[t].code] \subseteq Journal
    BY <1>0, <1>1, <1>11, MigrationsAssumption DEF Unlock, Found, IsComplete
  <2>4. Found(t)'
    BY <1>0, <1>1, <2>1, <2>2, <2>3 DEF Found, TaskType
  <2> QED
    BY <1>1, <1>3, <2>1, <2>4, Ending
<1>12. CASE Kill(t)
  <2>1. Ends(t, "failed") /\ UNCHANGED <<rows, legacy>>
    BY <1>12 DEF Kill
  <2>2. Found(t)'
    BY <1>0, <1>1, <2>1 DEF Ends, Moves, Found, MigrationInv, MigrationTypes, TaskType
  <2> QED
    BY <1>1, <1>3, <2>1, <2>2, Ending
<1> QED
  BY <1>1, <1>3, <1>4, <1>7, <1>8, <1>9, <1>10, <1>11, <1>12 DEF Migrate

-------------------------------------------------------------------------------
(* The stack and the releases                                                 *)

HasDatabase == stack.status \in Stable \union {"updating"}
Migrating == {"launch", "migrating", "verified", "activating"}

StackType == [status : {"absent", "review", "creating", "broken", "updating"} \union Stable,
              id : Nat, hosts : Candidates \union {Old, Inactive, None},
              next : Candidates \union {Inactive, None}]
ReleaseType == [at : Phases, code : Candidates \union {None}, ready : BOOLEAN,
                first : BOOLEAN, inactive : BOOLEAN, id : Nat, creates : BOOLEAN]
StackTypes == stack \in StackType /\ release \in [Releases -> ReleaseType]

\* Without a database nothing migrates and nothing is deployed.
Database ==
  /\ ~HasDatabase => /\ stack.hosts = None
                     /\ \A t \in Tasks : task[t].at = "none"
                     /\ \A r \in Releases : release[r].at \notin Migrating
  /\ HasDatabase => stack.hosts # None
  /\ stack.status = "updating" <=> stack.next # None
  /\ stack.next # Inactive

\* What a release knows is still so when it uses it.
Knows(r) ==
  /\ release[r].at # "idle" => release[r].code \in Candidates
  /\ release[r].at = "execute" => release[r].creates
  /\ release[r].at = "migrating" =>
       task[r].at # "none" /\ task[r].gated /\ task[r].code = release[r].code
  /\ release[r].at = "verified" => Manifest[release[r].code] \subseteq Journal
  /\ release[r].at \in Migrating /\ ~release[r].inactive => stack.hosts # Inactive

IInv ==
  /\ MigrationInv /\ StackTypes /\ Database
  /\ \A r \in Releases : Knows(r)
  /\ ActivatedIsMigrated

THEOREM InitIInv == Init => IInv
<1> SUFFICES ASSUME Init PROVE IInv
  OBVIOUS
<1>1. PICK full \in SUBSET Migrations :
        /\ MigrationsInit(full)
        /\ \/ stack = [status |-> "absent", id |-> 0, hosts |-> None, next |-> None]
           \/ \E c \in Candidates : /\ full = Manifest[c]
                /\ stack = [status |-> "updated", id |-> 1, hosts |-> c, next |-> None]
  BY MigrationsAssumption DEF Init
<1>2. MigrationInv
  <2>1. /\ rows = [m \in Migrations |-> IF m \in full THEN 1 ELSE 0]
        /\ legacy = FALSE /\ lock = None /\ task = [t \in Tasks |-> Waiting]
    BY <1>1 DEF MigrationsInit
  <2>2. Waiting \in TaskType
    BY DEF Waiting, TaskType
  <2>3. MigrationTypes
    BY <2>1, <2>2 DEF MigrationTypes
  <2>4. LockHeld /\ \A t \in Tasks : Found(t)
    BY <2>1, MigrationsAssumption DEF LockHeld, Found, Waiting
  <2>5. Once /\ NoRows
    BY <2>1 DEF Once, NoRows
  <2> QED
    BY <2>3, <2>4, <2>5 DEF MigrationInv
<1>3. StackTypes /\ Database
  BY <1>1, RolloutAssumption
     DEF Init, NotRun, Phases, MigrationsInit, Waiting, StackTypes, StackType, ReleaseType,
         Database, HasDatabase, Migrating
<1>4. \A r \in Releases : Knows(r)
  BY DEF Init, NotRun, Knows, Migrating
<1>5. ActivatedIsMigrated
  BY <1>1, MigrationsAssumption, RolloutAssumption DEF MigrationsInit, ActivatedIsMigrated
<1> QED
  BY <1>2, <1>3, <1>4, <1>5 DEF IInv

\* The migrators' part holds as long as they and the database are left alone,
\* and in a new database that none has touched.
LEMMA MigrationFrame ==
  ASSUME MigrationInv, UNCHANGED migrationVars
  PROVE  MigrationInv'
BY DEF MigrationInv, MigrationTypes, LockHeld, Once, NoRows, Found, Newer, IsPrefix, IsComplete,
       migrationVars

LEMMA NewDatabase ==
  ASSUME MigrationInv, \A t \in Tasks : task[t].at = "none",
         rows' = [m \in Migrations |-> 0], legacy' \in BOOLEAN, UNCHANGED <<lock, task>>
  PROVE  MigrationInv'
<1>1. MigrationTypes' /\ LockHeld' /\ Once' /\ NoRows'
  BY DEF MigrationInv, MigrationTypes, LockHeld, Once, NoRows
<1>2. \A t \in Tasks : Found(t)'
  BY DEF Found
<1> QED
  BY <1>1, <1>2 DEF MigrationInv

\* Steps of migrators.
LEMMA TaskStep ==
  ASSUME IInv, NEW t \in Tasks, Migrate(t), UNCHANGED <<stack, release>>
  PROVE  IInv'
<1>1. /\ MigrationInv' /\ Journal \subseteq Journal' /\ task[t].at # "none"
      /\ \A u \in Tasks : /\ task'[u].code = task[u].code /\ task'[u].gated = task[u].gated
                          /\ task'[u].at = "none" <=> task[u].at = "none"
  BY MigrateStep DEF IInv
<1>2. StackTypes' /\ Database'
  BY <1>1 DEF IInv, StackTypes, Database, HasDatabase
<1>3. \A r \in Releases : Knows(r)'
  BY <1>1, RolloutAssumption DEF IInv, Knows
<1>4. ActivatedIsMigrated'
  BY <1>1 DEF IInv, ActivatedIsMigrated
<1> QED
  BY <1>1, <1>2, <1>3, <1>4 DEF IInv

\* A migrator is launched.
LEMMA LaunchStep ==
  ASSUME MigrationInv, NEW t \in Tasks, NEW c \in Candidates, NEW gated \in BOOLEAN,
         Launch(t, c, gated)
  PROVE  MigrationInv'
<1> DEFINE new == [at |-> "waiting", code |-> c, gated |-> gated, pending |-> {}]
<1>1. new \in TaskType /\ task' = [task EXCEPT ![t] = new] /\ task'[t] = new
  BY DEF Launch, MigrationInv, MigrationTypes, TaskType
<1>2. Found(t)'
  BY <1>1 DEF Found
<1>3. lock # t
  BY DEF Launch, MigrationInv, LockHeld
<1>4. lock' \in Tasks \union {None} /\ UNCHANGED <<rows, legacy, lock>>
  BY DEF Launch, MigrationInv, MigrationTypes
<1>5. new.at \notin Locked
  OBVIOUS
<1> HIDE DEF new
<1> QED
  BY <1>1, <1>2, <1>3, <1>4, <1>5, Steps

LEMMA HandStep ==
  ASSUME IInv, NEW h \in Hands, ByHand(h)
  PROVE  IInv'
<1>1. h \in Tasks /\ h \notin Releases
  BY RolloutAssumption
<1>2. PICK c \in Candidates : Launch(h, c, FALSE) /\ UNCHANGED <<stack, release>>
  BY DEF ByHand
<1>3. MigrationInv'
  BY <1>1, <1>2, LaunchStep DEF IInv
<1>4. UNCHANGED rows /\ \A u \in Tasks \ {h} : task'[u] = task[u]
  BY <1>2 DEF Launch, IInv, MigrationInv, MigrationTypes
<1>5. StackTypes' /\ Database'
  BY <1>2 DEF IInv, StackTypes, Database, HasDatabase, ByHand
<1>6. \A r \in Releases : Knows(r)'
  BY <1>1, <1>2, <1>4, RolloutAssumption DEF IInv, Knows
<1>7. ActivatedIsMigrated'
  BY <1>2, <1>4 DEF IInv, ActivatedIsMigrated
<1> QED
  BY <1>3, <1>5, <1>6, <1>7 DEF IInv

\* CloudFormation and the other operator.
LEMMA StackStep ==
  ASSUME IInv, CreateDone \/ CreateFails \/ CreatedElsewhere \/ Remove \/ UpdateEnds
  PROVE  IInv'
<1>0. stack \in StackType /\ release' = release /\ task' = task
  BY DEF IInv, StackTypes, CreateDone, CreateFails, CreatedElsewhere, Remove, UpdateEnds, migrationVars
<1>1. CASE CreateDone \/ CreatedElsewhere
  <2>1. ~HasDatabase /\ stack.next = None
    BY <1>1 DEF CreateDone, CreatedElsewhere, HasDatabase, IInv, Database
  <2>2. MigrationInv'
    BY <1>1, <2>1, NewDatabase DEF CreateDone, CreatedElsewhere, IInv, Database
  <2>3. \E id \in Nat, hosts \in {Inactive, Old} :
          stack' = [status |-> "created", id |-> id, hosts |-> hosts, next |-> None]
    <3>1. CASE CreateDone
      <4>1. stack' = [status |-> "created", id |-> stack.id, hosts |-> Inactive, next |-> None]
        BY <1>0, <2>1, <3>1 DEF CreateDone, StackType
      <4> QED
        BY <1>0, <4>1 DEF StackType
    <3>2. CASE CreatedElsewhere
      <4>1. stack' = [status |-> "created", id |-> stack.id + 1, hosts |-> Old, next |-> None]
        BY <1>0, <2>1, <3>2 DEF CreatedElsewhere, StackType
      <4>2. stack.id + 1 \in Nat
        BY <1>0 DEF StackType
      <4> QED
        BY <4>1, <4>2
    <3> QED
      BY <1>1, <3>1, <3>2
  <2>4. StackTypes' /\ Database'
    BY <1>0, <2>1, <2>3, RolloutAssumption DEF IInv, StackTypes, StackType, Database, HasDatabase
  <2>5. \A r \in Releases : Knows(r)'
    BY <1>0, <2>1 DEF IInv, Knows, Database, Migrating
  <2>6. ActivatedIsMigrated'
    BY <2>3, RolloutAssumption DEF ActivatedIsMigrated
  <2> QED
    BY <2>2, <2>4, <2>5, <2>6 DEF IInv
<1>2. CASE CreateFails \/ Remove
  <2>1. ~HasDatabase /\ UNCHANGED migrationVars
    BY <1>2 DEF CreateFails, Remove, HasDatabase
  <2>2. \E status \in {"broken", "absent"} : stack' = [stack EXCEPT !.status = status]
    BY <1>2 DEF CreateFails, Remove
  <2>3. StackTypes' /\ Database'
    BY <1>0, <2>1, <2>2 DEF IInv, StackTypes, StackType, Database, HasDatabase
  <2>4. \A r \in Releases : Knows(r)'
    BY <1>0, <2>1, <2>2 DEF IInv, Knows, StackType, migrationVars
  <2>5. ActivatedIsMigrated'
    BY <1>0, <2>1, <2>2 DEF IInv, ActivatedIsMigrated, StackType, migrationVars
  <2> QED
    BY <2>1, <2>3, <2>4, <2>5, MigrationFrame DEF IInv
<1>3. CASE UpdateEnds
  <2>1. HasDatabase /\ UNCHANGED migrationVars /\ stack.hosts # None /\ stack.next \notin {Inactive, None}
    BY <1>3 DEF UpdateEnds, HasDatabase, IInv, Database
  <2>2. PICK hosts \in {stack.hosts, stack.next} :
          stack' = [stack EXCEPT !.status = "updated", !.hosts = hosts, !.next = None]
    BY <1>3 DEF UpdateEnds
  <2>3. StackTypes' /\ Database'
    BY <1>0, <2>1, <2>2, RolloutAssumption DEF IInv, StackTypes, StackType, Database, HasDatabase
  <2>4. \A r \in Releases : Knows(r)'
    BY <1>0, <2>1, <2>2 DEF IInv, Knows, StackType, migrationVars
  <2>5. ActivatedIsMigrated'
    BY <1>0, <2>1, <2>2, RolloutAssumption DEF IInv, ActivatedIsMigrated, StackType, migrationVars
  <2> QED
    BY <2>1, <2>3, <2>4, <2>5, MigrationFrame DEF IInv
<1> QED
  BY <1>1, <1>2, <1>3
\* Steps of a release that touch nothing but its own record.
LEMMA OwnStep ==
  ASSUME IInv, NEW r \in Releases, NEW new \in ReleaseType,
         release' = [release EXCEPT ![r] = new], UNCHANGED <<migrationVars, stack>>,
         new.at \in Migrating => HasDatabase,
         Knows(r)'
  PROVE  IInv'
<1>1. \A q \in Releases : release'[q] = IF q = r THEN new ELSE release[q]
  BY DEF IInv, StackTypes
<1>2. StackTypes' /\ Database'
  BY <1>1 DEF IInv, StackTypes, Database, HasDatabase, migrationVars
<1>3. \A q \in Releases : Knows(q)'
  <2> SUFFICES ASSUME NEW q \in Releases, q # r PROVE Knows(q)'
    OBVIOUS
  <2> QED
    BY <1>1 DEF IInv, Knows, migrationVars
<1>4. MigrationInv' /\ ActivatedIsMigrated'
  BY MigrationFrame DEF IInv, ActivatedIsMigrated, migrationVars
<1> QED
  BY <1>2, <1>3, <1>4 DEF IInv

\* As they go from one phase to the next.
LEMMA GoesOn ==
  ASSUME IInv, NEW r \in Releases, NEW at \in Phases, Goes(r, at),
         UNCHANGED <<migrationVars, stack>>, release[r].at # "idle",
         at \in Migrating => release[r].at \in Migrating,
         at = "execute" => release[r].creates,
         at = "migrating" => release[r].at = "migrating",
         at = "verified" => Manifest[release[r].code] \subseteq Journal
  PROVE  IInv'
<1> DEFINE new == [release[r] EXCEPT !.at = at]
<1>0. release[r] \in ReleaseType /\ Knows(r)
  BY DEF IInv, StackTypes
<1>1. new \in ReleaseType /\ release' = [release EXCEPT ![r] = new] /\ release'[r] = new
      /\ new.at = at /\ new.code = release[r].code /\ new.inactive = release[r].inactive
      /\ new.creates = release[r].creates
  BY <1>0 DEF Goes, ReleaseType, IInv, StackTypes
<1>2. new.at \in Migrating => HasDatabase
  BY <1>1 DEF IInv, Database
<1>3. Knows(r)'
  BY <1>0, <1>1 DEF Knows, migrationVars
<1> HIDE DEF new
<1> QED
  BY <1>1, <1>2, <1>3, OwnStep

LEMMA BeginStep ==
  ASSUME IInv, NEW r \in Releases, Begin(r)
  PROVE  IInv'
<1>1. PICK c \in Candidates, ready \in BOOLEAN :
        release' = [release EXCEPT ![r] =
          [NotRun EXCEPT !.at = IF stack.status = "absent" THEN "recheck" ELSE "describe",
                         !.code = c, !.ready = ready, !.first = stack.status = "absent"]]
  BY DEF Begin
<1> DEFINE new == [NotRun EXCEPT !.at = IF stack.status = "absent" THEN "recheck" ELSE "describe",
                                 !.code = c, !.ready = ready, !.first = stack.status = "absent"]
<1>2. new \in ReleaseType /\ new.at \in {"recheck", "describe"} /\ new.code = c
  BY DEF NotRun, ReleaseType, Phases
<1>3. release' = [release EXCEPT ![r] = new] /\ release'[r] = new
      /\ UNCHANGED <<migrationVars, stack>>
  BY <1>1 DEF Begin, IInv, StackTypes
<1> HIDE DEF new
<1>4. Knows(r)' /\ new.at \notin Migrating
  BY <1>2, <1>3 DEF Knows, Migrating
<1> QED
  BY <1>2, <1>3, <1>4, OwnStep

\* The stub and its change set.
LEMMA PrepareStep ==
  ASSUME IInv, NEW r \in Releases, Prepare(r)
  PROVE  IInv'
<1> DEFINE new == [release[r] EXCEPT !.at = "prepared", !.id = stack'.id,
                                     !.creates = stack.status \notin Stable]
<1>0. stack \in StackType /\ release[r] \in ReleaseType /\ Knows(r)
  BY DEF IInv, StackTypes
<1>1. stack' \in StackType /\ stack'.hosts = stack.hosts /\ stack'.next = stack.next
      /\ (HasDatabase' <=> HasDatabase) /\ (stack'.status = "updating" <=> stack.status = "updating")
  <2>1. CASE stack.status = "absent"
    <3>1. stack' = [stack EXCEPT !.status = "review", !.id = stack.id + 1] /\ stack.id + 1 \in Nat
      BY <1>0, <2>1 DEF Prepare, StackType
    <3> QED
      BY <1>0, <2>1, <3>1 DEF StackType, HasDatabase, Stable
  <2>2. CASE stack.status # "absent"
    <3>1. stack' = stack
      BY <2>2 DEF Prepare
    <3> QED
      BY <1>0, <3>1 DEF HasDatabase
  <2> QED
    BY <2>1, <2>2
<1>2. new \in ReleaseType /\ release' = [release EXCEPT ![r] = new] /\ new.at = "prepared"
      /\ new.code = release[r].code /\ UNCHANGED migrationVars /\ release[r].at = "prepare"
  BY <1>0, <1>1 DEF Prepare, ReleaseType, StackType, Phases
<1> HIDE DEF new
<1>3. \A q \in Releases : release'[q] = IF q = r THEN new ELSE release[q]
  BY <1>2 DEF IInv, StackTypes
<1>4. StackTypes' /\ Database'
  BY <1>1, <1>2, <1>3 DEF IInv, StackTypes, Database, Migrating, migrationVars
<1>5. \A q \in Releases : Knows(q)'
  BY <1>0, <1>1, <1>2, <1>3 DEF IInv, Knows, Migrating, migrationVars
<1>6. MigrationInv' /\ ActivatedIsMigrated'
  BY <1>1, <1>2, MigrationFrame DEF IInv, ActivatedIsMigrated, migrationVars
<1> QED
  BY <1>4, <1>5, <1>6 DEF IInv

LEMMA ExecuteStep ==
  ASSUME IInv, NEW r \in Releases, Execute(r)
  PROVE  IInv' /\ stack.status = "review" /\ stack' = [stack EXCEPT !.status = "creating"]
<1> DEFINE new == [release[r] EXCEPT !.at = "creating"]
<1>0. stack \in StackType /\ release[r] \in ReleaseType /\ Knows(r)
  BY DEF IInv, StackTypes
<1>1. stack.status = "review" /\ stack' = [stack EXCEPT !.status = "creating"]
      /\ UNCHANGED migrationVars /\ release[r].at = "execute"
  BY <1>0 DEF Execute, Knows
<1>2. new \in ReleaseType /\ release' = [release EXCEPT ![r] = new] /\ new.at = "creating"
      /\ new.code = release[r].code
  BY <1>0 DEF Execute, Goes, ReleaseType, Phases
<1> HIDE DEF new
<1>3. \A q \in Releases : release'[q] = IF q = r THEN new ELSE release[q]
  BY <1>2 DEF IInv, StackTypes
<1>4. StackTypes' /\ Database'
  BY <1>0, <1>1, <1>2, <1>3
     DEF IInv, StackTypes, StackType, Database, HasDatabase, Migrating, migrationVars
<1>5. \A q \in Releases : Knows(q)'
  BY <1>0, <1>1, <1>2, <1>3 DEF IInv, Knows, Migrating, StackType, migrationVars
<1>6. MigrationInv' /\ ActivatedIsMigrated'
  BY <1>0, <1>1, MigrationFrame DEF IInv, ActivatedIsMigrated, StackType, migrationVars
<1> QED
  BY <1>1, <1>4, <1>5, <1>6 DEF IInv

\* The outputs say whether hosts run; once they do, they are never inactive again.
LEMMA DescribeStep ==
  ASSUME IInv, NEW r \in Releases, Describe(r)
  PROVE  IInv'
<1> DEFINE new == [release[r] EXCEPT !.at = "launch", !.inactive = stack.hosts = Inactive]
<1>0. release[r] \in ReleaseType /\ Knows(r)
  BY DEF IInv, StackTypes
<1>1. new \in ReleaseType /\ release' = [release EXCEPT ![r] = new] /\ release'[r] = new
      /\ new.at = "launch" /\ new.code = release[r].code
      /\ new.inactive = (stack.hosts = Inactive) /\ release[r].at = "describe"
      /\ UNCHANGED <<migrationVars, stack>> /\ HasDatabase
  BY <1>0 DEF Describe, ReleaseType, Phases, IInv, StackTypes, HasDatabase
<1> HIDE DEF new
<1>2. Knows(r)'
  BY <1>0, <1>1 DEF Knows
<1> QED
  BY <1>1, <1>2, OwnStep

LEMMA RunTaskStep ==
  ASSUME IInv, NEW r \in Releases, RunTask(r)
  PROVE  IInv'
<1> DEFINE new == [release[r] EXCEPT !.at = "migrating"]
<1>0. release[r] \in ReleaseType /\ Knows(r) /\ r \in Tasks /\ release[r].at = "launch"
      /\ release[r].code \in Candidates /\ Launch(r, release[r].code, TRUE) /\ stack' = stack
      /\ HasDatabase
  BY RolloutAssumption DEF IInv, StackTypes, RunTask, Knows, Database, Migrating
<1>1. new \in ReleaseType /\ release' = [release EXCEPT ![r] = new] /\ new.at = "migrating"
      /\ new.code = release[r].code /\ new.inactive = release[r].inactive
  BY <1>0 DEF RunTask, Goes, ReleaseType, Phases
<1> HIDE DEF new
<1>2. \A q \in Releases : release'[q] = IF q = r THEN new ELSE release[q]
  BY <1>1 DEF IInv, StackTypes
<1>3. MigrationInv' /\ UNCHANGED rows
  BY <1>0, LaunchStep DEF IInv, Launch
<1>4. \A u \in Tasks : task'[u] = IF u = r THEN [at |-> "waiting", code |-> release[r].code,
                                               gated |-> TRUE, pending |-> {}] ELSE task[u]
  BY <1>0 DEF Launch, IInv, MigrationInv, MigrationTypes
<1>5. StackTypes' /\ Database'
  BY <1>0, <1>1, <1>2 DEF IInv, StackTypes, Database, HasDatabase
<1>6. \A q \in Releases : Knows(q)'
  BY <1>0, <1>1, <1>2, <1>3, <1>4, RolloutAssumption DEF IInv, Knows, Migrating
<1>7. ActivatedIsMigrated'
  BY <1>0, <1>3 DEF IInv, ActivatedIsMigrated
<1> QED
  BY <1>3, <1>5, <1>6, <1>7 DEF IInv

\* What is deployed was verified, and the journal only grew since.
LEMMA ActivateStep ==
  ASSUME IInv, NEW r \in Releases, Activate(r)
  PROVE  IInv'
<1> DEFINE new == [release[r] EXCEPT !.at = "activating"]
<1>0. stack \in StackType /\ release[r] \in ReleaseType /\ Knows(r)
      /\ release[r].at = "verified" /\ release[r].code \in Candidates
  BY DEF IInv, StackTypes, Activate, Knows
<1>1. stack.status \in Stable /\ UNCHANGED migrationVars
      /\ stack' = [stack EXCEPT !.status = "updating", !.next = release[r].code]
  BY DEF Activate, Deploys
<1>2. new \in ReleaseType /\ release' = [release EXCEPT ![r] = new] /\ new.at = "activating"
      /\ new.code = release[r].code /\ new.inactive = release[r].inactive
  BY <1>0 DEF Activate, Goes, ReleaseType, Phases
<1> HIDE DEF new
<1>3. \A q \in Releases : release'[q] = IF q = r THEN new ELSE release[q]
  BY <1>2 DEF IInv, StackTypes
<1>4. StackTypes' /\ Database'
  BY <1>0, <1>1, <1>2, <1>3, RolloutAssumption
     DEF IInv, StackTypes, StackType, Database, HasDatabase, migrationVars
<1>5. \A q \in Releases : Knows(q)'
  BY <1>0, <1>1, <1>2, <1>3 DEF IInv, Knows, Migrating, StackType, migrationVars
<1>6. MigrationInv' /\ ActivatedIsMigrated'
  BY <1>0, <1>1, MigrationFrame DEF IInv, ActivatedIsMigrated, Knows, StackType, migrationVars
<1> QED
  BY <1>4, <1>5, <1>6 DEF IInv

THEOREM NextIInv == IInv /\ [Next]_vars => IInv'
<1> SUFFICES ASSUME IInv, [Next]_vars PROVE IInv'
  OBVIOUS
<1>1. CASE UNCHANGED vars
  BY <1>1, MigrationFrame
     DEF IInv, vars, StackTypes, Database, HasDatabase, Knows, ActivatedIsMigrated, migrationVars
<1>2. ASSUME NEW r \in Releases, Release(r) PROVE IInv'
  <2>0. Knows(r)
    BY DEF IInv
  <2>1. CASE Recheck(r)
    BY <2>1, GoesOn DEF Recheck, Phases, Migrating
  <2>2. CASE CheckStub(r)
    BY <2>2, GoesOn DEF CheckStub, Phases, Migrating
  <2>3. CASE AwaitCreate(r)
    BY <2>3, GoesOn DEF AwaitCreate, Phases, Migrating
  <2>4. CASE Verify(r)
    <3>1. Manifest[release[r].code] \subseteq Journal
      <4>1. r \in Tasks /\ task[r].gated /\ task[r].code = release[r].code /\ task[r].at = "done"
        BY <2>0, <2>4, RolloutAssumption DEF Verify, Knows
      <4> QED
        BY <4>1 DEF IInv, MigrationInv, Found
    <3> QED
      BY <2>4, <3>1, GoesOn DEF Verify, Phases, Migrating
  <2>5. CASE Hold(r)
    BY <2>5, GoesOn DEF Hold, Phases, Migrating, Ended
  <2>6. CASE AwaitUpdate(r)
    BY <2>6, GoesOn DEF AwaitUpdate, Phases, Migrating, Ended
  <2>7. CASE Abort(r)
    BY <2>7, GoesOn DEF Abort, Phases, Migrating, Ended
  <2> QED
    BY <1>2, <2>1, <2>2, <2>3, <2>4, <2>5, <2>6, <2>7, BeginStep, PrepareStep, ExecuteStep,
       DescribeStep, RunTaskStep, ActivateStep DEF Release
<1> QED
  BY <1>1, <1>2, StackStep, HandStep, TaskStep DEF Next

\* The inductive invariant holds in every reachable state.
THEOREM Invariance == Spec => []IInv
<1> QED
  BY InitIInv, NextIInv, PTL DEF Spec

\* Types, for any number of candidates, releases and migrators (TypeOK).
THEOREM Types == Spec => []TypeOK
<1>1. IInv => TypeOK
  BY DEF IInv, MigrationInv, MigrationTypes, TaskType, StackTypes, StackType, ReleaseType, TypeOK
<1> QED
  BY <1>1, Invariance, PTL

\* No host runs code whose migrations are missing (ActivatedIsMigrated).
THEOREM HostsAreMigrated == Spec => []ActivatedIsMigrated
<1>1. IInv => ActivatedIsMigrated
  BY DEF IInv
<1> QED
  BY <1>1, Invariance, PTL

\* No migration is applied twice, and a candidate leaves its own history
\* (HistoryNeverForks).
THEOREM OneHistory == Spec => []HistoryNeverForks
<1>1. IInv => HistoryNeverForks
  BY DEF IInv, MigrationInv, Once, Found, HistoryNeverForks
<1> QED
  BY <1>1, Invariance, PTL

\* Hosts are never taken down by a bootstrap, and started only when they may
\* (PromotionIsDeliberate).
THEOREM Deliberate == Spec => PromotionIsDeliberate
<1> DEFINE Up == stack.hosts \in Candidates \union {Old} =>
                   stack'.next # Inactive /\ stack'.hosts # Inactive
           Start == stack.hosts = Inactive /\ stack'.next # stack.next /\ stack'.next # None =>
                      \E r \in Releases : /\ release[r].at = "verified"
                                          /\ release'[r].at = "activating"
                                          /\ release[r].ready /\ ~release[r].first
<1>1. ASSUME IInv, IInv', [Next]_vars PROVE [Up /\ Start]_vars
  <2>0. stack \in StackType /\ stack'.next # Inactive
    BY <1>1 DEF IInv, StackTypes, Database
  <2>1. CASE UNCHANGED stack
    BY <2>0, <2>1, RolloutAssumption
  <2>2. CASE CreateDone \/ CreateFails \/ CreatedElsewhere \/ Remove
    <3>1. stack.hosts = None /\ stack'.next = stack.next
      BY <1>1, <2>0, <2>2
         DEF CreateDone, CreateFails, CreatedElsewhere, Remove, IInv, Database, HasDatabase, StackType
    <3> QED
      BY <3>1, RolloutAssumption
  <2>3. CASE UpdateEnds
    <3>1. stack'.hosts \in {stack.hosts, stack.next} /\ stack'.next = None /\ stack.next # Inactive
      BY <1>1, <2>0, <2>3 DEF UpdateEnds, IInv, Database, StackType
    <3> QED
      BY <2>0, <3>1, RolloutAssumption
  <2>4. ASSUME NEW r \in Releases, Prepare(r) \/ Execute(r) PROVE Up /\ Start
    <3>1. stack'.hosts = stack.hosts /\ stack'.next = stack.next
      BY <1>1, <2>0, <2>4, ExecuteStep DEF Prepare, StackType
    <3> QED
      BY <2>0, <3>1, RolloutAssumption
  <2>5. ASSUME NEW r \in Releases, Activate(r) PROVE Up /\ Start
    <3>1. Knows(r) /\ release[r].at = "verified" /\ ~Holds(r) /\ stack'.hosts = stack.hosts
      BY <1>1, <2>0, <2>5 DEF IInv, Activate, Deploys, StackType
    <3>2. release'[r].at = "activating"
      BY <1>1, <2>5 DEF IInv, StackTypes, ReleaseType, Activate, Goes
    <3>3. stack.hosts = Inactive => release[r].ready /\ ~release[r].first
      BY <3>1 DEF Knows, Migrating, Holds
    <3> QED
      BY <2>0, <3>1, <3>2, <3>3, RolloutAssumption
  <2>6. ASSUME NEW r \in Releases, Release(r), ~UNCHANGED stack
        PROVE  Prepare(r) \/ Execute(r) \/ Activate(r)
    BY <2>6 DEF Release, Begin, Recheck, CheckStub, AwaitCreate, Describe, RunTask, Verify, Hold,
                AwaitUpdate, Abort
  <2> HIDE DEF Up, Start
  <2> QED
    BY <1>1, <2>1, <2>2, <2>3, <2>4, <2>5, <2>6 DEF Next, ByHand, vars
<1>2. IInv /\ IInv' /\ [Next]_vars =>
        [/\ stack.hosts \in Candidates \union {Old} => stack'.next # Inactive /\ stack'.hosts # Inactive
         /\ stack.hosts = Inactive /\ stack'.next # stack.next /\ stack'.next # None =>
              \E r \in Releases : /\ release[r].at = "verified" /\ release'[r].at = "activating"
                                  /\ release[r].ready /\ ~release[r].first]_vars
  BY <1>1
<1> QED
  BY <1>2, Invariance, PTL DEF Spec, PromotionIsDeliberate
===============================================================================

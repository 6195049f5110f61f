-------------------------------- MODULE Accounts --------------------------------
(* The loyalty accounts of one user, their balance history and the trip goals  *)
(* that name them: link, edit, unlink, restore, hard purge, manual readings,   *)
(* syncs, imports, and goals over several accounts.                            *)
(*                                                                             *)
(* A write is a transaction: it takes its locks one by one (`todo` is what is  *)
(* left), reads each row as it locks it (`read`), judges, and writes the rows  *)
(* back whole. A program has at most one account (a unique index).             *)
EXTENDS Integers, Sequences, FiniteSets, FiniteSetsExt, SequencesExt

CONSTANTS
  Programs,      \* provider ids, as numbers in the order strings compare
  Goals,
  Members,       \* membership numbers
  Calls,         \* concurrent calls; each is used again and again
  Menu,          \* bound: the jobs each call may be
  Window,        \* the restore window
  MaxIds, MaxJobs, MaxTime, \* bounds
  None

Ops == {"link", "edit", "expire", "unlink", "restore", "record", "sync",
        "import", "goal", "rename", "drop", "purge"}

\* What each operation names: a member to write, one account to sync, a goal.
Job ==
  {job \in [op : Ops, on : SUBSET Programs, goal : Goals \union {None},
            member : Members \union {None}] :
     /\ job.op \in {"link", "edit", "import"} => job.member # None
     /\ job.op = "sync" => \E p \in Programs : job.on = {p}
     /\ job.op \in {"goal", "rename", "drop"} <=> job.goal # None
     /\ job.op \notin {"goal", "rename", "drop", "purge"} => job.on # {}}

\* `expiry` is what the date was projected from: a reading, or the user.
Expiry == [by : {"activity", "user"}, at : Nat]
Reading == [captured : Nat, of : Nat \X Members]
Account == [id : Nat, member : Members, deleted : Nat \union {None}, updated : Nat,
            expiry : Expiry, readings : SUBSET Reading]
GoalRow == [title : {0, 1}, on : SUBSET (Programs \X Nat)]

ASSUME AccountsAssumption ==
  /\ Programs \subseteq Nat /\ IsFiniteSet(Programs)
  /\ Menu \in [Calls -> SUBSET Job]
  /\ {Window, MaxIds, MaxJobs, MaxTime} \subseteq Nat
  /\ None \notin Goals \union Members \union Calls \union Nat
  /\ None \notin Account /\ None \notin GoalRow

VARIABLES
  time,
  account,   \* by program, or None; its readings cascade with it
  issued,    \* how many ids a program's accounts have used
  goal,      \* by goal, a GoalRow or None
  call,
  begun      \* how many jobs have begun

data == <<account, issued, goal>>
vars == <<time, data, call, begun>>

NoRows == [p \in Programs |-> None]

Idle == [job |-> None, at |-> "idle", todo |-> <<>>, held |-> {}, read |-> NoRows,
         goalRead |-> None, of |-> None, now |-> 0, captured |-> 0]

NewAccount(id, member, now) ==
  [id |-> id, member |-> member, deleted |-> None, updated |-> now,
   expiry |-> [by |-> "activity", at |-> now], readings |-> {}]

\* Every program was linked; later ones come and go.
Init ==
  /\ time = 0
  /\ \E m \in Members : account = [p \in Programs |-> NewAccount(1, m, 0)]
  /\ issued = [p \in Programs |-> 1]
  /\ goal = [g \in Goals |-> None]
  /\ call = [c \in Calls |-> Idle]
  /\ begun = 0

-------------------------------------------------------------------------------
(* Locks                                                                       *)

Ascending(on) ==
  CHOOSE s \in [1 .. Cardinality(on) -> on] :
    Range(s) = on /\ \A i, j \in DOMAIN s : i < j => s[i] < s[j]

\* lockAccountForWrite, in provider order. The advisory lock of the provider and
\* the row lock behind it are one step: every writer takes them together.
AccountLocks(on) == [i \in DOMAIN Ascending(on) |-> <<"row", Ascending(on)[i]>>]

Slots(on) == [i \in DOMAIN Ascending(on) |-> <<"slot", Ascending(on)[i]>>]

\* A slot is the entry of the unique index an insert waits for.
PlanInOrder(job) ==
  CASE job.op = "link" -> Slots(job.on)
    [] job.op = "import" -> AccountLocks(job.on) \o Slots(job.on)
    [] job.op = "goal" -> AccountLocks(job.on) \o <<<<"goal", job.goal>>>>
    [] job.op \in {"rename", "drop"} -> <<<<"goal", job.goal>>>>
    [] OTHER -> AccountLocks(job.on)

\* mutants: a goal locks its accounts in the order given; it locks only itself
PlanAsGiven(job) ==
  IF job.op = "goal" THEN Reverse(AccountLocks(job.on)) \o <<<<"goal", job.goal>>>>
  ELSE PlanInOrder(job)
PlanGoalOnly(job) ==
  IF job.op = "goal" THEN <<<<"goal", job.goal>>>> ELSE PlanInOrder(job)

Plan(job) == PlanInOrder(job)

Holders(lock) == {c \in Calls : lock \in call[c].held}

WaitsFor(c) == IF call[c].at = "lock" THEN Holders(Head(call[c].todo)) ELSE {}

\* mutant: what was read before the locks is used
ReadUnderStale(c, lock) == call[c]

\* The row is read as it is locked: gone, if the id the call names is gone.
ReadUnder(c, lock) ==
  LET p == lock[2]
      me == call[c] IN
  CASE lock[1] = "row" ->
         [me EXCEPT !.read[p] =
           IF \/ me.job.op = "import"
              \/ me.read[p] # None /\ account[p] # None /\ me.read[p].id = account[p].id
           THEN account[p] ELSE None]
    [] lock[1] = "goal" -> [me EXCEPT !.goalRead = goal[p]]
    [] OTHER -> me

-------------------------------------------------------------------------------
Later(a, b) == IF a < b THEN b ELSE a

Live(row) == row # None /\ row.deleted = None

Seen(job) == [p \in Programs |-> IF p \in job.on THEN account[p] ELSE None]

\* What a job demands of the rows it reads before its transaction.
Startable(job) ==
  CASE job.op = "link" -> \A p \in job.on : account[p] = None
    [] job.op = "sync" -> \A p \in job.on : Live(account[p])
    [] job.op \in {"rename", "drop"} -> goal[job.goal] # None
    [] job.op \in {"import", "purge"} -> TRUE
    [] OTHER -> \A p \in job.on : account[p] # None

\* The program of a sync fetches first, outside any transaction.
Begin(c) ==
  \E job \in Menu[c] :
    /\ call[c].at = "idle" /\ Startable(job)
    /\ begun < MaxJobs /\ begun' = begun + 1
    /\ job.op \in {"link", "import"} =>
         \A p \in job.on : account[p] = None => issued[p] < MaxIds
    /\ call' = [call EXCEPT ![c] =
         [Idle EXCEPT !.job = job, !.read = Seen(job), !.todo = Plan(job),
            !.now = IF job.op = "link" THEN time ELSE 0,
            !.goalRead = IF job.goal = None THEN None ELSE goal[job.goal],
            !.at = CASE job.op = "sync" -> "fetch" [] job.op = "purge" -> "list"
                     [] OTHER -> "lock"]]
    /\ UNCHANGED <<time, data>>

\* The provider answers for the membership that was read: captured now.
Fetch(c) ==
  /\ call[c].at = "fetch"
  /\ LET p == CHOOSE p \in call[c].job.on : TRUE IN
     call' = [call EXCEPT ![c].at = "lock", ![c].captured = time,
                          ![c].of = <<call[c].read[p].id, call[c].read[p].member>>]
  /\ UNCHANGED <<time, data, begun>>

Acquire(c) ==
  /\ call[c].at = "lock" /\ WaitsFor(c) \subseteq {c}
  /\ LET lock == Head(call[c].todo) IN
     call' = [call EXCEPT ![c] =
       [ReadUnder(c, lock) EXCEPT !.held = @ \union {lock}, !.todo = Tail(@),
                                  !.at = IF Len(call[c].todo) = 1 THEN "judge" ELSE "lock"]]
  /\ UNCHANGED <<time, data, begun>>

End(c) == call' = [call EXCEPT ![c] = Idle]

\* A refusal, a failed statement, a dead process: the transaction rolls back.
Abort(c) ==
  /\ call[c].at # "idle"
  /\ End(c)
  /\ UNCHANGED <<time, data, begun>>

Tick ==
  /\ time < MaxTime
  /\ time' = time + 1
  /\ UNCHANGED <<data, call, begun>>

-------------------------------------------------------------------------------
(* Judging, under the locks                                                    *)

InWindow(row) == row.deleted # None /\ time - row.deleted <= Window

\* mutant: the identity the provider answered for is not compared
SyncAppliesAlways(c, row) == Live(row)

\* The account must still be the one the provider was asked about.
SyncApplies(c, row) == Live(row) /\ call[c].of = <<row.id, row.member>>

Vacant(p) == account[p] = None

Accepts(c) ==
  LET job == call[c].job
      read == call[c].read IN
  CASE job.op = "link" -> \A p \in job.on : Vacant(p)
    [] job.op = "import" ->
         \A p \in job.on : IF read[p] = None THEN Vacant(p) ELSE Live(read[p])
    [] job.op = "restore" -> \A p \in job.on : read[p] # None /\ InWindow(read[p])
    [] job.op = "sync" -> \A p \in job.on : SyncApplies(c, read[p])
    [] job.op \in {"rename", "drop"} -> call[c].goalRead # None
    [] OTHER -> \A p \in job.on : Live(read[p])

\* A reading of the user's may be of an earlier time, never of a later one;
\* an import clamps later ones.
Judge(c) ==
  /\ call[c].at = "judge" /\ Accepts(c)
  /\ \E captured \in IF call[c].job.op \in {"record", "import"} THEN 0..time
                     ELSE {call[c].captured} :
       call' = [call EXCEPT ![c].at = "commit", ![c].captured = captured,
                            ![c].now = IF @ < time /\ call[c].job.op # "link" THEN time ELSE @]
  /\ UNCHANGED <<time, data, begun>>

-------------------------------------------------------------------------------
(* Writing                                                                     *)

\* mutant: only newer readings make one historical, not a later edit
StaleByReadings(row, captured) == \E r \in row.readings : captured < r.captured

\* historical: older than the newest reading or than the last change.
Stale(row, captured) ==
  captured < row.updated \/ \E r \in row.readings : captured < r.captured

\* RecordManualBalance and the transaction of a sync, at mutation time m.
Recorded(row, captured, of, m) ==
  [row EXCEPT
     !.readings = @ \union {[captured |-> captured, of |-> of]},
     !.expiry = IF Stale(row, captured) THEN @ ELSE [by |-> "activity", at |-> captured],
     !.updated = Later(m, @)]

\* The row a job writes back over the one it read.
Written(c, p, m) ==
  LET job == call[c].job
      row == call[c].read[p]
      at == Later(call[c].now, row.updated) IN
  CASE job.op = "edit" -> [row EXCEPT !.member = job.member, !.updated = at]
    [] job.op = "expire" ->
         [row EXCEPT !.expiry = [by |-> "user", at |-> at], !.updated = at]
    [] job.op = "unlink" -> [row EXCEPT !.deleted = at, !.updated = at]
    [] job.op = "restore" -> [row EXCEPT !.deleted = None, !.updated = call[c].now]
    [] job.op = "sync" -> Recorded(row, call[c].captured, call[c].of, m)
    [] OTHER -> Recorded(row, call[c].captured, <<row.id, row.member>>, m)

Linked(c, p) == NewAccount(issued[p] + 1, call[c].job.member, call[c].now)

Imported(c, p, m) ==
  IF call[c].read[p] # None THEN Written(c, p, m)
  ELSE Recorded(Linked(c, p), call[c].captured,
                <<issued[p] + 1, call[c].job.member>>, m)

NewIds(c) ==
  [p \in Programs |-> issued[p] + IF p \in call[c].job.on /\ call[c].read[p] = None
                                  THEN 1 ELSE 0]

\* Writes of accounts
CommitAccounts(c) ==
  LET job == call[c].job IN
  /\ call[c].at = "commit" /\ job.op \notin {"goal", "rename", "drop"}
  /\ \E m \in call[c].now..time :
       account' = [p \in Programs |->
         IF p \notin job.on THEN account[p]
         ELSE IF job.op = "link" THEN Linked(c, p) ELSE Imported(c, p, m)]
  /\ issued' = NewIds(c)
  /\ End(c)
  /\ UNCHANGED <<time, goal, begun>>

\* Writes of goals. A change of the title leaves the memberships alone.
CommitGoal(c) ==
  LET job == call[c].job
      old == call[c].goalRead
      named == {<<p, call[c].read[p].id>> : p \in job.on} IN
  /\ call[c].at = "commit" /\ job.op \in {"goal", "rename", "drop"}
  /\ goal' = [goal EXCEPT ![job.goal] =
       CASE job.op = "drop" -> None
         [] job.op = "rename" -> [goal[job.goal] EXCEPT !.title = 1]
         [] OTHER -> [title |-> IF old = None THEN 0 ELSE old.title, on |-> named]]
  /\ End(c)
  /\ UNCHANGED <<time, account, issued, begun>>

-------------------------------------------------------------------------------
(* PurgeExpiredUnlinks: lists, reads the clock, deletes one by one, unlocked   *)

PurgeList(c) ==
  /\ call[c].at = "list"
  /\ call' = [call EXCEPT ![c].at = "clock", ![c].read =
       [p \in Programs |-> IF account[p] # None /\ ~Live(account[p])
                           THEN account[p] ELSE None]]
  /\ UNCHANGED <<time, data, begun>>

PurgeClock(c) ==
  /\ call[c].at = "clock"
  /\ LET doomed == [p \in Programs |->
           IF call[c].read[p] # None /\ ~InWindow(call[c].read[p])
           THEN call[c].read[p] ELSE None] IN
     IF doomed = NoRows THEN End(c)
     ELSE call' = [call EXCEPT ![c].at = "delete", ![c].read = doomed]
  /\ UNCHANGED <<time, data, begun>>

\* delete by id, whatever became of the row; its goals lose it (cascade).
PurgeDelete(c) ==
  \E p \in Programs :
    /\ call[c].at = "delete" /\ call[c].read[p] # None
    /\ Holders(<<"row", p>>) = {}
    /\ LET id == call[c].read[p].id
           hit == account[p] # None /\ account[p].id = id
           left == [call[c].read EXCEPT ![p] = None] IN
       /\ account' = IF hit THEN [account EXCEPT ![p] = None] ELSE account
       /\ goal' = [g \in Goals |-> IF goal[g] = None \/ ~hit THEN goal[g]
                                   ELSE [goal[g] EXCEPT !.on = @ \ {<<p, id>>}]]
       /\ IF left = NoRows THEN End(c) ELSE call' = [call EXCEPT ![c].read = left]
    /\ UNCHANGED <<time, issued, begun>>

-------------------------------------------------------------------------------
Next ==
  \/ Tick
  \/ \E c \in Calls :
       \/ Begin(c) \/ Fetch(c) \/ Acquire(c) \/ Abort(c) \/ Judge(c)
       \/ CommitAccounts(c) \/ CommitGoal(c)
       \/ PurgeList(c) \/ PurgeClock(c) \/ PurgeDelete(c)

Spec == Init /\ [][Next]_vars

-------------------------------------------------------------------------------
(* What must hold                                                              *)

TypeOK ==
  /\ time \in 0..MaxTime
  /\ \A p \in Programs : account[p] # None =>
       /\ account[p] \in [id : 1..issued[p], member : Members, updated : 0..time,
                          deleted : 0..time \union {None}, expiry : Expiry,
                          readings : SUBSET Reading]
       /\ account[p].expiry.at <= account[p].updated
  /\ issued \in [Programs -> Nat]
  /\ \A g \in Goals : goal[g] # None =>
       \A x \in goal[g].on : account[x[1]] # None /\ account[x[1]].id = x[2]

\* Goals, imports and single writes lock accounts in one order: no set of calls
\* waits for locks only its members hold (goal-account-references.ts:18-20).
NoLockCycle ==
  \A S \in (SUBSET Calls) \ {{}} : \E c \in S : WaitsFor(c) \intersect S = {}

Inv == TypeOK /\ NoLockCycle

Same(p) == account[p] # None /\ account'[p] # None /\ account[p].id = account'[p].id

\* A reading enters the history of the membership it was taken from, whatever
\* was edited, purged or linked again while it was fetched
\* (sync-loyalty-account.ts:78-85).
SameMembership ==
  [][\A p \in Programs : account'[p] # None =>
       \A r \in account'[p].readings \ (IF Same(p) THEN account[p].readings ELSE {}) :
         r.of = <<account'[p].id, account'[p].member>>]_vars

\* The expiry never goes back: a reading renews it only when it is as new as
\* every other one and not older than the last change of the account, such as
\* an expiry the user set or cleared meanwhile (record-manual-balance.ts:93-98).
ExpiryKeepsUp ==
  [][\A p \in Programs : Same(p) /\ account'[p].expiry # account[p].expiry =>
       /\ account'[p].expiry.at >= account[p].expiry.at
       /\ account'[p].expiry.by = "activity" =>
            \A r \in account'[p].readings : r.captured <= account'[p].expiry.at]_vars

Committing(ops) ==
  \E c \in Calls : call[c].at \in {"commit", "delete"} /\ call[c].job.op \in ops
                   /\ call'[c] # call[c]

\* A write changes what its job is about and nothing another one has committed
\* since it began, although it writes whole rows (access.ts:38-52).
NoLostUpdate ==
  [][/\ \A p \in Programs : Same(p) =>
          /\ account[p].member # account'[p].member => Committing({"edit"})
          /\ account[p].deleted # account'[p].deleted => Committing({"unlink", "restore"})
          /\ account[p].readings \subseteq account'[p].readings
     /\ \A g \in Goals : goal[g] # None /\ goal'[g] # None =>
          /\ goal[g].title # goal'[g].title => Committing({"rename"})
          /\ goal[g].on # goal'[g].on => Committing({"goal", "purge"})]_vars

\* What a goal newly names is an account of the user that is linked when the
\* goal is written (goal-account-references.ts:13-24).
GoalsNameLinked ==
  [][\A g \in Goals : goal'[g] # None =>
       \A x \in goal'[g].on \ (IF goal[g] = None THEN {} ELSE goal[g].on) :
         Live(account[x[1]]) /\ account[x[1]].id = x[2]]_vars
=================================================================================

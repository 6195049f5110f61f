--------------------------------- MODULE Rollout ---------------------------------
(* Releases of the production stack: a candidate is migrated to by its own task  *)
(* before its hosts run, a first creation makes an inactive stack by a change    *)
(* set that can only create. Runs of the workflow and operators' runs interleave *)
(* freely, die anywhere and leave their task or their stack operation behind.    *)
(* rollout.mjs. CloudFormation is modelled from how rollout.mjs uses it.         *)
EXTENDS Migrations

CONSTANTS
  Releases,   \* runs of rollout()
  Hands,      \* plain migrations by an operator
  Inactive,   \* hosts of a bootstrap: none runs
  Old         \* hosts that no managed release deployed

ASSUME RolloutAssumption ==
  /\ Tasks = Releases \union Hands /\ Releases \intersect Hands = {}
  /\ Candidates \intersect {Inactive, Old, None} = {}
  /\ Inactive # Old /\ Inactive # None /\ Old # None

VARIABLES
  stack,     \* TemplateApp: its status, its id, what its hosts run and shall run
  release    \* the runs of rollout()

vars == <<migrationVars, stack, release>>

NotRun == [at |-> "idle", code |-> None, ready |-> FALSE, first |-> FALSE,
           inactive |-> FALSE, id |-> 0, creates |-> FALSE]

Ended  == {"held", "activated", "failed"}
Stable == {"created", "updated"}

\* No stack, or one of an earlier release.
Init ==
  /\ release = [r \in Releases |-> NotRun]
  /\ \/ /\ stack = [status |-> "absent", id |-> 0, hosts |-> None, next |-> None]
        /\ MigrationsInit({})
     \/ \E c \in Candidates :
          /\ stack = [status |-> "updated", id |-> 1, hosts |-> c, next |-> None]
          /\ MigrationsInit(Manifest[c])

Goes(r, at) == release' = [release EXCEPT ![r].at = at]

-------------------------------------------------------------------------------
(* CloudFormation                                                             *)

\* The new database is empty.
CreateDone ==
  /\ stack.status = "creating"
  /\ stack' = [stack EXCEPT !.status = "created", !.hosts = Inactive]
  /\ rows' = [m \in Migrations |-> 0] /\ legacy' = FALSE
  /\ UNCHANGED <<lock, task, release>>

CreateFails ==
  /\ stack.status = "creating"
  /\ stack' = [stack EXCEPT !.status = "broken"]
  /\ UNCHANGED <<migrationVars, release>>

\* Another operator creates the stack, with running hosts, and perhaps with
\* tables that no journal knows of.
CreatedElsewhere ==
  /\ stack.status = "absent"
  /\ stack' = [stack EXCEPT !.status = "created", !.id = @ + 1, !.hosts = Old]
  /\ rows' = [m \in Migrations |-> 0] /\ legacy' \in BOOLEAN
  /\ UNCHANGED <<lock, task, release>>

\* An operator removes what was not created.
Remove ==
  /\ stack.status \in {"review", "broken"}
  /\ stack' = [stack EXCEPT !.status = "absent"]
  /\ UNCHANGED <<migrationVars, release>>

UpdateEnds ==
  /\ stack.status = "updating"
  /\ \E hosts \in {stack.hosts, stack.next} :
       stack' = [stack EXCEPT !.status = "updated", !.hosts = hosts, !.next = None]
  /\ UNCHANGED <<migrationVars, release>>

\* An UPDATE or a CREATE, when the stack is in the state for it.
Deploys(code) ==
  /\ stack.status \in Stable
  /\ stack' = [stack EXCEPT !.status = "updating", !.next = code]

-------------------------------------------------------------------------------
(* rollout()                                                                  *)

Begin(r) ==
  /\ release[r].at = "idle"
  /\ \E c \in Candidates, ready \in BOOLEAN :
       release' = [release EXCEPT ![r] =
         [NotRun EXCEPT !.at = IF stack.status = "absent" THEN "recheck" ELSE "describe",
                        !.code = c, !.ready = ready, !.first = stack.status = "absent"]]
  /\ UNCHANGED <<migrationVars, stack>>

Recheck(r) ==
  /\ release[r].at = "recheck"
  /\ stack.status = "absent"
  /\ Goes(r, "prepare")
  /\ UNCHANGED <<migrationVars, stack>>

\* prepare-change-set makes a stub of a stack that is not there; of one that
\* somebody created meanwhile it makes a change set that updates it.
Prepare(r) ==
  /\ release[r].at = "prepare"
  /\ stack.status \in {"absent", "review"} \union Stable
  /\ stack' = IF stack.status = "absent" THEN [stack EXCEPT !.status = "review", !.id = @ + 1]
              ELSE stack
  /\ release' = [release EXCEPT ![r].at = "prepared", ![r].id = stack'.id,
                                ![r].creates = stack.status \notin Stable]
  /\ UNCHANGED migrationVars

\* mutant: the change set is executed whatever it changes
CheckStubNever(r) ==
  /\ release[r].at = "prepared"
  /\ Goes(r, "execute")
  /\ UNCHANGED <<migrationVars, stack>>

\* The same stack, still a stub, and only additions.
CheckStub(r) ==
  /\ release[r].at = "prepared"
  /\ stack.status = "review" /\ stack.id = release[r].id /\ release[r].creates
  /\ Goes(r, "execute")
  /\ UNCHANGED <<migrationVars, stack>>

\* CloudFormation executes a change set only on the stack, and in the state, it
\* was made for.
Execute(r) ==
  /\ release[r].at = "execute" /\ stack.id = release[r].id
  /\ IF release[r].creates
     THEN stack.status = "review" /\ stack' = [stack EXCEPT !.status = "creating"]
     ELSE Deploys(Inactive)
  /\ Goes(r, "creating")
  /\ UNCHANGED migrationVars

AwaitCreate(r) ==
  /\ release[r].at = "creating"
  /\ stack.status = "created" /\ stack.id = release[r].id
  /\ Goes(r, "describe")
  /\ UNCHANGED <<migrationVars, stack>>

\* The outputs are read here and used after the migration.
Describe(r) ==
  /\ release[r].at = "describe"
  /\ stack.status \in Stable
  /\ release[r].first => stack.hosts = Inactive
  /\ release' = [release EXCEPT ![r].at = "launch", ![r].inactive = stack.hosts = Inactive]
  /\ UNCHANGED <<migrationVars, stack>>

\* The backup, the network and the database are what they should be: the
\* candidate's image is run with the manifest it must find.
RunTask(r) ==
  /\ release[r].at = "launch"
  /\ Launch(r, release[r].code, TRUE)
  /\ Goes(r, "migrating")
  /\ UNCHANGED stack

\* mutant: a task that stopped is enough
VerifyStopped(r) ==
  /\ release[r].at = "migrating"
  /\ task[r].at \in {"done", "failed"}
  /\ Goes(r, "verified")
  /\ UNCHANGED <<migrationVars, stack>>

\* The task stopped with exit code 0, and its log has the attestation.
Verify(r) ==
  /\ release[r].at = "migrating"
  /\ task[r].at = "done"
  /\ Goes(r, "verified")
  /\ UNCHANGED <<migrationVars, stack>>

Holds(r) == release[r].first \/ (release[r].inactive /\ ~release[r].ready)

Hold(r) ==
  /\ release[r].at = "verified" /\ Holds(r)
  /\ Goes(r, "held")
  /\ UNCHANGED <<migrationVars, stack>>

Activate(r) ==
  /\ release[r].at = "verified" /\ ~Holds(r)
  /\ Deploys(release[r].code)
  /\ Goes(r, "activating")
  /\ UNCHANGED migrationVars

AwaitUpdate(r) ==
  /\ release[r].at = "activating"
  /\ stack.status \in Stable /\ stack.hosts = release[r].code
  /\ Goes(r, "activated")
  /\ UNCHANGED <<migrationVars, stack>>

\* A check or a command fails, or the run is cut off; what it started goes on.
Abort(r) ==
  /\ release[r].at \notin {"idle"} \union Ended
  /\ Goes(r, "failed")
  /\ UNCHANGED <<migrationVars, stack>>

Release(r) ==
  \/ Begin(r) \/ Recheck(r) \/ Prepare(r) \/ CheckStub(r) \/ Execute(r) \/ AwaitCreate(r)
  \/ Describe(r) \/ RunTask(r) \/ Verify(r) \/ Hold(r) \/ Activate(r) \/ AwaitUpdate(r)
  \/ Abort(r)

\* db:migrate, without a manifest to find, where there is a database.
ByHand(h) ==
  /\ stack.status \in Stable \union {"updating"}
  /\ \E c \in Candidates : Launch(h, c, FALSE)
  /\ UNCHANGED <<stack, release>>

Next ==
  \/ CreateDone \/ CreateFails \/ CreatedElsewhere \/ Remove \/ UpdateEnds
  \/ \E r \in Releases : Release(r)
  \/ \E h \in Hands : ByHand(h)
  \/ \E t \in Tasks : Migrate(t) /\ UNCHANGED <<stack, release>>

Spec == Init /\ [][Next]_vars

-------------------------------------------------------------------------------
(* What must hold                                                             *)

Phases == {"idle", "recheck", "prepare", "prepared", "execute", "creating", "describe",
           "launch", "migrating", "verified", "activating"} \union Ended

TypeOK ==
  /\ rows \in [Migrations -> Nat] /\ legacy \in BOOLEAN /\ lock \in Tasks \union {None}
  /\ task \in [Tasks -> [at : {"none", "waiting", "done", "failed"} \union Locked,
                         code : Candidates \union {None}, gated : BOOLEAN,
                         pending : SUBSET Migrations]]
  /\ stack \in [status : {"absent", "review", "creating", "broken", "updating"} \union Stable,
                id : Nat, hosts : Candidates \union {Old, Inactive, None},
                next : Candidates \union {Inactive, None}]
  /\ release \in [Releases -> [at : Phases, code : Candidates \union {None}, ready : BOOLEAN,
                               first : BOOLEAN, inactive : BOOLEAN, id : Nat, creates : BOOLEAN]]

\* Hosts run, or are started, only with code whose migrations are all in the
\* database, whatever tasks other releases left behind and whoever migrated by
\* hand meanwhile (rollout.mjs:313-339, migrations.ts:221-241).
ActivatedIsMigrated ==
  \A c \in {stack.hosts, stack.next} \intersect Candidates : Manifest[c] \subseteq Journal

\* Concurrent migrators apply no migration twice, and one that was told its
\* manifest leaves exactly that history behind, or fails before it ran any SQL
\* (migrations.ts:137-142, 227-237).
HistoryNeverForks ==
  /\ \A m \in Migrations : rows[m] <= 1
  /\ \A t \in Tasks : task[t].gated /\ task[t].at \in {"applied", "attested"} =>
       IsComplete(task[t].code)

\* A first creation that raced with another one never takes running hosts down,
\* and an inactive stack is started only by a later release that was told its
\* secrets are ready (rollout.mjs:223-252, 334-338).
PromotionIsDeliberate ==
  [][/\ stack.hosts \in Candidates \union {Old} => stack'.next # Inactive /\ stack'.hosts # Inactive
     /\ stack.hosts = Inactive /\ stack'.next # stack.next /\ stack'.next # None =>
          \E r \in Releases : /\ release[r].at = "verified" /\ release'[r].at = "activating"
                              /\ release[r].ready /\ ~release[r].first]_vars
===================================================================================

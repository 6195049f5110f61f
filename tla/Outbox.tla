------------------------------- MODULE Outbox -------------------------------
(***************************************************************************)
(* The transactional outbox: rows of domain_event_outbox, the workers that *)
(* claim and dispatch them, and the statements of DrizzleOutboxStore that  *)
(* record outcomes.                                                        *)
(*                                                                         *)
(*   outbox-processor.ts   runOnce, dispatch                               *)
(*   drizzle-outbox.ts     publish, claim, markProcessed, scheduleRetry,   *)
(*                         deadLetter, deadLetterExhausted                 *)
(*   drizzle-retention-repository.ts   purgeBatch("outbox")                *)
(*                                                                         *)
(* A SQL statement is one atomic step.  A "now" that a caller reads and    *)
(* passes to a statement may be up to Lag ticks old when the statement     *)
(* runs (clock skew between workers, or waiting for a connection), so each *)
(* statement takes some now in Observed.                                   *)
(*                                                                         *)
(* A worker that dies and a runOnce that rejects (a database error in any  *)
(* statement except markProcessed, whose error dispatch catches) have the  *)
(* same effect: the rest of the batch is forgotten, still leased.  Both    *)
(* are Abandon, which may follow a statement that did commit.              *)
(***************************************************************************)
EXTENDS Naturals, FiniteSets

CONSTANTS
  Events,       \* event ids: natural numbers, the tie-break of both ORDER BYs
  Workers,      \* processors running side by side
  Unknown,      \* events whose type this build of the worker does not know
  NHandlers,    \* handlers registered for an event, "*" ones first
  MaxAttempts,  \* options.maxAttempts
  BatchSize,    \* options.batchSize
  Lease,        \* options.leaseMs, in ticks
  Backoff,      \* Backoff[n]: delay after the n-th failed attempt
  Lag,          \* how old an observed "now" may be
  Retain,       \* age of a processed row before the purge deletes it
  MaxRequeues,  \* bound: manual requeues per event
  None          \* no event, no worker

ASSUME OutboxAssumption ==
  /\ Events \subseteq Nat
  /\ Unknown \subseteq Events
  /\ NHandlers \in Nat \ {0}
  /\ MaxAttempts \in Nat \ {0}
  /\ BatchSize \in Nat \ {0}
  /\ Lease \in Nat \ {0}
  /\ Backoff \in [1..MaxAttempts -> Nat \ {0}]
  /\ Lag \in Nat
  /\ Retain \in Nat
  /\ MaxRequeues \in Nat
  /\ None \notin Events \cup Workers

(* Observers of the clock disagree by less than a lease and less than the  *)
(* shortest backoff (60 s and 5 s by default).                             *)
ASSUME ClockAssumption ==
  /\ Lag < Lease
  /\ \A n \in 1..MaxAttempts : Lag < Backoff[n]

VARIABLES
  clock,       \* the most advanced wall clock
  row,         \* row[e]: the outbox row of event e
  worker,      \* worker[w]: the control state of a processor
  held,        \* held[w][e]: the claim w's current batch holds on e
  requeues,    \* requeues[e]: how often an operator requeued e
  deliveries,  \* history: complete dispatches of e (every handler ran)
  owner        \* history: the worker of the latest claim still undecided

vars == <<clock, row, worker, held, requeues, deliveries, owner>>

NoClaim == [attempts |-> 0, leaseUntil |-> 0]

Statuses == {"absent", "pending", "processed", "dead", "purged"}
Row      == [status : Statuses, attempts : Nat, available : Nat,
             occurred : Nat, settled : Nat]
Claim    == [attempts : Nat, leaseUntil : Nat]
(* "idle": between runs.  "swept": after deadLetterExhausted.  "handling": *)
(* done handlers have returned for event.  "failing": in the catch block.  *)
Control  == [pc : {"idle", "swept", "handling", "failing"},
             event : Events \cup {None}, done : 0..NHandlers]

Idle == [pc |-> "idle", event |-> None, done |-> 0]

TypeOK ==
  /\ clock \in Nat
  /\ row \in [Events -> Row]
  /\ worker \in [Workers -> Control]
  /\ held \in [Workers -> [Events -> Claim]]
  /\ requeues \in [Events -> 0..MaxRequeues]
  /\ deliveries \in [Events -> Nat]
  /\ owner \in [Events -> Workers \cup {None}]

Init ==
  /\ clock = 0
  /\ row = [e \in Events |-> [status |-> "absent", attempts |-> 0,
              available |-> 0, occurred |-> 0, settled |-> 0]]
  /\ worker = [w \in Workers |-> Idle]
  /\ held = [w \in Workers |-> [e \in Events |-> NoClaim]]
  /\ requeues = [e \in Events |-> 0]
  /\ deliveries = [e \in Events |-> 0]
  /\ owner = [e \in Events |-> None]

-----------------------------------------------------------------------------
(* Helpers *)

Observed == {t \in 0..clock : clock <= t + Lag}

Holds(w, e) == held[w][e] # NoClaim

(* Mutants of Claimable: each forgets one conjunct of the WHERE clause. *)
ClaimableWithinLease(now) ==
  {e \in Events : row[e].status = "pending" /\ row[e].attempts < MaxAttempts}
ClaimableUnlimited(now) ==
  {e \in Events : row[e].status = "pending" /\ row[e].available <= now}

(* claim's WHERE clause. *)
Claimable(now) ==
  {e \in Events : /\ row[e].status = "pending"
                  /\ row[e].available <= now
                  /\ row[e].attempts < MaxAttempts}

(* ORDER BY available_at, occurred_at, id *)
ClaimsBefore(d, e) ==
  \/ row[d].available < row[e].available
  \/ /\ row[d].available = row[e].available
     /\ \/ row[d].occurred < row[e].occurred
        \/ row[d].occurred = row[e].occurred /\ d < e

(* Oldest first: the order in which a batch is dispatched. *)
OccursBefore(d, e) ==
  \/ row[d].occurred < row[e].occurred
  \/ row[d].occurred = row[e].occurred /\ d < e

(* The row sets one claim statement may take: the first BatchSize rows in  *)
(* its order, passing over those another statement holds (SKIP LOCKED).    *)
(* The locking IN (SELECT ... LIMIT n) form may be evaluated again for     *)
(* other outer rows and then takes more than n.                            *)
Batches(now, locked) ==
  LET C == Claimable(now) \ locked
  IN {S \in SUBSET C :
        /\ \A e \in S, d \in C : ClaimsBefore(d, e) => d \in S
        /\ S = C \/ Cardinality(S) >= BatchSize}

(* Mutants of Fence: each forgets one conjunct. *)
FenceByAttempts(e, c) ==
  row[e].status = "pending" /\ row[e].attempts = c.attempts
FenceIgnoringStatus(e, c) ==
  row[e].attempts = c.attempts /\ row[e].available = c.leaseUntil

(* The fence shared by the three outcome statements: the row is nonterminal *)
(* and still carries the attempt number and the lease deadline of claim c.  *)
Fence(e, c) ==
  /\ row[e].status = "pending"
  /\ row[e].attempts = c.attempts
  /\ row[e].available = c.leaseUntil

(* h: the claims left in w's batch.  The loop takes the oldest next. *)
Proceed(w, h) ==
  /\ held' = [held EXCEPT ![w] = h]
  /\ IF \A e \in Events : h[e] = NoClaim
     THEN worker' = [worker EXCEPT ![w] = Idle]
     ELSE \E e \in Events :
            /\ h[e] # NoClaim
            /\ \A d \in Events : OccursBefore(d, e) => h[d] = NoClaim
            /\ worker' = [worker EXCEPT ![w] =
                            [pc |-> "handling", event |-> e, done |-> 0]]

(* The dispatch of w's current event returned. *)
NextItem(w) ==
  Proceed(w, [held[w] EXCEPT ![worker[w].event] = NoClaim])

-----------------------------------------------------------------------------
(* Publishing, and the operator *)

(* publish: the row commits with its state change; available at once. *)
Publish(e) ==
  /\ row[e].status = "absent"
  /\ \E now \in Observed :
       row' = [row EXCEPT ![e] = [status |-> "pending", attempts |-> 0,
                 available |-> now, occurred |-> now, settled |-> 0]]
  /\ UNCHANGED <<clock, worker, held, requeues, deliveries, owner>>

(* The documented manual requeue of a parked row. *)
Requeue(e) ==
  /\ row[e].status = "dead"
  /\ requeues[e] < MaxRequeues
  /\ row' = [row EXCEPT ![e] =
               [@ EXCEPT !.status = "pending", !.attempts = 0,
                         !.available = clock]]
  /\ requeues' = [requeues EXCEPT ![e] = @ + 1]
  /\ UNCHANGED <<clock, worker, held, deliveries, owner>>

(* purgeBatch("outbox"): deletes some processed rows past their retention. *)
Purge ==
  /\ \E now \in Observed :
     \E S \in SUBSET {e \in Events : /\ row[e].status = "processed"
                                     /\ row[e].settled + Retain < now} :
       /\ S # {}
       /\ row' = [e \in Events |->
                    IF e \in S THEN [row[e] EXCEPT !.status = "purged"]
                               ELSE row[e]]
  /\ UNCHANGED <<clock, worker, held, requeues, deliveries, owner>>

-----------------------------------------------------------------------------
(* One processor *)

(* Mutant of Sweep: rows that exhausted their attempts are not parked. *)
SweepNothing(w) ==
  /\ worker[w].pc = "idle"
  /\ worker' = [worker EXCEPT ![w].pc = "swept"]
  /\ UNCHANGED <<clock, row, held, requeues, deliveries, owner>>

(* runOnce starts with deadLetterExhausted. *)
Sweep(w) ==
  /\ worker[w].pc = "idle"
  /\ \E now \in Observed :
     LET exhausted == {e \in Events : /\ row[e].status = "pending"
                                      /\ row[e].attempts >= MaxAttempts
                                      /\ row[e].available <= now}
     IN /\ row' = [e \in Events |->
                     IF e \in exhausted
                     THEN [row[e] EXCEPT !.status = "dead", !.settled = now]
                     ELSE row[e]]
        /\ owner' = [e \in Events |->
                       IF e \in exhausted THEN None ELSE owner[e]]
  /\ worker' = [worker EXCEPT ![w].pc = "swept"]
  /\ UNCHANGED <<clock, held, requeues, deliveries>>

(* claim: one UPDATE takes a batch; then toClaimed throws if the batch has *)
(* an event of unknown type, after the UPDATE has committed.               *)
ClaimSkipping(w, locked) ==
  /\ worker[w].pc = "swept"
  /\ \E now \in Observed : \E S \in Batches(now, locked) :
       /\ row' = [e \in Events |->
                    IF e \in S
                    THEN [row[e] EXCEPT !.attempts = @ + 1,
                                        !.available = now + Lease]
                    ELSE row[e]]
       /\ owner' = [e \in Events |-> IF e \in S THEN w ELSE owner[e]]
       /\ Proceed(w, [e \in Events |->
                        IF e \in S /\ S \cap Unknown = {}
                        THEN [attempts |-> row[e].attempts + 1,
                              leaseUntil |-> now + Lease]
                        ELSE NoClaim])
  /\ UNCHANGED <<clock, requeues, deliveries>>

(* The rows that other workers, the purge or the operator have locked at   *)
(* the time of the statement: any, since each of them is one statement.    *)
ClaimBatch(w) == \E locked \in SUBSET Events : ClaimSkipping(w, locked)

(* The next handler of w's current event returns. *)
RunHandler(w) ==
  /\ worker[w].pc = "handling"
  /\ worker[w].done < NHandlers
  /\ worker' = [worker EXCEPT ![w].done = @ + 1]
  /\ deliveries' = IF worker[w].done + 1 = NHandlers
                   THEN [deliveries EXCEPT ![worker[w].event] = @ + 1]
                   ELSE deliveries
  /\ UNCHANGED <<clock, row, held, requeues, owner>>

(* Mutant of HandlerThrows: the loop goes on as if the handler returned. *)
HandlerErrorSwallowed(w) ==
  /\ worker[w].pc = "handling"
  /\ worker[w].done < NHandlers
  /\ worker' = [worker EXCEPT ![w].done = @ + 1]
  /\ UNCHANGED <<clock, row, held, requeues, deliveries, owner>>

(* A handler throws. *)
HandlerThrows(w) ==
  /\ worker[w].pc = "handling"
  /\ worker[w].done < NHandlers
  /\ worker' = [worker EXCEPT ![w].pc = "failing"]
  /\ UNCHANGED <<clock, row, held, requeues, deliveries, owner>>

(* Mutant of Settle: the outcome is written without the fence. *)
SettleAlways(w, outcome) ==
  /\ row' = [row EXCEPT ![worker[w].event] = outcome]
  /\ owner' = [owner EXCEPT ![worker[w].event] = None]

(* The row and owner after an outcome statement of w under its fence. *)
Settle(w, outcome) ==
  LET e == worker[w].event
  IN IF Fence(e, held[w][e])
     THEN /\ row' = [row EXCEPT ![e] = outcome]
          /\ owner' = [owner EXCEPT ![e] = None]
     ELSE UNCHANGED <<row, owner>>

(* All handlers returned: markProcessed, in the try block.  If it throws,  *)
(* before or after it committed, the catch block runs.                     *)
MarkProcessed(w) ==
  LET e == worker[w].event
  IN /\ worker[w].pc = "handling"
     /\ worker[w].done = NHandlers
     /\ \/ /\ \E now \in Observed :
                Settle(w, [row[e] EXCEPT !.status = "processed",
                                         !.settled = now])
           /\ \/ NextItem(w)
              \/ /\ worker' = [worker EXCEPT ![w].pc = "failing"]
                 /\ UNCHANGED held
        \/ /\ worker' = [worker EXCEPT ![w].pc = "failing"]
           /\ UNCHANGED <<row, held, owner>>
  /\ UNCHANGED <<clock, requeues, deliveries>>

(* The catch block: deadLetter on the last attempt, else scheduleRetry. *)
RecordFailure(w) ==
  LET e == worker[w].event
      n == held[w][e].attempts
  IN /\ worker[w].pc = "failing"
     /\ \E now \in Observed :
          Settle(w, IF n >= MaxAttempts
                    THEN [row[e] EXCEPT !.status = "dead", !.settled = now]
                    ELSE [row[e] EXCEPT !.available = now + Backoff[n]])
     /\ NextItem(w)
  /\ UNCHANGED <<clock, requeues, deliveries>>

(* The worker dies, or runOnce rejects: the batch is forgotten. *)
Abandon(w) ==
  /\ worker[w].pc # "idle"
  /\ worker' = [worker EXCEPT ![w] = Idle]
  /\ held' = [held EXCEPT ![w] = [e \in Events |-> NoClaim]]
  /\ UNCHANGED <<clock, row, requeues, deliveries, owner>>

-----------------------------------------------------------------------------
(* Time matters only while some deadline is not yet past for every         *)
(* observer; beyond that, a further tick changes no comparison.            *)
DeadlineAhead ==
  \E e \in Events :
    \/ row[e].status = "pending" /\ clock < row[e].available + Lag
    \/ row[e].status = "processed" /\ clock <= row[e].settled + Retain + Lag

Tick ==
  /\ DeadlineAhead
  /\ clock' = clock + 1
  /\ UNCHANGED <<row, worker, held, requeues, deliveries, owner>>

Step(w) ==
  \/ Sweep(w) \/ ClaimBatch(w) \/ RunHandler(w) \/ HandlerThrows(w)
  \/ MarkProcessed(w) \/ RecordFailure(w)

Next ==
  \/ \E e \in Events : Publish(e) \/ Requeue(e)
  \/ Purge
  \/ \E w \in Workers : Step(w) \/ Abandon(w)
  \/ Tick

Spec == Init /\ [][Next]_vars

(* runLoop restarts each worker's run after the last one ended, handlers   *)
(* and statements return or throw, and time passes.  A worker may die any  *)
(* number of times, but not for ever between its sweep and its claim; and  *)
(* rows are locked for one statement at a time, so a worker that keeps     *)
(* claiming does not find them locked for ever.                            *)
Fairness ==
  /\ WF_vars(Tick)
  /\ \A w \in Workers : WF_vars(Step(w)) /\ SF_vars(ClaimSkipping(w, {}))

FairSpec == Spec /\ Fairness

-----------------------------------------------------------------------------
(* Properties *)

(* No two workers hold unexpired claims on the same event: while a lease   *)
(* is live, claim hands the row to nobody else (docs/events.md:87-91).     *)
LeaseIsExclusive ==
  \A e \in Events : \A v, w \in Workers :
    /\ v # w
    /\ Holds(v, e) /\ held[v][e].leaseUntil > clock
    /\ Holds(w, e) /\ held[w][e].leaseUntil > clock
    => FALSE

(* Outcome ownership (docs/events.md:94-99): of the workers that still     *)
(* hold a claim on an event, exactly the one of its latest undecided claim *)
(* can write an outcome.  A late worker's claim matches no row any more,   *)
(* neither a newer claim, nor a row released for retry, nor one that was   *)
(* requeued with its attempts reset; and nobody shortens the owner's lease *)
(* under it.                                                               *)
OutcomeOwnership ==
  \A w \in Workers, e \in Events :
    Holds(w, e) => (Fence(e, held[w][e]) <=> owner[e] = w)

(* The inductive invariant behind OutcomeOwnership.  A worker in dispatch  *)
(* holds the claim it works on; a claim numbers a real attempt of a        *)
(* published row; the owner's claim is exactly what its row carries; and   *)
(* every other claim is late: its lease is over, and it can only share its *)
(* attempt number with a row that is hidden beyond that lease.  The last   *)
(* point is where requeues (attempts start again) and lagging clocks meet. *)
BusyHoldsClaim ==
  \A w \in Workers :
    worker[w].pc \in {"handling", "failing"} =>
      worker[w].event \in Events /\ Holds(w, worker[w].event)

ClaimIsNumbered ==
  \A w \in Workers, e \in Events :
    Holds(w, e) => /\ held[w][e].attempts \in 1..MaxAttempts
                   /\ row[e].status # "absent"

OwnerIsCurrent ==
  \A w \in Workers, e \in Events :
    Holds(w, e) /\ owner[e] = w => Fence(e, held[w][e])

OthersAreLate ==
  \A w \in Workers, e \in Events :
    Holds(w, e) /\ owner[e] # w =>
      \/ row[e].status \in {"processed", "purged"}
      \/ /\ held[w][e].leaseUntil <= clock
         /\ row[e].status = "pending" /\ row[e].attempts = held[w][e].attempts
              => held[w][e].leaseUntil < row[e].available

(* Every handler has returned for an event about to be marked processed. *)
DeliveredBeforeMarked ==
  \A w \in Workers :
    worker[w].pc = "handling" /\ worker[w].done = NHandlers =>
      deliveries[worker[w].event] > 0

(* The account behind AttemptBudget.  A claim is undelivered until its     *)
(* dispatch runs the last handler, throws or gives the claim up.  Every    *)
(* delivery and every undelivered claim, late ones included, is paid for   *)
(* by an attempt the row counts, or counted before its last requeue.       *)
Undelivered(e) ==
  {w \in Workers : /\ Holds(w, e)
                   /\ worker[w].event = e =>
                        worker[w].pc = "handling" /\ worker[w].done < NHandlers}

Covered(e) ==
  /\ IsFiniteSet(Undelivered(e))
  /\ deliveries[e] + Cardinality(Undelivered(e))
       <= MaxAttempts * requeues[e] + row[e].attempts
  /\ row[e].attempts <= MaxAttempts
  /\ row[e].status = "absent" => row[e].attempts = 0

AttemptsCover == \A e \in Events : Covered(e)

ClaimInv == /\ TypeOK
            /\ BusyHoldsClaim
            /\ ClaimIsNumbered
            /\ OwnerIsCurrent
            /\ OthersAreLate

Inv == ClaimInv /\ DeliveredBeforeMarked /\ AttemptsCover

(* Terminal outcomes are final: whatever a late, duplicated or retried     *)
(* statement does, a processed row only disappears and a parked row only   *)
(* comes back through a requeue, which starts its attempts again.          *)
TerminalIsFinal ==
  [][\A e \in Events :
       /\ row[e].status = "processed" =>
            \/ row'[e] = row[e]
            \/ row'[e].status = "purged"
       /\ row[e].status = "dead" =>
            \/ row'[e] = row[e]
            \/ row'[e].attempts = 0 /\ requeues'[e] = requeues[e] + 1]_vars

(* The attempt budget: however leases lapse, workers die or acks get lost, *)
(* an event is dispatched to its handlers at most MaxAttempts times for    *)
(* each time it was enqueued, and has no outcome-less claim beyond it.     *)
AttemptBudget ==
  \A e \in Events :
    /\ deliveries[e] <= MaxAttempts * (requeues[e] + 1)
    /\ row[e].attempts <= MaxAttempts

(* The outbox implements its contract: see EventDelivery. *)
Stage(e) ==
  CASE row[e].status = "absent"    -> "unpublished"
    [] row[e].status = "pending"   -> "pending"
    [] row[e].status = "processed" -> "completed"
    [] row[e].status = "dead"      -> "parked"
    [] row[e].status = "purged"    -> "deleted"

Contract == INSTANCE EventDelivery WITH
  stage     <- [e \in Events |-> Stage(e)],
  delivered <- {e \in Events : deliveries[e] > 0}

AtLeastOnce == Contract!DeliverySpec

(* An event of a known type is parked only after its handlers ran for it,  *)
(* when no handler throws, no worker dies and the database answers         *)
(* (docs/events.md:80, "At-least-once").                                   *)
ParkedOnlyAfterDelivery ==
  \A e \in Events \ Unknown : row[e].status = "dead" => deliveries[e] > 0

(* Nothing waits for ever: every published event is completed or parked,   *)
(* although workers may die, provided those that remain keep running.      *)
EventuallySettled ==
  \A e \in Events :
    row[e].status = "pending" ~> row[e].status \in {"processed", "dead", "purged"}
=============================================================================

# Formal specifications of point_bot

TLA+ specifications of the stateful core of point_bot (`packages/core`, the web
server, the worker, the browser extension and the deployment), model-checked with TLC on small
instances and, for the core modules, proved with TLAPS for every value of the
constants. Paths below are relative to `src/`; `core/` stands for
`packages/core/src/`.

The modules follow the source: an action is a SQL statement, a transaction, or
the stretch of a function between two awaits; names are the names of the code
where TLA+ allows it. `PROJECT.json` maps every definition to its lines.

## 1. The system and its components

point_bot keeps track of loyalty accounts and balances, plans trips on them and
watches award availability. A Next.js web server and a worker share one
PostgreSQL database; an MCP server, a chat bot and a browser extension call the
web API. There is no other shared state: processes meet in the database, and
inside one process callbacks meet in a few in-memory maps.

| component | state | operations | hard behaviour | what makes it correct |
|---|---|---|---|---|
| **Domain event outbox** (`core/application/events`, `core/infrastructure/outbox`) | `domain_event_outbox` rows; a worker's claimed batch | publish (in the caller's transaction), claim, markProcessed, scheduleRetry, deadLetter, deadLetterExhausted, runOnce | several workers, lapsed leases, crashes, lost answers, disagreeing clocks, requeues that reset attempts | at-least-once; only the latest claim decides; outcomes are final; a bounded number of attempts; everything is settled in the end |
| **Reviewed assistant actions** (`core/application/assistant`, `core/infrastructure/assistant`) | `assistant_action` rows, the account behind them | propose, list, reject, approve (claim, recheck, write, journal), recovery of stale claims | concurrent approvals, deadline passing during a lock wait, unanswered COMMIT, crash after the claim, recovery overtaking a live approval, account edited meanwhile | the write happens at most once, on the account that was reviewed, before the deadline, and the journal tells the truth about it |
| Agent observations and review (`core/application/agent/submit-observation.ts`) | receipts, held readings, baselines | submit, confirm, dismiss | replay by capture id, four locks in order, confirmation against a baseline that moved, 24-hour window | one receipt and at most one snapshot for a capture; nothing recorded without live token and consent |
| Consent grants, access tokens (`core/application/agent`) | grants, token hashes | grant, renew, revoke, authenticate | renewal against revocation | one active grant; revocation ends authority |
| Loyalty accounts, balances, sync (`core/application/loyalty`) | accounts, snapshots, unlink window | link, edit, unlink, restore, purge, record, sync, import | provider I/O outside the transaction, back-dated readings, purge against restore, lock order | latest balance is the newest reading; a sync writes only to the account it read |
| Trip goals | goals, account references | create, update | locks several accounts | one lock order; references are live |
| Award watches | watches, best rate seen, stamps | create, delete, check | scrape outside the lock, overlapping runs, clocks that differ, notification after commit | an improvement is announced once, a deleted watch stays silent |
| Read cache, authentication cache (`core/application/cache.ts`, `apps/web/src/server/read-cache.ts`) | entries, flights, recency | remember, invalidateTag, get, set | a load overtaken by an invalidation | a read after a settled write sees it; one load at a time |
| Rate limiter, assistant admission | windows, concurrency counters | admit, release, sweep | sweep against release, capacity | caps hold, nothing leaks |
| Browser extension queue (`apps/extension/src`) | frozen request, latest capture | record, send, retry | service worker killed at any await | same identity on retry, newest capture not lost |
| Optimizer and point arithmetic (`core/domain/loyalty`) | none | pure functions over reads that happen one after the other | rounding, ratios, minimums and increments, bonuses that end meanwhile | agree with a reference definition, and with each other |
| Retention purge | none of its own | batched deletes | deletes what others still use | only expired rows disappear |
| Sharing, bonuses | shares, reported bonuses | create, revoke, public snapshot; record, list active | a revocation during a snapshot; a bonus window that closes | nothing of a revoked share is shown; only live, visible bonuses count |
| Migrations and rollout (`scripts/deployment/rollout.mjs`, `core/infrastructure/db/migrations.ts`) | the migration journal, an advisory lock, the stack and its hosts | migrate by task or by hand, bootstrap by change set, activate or hold | releases cut off with their task still running, another operator, a history of another branch, outputs read before the migration and used after it | hosts run only on a database that has their migrations; one history; a bootstrap takes nothing down |
| Valuations, display settings | one row each | upserts | - | - |
| Chat service, LLM adapters, HTTP layer, MCP, bot, digests, provider adapters, observability | - | I/O, routing, rendering | - | state changes are the use cases above |

How they interact:

- every use case that changes data runs in `unitOfWork.run`, which gives it a
  transaction and an outbox publisher: `publish` commits with the change;
- use cases that touch an account take `lockAccountForWrite` first (a provider
  advisory lock, then the account row), which serialises edits, reviewed
  writes, observations, sync and goals on one account;
- the worker's `runOnce` claims outbox rows and calls the handlers (cache
  invalidation, notifications, counters), which must be idempotent;
- a release runs the migrations of its candidate as a task of the cluster and
  updates the stack only after the task has attested the journal;
- an approval of an assistant action calls `RecordManualBalance` or
  `CreateTripGoal` inside the transaction that also finishes the action row.

The hazards that follow (steps no test reaches easily) are listed line by
line in `PROJECT.json`, each with the properties about it, or with a note where
the code promises nothing.

## 2. Modules

| module | what it is |
|---|---|
| `EventDelivery` | abstract: what the outbox promises a publisher |
| `Outbox` | the outbox rows, claims and workers; implements `EventDelivery` |
| `MCOutbox`, `MCOutbox*.cfg` | instances for TLC |
| `OutboxProofs` | theorems about `Outbox` |
| `ReviewedWrite` | abstract: what a reviewed write promises the owner |
| `AssistantActions` | proposals, calls, transactions; implements `ReviewedWrite` |
| `MCAssistantActions`, `MCActions*.cfg` | instances for TLC |
| `AssistantActionsProofs` | theorems about `AssistantActions` |
| `BalanceRules` | pure rules: sanity cap, implausible jumps, which reading is the latest |
| `Observations`, `ObservationsProofs` | submissions, reviews, consents, tokens and the extension's capture queue; extends `BalanceRules`; and theorems |
| `Accounts`, `AccountsProofs` | accounts, readings and trip goals, lock by lock; and theorems |
| `AwardWatches`, `AwardWatchesProofs` | the check runs, and theorems about them |
| `ReadCache` | the cache, its flights and the authentication cache |
| `RequestGate` | the rate limiter and the assistant's admission |
| `WebProcess`, `WebProcessProofs` | requests of one process through `RequestGate` (INSTANCE) and `ReadCache` (EXTENDS), and theorems |
| `Transfers` | pure: edges, conversion and its inverses, bonuses, estimate, advice, deals |
| `Redemptions` | pure: the optimizer; extends `Transfers` |
| `Reports`, `ReportsProofs` | the use cases that evaluate `Transfers` and `Redemptions` on data read in several queries; and theorems about them and about `Transfers` |
| `Migrations` | migrators of one database, their lock and the journal |
| `Rollout`, `RolloutProofs` | releases, the stack and other operators; extends `Migrations`; and theorems |
| `MCObservations`, `MCAccounts`, `MCAwardWatches`, `MCWebProcess`, `MCReports`, `MCRollout` | instances for TLC; the revocation finding instantiates `ReadCache` itself |

Definitions whose comment says "mutant" or "the bug" are variants of the
definition below them; no specification uses them.

### Outbox

`row[e]` is the row of event `e`; `available_at` is `available`, which doubles as
the lease deadline of a claim, as in the code. `held[w][e]` is the
`OutboxClaim` (attempt number and lease deadline) that worker `w` received;
`worker[w]` is where `runOnce`/`dispatch` is. `deliveries` and `owner` are
history variables: complete dispatches of an event, and the worker of the
latest claim still undecided.

| action | code |
|---|---|
| `Publish`, `Requeue`, `Purge` | `publish`; the manual requeue of docs/events.md; the outbox target of the retention purge |
| `Sweep`, `ClaimBatch` | `deadLetterExhausted` and `claim` at the head of `runOnce`; `ClaimSkipping(w, locked)` is the claim that passes over the rows `locked`, which other statements hold (SKIP LOCKED) |
| `RunHandler`, `HandlerThrows` | the handlers loop of `dispatch` and its exception |
| `MarkProcessed`, `RecordFailure` | the end of the `try` block; the `catch` block |
| `Abandon` | the process dies, or `runOnce` rejects: the rest of the batch stays leased |
| `Tick` | time |

Three points where the model follows the code and not its description. A `now`
is read by the worker before the statement that uses it runs, so each statement
takes any reading at most `Lag` old. `markProcessed` is inside the `try`: if its
answer is lost after it committed, the `catch` block runs on a processed row.
`claim` maps its rows after the UPDATE has committed, so an unknown event type
in the batch loses the whole batch (see the finding).

`Undelivered(e)` are the workers whose claim on `e` has not yet led to a complete
dispatch, and `AttemptsCover` is the account behind `AttemptBudget`: complete
dispatches and undelivered claims together never exceed the attempts the rows
count or counted before their last requeue.

### AssistantActions

One owner, one account. `row[a]` is the proposal; `request[r]` is an approve or
reject call, whose `at` names the await it is in; `tx[r]` is the state of its
transaction *on the server*, which outlives the client: `written` (mutation
done, account locked), `journaled` (action row updated too), `doubt` (COMMIT
sent, answer lost). `applied[a]` is a history variable: the membership numbers
that the committed writes of `a` went to.

| action | code |
|---|---|
| `Propose` | `proposeManualBalance`, `proposeTripGoal`, `insert` |
| `ListRefresh`, `ListExpire` | `list`: `expireExecuting` of all rows, then `settlePending` of each expired row among the newest `Page` (50 in the code) |
| `Approve`, `Reject`, `Find`, `FindReject`, `SettlePending` | the way to the claim or the rejection |
| `Claim` | `claim`: lock the row, judge the deadline by the later of both clocks |
| `Check`, `Refuse` | the recheck outside the transaction, and its failed `finish` |
| `Execute`, `Write`, `Journal`, `Commit` | the transaction: lock and identity guard, write, `finish("succeeded")`, COMMIT |
| `ServerDecides` | PostgreSQL decides a COMMIT nobody waits for (external) |
| `Catch` | `finish("failed")` for the guard's own error, `finish("unknown")` otherwise, also after a journal write that failed without a transaction |
| `Crash` | the process dies or an error reaches the caller |
| `EditAccount` | `UpdateLoyaltyAccount`, `UnlinkLoyaltyAccount`, `RestoreLoyaltyAccount` elsewhere |

`Atomic` is `unitOfWork.atomic`. With `FALSE` the unit of work passes through:
the write stands at once and the journal entry is a statement of its own.
Statements that meet a row or account lock wait (`RowLocked`, `AccountLocked`).

### Observations

One user, one provider. `receipt[c]` is the `agent_observation` row of capture
`c`, `snaps` the balance history in the order of the query, `grant` the consents,
`account` the one account. A server call is a transaction: `todo` holds the locks
still to take (advisory locks, rows), and a row is read in the step that locks
it. The extension is `latest` (the newest capture), `pending` (the frozen
request), `completed` (remembered ids) and `busy`; its service worker can die
between any two of its steps and keeps what it had stored.

| action | code |
|---|---|
| `Start`, `Acquire`, `Abort` | a call begins; `lockSubmission`, `lockReview`, `lockAccountForWrite` one lock at a time; rollback or a dead client |
| `JudgeSubmission`, `CommitSubmission` | `SubmitObservation.execute`: replay or conflict, account, cap and jump rules; receipt, snapshot, COMMIT |
| `JudgeReview`, `CommitConfirm`, `CommitReject` | `ResolveObservationReview`: window, membership, exact baseline; then the snapshot or the rejection |
| `CommitOther` | grant, revoke, token revocation, manual balance, edit, unlink, link |
| `Receive`, `Freeze`, `Send`, `Answer`, `GiveUp`, `Discard` | `receiveCapture`, `record`, `submitViaAgentEndpoint`, `finishCapture`, time-out or death, `discardCapture` |

Left out: submissions without a capture id (no replay to speak of), the
session-token path, a change of the signed-in identity in the extension, the
contents of pages and skills. A capture shows the same points when it is sent
again; the conflict of one id with other content is a refusal before any write.

### Accounts

`account[p]` is the account of program `p` (a unique index allows one) with its
readings, which cascade with it; `goal[g]` names pairs of program and id, so that
an account linked again is another one. `call[c].read` holds the rows as they
were locked. Every write puts whole rows back, as the repositories do.

| action | code |
|---|---|
| `Begin`, `Fetch` | ownership checks, the list of goal accounts; the provider's answer of a sync, minutes outside any transaction |
| `Acquire` | `lockAccountForWrite`: lock, and read the row again |
| `Judge`, `CommitAccounts` | link, import, edit, expiry, balance, sync, unlink, restore under their locks |
| `CommitGoal` | create, update, rename and delete of a goal |
| `PurgeList`, `PurgeClock`, `PurgeDelete` | `PurgeExpiredUnlinks`: list, read the clock, delete one by one |

The advisory lock of a program and the row lock behind it are one step, because
every writer takes them together. `Ascending` is the sort of
`lockGoalAccountReferences` and the import: the one sequence that lists a set of
programs upwards. Bulk edits and sync-all repeat single jobs.
Pins, notes, tags, card products, point values, the demo seed and the
foreign-key locks of `trip_goal_account` are left out.

### ReadCache, RequestGate, WebProcess

`version[k]` counts the committed writes of key `k`, `settled[k]` those of this
process whose `invalidateOnWrite` has finished. A load records the oldest version
any of its queries saw. `entry`/`recency` are the map and its order, `flight[k]`
the promise of `remember`. The index by tag is derived from the keys. `Removed`
and `Renewed` are the two things the code does to the order of its map (`delete`;
`delete` and `set`), and `Recent` drops from a list of times what has left the
window: the times are appended in order, so what is left is its end.

| action | code |
|---|---|
| `Remember`, `Load`, `LoadFails`, `Share` | `remember`: hit, join, start; the loader returns or throws; joiners get the same result |
| `Commit`, `Settle`, `CommitElsewhere` | `invalidateOnWrite`: the write commits, `finally` invalidates the tags; a write by another process |
| `Authenticate`, `Authenticated` | `cacheAuthentication`: get, await the lookup, set |
| `Enter` | `authenticatedResponse`: authenticate, then `consume` of the limiter |
| `Admit`, `Ask`, `Leave` | the chat route: `acquire`, the handler, `release` in `finally` |
| `View`, `Write` | dashboards that read, and use cases that write |

A write by a worker or another process is bounded by the TTL only, as
read-cache.ts says, so `ReadYourWrites` is about this process. Two routes
invalidate on their own (agent-actions.ts:138, confirm/route.ts:30,
approve/route.ts:19) as `Settle` does. `WebProcess` has no authentication cache:
its keys are the account lists; `CacheSpec` in `ReadCache` has both. Clocks of
one process are monotone.

### AwardWatches

`watch[w]` is the row; `run[r]` a run of the job: what is left to scrape, the
row it holds under lock, the hits collected so far. `published` and `sent` are
history: the events committed, and how often a hit reached a channel.

| action | code |
|---|---|
| `Create`, `Delete` | `CreateAwardWatch`, `DeleteAwardWatch` (waits for the row lock) |
| `Start`, `Scrape`, `ScrapeInvalid` | the list of watches; a page that shows a rate, none, or one out of range |
| `Lock`, `Commit` | the transaction: recheck, `shouldNotify`, `recordCheck`, publish |
| `Finish`, `Send`, `SendFails` | `checkWatches`: chat first, then one mail for each owner |
| `Die` | a crash, or a failed transaction: the hits collected so far are lost |

Nothing in the code edits a watch, so the recheck can only find it deleted.
Every statement reads any clock, as runs are containers of their own. An alert
can be lost (`Die`, `SendFails`); its event stays in the outbox. domain/award-watch.ts
calls `bestSeenCentsPerPoint` "null until the first qualifying hit", but
`recordCheck` stores any rate; nothing depends on the difference.

### Transfers, Redemptions, Reports

`Transfers` and `Redemptions` are the arithmetic as operators, with names of the
code; `Reports` is the order in which a report reads its data, so that balances,
cards, bonuses and shares may change between two queries.

| action | code |
|---|---|
| `EditHolding`, `RecordTransferBonus`, `CreatePortfolioShare`, `RevokePortfolioShare` | the writes around a report |
| `AskPlan`, `AskBest`, `AskEstimate`, `AskAdvice`, `OpenShare` | the use cases begin; a share is looked up first |
| `Searched` | the award search of a plan returns |
| `ReadAccounts`, `ReadBonuses` | the two queries, in either order; an estimate reads its account first |
| `EvaluatePlan`, `EvaluateBest`, `EvaluateEstimate`, `EvaluateAdvice`, `AnswerShare` | the clock is read and the report made; a share is looked up again |

`AnswerShare` joins the second look at the share (portfolio-share.ts:154) with the
answer: the code resumes from an await in between, so a revocation that commits
after that query is not seen. `RevokedIsHidden` speaks of the moment of the query.

Rates are whole cents per point and costs quarter cents, so that the weights of
expiring points (a half, a quarter) are exact. `MinAmountFor` is the bisection
of the code, a pass of its loop at a time (`Halved`); `Fund` tries the greedy
fill and every marginal source in the order of the code, and a fill keeps its
picks as a sequence with what is left of the need. A loop over a list is a
recursive function of how many of its members are done (`Total` for `reduce`).
`RankDeal` inverts the two floors by two ceilings. `InOrder` is a sort said by
position: before the i-th member there are i - 1 smaller ones. It sorts the
advice (of equal options, that of the earlier edge of the table is first), the
sources and the plans, with the comparators of the code, which decide between
any two members. The default increment is a constant. Left out: overflow beyond
safe integers (checked by `safePoints`), step texts and caveats, deal scores, the
cuts to the top hints and deals, the floating-point rounding of values.

### Migrations, Rollout

`rows[m]` is how often migration `m` is in Drizzle's journal, `task[t]` a
migrator and `lock` the session lock it holds. A candidate is the set of
migrations of its manifest; `When` orders them, and files of two branches may
interleave. `gated` migrators are told the manifest they must find, as the
worker's task is; `db:migrate` is not. `stack` is CloudFormation's TemplateApp:
`hosts` is what its services run, `next` what an update under way will make of
them; `release[r]` is a run of `rollout()`, whose `at` names the command it is
before.

| action | code |
|---|---|
| `Acquire`, `CheckPrefix` | `pg_advisory_lock`; the journal must be a prefix of the manifest, an empty one needs an empty schema |
| `ReadLast`, `Apply` | Drizzle: what is newer than the last row; SQL and rows in one transaction (external) |
| `Attest`, `Unlock`, `Kill` | the complete journal; `finally`; a task that is stopped, waits too long or fails |
| `Begin`, `Recheck`, `Prepare`, `CheckStub`, `Execute`, `AwaitCreate` | the lookup of the stack and the bootstrap by change set |
| `Describe`, `RunTask`, `Verify` | the outputs; `run-task`; the exit code and the attestation |
| `Hold`, `Activate`, `AwaitUpdate`, `Abort` | the end of `rollout()`: inactive, deployed, or given up anywhere |
| `CreateDone`, `CreateFails`, `UpdateEnds`, `CreatedElsewhere`, `Remove`, `ByHand` | CloudFormation and other operators (external); `db:migrate` |

Releases are not serialised: deploy.yml has a concurrency group, but a release that
was cut off leaves its task and its stack operation behind, and operators can run
the script. An aborted run may or may not have stopped its task. Every check of
assets, identities, network, database and backup is an `Abort`. Left out: the
receipt file, the verify-only mode, rows of the journal whose hash no manifest has.
The two connections of a migrator end together.

## 3. What TLC checks

| run | instance | shows |
|---|---|---|
| `outbox_batches` | 2 workers, 2 events, one of unknown type, 2 attempts, batches of 1 that may be over-filled and skip locked rows, fair | `LeaseIsExclusive`, `AttemptBudget`, `AtLeastOnce` (refinement of `EventDelivery`), `EventuallySettled` |
| `outbox_requeue` | 2 workers with clocks 1 tick apart, 1 event, 2 handlers, 1 requeue | `Inv` (inductive), `OutcomeOwnership`, `TerminalIsFinal` |
| `outbox_unknown_type` | 1 worker, nothing fails | `ParkedOnlyAfterDelivery` is violated: the finding |
| `actions_atomic` | a balance and a goal proposal, 2 concurrent calls, 2 membership numbers, a page of 1, deadline and lease of 1 tick, fair | `Inv` (inductive), `OutcomeExact`, `ReviewedIdentity`, `DeadlineHolds`, `EventuallyDecided` |
| `actions_passthrough` | no transactions, 1 proposal, 2 calls, longer deadline and lease | `AtMostOnce` (refinement of `ReviewedWrite`) |
| `observations` | a page capture and an agent capture above the cap, 2 memberships, 3 calls (submit; submit or review; anything else), 1 tick, 2 grants | `RecordedOnce`, `NothingForgotten`, `SavedIsSaved`, `NoLockCycle`, `AuthorityHolds`, `ReviewOnBaseline` |
| `accounts` | 2 programs, a goal over both, 2 memberships, 3 calls, 4 jobs, 2 ticks, restore window of 1 | `Inv` (types and `NoLockCycle`), `SameMembership`, `ExpiryKeepsUp`, `NoLostUpdate`, `GoalsNameLinked` |
| `web_process` | 2 users, 2 chats and a reader-writer, cache of 1 entry, window of 1 tick, limits of 1 and 2, fair | `Inv` (types, sizes and `NoBurst`), `ReadYourWrites`, `SingleFlight`, `LeasesCounted`, `LeaseReturns` |
| `auth_revocation` | `ReadCache` with its authentication cache, 1 user, 3 calls | `RevokedAtOnce` is violated: a finding |
| `award_watches` | 2 watches of 2 owners, 2 runs, 3 rates around the threshold, clocks 1 tick apart | `EachImprovementOnce`, `AlertedOnce`, `DeletedIsSilent`, `TimeNeverRunsBack` |
| `rollout` | 2 releases and 1 migration by hand, 3 candidates: one history, its next step, and a branch with a younger file | `ActivatedIsMigrated`, `HistoryNeverForks`, `PromotionIsDeliberate` |
| `reports` | 2 award programs, 2 currencies, 4 edges (with minimum, increment, condition), 72 portfolios, 4 bonuses, 2 changes | `PlansAreSound`, `QuotesAgree`, `BonusesLive`, `RevokedIsHidden` |

The properties in words:

- `LeaseIsExclusive`: while a lease is live, nobody else is given the row.
- `OutcomeOwnership`: of the workers that still hold a claim, exactly the one of
  the latest undecided claim can write an outcome, although attempt numbers
  start again after a requeue and clocks disagree.
- `AttemptBudget`: at most `maxAttempts` dispatches for each time an event was
  enqueued.
- `TerminalIsFinal`: a processed row only disappears; a parked row only returns
  through a requeue.
- `AtLeastOnce`: the rows implement `EventDelivery`; completed means that every
  handler ran.
- `EventuallySettled`: every published event is completed or parked.
- `OutcomeExact`: with transactions, a proposal reads succeeded exactly when its
  write is in the data, once - also when the answer to COMMIT was lost and
  `finish("unknown")` comes after it, or the recovery came before it.
- `ReviewedIdentity`: a balance is only written to the membership that was
  reviewed.
- `DeadlineHolds`: no proposal starts to execute at or after its deadline, none
  expires before it.
- `AtMostOnce`: with and without transactions, "succeeded" is only reported of a
  write that happened, "failed", "rejected" and "expired" only of one that did
  not and never will, and a report stays; only "unknown" leaves the owner to look.
- `EventuallyDecided`: a claimed proposal reaches an outcome, and so does a
  pending one that the page goes on showing. A pending proposal behind a page of
  newer ones is settled only when its owner approves or rejects it by its id;
  nothing is claimed of it.
- `RecordedOnce`: a capture is in the balance history at most once, and exactly
  when its receipt says recorded, however often it was sent, answered, held,
  confirmed or rejected.
- `NothingForgotten`, `SavedIsSaved`: the extension drops a request that left it
  only when its outcome is known or the user discarded it, and what it reports as
  saved is saved.
- `AuthorityHolds`: a receipt is written only while token, consent and account
  stand at the commit, whatever was read before the locks.
- `ReviewOnBaseline`: a held reading is confirmed only on the balance it was
  compared with, for its membership, inside the window.
- `NoLockCycle` (twice): no set of calls waits for locks that only its members
  hold. It states freedom from deadlock, also where calls are used up and the run
  therefore has `CHECK_DEADLOCK FALSE`.
- `SameMembership`: a reading enters the history of the membership it was taken
  from, whatever happened while a sync fetched it.
- `ExpiryKeepsUp`: the expiry never goes back, and a back-dated reading does not
  renew it.
- `NoLostUpdate`: although whole rows are written back, a job changes only what
  it is about, and nothing another committed since it began.
- `GoalsNameLinked`: what a goal newly names is linked when the goal is written.
- `ReadYourWrites`: a read that starts after a write of this process has settled
  sees it, from the cache, a joined load or its own.
- `SingleFlight`: a key has at most one load that others may join.
- `NoBurst`: no owner gets more than the limit into any window, whatever was
  swept or forgotten in between.
- `LeasesCounted`, `LeaseReturns`: the counters are exactly the leases held, and
  every chat gives its lease back.
- `EachImprovementOnce`, `AlertedOnce`, `DeletedIsSilent`, `TimeNeverRunsBack`:
  a watch has announced its best rate exactly when that reaches the threshold,
  each improvement once; a hit reaches a channel at most once and only if it was
  published; a deleted watch publishes nothing; stamps never run backwards.
- `ActivatedIsMigrated`: hosts run, and are started, only with code whose
  migrations are all in the database, whichever tasks others left behind.
- `HistoryNeverForks`: concurrent migrators apply nothing twice, and one that was
  told its manifest leaves exactly that history, or fails before any SQL ran.
- `PromotionIsDeliberate`: a bootstrap takes no running host down, also when
  another operator created the stack meanwhile; inactive hosts are started only
  by a release that was told the secrets are ready and did not create the stack.
- `PlansAreSound`: a plan spends legal blocks of what is held; it is called
  fundable exactly when some legal combination covers the award, found by
  enumerating all of them; it costs no more than any single source that suffices,
  and is the cheapest of all when points move one by one; a shortfall asks for the
  smallest legal transfer; an unverified bonus never gets high confidence.
- `QuotesAgree`: estimate, advice and deals quote the same transfer, and a deal
  asks for the least legal amount.
- `BonusesLive`: a report counts only on bonuses open at its time and visible to
  its viewer.
- `RevokedIsHidden`: nothing is shown of a share revoked or expired meanwhile.

### Bounds and why they are enough

- *Workers, calls: 2.* Every conflict in the code is between two holders of the
  same row (a late one and the current one); the proofs cover any number.
- *Events: 2*, so that a batch has a head and a tail; *2 attempts*, so that
  there is a last and a not-last attempt; *1 requeue*, which makes attempt
  numbers repeat.
- *Clock.* Ticks happen only while some deadline is not yet past for every
  observer (`DeadlineAhead`); later ticks change no comparison. `Lease`, `Ttl`,
  `Backoff` and `Lag` are 0 to 3 ticks: only their order matters, before, at
  and after each deadline.
- *Page: 1* of two proposals, so that a newer proposal pushes the older off the
  page before or after it expires. `Listed` is what `list` may read and `Shown`
  what it reads in any case: rows of one moment come in no fixed order.
- *Memberships: 2*, so that an edit changes the identity and can change it back.
- *Symmetry* only permutes workers or calls, and only in runs without liveness.
- `actions_passthrough` checks the refinement alone; the invariant is proved for
  both values of `Atomic`.
- *Observations*: one capture that the extension sends and one an agent sends,
  because ids never meet; three calls, so that two of them can race while the
  third changes what they rely on; one tick passes every deadline (token, grant,
  window). Only memberships are symmetric.
- *Accounts*: two programs are the least with a lock order, three calls let a
  purge and a link come between; the menus split the jobs so that every pair of
  conflicting kinds meets in some assignment of calls.
- *Web process*: one cache entry makes every second key an eviction; limits of
  one and two are reached by three calls; more users add no new interaction,
  and the proofs cover any number.
- *Rollout*: two releases are enough for one to leave a task or an update behind
  that the other meets; a third migrator is the operator's. The branch's file is
  younger than the next one's, so that each history blocks the other, and what
  is newer than the last row skips a file.
- *Award watches*: three rates are below, at and above the threshold, with one
  improvement between the last two.
- *Reports*: a report writes nothing, so one at a time is enough. The portfolios
  have sources that cost the same, suffice alone, suffice together or fall
  short; the edges have a minimum that is no multiple of the increment, ratios
  above and below one, none stated, and a condition.
- `CHECK_DEADLOCK` is off where the bounds use up calls or jobs
  (`observations`, `accounts`, `award_watches`, `rollout`, `reports`), and on elsewhere.

### Fairness

- `Outbox`: weak fairness of each worker's steps, because `runLoop` starts the
  next run when the last has ended, and handlers and statements return or
  throw; of time; and strong fairness of the claim that finds no row locked
  (`ClaimSkipping(w, {})`): a worker may die any number of times, but not for
  ever between its sweep and its claim, and a row is locked for one statement
  at a time, so that the polling worker does not find it locked for ever.
  Nothing makes a handler succeed.
- `AssistantActions`: weak fairness of each call's steps (Node resumes every
  await), of the server's decision on a COMMIT and of time. Nothing in the code
  sweeps proposals on its own: recovery and expiry run when the owner lists,
  approves or rejects. The fairness of `ListRefresh` and `ListExpire` is
  therefore an assumption on the environment: the owner opens the page again.
  It is stated for each proposal only as long as the page certainly shows it
  (`Shown`), because `list` settles no other.
  No fairness is assumed of `Crash`, `Approve` or `EditAccount`.
- `WebProcess`: weak fairness of the steps of each request: promises settle,
  queries return or fail, the event loop goes on. None of time, of new requests
  or of writes elsewhere.
- The other modules state no liveness: a run, a sync or a review that dies is
  simply gone, and nothing in the code promises to finish it.

### Findings

`outbox_unknown_type`: `claim` commits its UPDATE and only then maps the rows
with `toClaimed`, which throws on an event type this build does not know
(`core/infrastructure/outbox/drizzle-outbox.ts:92`, `:150`). The whole run
rejects, every other event of the batch has used an attempt, and after
`maxAttempts` such batches `deadLetterExhausted` parks events whose handlers
never ran, with no crash and no failing handler. docs/events.md:80 promises
at-least-once and :100-102 parks events after handler failures or crashes. An
old worker beside a newer publisher is enough; the parked rows are kept and can
be requeued by hand.

`auth_revocation`: `cacheAuthentication` gets, awaits the lookup, and sets
(`apps/web/src/server/read-cache.ts:132-136`), outside the fenced flights of
`remember`. A lookup that has read the token before its revocation stores its
success after `revokeAccessToken` committed and dropped the entries; the revoked
token is then accepted until the TTL passes. read-cache.ts:116-117 says that a
token revoked through this process stops working immediately. It takes a TTL
above zero and a request in flight at the moment of the revocation.

## 4. What is proved

All theorems hold for every value of the constants that satisfies the named
assumptions; the proofs are in the eight `*Proofs` modules.

| theorem | statement | argument |
|---|---|---|
| `OutboxProofs!Invariant` | `Spec => []Inv` | one lemma for each action; `Settle` and `Proceed` have lemmas of their own |
| `OutboxProofs!Budget` | `Spec => []AttemptBudget` | from `AttemptsCover` in `Inv` |
| `OutboxProofs!Ownership` | `Spec => []OutcomeOwnership` | from `Inv` |
| `OutboxProofs!ExclusiveLease` | `Spec => []LeaseIsExclusive` | from `Inv`: all but the owner's leases are over |
| `OutboxProofs!Finality` | `Spec => TerminalIsFinal` | every statement is fenced on a pending row |
| `OutboxProofs!Implements` | `Spec => AtLeastOnce` | each action maps to a step of `EventDelivery` or stutters |
| `AssistantActionsProofs!Invariant` | `Spec => []Inv` | two kinds of step, see below |
| `AssistantActionsProofs!Outcome` | `Spec => []OutcomeExact` | from `Inv` |
| `AssistantActionsProofs!Identity` | `Spec => []ReviewedIdentity` | from `Inv` |
| `AssistantActionsProofs!Deadline` | `Spec => DeadlineHolds` | with the lemma that a call's `now` never runs ahead of the clock |
| `AssistantActionsProofs!Implements` | `Spec => AtMostOnce` | each action maps to a step of `ReviewedWrite` or stutters |
| `WebProcessProofs!Inductive` | `Spec => []IInv` | one lemma for each action, see below |
| `WebProcessProofs!WebProcessInv` | `Spec => []Inv` | from `IInv` for the cache; the sizes and the window from invariants of the gate alone |
| `WebProcessProofs!ReadsSeeWrites` | `Spec => []ReadYourWrites` | a conjunct of `IInv` |
| `WebProcessProofs!OneFlight` | `Spec => []SingleFlight` | from `IInv`: a load that is not fenced is the flight of its key |
| `WebProcessProofs!LeasesAreCounted` | `Spec => []LeasesCounted` | an invariant of the gate alone, with cardinalities of the lease holders |
| `AccountsProofs!Invariance` | `Spec => []IInv` | a call stands as long as others respect its locks; one lemma for each action |
| `AccountsProofs!AccountsInv` | `Spec => []Inv` | types, and no cycle of waits: locks are taken upwards in one order |
| `AccountsProofs!AccountsSameMembership` | `Spec => SameMembership` | from `IInv`: the row is as it was read, and was judged |
| `AccountsProofs!AccountsExpiryKeepsUp` | `Spec => ExpiryKeepsUp` | from `IInv` |
| `AccountsProofs!AccountsNoLostUpdate` | `Spec => NoLostUpdate` | from `IInv`: what a job puts back is the row it locked |
| `AccountsProofs!AccountsGoalsNameLinked` | `Spec => GoalsNameLinked` | from `IInv`: an account under lock is not unlinked |
| `AwardWatchesProofs!Invariant` | `Spec => []Inv` | `RunStep` for the steps of a run that touch no row; the others one by one |
| `AwardWatchesProofs!Improvements` | `Spec => []EachImprovementOnce` | a conjunct of `Inv` |
| `AwardWatchesProofs!Alerts` | `Spec => []AlertedOnce` | from `Inv` |
| `AwardWatchesProofs!Silence` | `Spec => DeletedIsSilent` | only a recorded check publishes, under the lock |
| `AwardWatchesProofs!Monotone` | `Spec => TimeNeverRunsBack` | the recorded time is the latest of clock and stamps |
| `ObservationsProofs!Invariance` | `Spec => []Inv` | three frame lemmas, see below |
| `ObservationsProofs!RecordedOnceHolds` | `Spec => []RecordedOnce` | a conjunct of `Inv` |
| `ObservationsProofs!NothingForgottenHolds` | `Spec => []NothingForgotten` | a conjunct of `Inv` |
| `ObservationsProofs!SavedIsSavedHolds` | `Spec => []SavedIsSaved` | a conjunct of `Inv` |
| `ObservationsProofs!AuthorityAlwaysHolds` | `Spec => AuthorityHolds` | from `Inv`: what was read under the locks still stands at the commit |
| `ObservationsProofs!ReviewOnBaselineHolds` | `Spec => ReviewOnBaseline` | from `Inv`; the window is looked at again in the commit |
| `ObservationsProofs!NoLockCycleHolds` | `Spec => []NoLockCycle` | `Ascending`: a call holds only locks of a lower rank than the one it waits for |
| `RolloutProofs!Invariance` | `Spec => []IInv` | migrators and releases apart, see below |
| `RolloutProofs!Types` | `Spec => []TypeOK` | from `IInv` |
| `RolloutProofs!HostsAreMigrated` | `Spec => []ActivatedIsMigrated` | a conjunct of `IInv` |
| `RolloutProofs!OneHistory` | `Spec => []HistoryNeverForks` | from `IInv` |
| `RolloutProofs!Deliberate` | `Spec => PromotionIsDeliberate` | from `IInv`: what a release knows of stack and task |
| `ReportsProofs!CoverageIsLeast` | `CoverageNeeded` is the least block, at least the minimum, that converts to what is missing | two ceilings invert two floors |
| `ReportsProofs!MinAmountIsLeast` | `MinAmountFor` is the least legal amount of a source that covers the need, or `None` when all of it does not | the bisection keeps the first sufficient block in its range and shrinks it |
| `ReportsProofs!FundIsCheapest` | no legal way to pay costs less than `Fund`, where sources move point by point | the cheapest sources first: the rate of the last one divides what was spent from what was not |
| `ReportsProofs!NothingIsLeft` | what an unfunded plan leaves of a balance holds no legal transfer that covers what is missing | what is left is less than an increment or than the minimum, or moves nothing |
| `ReportsProofs!PlansAreAlwaysSound` | `Spec => []PlansAreSound` | an answer is made of what was read; then the fills, the shortfall and the ranking, see below |
| `ReportsProofs!QuotesAlwaysAgree` | `Spec => []QuotesAgree` | an answer is made of what was read; then arithmetic and the order of the options |
| `ReportsProofs!BonusesAreAlwaysLive` | `Spec => []BonusesLive` | what was listed is recorded and visible; the best of an edge is an open one; a plan spends only its sources |
| `ReportsProofs!RevokedStaysHidden` | `Spec => RevokedIsHidden` | only the second look at a share answers it |

**Outbox.** `OutcomeOwnership` is not inductive. `Inv` adds what it rests on
(`OthersAreLate`): every claim that is not the owner's is over by the clock, and
can share its attempt number only with a row that is hidden beyond that lease.
This is where a requeue (attempts start again) and late clocks meet, and why
the proof needs `ClockAssumption`: clocks disagree by less than a lease and less
than the shortest backoff (one minute and five seconds by default). With a
larger disagreement two claims can carry the same attempt number and the same
deadline. `AttemptBudget` compares a history with a bound; what is inductive is
`AttemptsCover`, an account in which every complete dispatch and every claim that
may still lead to one has been paid for by an attempt, of this life of the row or
of an earlier one (`MaxAttempts` for each requeue). A claim pays for its worker, a
dispatch turns an undelivered claim into a delivery, and a requeue gives the row a
new budget only when the attempts of the old one are at most `MaxAttempts`; a
worker that is still late then stays covered. No clock is needed for it.

**AssistantActions.** `OutcomeExact` alone says nothing about a call between its
check and its commit. `Inv` adds that a claimed row is claimed by one call and
is never pending again (`ClaimsOK`), that a transaction belongs to the approval
that opened it, is alone on the account and still satisfies the identity it has
checked, and that once journaled its row cannot be recovered (`TxOK`), and that
journal and writes agree at every stage (`AppliedOK`). The proof has two frame
lemmas: `QuietStep` for steps that touch no claimed action (time, edits,
proposals, the way to the claim), and `OwnStep` for steps of the one call that
works on an action, which must preserve only what concerns that call and that
action (`Own`). Everything else follows action by action.

**WebProcess.** `ReadYourWrites` is about reads that are done, and says nothing
of the loads that will answer them. `IInv` adds that nothing cached is older
than what is settled (`Fresh`), that a flight is a load of its own key
(`Flights`), that a load which may still be stored is the flight of its key and
has seen everything settled (`Loads`), and that whoever joined one asked no later
than it could still serve (`Joins`, `UnderWay`). The step that matters is
`Settle`: it fences every flight of the user in the step that raises `settled`,
so an overtaken load is neither stored nor joined. The counters need no
knowledge of the cache: `LeasesCounted` has an invariant of its own, in which a
remembered owner is one with running chats or a window that is not empty.
`Inv` needs no fact of the cache but that `recency` lists exactly its entries, each
once; `Removed` and `Renewed` have a lemma each for what they list. `NoBurst`
speaks of any window in the history `passed` or `admitted`, the gate only of the
times it kept: the kept times are an end of the history, what was dropped from
it is out of every window that a later request can open (`EndOf`, `RecentKept`),
and a forgotten owner had none left. A request that would overfill a window finds
the limit already reached by kept times, and is refused.

**Accounts.** A job reads a row under its lock and puts it back whole, several
steps later. `IInv` says that a locked row is still as it was read (`RowsAsRead`),
that a goal is too except for accounts the purge takes from it (`GoalAsRead`), that
a slot found vacant stays vacant (`SlotsVacant`), what the judgement has
established (`Judged`), and that no two calls hold one lock (`Exclusive`). For the
cycle, `Queued` says that a call still has to lock exactly what its job needs and it
does not hold, in one order (rows by program, then slots, then the goal), all of it
above what it holds. Were every member of a set to wait for another one, the
member that waits for the highest lock would wait for one whose holder waits for a
higher. That `Ascending`, a CHOOSE, lists a finite set of programs upwards is
`AscendingExists`, by the smallest set that would have no such list.

**AwardWatches.** Two runs may both have scraped the same improvement; that only
one announces it rests on the row being read under the lock. `Inv` says that one
run holds a watch (`Locks`) and that its copy is still the row (in `TypeOK`),
that the last event reached the threshold, carries the row's best rate and the
time it was notified (`Stamped`), that ids are used once (`Fresh`, `RunsFresh`),
and that every hit was announced, belongs to one run and was not sent where it
is still due (`HitsAnnounced`, `HitsOnce`). `FiresAbove` then shows that a rate
that fires is above every rate announced before, which makes its hit a new one.

**Observations.** A submission judges by a token, an account and a grant it read
one by one, and a confirmation by a baseline; each must still be so at the
commit. `Inv` says of every running call what its locks let it rely on
(`Holding`, for the locks of its plan it has taken), that no two calls hold one
lock (`Exclusive`), and that a confirmation on its way to commit still agrees
with account and balance (`Decided`). A grant needs both its row lock and the
provider lock: replaceActive takes only the latter before it revokes. `Frame` is
the lemma that a step which respects the locks of a call leaves its `CallOK` as
it was; `CallOnly` and `Commits` bring every server step down to it, and
`CallsStand` every step of the extension. `RecordedOnce` counts places in a
sequence, so `CountInserted` gives the bijection between the places before and
after an insertion. For `NoLockCycle` the kinds of locks have a rank, every plan
ascends it (`PlanAscends`), and a circle would climb past the highest one. The
proof assumes that calls, captures, `None` and the
status "frozen" are distinct, which the instance's model values are.

**Rollout.** A release activates on what it saw minutes ago. `IInv` says that the
lock is held by the one migrator between its lock and its end (`LockHeld`), that
what a migrator has found under the lock still stands (`Found`), so that the
pending files are still the newer ones and a prefix of a manifest with its newer
files is the whole manifest (which needs distinct timestamps within a manifest),
that no migrator and no migrating release exists before there is a database, and
no hosts either (`Database`), and what each release still knows at its point
(`Knows`): its task is gated and carries its candidate, the migrations it has
verified are in the journal, and hosts it found running were not taken down.
`MigrationFrame` keeps the steps of releases apart from those of migrators.

**Reports.** The state machine is small: `IInv` says that recorded bonuses are valid
and portfolios typed (`Recorded`), that what a call has read was a portfolio and
bonuses its viewer may see (`Asked`), and that an answer is the function of the
code applied to them (`Answered`). The rest is arithmetic and order. Each ceiling is
the least argument at which its floor reaches a bound, so two of them invert two
floors (`ConvertInverts`); rounding up to the increment after the minimum gives
the least block (`LeastBlock`), of which the deal's and the optimizer's rounding
are two cases (`DealAsksForTheLeast`, `CoverageIsLeast`). There is a best bonus
whenever one is open, because no bonus is above 3000 and ids are numbers.

A recursive function over `0 .. n` is defined, and has the values of its steps
(`RecursionDefined`, an induction over the set of numbers, not over an operator);
the loops of the optimizer rest on it. A sort by position lists every member of a
finite set once, in its order, wherever no two members are equal for the order
(`InOrder` with `WorthMore`, `CostsLess`, `RanksBefore`).

`PlansAreSound` then follows in these steps. Bisection keeps the first block that
covers the need in its range and every pass shrinks the range (`MinAmountIsLeast`;
a yield grows with its amount). A fill, after any number of sources, has spent
legal amounts of distinct sources among those it has seen, and covers at least
the need less what is left (`Sound`). The greedy fill fails only when all
sources together do not cover the need, and then no way to spend them does, so
fundable is exactly that. `Fund` keeps a candidate that no candidate undercuts;
the marginal fill of a source that suffices alone takes nothing else, so no such
source is cheaper. Where points move one by one the greedy fill is itself the
cheapest (`FundIsCheapest`). A plan that falls short spends the usable part of
every source, so what it leaves of a balance is too little to move
(`NothingIsLeft`), and its hints are least blocks. No two plans rank equal, because
each spot is planned once, so the ranking, the cut and the limit of two per
program only drop plans and show none that was not evaluated.

The proofs need the tables as the code builds them: ratios, increments, award
costs and unit caps above zero, one edge between two different programs, finitely
many edges and awards with ids of their own; rates and balances are natural
numbers, and a goal asks for at least one unit, as `assertValidGoal` requires.

Only model-checked:

- the liveness properties `EventuallySettled`, `EventuallyDecided` and
  `LeaseReturns`, because liveness under fairness is beyond the prover.

That `ParkedOnlyAfterDelivery` and `RevokedAtOnce` fail are counterexamples and need
no proof.

## 5. What is not modelled, and why

- Most of the repository's lines keep no state and decide nothing: catalogs of
  programs and award prices, request and response schemas, the OpenAPI document,
  the UI and its API client, the MCP server's tool descriptions, adapters to
  other services, declarations of cloud resources, rendering and logging. They are listed in
  `PROJECT.json` with their reason. Modelling a table of constants or a schema
  would repeat it, so the share of lines the models cover stays low by nature of
  the code; what is modelled is where state, concurrency, failure and
  arithmetic are.
- What each module leaves out is named in its section above.
- In `Outbox`: payloads, per-handler error texts, metrics, the batch caps of the
  purge. A handler's own effects are not modelled; that it may run again is.
- In `AssistantActions`: the contents of a balance or goal, other owners (rows
  are keyed by owner, nothing is shared), and the replay of a write by its `requestId`, which an approval uses once. A goal
  refers to the one account of the model.
- `PurgeExpiredUnlinks` deletes what it listed without looking again; nothing in
  the repository calls it and nothing says what must hold then. Its steps are in
  `Accounts`, and no property is about an account restored in between.
- `RevokeConsent` reads the open grants before its transaction, so that a renewal
  in between survives. `Observations` has it so; that no grant is open after a
  revocation would not hold, and is not what the code says of itself.
- A failing mail ends the digest job for the users after it; the loop has no
  state a model would add to.
- PostgreSQL: READ COMMITTED statements are atomic, row locks are held to the end
  of the transaction, a COMMIT whose client is gone takes effect or does not.
  Deadlock detection and serialization failures appear as exceptions.

## 6. Plan

1. `Outbox` with `EventDelivery` - done, proved.
2. `AssistantActions` with `ReviewedWrite` - done, proved.
3. `Observations` with the capture queue of the extension - done, proved.
4. `Accounts` with goals and the lock order - done, proved.
5. `AwardWatches` - done, proved.
6. `ReadCache` and the authentication cache - done, proved but for the cached
   authentication, where the run finds a violation.
7. `RequestGate`, composed with 6 in `WebProcess` - done, proved.
8. `Transfers`, `Redemptions`, `Reports` - done, checked against enumeration, proved.
9. `Migrations` and `Rollout` - done, proved.

What is left, in order of worth: for `Accounts` and `Observations` an abstract
specification that they implement, as `Outbox` and `AssistantActions` have one;
and the overflow beyond safe integers, which the models of the optimizer leave
out.

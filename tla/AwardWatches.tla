------------------------------ MODULE AwardWatches ------------------------------
(* The watched award pages and the job that re-reads them. A run of the job    *)
(* lists every watch, scrapes each page, and records what it saw in a          *)
(* transaction that also publishes `watch.triggered`; the hits it collected    *)
(* are sent out when all the watches are done. Runs are containers of their    *)
(* own: they overlap, their clocks differ and they may die anywhere.           *)
(*                                                                             *)
(* Nothing edits a watch, so what the transaction compares again (owner, url,  *)
(* label, threshold, creation) can only tell that the watch was deleted.       *)
EXTENDS Integers, Sequences, FiniteSets, FiniteSetsExt

CONSTANTS
  Watches,       \* ids, each given to one watch only
  Users, Chat,   \* where a hit is sent: its owner's mailbox and the chat channel
  Owner,         \* the user of each watch
  Rates,         \* rates a page may show, in thousandths of a cent per point
  Thresholds,
  Runs,
  MaxTime, MaxChecks, \* bounds: the clock, the runs started
  None

Times == 0 .. MaxTime
Channels == Users \union {Chat}

Watch == [min : Thresholds, best : Rates \union {None}, checked : Times \union {None},
          notified : Times \union {None}, created : Times, updated : Times]
Hit == [watch : Watches, rate : Rates]
Event == [rate : Rates, at : Times]

ASSUME AwardWatchesAssumption ==
  /\ Owner \in [Watches -> Users]
  /\ Rates \subseteq Nat /\ Thresholds \subseteq Nat \ {0}
  /\ MaxTime \in Nat /\ MaxChecks \in Nat
  /\ None \notin Nat \union Watches \union Users \union Watch
  /\ Chat \notin Users

VARIABLES
  unused,    \* ids not given out yet
  watch,     \* the row of each id, or None
  published, \* the events published for each id, in the order they committed
  run,
  sent,      \* how often each hit was sent to each channel
  checks     \* runs started

vars == <<unused, watch, published, run, sent, checks>>

\* `left` are the watches to scrape or the channels to serve; `row` was read
\* under the lock of watch `on`.
Idle == [at |-> "idle", left |-> {}, on |-> None, best |-> None, row |-> None, hits |-> {}]

Init ==
  /\ unused = Watches
  /\ watch = [w \in Watches |-> None]
  /\ published = [w \in Watches |-> <<>>]
  /\ run = [r \in Runs |-> Idle]
  /\ sent = [h \in Hit |-> [c \in Channels |-> 0]]
  /\ checks = 0

--------------------------------------------------------------------------------
Create(w) ==
  /\ w \in unused
  /\ \E min \in Thresholds, now \in Times :
       watch' = [watch EXCEPT ![w] = [min |-> min, best |-> None, checked |-> None,
                                      notified |-> None, created |-> now, updated |-> now]]
  /\ unused' = unused \ {w}
  /\ UNCHANGED <<published, run, sent, checks>>

\* SELECT ... FOR UPDATE; the bug reads the row without its lock.
HoldersNone(w) == {}
Holders(w) == {r \in Runs : run[r].at = "locked" /\ run[r].on = w}

\* Deleting waits for the lock of a transaction that has read the row.
Delete(w) ==
  /\ watch[w] # None /\ Holders(w) = {}
  /\ watch' = [watch EXCEPT ![w] = None]
  /\ UNCHANGED <<unused, published, run, sent, checks>>

--------------------------------------------------------------------------------
Start(r) ==
  /\ run[r].at = "idle" /\ checks < MaxChecks
  /\ run' = [run EXCEPT ![r] = [Idle EXCEPT !.at = "listed",
                                            !.left = {w \in Watches : watch[w] # None}]]
  /\ checks' = checks + 1
  /\ UNCHANGED <<unused, watch, published, sent>>

\* A page that cannot be read or shows no deal is a check without a rate.
Scrape(r, w) ==
  /\ run[r].at = "listed" /\ w \in run[r].left
  /\ \E best \in Rates \union {None} :
       run' = [run EXCEPT ![r].at = "scraped", ![r].left = @ \ {w}, ![r].on = w,
                          ![r].best = best]
  /\ UNCHANGED <<unused, watch, published, sent, checks>>

\* A rate outside the range the column holds: the watch is left as it is.
ScrapeInvalid(r, w) ==
  /\ run[r].at = "listed" /\ w \in run[r].left
  /\ run' = [run EXCEPT ![r].left = @ \ {w}]
  /\ UNCHANGED <<unused, watch, published, sent, checks>>

Lock(r) ==
  /\ run[r].at = "scraped" /\ Holders(run[r].on) = {}
  /\ run' = [run EXCEPT ![r].at = "locked", ![r].row = watch[run[r].on]]
  /\ UNCHANGED <<unused, watch, published, sent, checks>>

Stamps(row) == {row.updated, row.checked, row.notified} \ {None}

\* Never before what the row has been stamped with, as the bug has it.
NowByClock(row, clock) == clock
Now(row, clock) == Max(Stamps(row) \union {clock})

\* The rate meets the threshold and improves on what was seen; the bug announces
\* a standing deal at every check.
ShouldNotifyStanding(row, best) == best # None /\ best >= row.min
ShouldNotify(row, best) ==
  /\ best # None /\ best >= row.min
  /\ row.best = None \/ best > row.best

\* The bug keeps the latest rate instead of the best.
BestLatest(row, best) == IF best # None THEN best ELSE row.best
Best(row, best) ==
  IF best # None /\ (row.best = None \/ best > row.best) THEN best ELSE row.best

RecordCheck(row, best, now) ==
  [row EXCEPT !.best = Best(row, best), !.checked = now, !.updated = now,
              !.notified = IF ShouldNotify(row, best) THEN now ELSE @]

\* A deleted watch is not recorded and fires nothing. Otherwise the row and the
\* event commit together, and only then is the hit collected.
Commit(r) ==
  LET w == run[r].on  row == run[r].row  best == run[r].best IN
  /\ run[r].at = "locked"
  /\ \/ row = None /\ UNCHANGED <<watch, published>>
        /\ run' = [run EXCEPT ![r] = [Idle EXCEPT !.at = "listed", !.left = run[r].left,
                                                  !.hits = run[r].hits]]
     \/ \E clock \in Times :
          LET now == Now(row, clock)  fires == ShouldNotify(row, best) IN
          /\ row # None
          /\ watch' = [watch EXCEPT ![w] = IF @ = None THEN None ELSE RecordCheck(row, best, now)]
          /\ published' = IF fires
                          THEN [published EXCEPT ![w] = Append(@, [rate |-> best, at |-> now])]
                          ELSE published
          /\ run' = [run EXCEPT ![r] =
                       [Idle EXCEPT !.at = "listed", !.left = run[r].left,
                                    !.hits = run[r].hits \union
                                      IF fires THEN {[watch |-> w, rate |-> best]} ELSE {}]]
  /\ UNCHANGED <<unused, sent, checks>>

\* A failed transaction ends the run as a crash does: the hits it collected are lost.
Die(r) ==
  /\ run[r].at # "idle"
  /\ run' = [run EXCEPT ![r] = Idle]
  /\ UNCHANGED <<unused, watch, published, sent, checks>>

--------------------------------------------------------------------------------
\* The hits go to the chat, and to each owner in one mail.
Finish(r) ==
  /\ run[r].at = "listed" /\ run[r].left = {}
  /\ run' = [run EXCEPT ![r] =
       IF @.hits = {} THEN Idle
       ELSE [@ EXCEPT !.at = "sending", !.left = {Chat} \union {Owner[h.watch] : h \in run[r].hits}]]
  /\ UNCHANGED <<unused, watch, published, sent, checks>>

\* A message that cannot be sent is reported and not tried again.
Served(r, c) ==
  run' = [run EXCEPT ![r] = IF run[r].left = {c} THEN Idle
                            ELSE [run[r] EXCEPT !.left = run[r].left \ {c}]]

Send(r, c) ==
  /\ run[r].at = "sending" /\ c \in run[r].left
  /\ c # Chat => Chat \notin run[r].left
  /\ sent' = [h \in Hit |-> [sent[h] EXCEPT ![c] =
                IF h \in run[r].hits /\ c \in {Chat, Owner[h.watch]} THEN @ + 1 ELSE @]]
  /\ Served(r, c)
  /\ UNCHANGED <<unused, watch, published, checks>>

SendFails(r, c) ==
  /\ run[r].at = "sending" /\ c \in run[r].left
  /\ c # Chat => Chat \notin run[r].left
  /\ Served(r, c)
  /\ UNCHANGED <<unused, watch, published, sent, checks>>

Next ==
  \/ \E w \in Watches : Create(w) \/ Delete(w)
  \/ \E r \in Runs :
       \/ Start(r) \/ Lock(r) \/ Commit(r) \/ Die(r) \/ Finish(r)
       \/ \E w \in Watches : Scrape(r, w) \/ ScrapeInvalid(r, w)
       \/ \E c \in Channels : Send(r, c) \/ SendFails(r, c)

Spec == Init /\ [][Next]_vars

--------------------------------------------------------------------------------
RunState ==
  [at : {"idle", "listed", "scraped", "locked", "sending"},
   left : SUBSET (Watches \union Channels), on : Watches \union {None},
   best : Rates \union {None}, row : Watch \union {None}, hits : SUBSET Hit]

\* Every row can be written back to its columns, and the row a run read under a
\* lock is still the row: nobody writes it before the run does.
TypeOK ==
  /\ unused \subseteq Watches
  /\ watch \in [Watches -> Watch \union {None}]
  /\ published \in [Watches -> Seq(Event)]
  /\ run \in [Runs -> RunState]
  /\ sent \in [Hit -> [Channels -> Nat]]
  /\ checks \in 0 .. MaxChecks
  /\ \A r \in Runs : run[r].at = "locked" => run[r].row = watch[run[r].on]

Improving(events) ==
  \A i, j \in 1 .. Len(events) :
    i < j => events[i].rate < events[j].rate /\ events[i].at <= events[j].at

\* However the runs overlap, the events of a watch announce ever better rates,
\* and a watch has announced its best rate exactly when that rate reaches the
\* threshold: no improvement is announced twice, and none is recorded unannounced
\* (CheckAwardWatches.execute, shouldNotify, recordCheck).
EachImprovementOnce ==
  \A w \in Watches :
    /\ Improving(published[w])
    /\ watch[w] # None =>
         LET row == watch[w]  events == published[w] IN
         /\ row.best # None /\ row.best >= row.min =>
              events # <<>> /\ events[Len(events)].rate = row.best
         /\ events # <<>> => row.best = events[Len(events)].rate

\* A hit reaches a channel at most once, and only when its event was published:
\* a page that keeps its good deal is not announced every day, and nothing is
\* announced that was rolled back (checkWatches).
AlertedOnce ==
  \A h \in Hit, c \in Channels :
    /\ sent[h][c] <= 1
    /\ sent[h][c] = 1 => \E i \in 1 .. Len(published[h.watch]) : published[h.watch][i].rate = h.rate

\* A deleted watch stays silent: what is published belongs to a watch that is
\* there at the commit, whose row says so (DeleteAwardWatch against a run that
\* scraped the page before).
DeletedIsSilent ==
  [][\A w \in Watches : published'[w] # published[w] =>
       /\ watch[w] # None /\ watch'[w] # None
       /\ watch'[w].best = published'[w][Len(published'[w])].rate
       /\ watch'[w].notified = published'[w][Len(published'[w])].at]_vars

\* With clocks that differ, the stamps of a row never run backwards.
TimeNeverRunsBack ==
  [][\A w \in Watches : watch[w] # None /\ watch'[w] # None =>
       /\ watch'[w].updated >= watch[w].updated
       /\ watch[w].checked # None => watch'[w].checked >= watch[w].checked
       /\ watch[w].notified # None => watch'[w].notified >= watch[w].notified]_vars
================================================================================

--------------------------- MODULE AwardWatchesProofs ---------------------------
(* For any number of watches, users and overlapping runs: improvements are     *)
(* announced once, hits are sent at most once, deleted watches stay silent and *)
(* stamps never run backwards.                                                 *)
EXTENDS AwardWatches, TLAPS

Final(events) == events[Len(events)]
IsAnnounced(h) == \E i \in 1 .. Len(published[h.watch]) : published[h.watch][i].rate = h.rate

\* An id that was not given out yet is nowhere.
Fresh == \A w \in unused : watch[w] = None /\ published[w] = <<>>
RunFresh(state) ==
  /\ state.at \in {"scraped", "locked"} => state.on \in Watches \ unused
  /\ state.at # "sending" => state.left \subseteq Watches \ unused
RunsFresh == \A r \in Runs : RunFresh(run[r])

\* One run holds the lock of a watch.
Locks ==
  \A r, s \in Runs :
    run[r].at = "locked" /\ run[s].at = "locked" /\ run[r].on = run[s].on => r = s

\* The last event of a watch reached its threshold and is what the row was
\* notified of.
Stamped ==
  \A w \in Watches : watch[w] # None /\ published[w] # <<>> =>
    /\ Final(published[w]).rate >= watch[w].min
    /\ Final(published[w]).at = watch[w].notified

\* A hit was announced, belongs to one run, and was not sent where it is still due.
Due(state, c) == state.at # "sending" \/ c \in state.left
HitsAnnounced ==
  /\ \A r \in Runs : \A h \in run[r].hits : IsAnnounced(h)
  /\ \A h \in Hit, c \in Channels : sent[h][c] > 0 => IsAnnounced(h)
HitsOnce ==
  /\ \A r, s \in Runs : run[r].hits \cap run[s].hits # {} => r = s
  /\ \A r \in Runs, c \in Channels : \A h \in run[r].hits : Due(run[r], c) => sent[h][c] = 0
  /\ \A h \in Hit, c \in Channels : sent[h][c] <= 1

Inv ==
  /\ TypeOK /\ Fresh /\ RunsFresh /\ Locks
  /\ EachImprovementOnce /\ Stamped
  /\ HitsAnnounced /\ HitsOnce

USE DEF Final

LEMMA IdleState == Idle \in RunState
BY AwardWatchesAssumption DEF Idle, RunState

\* The invariant holds at the start.
LEMMA InitInv == Init => Inv
<1> SUFFICES ASSUME Init PROVE Inv
  OBVIOUS
<1>1. TypeOK
  BY IdleState, AwardWatchesAssumption DEF Init, TypeOK, Idle
<1>2. Fresh /\ RunsFresh /\ Locks
  BY DEF Init, Fresh, RunsFresh, RunFresh, Locks, Idle
<1>3. EachImprovementOnce /\ Stamped
  BY DEF Init, EachImprovementOnce, Improving, Stamped
<1>4. HitsAnnounced /\ HitsOnce
  BY DEF Init, HitsAnnounced, HitsOnce, Idle
<1> QED
  BY <1>1, <1>2, <1>3, <1>4 DEF Inv

--------------------------------------------------------------------------------
\* A step of run r that touches no row, event or message.
LEMMA RunStep ==
  ASSUME Inv, NEW r \in Runs, NEW new \in RunState,
         run' = [run EXCEPT ![r] = new], checks' \in 0 .. MaxChecks,
         UNCHANGED <<unused, watch, published, sent>>,
         RunFresh(new),
         new.at = "locked" => new.row = watch[new.on] /\ Holders(new.on) \subseteq {r},
         new.hits \subseteq run[r].hits,
         \A c \in Channels : new.hits # {} /\ Due(new, c) => Due(run[r], c)
  PROVE  Inv'
<1>1. \A q \in Runs : run'[q] = IF q = r THEN new ELSE run[q]
  BY DEF Inv, TypeOK
<1>2. run' \in [Runs -> RunState]
  BY DEF Inv, TypeOK
<1>3. TypeOK'
  BY <1>1, <1>2 DEF Inv, TypeOK
<1>4. Fresh' /\ RunsFresh'
  BY <1>1 DEF Inv, Fresh, RunsFresh, RunFresh
<1>5. Locks'
  BY <1>1 DEF Inv, Locks, Holders
<1>6. EachImprovementOnce' /\ Stamped'
  BY DEF Inv, EachImprovementOnce, Improving, Stamped
<1>7. HitsAnnounced'
  BY <1>1 DEF Inv, HitsAnnounced, IsAnnounced
<1>8. HitsOnce'
  BY <1>1 DEF Inv, HitsOnce, Due
<1> QED
  BY <1>3, <1>4, <1>5, <1>6, <1>7, <1>8 DEF Inv

LEMMA StartInv == ASSUME Inv, NEW r \in Runs, Start(r) PROVE Inv'
<1> DEFINE new == [Idle EXCEPT !.at = "listed", !.left = {w \in Watches : watch[w] # None}]
<1>1. new \in RunState /\ RunFresh(new) /\ new.hits = {}
  BY IdleState DEF Inv, Fresh, RunFresh, Idle, RunState
<1>2. checks' \in 0 .. MaxChecks
  BY AwardWatchesAssumption DEF Start, Inv, TypeOK
<1>3. new.at # "locked"
  BY DEF Idle
<1>4. /\ run' = [run EXCEPT ![r] = new]
      /\ UNCHANGED <<unused, watch, published, sent>>
  BY DEF Start
<1> HIDE DEF new
<1> QED
  BY <1>1, <1>2, <1>3, <1>4, RunStep

LEMMA ScrapeInv == ASSUME Inv, NEW r \in Runs, NEW w \in Watches, Scrape(r, w) PROVE Inv'
<1>1. PICK best \in Rates \union {None} :
        run' = [run EXCEPT ![r].at = "scraped", ![r].left = @ \ {w}, ![r].on = w,
                           ![r].best = best]
  BY DEF Scrape
<1> DEFINE new == [run[r] EXCEPT !.at = "scraped", !.left = @ \ {w}, !.on = w, !.best = best]
<1>2. run[r] \in RunState /\ run[r].at = "listed" /\ w \in run[r].left /\ RunFresh(run[r])
  BY DEF Inv, TypeOK, Scrape, RunsFresh
<1>3. new \in RunState /\ new.at = "scraped" /\ new.hits = run[r].hits
  BY <1>2 DEF RunState
<1>4. RunFresh(new)
  BY <1>2 DEF RunFresh, RunState
<1>5. run' = [run EXCEPT ![r] = new]
  BY <1>1
<1>6. checks' \in 0 .. MaxChecks /\ UNCHANGED <<unused, watch, published, sent>>
  BY DEF Scrape, Inv, TypeOK
<1>7. \A c \in Channels : Due(run[r], c)
  BY <1>2 DEF Due
<1> HIDE DEF new
<1> QED
  BY <1>3, <1>4, <1>5, <1>6, <1>7, RunStep

LEMMA ScrapeInvalidInv ==
  ASSUME Inv, NEW r \in Runs, NEW w \in Watches, ScrapeInvalid(r, w) PROVE Inv'
<1> DEFINE new == [run[r] EXCEPT !.left = @ \ {w}]
<1>1. run[r] \in RunState /\ run[r].at = "listed" /\ RunFresh(run[r])
  BY DEF Inv, TypeOK, ScrapeInvalid, RunsFresh
<1>2. new \in RunState /\ new.at = "listed" /\ new.hits = run[r].hits
  BY <1>1 DEF RunState
<1>3. RunFresh(new)
  BY <1>1 DEF RunFresh, RunState
<1>4. /\ run' = [run EXCEPT ![r] = new]
      /\ checks' \in 0 .. MaxChecks /\ UNCHANGED <<unused, watch, published, sent>>
  BY DEF ScrapeInvalid, Inv, TypeOK
<1>5. \A c \in Channels : Due(run[r], c)
  BY <1>1 DEF Due
<1> HIDE DEF new
<1> QED
  BY <1>2, <1>3, <1>4, <1>5, RunStep

LEMMA LockInv == ASSUME Inv, NEW r \in Runs, Lock(r) PROVE Inv'
<1> DEFINE new == [run[r] EXCEPT !.at = "locked", !.row = watch[run[r].on]]
<1>1. run[r] \in RunState /\ run[r].at = "scraped" /\ RunFresh(run[r])
  BY DEF Inv, TypeOK, Lock, RunsFresh
<1>2. run[r].on \in Watches \ unused
  BY <1>1 DEF RunFresh
<1>3. new \in RunState /\ new.hits = run[r].hits /\ new.on = run[r].on
      /\ new.row = watch[new.on]
  BY <1>1, <1>2 DEF RunState, Inv, TypeOK
<1>4. RunFresh(new)
  BY <1>1 DEF RunFresh, RunState
<1>5. /\ run' = [run EXCEPT ![r] = new]
      /\ checks' \in 0 .. MaxChecks /\ UNCHANGED <<unused, watch, published, sent>>
  BY DEF Lock, Inv, TypeOK
<1>6. Holders(new.on) \subseteq {r}
  BY <1>3 DEF Lock
<1>7. \A c \in Channels : Due(run[r], c)
  BY <1>1 DEF Due
<1> HIDE DEF new
<1> QED
  BY <1>3, <1>4, <1>5, <1>6, <1>7, RunStep

LEMMA IdleStep ==
  ASSUME Inv, NEW r \in Runs, run' = [run EXCEPT ![r] = Idle],
         UNCHANGED <<unused, watch, published, sent, checks>>
  PROVE  Inv'
<1>1. RunFresh(Idle) /\ Idle.at # "locked" /\ Idle.hits = {}
  BY DEF Idle, RunFresh
<1>2. checks' \in 0 .. MaxChecks
  BY DEF Inv, TypeOK
<1> QED
  BY <1>1, <1>2, IdleState, RunStep

LEMMA DieInv == ASSUME Inv, NEW r \in Runs, Die(r) PROVE Inv'
BY IdleStep DEF Die

LEMMA FinishInv == ASSUME Inv, NEW r \in Runs, Finish(r) PROVE Inv'
<1> DEFINE channels == {Chat} \union {Owner[h.watch] : h \in run[r].hits}
           new == [run[r] EXCEPT !.at = "sending", !.left = channels]
<1>1. run[r] \in RunState /\ run[r].at = "listed"
  BY DEF Inv, TypeOK, Finish
<1>2. CASE run[r].hits = {}
  BY <1>2, IdleStep DEF Finish, Inv, TypeOK
<1>3. CASE run[r].hits # {}
  <2>1. \A h \in run[r].hits : h.watch \in Watches
    BY <1>1 DEF RunState, Hit
  <2>2. channels \subseteq Channels
    BY <2>1, AwardWatchesAssumption DEF Channels
  <2>3. run' = [run EXCEPT ![r] = new]
    BY <1>3 DEF Finish, Inv, TypeOK
  <2> HIDE DEF channels
  <2>4. new \in RunState /\ new.at = "sending" /\ new.hits = run[r].hits
    BY <1>1, <2>2 DEF RunState
  <2>5. RunFresh(new)
    BY <2>4 DEF RunFresh
  <2>6. checks' \in 0 .. MaxChecks /\ UNCHANGED <<unused, watch, published, sent>>
    BY DEF Finish, Inv, TypeOK
  <2>7. \A c \in Channels : Due(run[r], c)
    BY <1>1 DEF Due
  <2> HIDE DEF new
  <2> QED
    BY <2>3, <2>4, <2>5, <2>6, <2>7, RunStep
<1> QED
  BY <1>2, <1>3

LEMMA SendFailsInv == ASSUME Inv, NEW r \in Runs, NEW c \in Channels, SendFails(r, c) PROVE Inv'
<1> DEFINE new == [run[r] EXCEPT !.left = @ \ {c}]
<1>1. run[r] \in RunState /\ run[r].at = "sending"
  BY DEF Inv, TypeOK, SendFails
<1>2. CASE run[r].left = {c}
  BY <1>2, IdleStep DEF SendFails, Served, Inv, TypeOK
<1>3. CASE run[r].left # {c}
  <2>1. run' = [run EXCEPT ![r] = new]
    BY <1>3 DEF SendFails, Served, Inv, TypeOK
  <2>2. /\ new \in RunState /\ new.at = "sending" /\ new.hits = run[r].hits
        /\ new.left \subseteq run[r].left
    BY <1>1 DEF RunState
  <2>3. RunFresh(new)
    BY <2>2 DEF RunFresh
  <2>4. checks' \in 0 .. MaxChecks /\ UNCHANGED <<unused, watch, published, sent>>
    BY DEF SendFails, Inv, TypeOK
  <2>5. \A d \in Channels : Due(new, d) => Due(run[r], d)
    BY <1>1, <2>2 DEF Due
  <2> HIDE DEF new
  <2> QED
    BY <2>1, <2>2, <2>3, <2>4, <2>5, RunStep
<1> QED
  BY <1>2, <1>3

LEMMA SendInv == ASSUME Inv, NEW r \in Runs, NEW c \in Channels, Send(r, c) PROVE Inv'
<1> DEFINE new == IF run[r].left = {c} THEN Idle ELSE [run[r] EXCEPT !.left = run[r].left \ {c}]
<1>1. run[r] \in RunState /\ run[r].at = "sending" /\ c \in run[r].left
  BY DEF Inv, TypeOK, Send
<1>2. new \in RunState /\ new.at \in {"idle", "sending"} /\ RunFresh(new)
  BY <1>1, IdleState DEF RunState, Idle, RunFresh
<1>3. /\ new.hits \subseteq run[r].hits
      /\ new.hits # {} => new.at = "sending" /\ new.left = run[r].left \ {c}
  BY <1>1 DEF RunState, Idle
<1>4. run' = [run EXCEPT ![r] = new]
  BY DEF Send, Served
<1> HIDE DEF new
<1>5. \A q \in Runs : run'[q] = IF q = r THEN new ELSE run[q]
  BY <1>4 DEF Inv, TypeOK
<1>6. /\ UNCHANGED <<unused, watch, published, checks>>
      /\ sent' = [h \in Hit |-> [sent[h] EXCEPT ![c] =
                    IF h \in run[r].hits /\ c \in {Chat, Owner[h.watch]} THEN @ + 1 ELSE @]]
  BY DEF Send
<1>7. \A h \in Hit, d \in Channels :
        sent'[h][d] = IF d = c /\ h \in run[r].hits /\ c \in {Chat, Owner[h.watch]}
                      THEN sent[h][d] + 1 ELSE sent[h][d]
  BY <1>6 DEF Inv, TypeOK
<1>8. TypeOK'
  <2>1. run' \in [Runs -> RunState]
    BY <1>2, <1>4 DEF Inv, TypeOK
  <2>2. sent' \in [Hit -> [Channels -> Nat]]
    BY <1>6 DEF Inv, TypeOK
  <2>3. \A q \in Runs : run'[q].at = "locked" => run'[q].row = watch'[run'[q].on]
    BY <1>2, <1>5, <1>6 DEF Inv, TypeOK
  <2> QED
    BY <1>6, <2>1, <2>2, <2>3 DEF Inv, TypeOK
<1>9. (Fresh /\ RunsFresh /\ Locks)'
  BY <1>2, <1>5, <1>6 DEF Inv, Fresh, RunsFresh, RunFresh, Locks
<1>10. (EachImprovementOnce /\ Stamped)'
  BY <1>6 DEF Inv, EachImprovementOnce, Improving, Stamped
<1>11. HitsAnnounced'
  <2>1. \A h \in Hit : IsAnnounced(h) <=> IsAnnounced(h)'
    BY <1>6 DEF IsAnnounced
  <2>2. \A q \in Runs : run[q].hits \subseteq Hit
    BY DEF Inv, TypeOK, RunState
  <2>3. ASSUME NEW q \in Runs, NEW h \in run'[q].hits PROVE IsAnnounced(h)'
    BY <1>3, <1>5, <2>1, <2>2 DEF Inv, HitsAnnounced
  <2>4. ASSUME NEW h \in Hit, NEW d \in Channels, sent'[h][d] > 0 PROVE IsAnnounced(h)'
    BY <1>7, <2>1, <2>4 DEF Inv, HitsAnnounced
  <2> QED
    BY <2>3, <2>4 DEF HitsAnnounced
<1>12. HitsOnce'
  <2>1. \A p, q \in Runs : run'[p].hits \cap run'[q].hits # {} => p = q
    BY <1>3, <1>5 DEF Inv, HitsOnce
  <2>2. ASSUME NEW q \in Runs, NEW d \in Channels, NEW h \in run'[q].hits, Due(run'[q], d)
        PROVE  sent'[h][d] = 0
    <3>1. h \in run[q].hits /\ h \in Hit
      BY <1>3, <1>5 DEF Inv, TypeOK, RunState
    <3>2. Due(run[q], d) /\ (q = r => d # c)
      BY <1>1, <1>3, <1>5, <2>2 DEF Due
    <3>3. q # r => h \notin run[r].hits
      BY <3>1 DEF Inv, HitsOnce
    <3> QED
      BY <1>7, <3>1, <3>2, <3>3 DEF Inv, HitsOnce
  <2>3. ASSUME NEW h \in Hit, NEW d \in Channels PROVE sent'[h][d] <= 1
    <3>1. h \in run[r].hits => sent[h][c] = 0
      BY <1>1 DEF Inv, HitsOnce, Due
    <3>2. sent[h][d] \in Nat /\ sent[h][d] <= 1
      BY DEF Inv, TypeOK, HitsOnce
    <3> QED
      BY <1>7, <3>1, <3>2
  <2> QED
    BY <2>1, <2>2, <2>3 DEF HitsOnce
<1> QED
  BY <1>8, <1>9, <1>10, <1>11, <1>12 DEF Inv

--------------------------------------------------------------------------------
LEMMA CreateInv == ASSUME Inv, NEW w \in Watches, Create(w) PROVE Inv'
<1>1. PICK min \in Thresholds, now \in Times :
        watch' = [watch EXCEPT ![w] = [min |-> min, best |-> None, checked |-> None,
                                       notified |-> None, created |-> now, updated |-> now]]
  BY DEF Create
<1> DEFINE new == [min |-> min, best |-> None, checked |-> None,
                   notified |-> None, created |-> now, updated |-> now]
<1>2. new \in Watch /\ new.best = None
  BY DEF Watch
<1>3. watch' = [watch EXCEPT ![w] = new]
  BY <1>1
<1> HIDE DEF new
<1>4. \A v \in Watches : watch'[v] = IF v = w THEN new ELSE watch[v]
  BY <1>3 DEF Inv, TypeOK
<1>5. w \in unused /\ unused' = unused \ {w} /\ UNCHANGED <<published, run, sent, checks>>
  BY DEF Create
<1>6. published[w] = <<>>
  BY <1>5 DEF Inv, Fresh
<1>7. TypeOK'
  <2>1. watch' \in [Watches -> Watch \union {None}]
    BY <1>2, <1>3 DEF Inv, TypeOK
  <2>2. \A r \in Runs : run[r].at = "locked" => run[r].on \in Watches /\ run[r].on # w
    BY <1>5 DEF Inv, RunsFresh, RunFresh
  <2> QED
    BY <1>4, <1>5, <2>1, <2>2 DEF Inv, TypeOK
<1>8. (Fresh /\ RunsFresh /\ Locks)'
  BY <1>4, <1>5 DEF Inv, TypeOK, Fresh, RunsFresh, RunFresh, Locks
<1>9. (EachImprovementOnce /\ Stamped)'
  BY <1>2, <1>4, <1>5, <1>6 DEF Inv, EachImprovementOnce, Improving, Stamped
<1>10. (HitsAnnounced /\ HitsOnce)'
  BY <1>5 DEF Inv, HitsAnnounced, IsAnnounced, HitsOnce, Due
<1> QED
  BY <1>7, <1>8, <1>9, <1>10 DEF Inv

LEMMA DeleteInv == ASSUME Inv, NEW w \in Watches, Delete(w) PROVE Inv'
<1>1. /\ watch' = [watch EXCEPT ![w] = None] /\ Holders(w) = {}
      /\ UNCHANGED <<unused, published, run, sent, checks>>
  BY DEF Delete
<1>2. \A v \in Watches : watch'[v] = IF v = w THEN None ELSE watch[v]
  BY <1>1 DEF Inv, TypeOK
<1>3. TypeOK'
  <2>1. watch' \in [Watches -> Watch \union {None}]
    BY <1>1 DEF Inv, TypeOK
  <2>2. \A r \in Runs : run[r].at = "locked" => run[r].on \in Watches /\ run[r].on # w
    BY <1>1 DEF Inv, RunsFresh, RunFresh, Holders
  <2> QED
    BY <1>1, <1>2, <2>1, <2>2 DEF Inv, TypeOK
<1>4. (Fresh /\ RunsFresh /\ Locks)'
  BY <1>1, <1>2 DEF Inv, TypeOK, Fresh, RunsFresh, RunFresh, Locks
<1>5. (EachImprovementOnce /\ Stamped)'
  BY <1>1, <1>2 DEF Inv, EachImprovementOnce, Improving, Stamped
<1>6. (HitsAnnounced /\ HitsOnce)'
  BY <1>1 DEF Inv, HitsAnnounced, IsAnnounced, HitsOnce, Due
<1> QED
  BY <1>3, <1>4, <1>5, <1>6 DEF Inv

--------------------------------------------------------------------------------
LEMMA MaxAdd ==
  ASSUME NEW S \in SUBSET Int, NEW m \in S, \A y \in S : m >= y, NEW a \in Int
  PROVE  \E x \in S \union {a} : \A y \in S \union {a} : x >= y
<1>1. CASE m >= a
  BY <1>1
<1>2. CASE ~(m >= a)
  <2>1. \A y \in S : a >= y
    BY <1>2
  <2> QED
    BY <2>1
<1> QED
  BY <1>1, <1>2

\* The time a check is recorded at is no earlier than any stamp of the row.
LEMMA NowBounds ==
  ASSUME NEW row \in Watch, NEW clock \in Times
  PROVE  /\ Now(row, clock) \in Times
         /\ \A t \in Stamps(row) : Now(row, clock) >= t
<1> DEFINE S == Stamps(row) \union {clock}
<1>1. MaxTime \in Nat /\ Times \subseteq Int /\ None \notin Times
  BY AwardWatchesAssumption DEF Times
<1>2. /\ row.updated \in Times /\ row.checked \in Times \union {None}
      /\ row.notified \in Times \union {None}
  BY DEF Watch
<1>3. S \subseteq Times
  BY <1>1, <1>2 DEF Stamps
<1>4. \E x \in S : \A y \in S : x >= y
  <2> DEFINE S1 == {clock} \union {row.updated}
             S2 == IF row.checked = None THEN S1 ELSE S1 \union {row.checked}
             S3 == IF row.notified = None THEN S2 ELSE S2 \union {row.notified}
  <2>1. \E x \in S1 : \A y \in S1 : x >= y
    <3>1. clock \in Int /\ row.updated \in Int
      BY <1>1, <1>2
    <3>2. {clock} \in SUBSET Int /\ \A y \in {clock} : clock >= y
      BY <3>1
    <3> QED
      BY <3>1, <3>2, MaxAdd
  <2>2. S1 \subseteq Int
    BY <1>1, <1>2
  <2>3. \E x \in S2 : \A y \in S2 : x >= y
    <3> HIDE DEF S1
    <3>1. CASE row.checked = None
      BY <2>1, <3>1
    <3>2. CASE row.checked # None
      <4>1. row.checked \in Int
        BY <1>1, <1>2, <3>2
      <4> QED
        BY <2>1, <2>2, <3>2, <4>1, MaxAdd
    <3> QED
      BY <3>1, <3>2
  <2>4. S2 \subseteq Int
    BY <1>1, <1>2, <2>2
  <2>5. \E x \in S3 : \A y \in S3 : x >= y
    <3> HIDE DEF S1, S2
    <3>1. CASE row.notified = None
      BY <2>3, <3>1
    <3>2. CASE row.notified # None
      <4>1. row.notified \in Int
        BY <1>1, <1>2, <3>2
      <4> QED
        BY <2>3, <2>4, <3>2, <4>1, MaxAdd
    <3> QED
      BY <3>1, <3>2
  <2>6. S = S3
    BY <1>1, <1>2 DEF Stamps
  <2> QED
    BY <2>5, <2>6
<1>5. Now(row, clock) \in S /\ \A y \in S : Now(row, clock) >= y
  BY <1>4 DEF Now, Max
<1> QED
  BY <1>3, <1>5

\* What a check does to a row.
LEMMA Recorded ==
  ASSUME NEW row \in Watch, NEW best \in Rates \union {None}, NEW now \in Times
  PROVE  LET new == RecordCheck(row, best, now) IN
         /\ new \in Watch /\ new # None /\ new.min = row.min
         /\ new.best = Best(row, best) /\ new.updated = now /\ new.checked = now
         /\ new.notified = IF ShouldNotify(row, best) THEN now ELSE row.notified
         /\ ShouldNotify(row, best) => Best(row, best) = best /\ best # None
BY AwardWatchesAssumption DEF RecordCheck, Best, ShouldNotify, Watch

\* The row under the lock of a run, before and after its commit.
Held(r) ==
  /\ run[r] \in RunState /\ run[r].at = "locked" /\ run[r].on \in Watches \ unused
  /\ run[r].row = watch[run[r].on] /\ run[r].left \subseteq Watches \ unused
  /\ \A q \in Runs : run[q].at = "locked" /\ run[q].on = run[r].on => q = r

LEMMA LockedIsHeld == ASSUME Inv, NEW r \in Runs, run[r].at = "locked" PROVE Held(r)
BY DEF Held, Inv, TypeOK, Locks, RunsFresh, RunFresh

\* The step of Commit that records a check at time `now`.
Records(r, now) ==
  LET w == run[r].on  row == run[r].row  best == run[r].best
      fires == ShouldNotify(row, best) IN
  /\ watch' = [watch EXCEPT ![w] = RecordCheck(row, best, now)]
  /\ published' = IF fires THEN [published EXCEPT ![w] = Append(@, [rate |-> best, at |-> now])]
                  ELSE published
  /\ run' = [run EXCEPT ![r] =
               [Idle EXCEPT !.at = "listed", !.left = run[r].left,
                            !.hits = run[r].hits \union
                              IF fires THEN {[watch |-> w, rate |-> best]} ELSE {}]]
  /\ UNCHANGED <<unused, sent, checks>>

LEMMA CommitCases ==
  ASSUME Inv, NEW r \in Runs, Commit(r)
  PROVE  /\ Held(r)
         /\ \/ run' = [run EXCEPT ![r] = [Idle EXCEPT !.at = "listed", !.left = run[r].left,
                                                      !.hits = run[r].hits]]
               /\ UNCHANGED <<unused, watch, published, sent, checks>>
            \/ /\ run[r].row \in Watch
               /\ \E clock \in Times : Records(r, Now(run[r].row, clock))
<1>1. Held(r)
  BY LockedIsHeld DEF Commit
<1>2. run[r].row \in Watch \union {None}
  BY <1>1 DEF Held, RunState
<1>3. CASE run[r].row = None
  BY <1>1, <1>3 DEF Commit
<1>4. CASE run[r].row # None
  <2>1. PICK clock \in Times :
          LET w == run[r].on  row == run[r].row  best == run[r].best
              now == Now(row, clock)  fires == ShouldNotify(row, best) IN
          /\ watch' = [watch EXCEPT ![w] = IF @ = None THEN None ELSE RecordCheck(row, best, now)]
          /\ published' = IF fires
                          THEN [published EXCEPT ![w] = Append(@, [rate |-> best, at |-> now])]
                          ELSE published
          /\ run' = [run EXCEPT ![r] =
                       [Idle EXCEPT !.at = "listed", !.left = run[r].left,
                                    !.hits = run[r].hits \union
                                      IF fires THEN {[watch |-> w, rate |-> best]} ELSE {}]]
    BY <1>4 DEF Commit
  <2>2. watch[run[r].on] # None
    BY <1>1, <1>4 DEF Held
  <2>3. Records(r, Now(run[r].row, clock))
    BY <2>1, <2>2 DEF Records, Commit
  <2> QED
    BY <1>1, <1>2, <1>4, <2>3
<1> QED
  BY <1>3, <1>4

\* What a watch has announced, in the rows of EachImprovementOnce and Stamped.
Announces(row, events) ==
  /\ row.best # None /\ row.best >= row.min =>
       events # <<>> /\ events[Len(events)].rate = row.best
  /\ events # <<>> =>
       /\ row.best = events[Len(events)].rate
       /\ Final(events).rate >= row.min /\ Final(events).at = row.notified

\* A rate that fires improves on every rate announced before it.
LEMMA FiresAbove ==
  ASSUME NEW row \in Watch, NEW events \in Seq(Event), Improving(events),
         Announces(row, events), NEW best \in Rates \union {None}, ShouldNotify(row, best),
         NEW now \in Times, \A t \in Stamps(row) : now >= t
  PROVE  \A i \in 1 .. Len(events) : events[i].rate < best /\ events[i].at <= now
<1> SUFFICES ASSUME NEW i \in 1 .. Len(events)
             PROVE  events[i].rate < best /\ events[i].at <= now
  OBVIOUS
<1>1. best \in Nat /\ Rates \subseteq Nat /\ None \notin Nat /\ Times \subseteq Nat
  BY AwardWatchesAssumption DEF ShouldNotify, Times
<1>2. Len(events) \in Nat /\ Len(events) \in 1 .. Len(events) /\ events # <<>>
  OBVIOUS
<1>3. \A j \in 1 .. Len(events) : events[j] \in Event
  OBVIOUS
<1>4. /\ Final(events).rate \in Nat /\ Final(events).at \in Times
      /\ events[i].rate \in Nat /\ events[i].at \in Nat
  BY <1>1, <1>2, <1>3 DEF Event
<1>5. events[i].rate <= Final(events).rate /\ events[i].at <= Final(events).at
  <2>1. CASE i = Len(events)
    BY <1>1, <1>4, <2>1
  <2>2. CASE i # Len(events)
    <3>1. i < Len(events)
      BY <1>2, <2>2
    <3>2. /\ events[i].rate < events[Len(events)].rate
          /\ events[i].at <= events[Len(events)].at
      BY <1>2, <3>1 DEF Improving
    <3> QED
      BY <1>1, <1>4, <3>2
  <2> QED
    BY <2>1, <2>2
<1>6. row.best = Final(events).rate /\ Final(events).at = row.notified
  BY <1>2 DEF Announces
<1>7. best > row.best
  BY <1>1, <1>4, <1>6 DEF ShouldNotify
<1>8. row.notified \in Stamps(row)
  BY <1>1, <1>4, <1>6 DEF Stamps
<1>9. now >= row.notified /\ now \in Nat /\ row.notified \in Nat
  BY <1>1, <1>4, <1>6, <1>8
<1>10. row.best \in Nat /\ events[i].rate <= row.best
  BY <1>4, <1>5, <1>6
<1>11. events[i].at <= row.notified
  BY <1>5, <1>6
<1>12. events[i].rate < best
  BY <1>1, <1>4, <1>7, <1>10
<1>13. events[i].at <= now
  BY <1>4, <1>9, <1>11
<1> QED
  BY <1>12, <1>13

\* A check that fires announces the row's new best.
LEMMA Fired ==
  ASSUME NEW row \in Watch, NEW events \in Seq(Event), Improving(events),
         Announces(row, events), NEW best \in Rates \union {None}, ShouldNotify(row, best),
         NEW now \in Times, \A t \in Stamps(row) : now >= t
  PROVE  LET after == Append(events, [rate |-> best, at |-> now]) IN
         /\ after \in Seq(Event) /\ Improving(after) /\ Final(after) = [rate |-> best, at |-> now]
         /\ Announces(RecordCheck(row, best, now), after)
<1> DEFINE e == [rate |-> best, at |-> now]
           after == Append(events, e)
           new == RecordCheck(row, best, now)
<1>1. best \in Rates /\ e \in Event
  BY DEF ShouldNotify, Event
<1>2. /\ after \in Seq(Event) /\ Len(after) = Len(events) + 1 /\ after[Len(after)] = e
      /\ \A i \in 1 .. Len(events) : after[i] = events[i]
  BY <1>1
<1>3. Improving(after)
  <2> SUFFICES ASSUME NEW i \in 1 .. Len(after), NEW j \in 1 .. Len(after), i < j
               PROVE  after[i].rate < after[j].rate /\ after[i].at <= after[j].at
    BY DEF Improving
  <2>1. Len(events) \in Nat /\ i \in 1 .. Len(events)
    BY <1>2
  <2>2. CASE j = Len(after)
    BY <1>2, <2>1, <2>2, FiresAbove
  <2>3. CASE j # Len(after)
    <3>1. j \in 1 .. Len(events)
      BY <1>2, <2>1, <2>3
    <3> QED
      BY <1>2, <2>1, <3>1 DEF Improving
  <2> QED
    BY <2>2, <2>3
<1>4. new.best = best /\ new.notified = now /\ new.min = row.min /\ best >= row.min
  BY Recorded DEF ShouldNotify
<1>5. after # <<>>
  BY <1>2
<1>6. Announces(new, after)
  BY <1>2, <1>4, <1>5 DEF Announces
<1> QED
  BY <1>2, <1>3, <1>6

\* A check that does not fire leaves the announcements true of the row.
LEMMA NotFired ==
  ASSUME NEW row \in Watch, NEW events \in Seq(Event), Announces(row, events),
         NEW best \in Rates \union {None}, ~ShouldNotify(row, best), NEW now \in Times
  PROVE  Announces(RecordCheck(row, best, now), events)
<1> DEFINE new == RecordCheck(row, best, now)
<1>1. new.best = Best(row, best) /\ new.notified = row.notified /\ new.min = row.min
  BY Recorded
<1>2. /\ row.min \in Nat /\ Rates \subseteq Nat /\ None \notin Nat
      /\ row.best \in Rates \union {None}
  BY AwardWatchesAssumption DEF Watch
<1> SUFFICES Announces(new, events)
  OBVIOUS
<1> HIDE DEF new
<1>3. CASE Best(row, best) = row.best
  BY <1>1, <1>3 DEF Announces
<1>4. CASE Best(row, best) # row.best
  <2>1. best # None /\ Best(row, best) = best /\ best < row.min
        /\ (row.best = None \/ best > row.best)
    BY <1>2, <1>4 DEF Best, ShouldNotify
  <2>2. events = <<>>
    <3>1. SUFFICES ASSUME events # <<>> PROVE FALSE
      OBVIOUS
    <3>2. row.best = Final(events).rate /\ Final(events).rate >= row.min
      BY <3>1 DEF Announces
    <3>3. events[Len(events)] \in Event
      BY <3>1
    <3>4. row.best \in Nat /\ best \in Nat
      BY <1>2, <2>1, <3>2, <3>3 DEF Event
    <3> QED
      BY <1>2, <2>1, <3>2, <3>4
  <2> QED
    BY <1>1, <1>2, <2>1, <2>2 DEF Announces
<1> QED
  BY <1>1, <1>3, <1>4

LEMMA AnnouncesAll ==
  /\ EachImprovementOnce /\ Stamped <=>
       \A v \in Watches : /\ Improving(published[v])
                          /\ watch[v] # None => Announces(watch[v], published[v])
BY DEF EachImprovementOnce, Stamped, Announces

\* A recorded check, said of each row, event and run.
Recording(r, now) ==
  LET w == run[r].on  row == run[r].row  best == run[r].best
      fires == ShouldNotify(row, best) IN
  /\ \A v \in Watches : v # w => watch'[v] = watch[v] /\ published'[v] = published[v]
  /\ watch'[w] = RecordCheck(row, best, now)
  /\ published'[w] = IF fires THEN Append(published[w], [rate |-> best, at |-> now])
                     ELSE published[w]
  /\ \A q \in Runs : q # r => run'[q] = run[q]
  /\ run'[r].at = "listed" /\ run'[r].left = run[r].left /\ run'[r] \in RunState
  /\ run'[r].hits = run[r].hits \union IF fires THEN {[watch |-> w, rate |-> best]} ELSE {}

LEMMA RecordsPointwise ==
  ASSUME Inv, NEW r \in Runs, Held(r), NEW now \in Times, Records(r, now)
  PROVE  Recording(r, now)
<1> DEFINE fires == ShouldNotify(run[r].row, run[r].best)
           hits == run[r].hits \union
                     IF fires THEN {[watch |-> run[r].on, rate |-> run[r].best]} ELSE {}
           new == [Idle EXCEPT !.at = "listed", !.left = run[r].left, !.hits = hits]
<1>1. run[r] \in RunState /\ run[r].on \in Watches
  BY DEF Held
<1>2. hits \subseteq Hit
  BY <1>1 DEF RunState, Hit, ShouldNotify
<1>3. run' = [run EXCEPT ![r] = new]
  BY DEF Records
<1> HIDE DEF hits
<1>4. new \in RunState /\ new.at = "listed" /\ new.left = run[r].left /\ new.hits = hits
  BY <1>1, <1>2, IdleState DEF RunState, Idle
<1> HIDE DEF new
<1>5. /\ \A q \in Runs : q # r => run'[q] = run[q]
      /\ run'[r] = new
  BY <1>3 DEF Inv, TypeOK
<1>6. /\ \A v \in Watches : v # run[r].on => watch'[v] = watch[v] /\ published'[v] = published[v]
      /\ watch'[run[r].on] = RecordCheck(run[r].row, run[r].best, now)
      /\ published'[run[r].on] =
           IF fires THEN Append(published[run[r].on], [rate |-> run[r].best, at |-> now])
           ELSE published[run[r].on]
  BY <1>1 DEF Records, Inv, TypeOK
<1> QED
  BY <1>4, <1>5, <1>6 DEF Recording, hits

LEMMA RecordsInv ==
  ASSUME Inv, NEW r \in Runs, Held(r), run[r].row \in Watch,
         NEW now \in Times, \A t \in Stamps(run[r].row) : now >= t, Records(r, now)
  PROVE  Inv'
<1> DEFINE w == run[r].on
           row == run[r].row
           best == run[r].best
           events == published[w]
<1>0. PICK hit : hit = [watch |-> w, rate |-> best]
  OBVIOUS
<1>1. Recording(r, now) /\ UNCHANGED <<unused, sent, checks>>
  BY RecordsPointwise DEF Records
<1>2. /\ w \in Watches \ unused /\ row = watch[w] /\ row # None
      /\ best \in Rates \union {None} /\ run[r].left \subseteq Watches \ unused
      /\ events \in Seq(Event)
  BY AwardWatchesAssumption DEF Held, RunState, Inv, TypeOK
<1>3. Improving(events) /\ Announces(row, events)
  BY <1>2, AnnouncesAll DEF Inv
<1>4. RecordCheck(row, best, now) \in Watch
  BY <1>2, Recorded
<1>5. /\ published'[w] \in Seq(Event) /\ Improving(published'[w])
      /\ Announces(watch'[w], published'[w])
  <2>1. CASE ShouldNotify(row, best)
    BY <1>1, <1>2, <1>3, <2>1, Fired DEF Recording
  <2>2. CASE ~ShouldNotify(row, best)
    BY <1>1, <1>2, <1>3, <2>2, NotFired DEF Recording
  <2> QED
    BY <2>1, <2>2
<1>6. TypeOK'
  <2>1. watch' \in [Watches -> Watch \union {None}]
    BY <1>4 DEF Records, Inv, TypeOK
  <2>2. published' \in [Watches -> Seq(Event)]
    <3>1. published' = [published EXCEPT ![w] = published'[w]]
      BY DEF Records, Inv, TypeOK
    <3> QED
      BY <1>5, <3>1 DEF Inv, TypeOK
  <2>3. run' \in [Runs -> RunState]
    <3>1. run' = [run EXCEPT ![r] = run'[r]]
      BY DEF Records, Inv, TypeOK
    <3> QED
      BY <1>1, <3>1 DEF Inv, TypeOK, Recording
  <2>4. ASSUME NEW q \in Runs, run'[q].at = "locked"
        PROVE  run'[q].row = watch'[run'[q].on]
    <3>1. q # r /\ run'[q] = run[q]
      BY <1>1, <2>4 DEF Recording
    <3>2. run[q].on # w /\ run[q].on \in Watches /\ run[q].row = watch[run[q].on]
      BY <2>4, <3>1 DEF Held, Inv, TypeOK, RunsFresh, RunFresh
    <3> QED
      BY <1>1, <3>1, <3>2 DEF Recording
  <2> QED
    BY <1>1, <2>1, <2>2, <2>3, <2>4 DEF Inv, TypeOK
<1>7. Fresh'
  BY <1>1, <1>2 DEF Inv, TypeOK, Fresh, Recording
<1>8. (RunsFresh /\ Locks)'
  BY <1>1, <1>2 DEF Inv, RunsFresh, RunFresh, Locks, Recording
<1>9. (EachImprovementOnce /\ Stamped)'
  <2>1. \A v \in Watches : /\ Improving(published'[v])
                           /\ watch'[v] # None => Announces(watch'[v], published'[v])
    BY <1>1, <1>5, AnnouncesAll DEF Inv, Recording
  <2> QED
    BY <2>1 DEF EachImprovementOnce, Stamped, Announces
<1>10. ASSUME ShouldNotify(row, best)
       PROVE  hit \in Hit /\ ~IsAnnounced(hit) /\ IsAnnounced(hit)'
  <2>1. hit \in Hit /\ hit.watch = w /\ hit.rate = best /\ best \in Nat
    BY <1>0, <1>2, <1>10, AwardWatchesAssumption DEF Hit, ShouldNotify
  <2>2. \A i \in 1 .. Len(events) : events[i].rate < best
    BY <1>2, <1>3, <1>10, FiresAbove
  <2>3. \A i \in 1 .. Len(events) : events[i].rate \in Nat
    <3>1. \A i \in 1 .. Len(events) : events[i] \in Event
      BY <1>2
    <3> QED
      BY <3>1, AwardWatchesAssumption DEF Event
  <2>4. ~IsAnnounced(hit)
    BY <2>1, <2>2, <2>3 DEF IsAnnounced
  <2>5. published'[w] = Append(events, [rate |-> best, at |-> now])
    BY <1>1, <1>10 DEF Recording
  <2>6. [rate |-> best, at |-> now] \in Event
    BY <1>2, <1>10 DEF Event, ShouldNotify
  <2>7. Len(published'[w]) \in 1 .. Len(published'[w])
        /\ published'[w][Len(published'[w])].rate = best
    <3> DEFINE e == [rate |-> best, at |-> now]
    <3>1. e.rate = best
      OBVIOUS
    <3> HIDE DEF e
    <3>2. Len(Append(events, e)) = Len(events) + 1 /\ Append(events, e)[Len(events) + 1] = e
      BY <1>2, <2>6 DEF e
    <3>3. published'[w] = Append(events, e) /\ Len(events) \in Nat
      BY <1>2, <2>5 DEF e
    <3> QED
      BY <3>1, <3>2, <3>3
  <2>8. IsAnnounced(hit)'
    BY <2>1, <2>7 DEF IsAnnounced
  <2> QED
    BY <2>1, <2>4, <2>8
<1>11. ASSUME NEW h \in Hit, IsAnnounced(h) PROVE IsAnnounced(h)'
  <2>1. PICK i \in 1 .. Len(published[h.watch]) : published[h.watch][i].rate = h.rate
    BY <1>11 DEF IsAnnounced
  <2>2. h.watch \in Watches
    BY DEF Hit
  <2>3. CASE h.watch = w /\ ShouldNotify(row, best)
    <3>1. published'[w] = Append(events, [rate |-> best, at |-> now])
      BY <1>1, <2>3 DEF Recording
    <3>2. [rate |-> best, at |-> now] \in Event
      BY <1>2, <2>3 DEF Event, ShouldNotify
    <3>3. i \in 1 .. Len(published'[w]) /\ published'[w][i] = events[i]
      BY <1>2, <2>1, <2>3, <3>1, <3>2
    <3> QED
      BY <2>1, <2>3, <3>3 DEF IsAnnounced
  <2>4. CASE ~(h.watch = w /\ ShouldNotify(row, best))
    <3>1. published'[h.watch] = published[h.watch]
      BY <1>1, <2>2, <2>4 DEF Recording
    <3> QED
      BY <2>1, <3>1 DEF IsAnnounced
  <2> QED
    BY <2>3, <2>4
<1>12. \A q \in Runs : run[q].hits \subseteq Hit
  BY DEF Inv, TypeOK, RunState
<1>13. \A q \in Runs : \A h \in run'[q].hits :
         h \in run[q].hits \/ (q = r /\ h = hit /\ ShouldNotify(row, best))
  BY <1>0, <1>1 DEF Recording
<1>14. ASSUME ShouldNotify(row, best)
       PROVE  /\ \A q \in Runs : hit \notin run[q].hits
              /\ \A c \in Channels : sent[hit][c] = 0
  <2>1. \A c \in Channels : sent[hit][c] \in Nat
    BY <1>10, <1>14 DEF Inv, TypeOK
  <2> QED
    BY <1>10, <1>14, <2>1 DEF Inv, HitsAnnounced
<1>15. HitsAnnounced'
  <2>1. ASSUME NEW q \in Runs, NEW h \in run'[q].hits PROVE IsAnnounced(h)'
    <3>1. CASE h \in run[q].hits
      BY <1>11, <1>12, <3>1 DEF Inv, HitsAnnounced
    <3>2. CASE h \notin run[q].hits
      <4>1. h = hit /\ ShouldNotify(row, best)
        BY <1>13, <3>2
      <4>2. IsAnnounced(hit)'
        BY <1>10, <4>1
      <4> QED
        BY <4>1, <4>2
    <3> QED
      BY <3>1, <3>2
  <2>2. ASSUME NEW h \in Hit, NEW c \in Channels, sent'[h][c] > 0 PROVE IsAnnounced(h)'
    BY <1>1, <1>11, <2>2 DEF Inv, HitsAnnounced
  <2> QED
    BY <2>1, <2>2 DEF HitsAnnounced
<1>16. HitsOnce'
  <2>1. ASSUME NEW p \in Runs, NEW q \in Runs, NEW h \in run'[p].hits, h \in run'[q].hits
        PROVE  p = q
    BY <1>13, <1>14, <2>1 DEF Inv, HitsOnce
  <2>2. ASSUME NEW q \in Runs, NEW c \in Channels, NEW h \in run'[q].hits, Due(run'[q], c)
        PROVE  sent'[h][c] = 0
    <3>1. CASE h \in run[q].hits
      <4>1. Due(run[q], c)
        BY <1>1, <2>2 DEF Due, Held, Recording
      <4> QED
        BY <1>1, <3>1, <4>1 DEF Inv, HitsOnce
    <3>2. CASE h \notin run[q].hits
      BY <1>1, <1>13, <1>14, <3>2
    <3> QED
      BY <3>1, <3>2
  <2>3. \A h \in Hit, c \in Channels : sent'[h][c] <= 1
    BY <1>1 DEF Inv, HitsOnce
  <2> QED
    BY <2>1, <2>2, <2>3 DEF HitsOnce
<1> QED
  BY <1>6, <1>7, <1>8, <1>9, <1>15, <1>16 DEF Inv

LEMMA CommitInv == ASSUME Inv, NEW r \in Runs, Commit(r) PROVE Inv'
<1>1. Held(r)
  BY CommitCases
<1>2. CASE /\ run' = [run EXCEPT ![r] = [Idle EXCEPT !.at = "listed", !.left = run[r].left,
                                                     !.hits = run[r].hits]]
           /\ UNCHANGED <<unused, watch, published, sent, checks>>
  <2> DEFINE new == [Idle EXCEPT !.at = "listed", !.left = run[r].left, !.hits = run[r].hits]
  <2>1. /\ new \in RunState /\ new.at = "listed" /\ new.hits = run[r].hits
        /\ new.left = run[r].left
    BY <1>1, IdleState DEF Held, RunState, Idle
  <2>2. run' = [run EXCEPT ![r] = new] /\ checks' \in 0 .. MaxChecks
    BY <1>2 DEF Inv, TypeOK
  <2>3. \A c \in Channels : Due(run[r], c)
    BY <1>1 DEF Held, Due
  <2> HIDE DEF new
  <2>4. RunFresh(new)
    BY <1>1, <2>1 DEF Held, RunFresh
  <2> QED
    BY <1>2, <2>1, <2>2, <2>3, <2>4, RunStep
<1>3. CASE /\ run[r].row \in Watch
           /\ \E clock \in Times : Records(r, Now(run[r].row, clock))
  BY <1>1, <1>3, NowBounds, RecordsInv
<1> QED
  BY <1>2, <1>3, CommitCases

--------------------------------------------------------------------------------
LEMMA NextInv == Inv /\ [Next]_vars => Inv'
<1> SUFFICES ASSUME Inv, [Next]_vars PROVE Inv'
  OBVIOUS
<1>1. ASSUME NEW w \in Watches, Create(w) \/ Delete(w) PROVE Inv'
  BY <1>1, CreateInv, DeleteInv
<1>2. ASSUME NEW r \in Runs, Start(r) \/ Lock(r) \/ Commit(r) \/ Die(r) \/ Finish(r) PROVE Inv'
  BY <1>2, StartInv, LockInv, CommitInv, DieInv, FinishInv
<1>3. ASSUME NEW r \in Runs, NEW w \in Watches, Scrape(r, w) \/ ScrapeInvalid(r, w) PROVE Inv'
  BY <1>3, ScrapeInv, ScrapeInvalidInv
<1>4. ASSUME NEW r \in Runs, NEW c \in Channels, Send(r, c) \/ SendFails(r, c) PROVE Inv'
  BY <1>4, SendInv, SendFailsInv
<1>5. CASE UNCHANGED vars
  BY <1>5 DEF vars, Inv, TypeOK, Fresh, RunsFresh, RunFresh, Locks, EachImprovementOnce,
              Improving, Stamped, HitsAnnounced, IsAnnounced, HitsOnce, Due
<1> QED
  BY <1>1, <1>2, <1>3, <1>4, <1>5 DEF Next

\* The inductive invariant holds throughout, however many runs overlap
\* (CheckAwardWatches.execute).
THEOREM Invariant == Spec => []Inv
BY InitInv, NextInv, PTL DEF Spec

\* Every improvement of a watch is announced exactly once (shouldNotify,
\* recordCheck under the lock of CheckAwardWatches.execute).
THEOREM Improvements == Spec => []EachImprovementOnce
<1>1. Inv => EachImprovementOnce
  BY DEF Inv
<1> QED
  BY <1>1, Invariant, PTL

\* A published hit reaches each channel at most once, an unpublished one never
\* (checkWatches).
THEOREM Alerts == Spec => []AlertedOnce
<1>1. Inv => AlertedOnce
  <2> SUFFICES ASSUME Inv, NEW h \in Hit, NEW c \in Channels
               PROVE  /\ sent[h][c] <= 1
                      /\ sent[h][c] = 1 => IsAnnounced(h)
    BY DEF AlertedOnce, IsAnnounced
  <2> QED
    BY DEF Inv, HitsOnce, HitsAnnounced
<1> QED
  BY <1>1, Invariant, PTL

--------------------------------------------------------------------------------
\* A step changes one watch: it is created, it disappears, or a run that holds
\* its lock records a check at a time no stamp of the row is after.
LEMMA OneWatch ==
  ASSUME Inv, [Next]_vars, NEW w \in Watches
  PROVE  \/ watch'[w] = watch[w] /\ published'[w] = published[w]
         \/ (watch[w] = None \/ watch'[w] = None) /\ published'[w] = published[w]
         \/ \E r \in Runs, now \in Times :
              /\ Held(r) /\ run[r].on = w /\ run[r].row \in Watch /\ Recording(r, now)
              /\ \A t \in Stamps(run[r].row) : now >= t
<1>1. CASE UNCHANGED <<watch, published>>
  BY <1>1
<1>2. ASSUME NEW v \in Watches, Create(v)
      PROVE  published'[w] = published[w] /\ (watch'[w] = watch[w] \/ watch[w] = None)
  BY <1>2 DEF Create, Inv, TypeOK, Fresh
<1>3. ASSUME NEW v \in Watches, Delete(v)
      PROVE  published'[w] = published[w] /\ (watch'[w] = watch[w] \/ watch'[w] = None)
  BY <1>3 DEF Delete, Inv, TypeOK
<1>4. ASSUME NEW r \in Runs, Commit(r), ~UNCHANGED <<watch, published>>
      PROVE  \/ watch'[w] = watch[w] /\ published'[w] = published[w]
             \/ \E now \in Times :
                  /\ Held(r) /\ run[r].on = w /\ run[r].row \in Watch /\ Recording(r, now)
                  /\ \A t \in Stamps(run[r].row) : now >= t
  <2>1. PICK clock \in Times : Held(r) /\ run[r].row \in Watch
                               /\ Records(r, Now(run[r].row, clock))
    BY <1>4, CommitCases
  <2>2. /\ Now(run[r].row, clock) \in Times
        /\ \A t \in Stamps(run[r].row) : Now(run[r].row, clock) >= t
    BY <2>1, NowBounds
  <2>3. Recording(r, Now(run[r].row, clock))
    BY <2>1, <2>2, RecordsPointwise
  <2>4. CASE run[r].on = w
    BY <2>1, <2>2, <2>3, <2>4
  <2>5. CASE run[r].on # w
    BY <2>3, <2>5 DEF Recording
  <2> QED
    BY <2>4, <2>5
<1>5. \/ UNCHANGED <<watch, published>>
      \/ \E v \in Watches : Create(v) \/ Delete(v)
      \/ \E r \in Runs : Commit(r)
  BY DEF Next, vars, Start, Lock, Die, Finish, Scrape, ScrapeInvalid, Send, SendFails
<1> QED
  BY <1>1, <1>2, <1>3, <1>4, <1>5

\* A deleted watch publishes nothing more, and the row agrees with what is
\* published (DeleteAwardWatch against CheckAwardWatches).
THEOREM Silence == Spec => DeletedIsSilent
<1>1. ASSUME Inv, [Next]_vars, NEW w \in Watches, published'[w] # published[w]
      PROVE  /\ watch[w] # None /\ watch'[w] # None
             /\ watch'[w].best = published'[w][Len(published'[w])].rate
             /\ watch'[w].notified = published'[w][Len(published'[w])].at
  <2>1. PICK r \in Runs, now \in Times :
          Held(r) /\ run[r].on = w /\ run[r].row \in Watch /\ Recording(r, now)
    BY <1>1, OneWatch
  <2> DEFINE best == run[r].best
             e == [rate |-> best, at |-> now]
  <2>2. best \in Rates \union {None} /\ run[r].row = watch[w] /\ watch[w] # None
    BY <2>1, AwardWatchesAssumption DEF Held, RunState
  <2>3. ShouldNotify(run[r].row, best) /\ published'[w] = Append(published[w], e)
    BY <1>1, <2>1 DEF Recording
  <2>4. watch'[w] = RecordCheck(run[r].row, best, now)
    BY <2>1 DEF Recording
  <2>5. watch'[w] # None /\ watch'[w].best = best /\ watch'[w].notified = now
    BY <2>1, <2>2, <2>3, <2>4, Recorded
  <2>6. e \in Event /\ published[w] \in Seq(Event)
    BY <1>1, <2>2, <2>3 DEF Event, ShouldNotify, Inv, TypeOK
  <2>7. e.rate = best /\ e.at = now
    OBVIOUS
  <2> HIDE DEF e, best
  <2>8. published'[w][Len(published'[w])] = e
    BY <2>3, <2>6
  <2> QED
    BY <2>2, <2>5, <2>7, <2>8
<1>2. Inv /\ [Next]_vars =>
        [\A w \in Watches : published'[w] # published[w] =>
           /\ watch[w] # None /\ watch'[w] # None
           /\ watch'[w].best = published'[w][Len(published'[w])].rate
           /\ watch'[w].notified = published'[w][Len(published'[w])].at]_vars
  BY <1>1
<1> QED
  BY <1>2, Invariant, PTL DEF Spec, DeletedIsSilent

\* With clocks that differ, the stamps of a row never run backwards
\* (award-watches.ts:126-127).
THEOREM Monotone == Spec => TimeNeverRunsBack
<1>1. ASSUME Inv, [Next]_vars, NEW w \in Watches, watch[w] # None, watch'[w] # None
      PROVE  /\ watch'[w].updated >= watch[w].updated
             /\ watch[w].checked # None => watch'[w].checked >= watch[w].checked
             /\ watch[w].notified # None => watch'[w].notified >= watch[w].notified
  <2>1. /\ watch[w] \in Watch /\ Times \subseteq Int /\ None \notin Times
    BY <1>1, AwardWatchesAssumption DEF Inv, TypeOK, Times
  <2>2. /\ watch[w].updated \in Int
        /\ watch[w].checked # None => watch[w].checked \in Int
        /\ watch[w].notified # None => watch[w].notified \in Int
    BY <2>1 DEF Watch
  <2>3. CASE watch'[w] = watch[w]
    BY <2>2, <2>3
  <2>4. CASE watch'[w] # watch[w]
    <3>1. PICK r \in Runs, now \in Times :
            /\ Held(r) /\ run[r].on = w /\ run[r].row \in Watch /\ Recording(r, now)
            /\ \A t \in Stamps(run[r].row) : now >= t
      BY <1>1, <2>4, OneWatch
    <3>2. run[r].row = watch[w] /\ run[r].best \in Rates \union {None}
      BY <3>1 DEF Held, RunState
    <3>3. watch'[w] = RecordCheck(watch[w], run[r].best, now)
      BY <3>1, <3>2 DEF Recording
    <3>4. /\ watch'[w].updated = now /\ watch'[w].checked = now
          /\ watch'[w].notified = now \/ watch'[w].notified = watch[w].notified
      BY <2>1, <3>2, <3>3, Recorded
    <3>5. \A t \in Stamps(watch[w]) : now >= t
      BY <3>1, <3>2
    <3>6. /\ now >= watch[w].updated
          /\ watch[w].checked # None => now >= watch[w].checked
          /\ watch[w].notified # None => now >= watch[w].notified
      <4>1. watch[w].updated # None
        BY <2>1 DEF Watch
      <4> QED
        BY <3>5, <4>1 DEF Stamps
    <3> QED
      BY <2>2, <3>4, <3>6
  <2> QED
    BY <2>3, <2>4
<1>2. Inv /\ [Next]_vars =>
        [\A w \in Watches : watch[w] # None /\ watch'[w] # None =>
           /\ watch'[w].updated >= watch[w].updated
           /\ watch[w].checked # None => watch'[w].checked >= watch[w].checked
           /\ watch[w].notified # None => watch'[w].notified >= watch[w].notified]_vars
  BY <1>1
<1> QED
  BY <1>2, Invariant, PTL DEF Spec, TimeNeverRunsBack
================================================================================

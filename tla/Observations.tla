----------------------------- MODULE Observations -----------------------------
(* A balance read by an agent, from the page to the history: the capture      *)
(* queue of the browser extension, SubmitObservation, the owner's review, and *)
(* the token and consent behind them. One user, one provider.                 *)
(*                                                                            *)
(* A server call is a transaction: it takes its locks one by one (`todo` is   *)
(* what is left), judges under them, and commits. `arg` is what it was called *)
(* with. The extension keeps one frozen request (`pending`) until its outcome *)
(* is known; its service worker can be killed at any await.                   *)
EXTENDS BalanceRules, FiniteSets

CONSTANTS
  Calls,         \* server calls; each is used once
  Menu,          \* bound: the operations each call may be
  Pages,         \* captures the content script sees
  Agents,        \* captures other agents submit
  Reading,       \* the points a capture shows
  MaxPoints,     \* the sanity cap of the skill
  Members,       \* membership numbers
  TokenExpiry, GrantTTL, ReviewTTL,
  MaxCompleted,  \* completed ids the extension remembers
  MaxGrants, MaxTime, \* bounds
  None

Captures == Pages \union Agents

Ops == {"submit", "confirm", "reject", "manual", "edit", "unlink", "link",
        "grant", "revokeGrants", "revokeToken"}

\* An agent_observation row; `base` identifies the balance it was compared with.
Outcomes == {"recorded", "unchanged", "needs_review", "rejected"}

Receipt == [points : Nat, outcome : Outcomes, observed : Nat, expires : Nat,
            base : Seq(Captures \union Calls), member : Members]

ASSUME ObservationsAssumption ==
  /\ Menu \in [Calls -> SUBSET Ops]
  /\ Reading \in [Captures -> Nat]
  /\ Pages \intersect Agents = {} /\ Captures \intersect Calls = {}
  /\ {TokenExpiry, GrantTTL, ReviewTTL, MaxGrants, MaxTime, MaxPoints} \subseteq Nat
  /\ MaxCompleted \in Nat \ {0}
  /\ None \notin Captures \union Calls \union Members \union Receipt \union Nat
  /\ "frozen" \notin Calls \union {None}

VARIABLES
  time,
  tokenLive,   \* the access token is not revoked
  grant,       \* grants in order: [expires, revoked]
  account,     \* [member, deleted] or None
  snaps,       \* the balance history: [points, captured, by]
  receipt,     \* agent_observation by capture id
  call,
  latest, pending, completed, busy, \* the extension
  seen,        \* when a page capture was first observed
  settled,     \* history: captures the extension dropped, and why
  sent         \* history: page captures that left the extension

server == <<tokenLive, grant, account, snaps, receipt>>
extension == <<latest, pending, completed, busy, seen, settled, sent>>
vars == <<time, server, call, extension>>

\* The locks of an operation in the order it takes them. The provider lock is
\* the advisory lock `consent:<user>:<provider>` that all of them share.
LockOrder ==
  [submit |-> <<"capture", "token", "provider", "account", "grant">>,
   confirm |-> <<"provider", "account", "receipt">>,
   reject |-> <<"provider", "account", "receipt">>,
   manual |-> <<"provider", "account">>,
   edit |-> <<"provider", "account">>,
   unlink |-> <<"provider", "account">>,
   grant |-> <<"provider", "grant">>,
   revokeGrants |-> <<"grant">>,
   revokeToken |-> <<"token">>,
   link |-> <<>>]

\* mutants: a confirmation locks only its receipt; it locks its account first
PlanReceiptOnly(op) == IF op = "confirm" THEN <<"receipt">> ELSE LockOrder[op]
PlanAccountFirst(op) ==
  IF op = "confirm" THEN <<"account", "provider", "receipt">> ELSE LockOrder[op]

Plan(op) == LockOrder[op]

Open == {g \in DOMAIN grant : ~grant[g].revoked}

\* mutant: consent is read without FOR UPDATE
LocksOfWithoutConsent(p, kind) ==
  CASE kind \in {"capture", "receipt"} -> {<<kind, call[p].arg>>}
    [] kind = "grant" -> {}
    [] OTHER -> {<<kind, None>>}

\* The rows and advisory keys a kind of lock stands for in call p.
LocksOf(p, kind) ==
  CASE kind \in {"capture", "receipt"} -> {<<kind, call[p].arg>>}
    [] kind = "grant" -> {<<kind, g>> : g \in IF call[p].op = "revokeGrants"
                                              THEN call[p].arg ELSE Open}
    [] OTHER -> {<<kind, None>>}

Holders(locks) == {q \in Calls : call[q].held \intersect locks # {}}

WaitsFor(p) ==
  IF call[p].at = "lock" THEN Holders(LocksOf(p, Head(call[p].todo))) \ {p} ELSE {}

\* The rows a submission reads as it locks them, and judges by until it ends.
Unread == [token |-> FALSE, account |-> None, grant |-> 0]

ReadUnder(kind, read) ==
  CASE kind = "token" -> [read EXCEPT !.token = tokenLive]
    [] kind = "account" -> [read EXCEPT !.account = account]
    [] kind = "grant" -> [read EXCEPT !.grant =
         IF Open = {} THEN 0 ELSE CHOOSE g \in Open : \A h \in Open : h <= g]
    [] OTHER -> read

Idle == [op |-> "link", arg |-> None, member |-> None, at |-> "idle", todo |-> <<>>,
         held |-> {}, read |-> Unread, started |-> 0, base |-> <<>>, answer |-> "error"]

Init ==
  /\ time = 0
  /\ tokenLive = TRUE
  /\ grant = <<[expires |-> GrantTTL, revoked |-> FALSE]>>
  /\ account \in {None} \union [member : Members, deleted : {FALSE}]
  /\ snaps = <<>>
  /\ receipt = [c \in Captures |-> None]
  /\ call = [p \in Calls |-> Idle]
  /\ latest = None /\ pending = None /\ completed = <<>> /\ busy = None
  /\ seen = [c \in Pages |-> None]
  /\ settled = {} /\ sent = {}

-------------------------------------------------------------------------------
(* Authority                                                                  *)

\* assertAuthorized: the token, grant and account it read, at the current clock.
Authorized(read) ==
  /\ read.token /\ time < TokenExpiry
  /\ read.grant # 0 /\ time < grant[read.grant].expires
  /\ read.account # None => ~read.account.deleted

Begin(p, op, arg, member) ==
  /\ call[p].at = "idle" /\ op \in Menu[p]
  /\ call' = [call EXCEPT ![p] =
       [Idle EXCEPT !.op = op, !.arg = arg, !.member = member, !.todo = Plan(op),
                    !.started = time, !.at = IF Plan(op) = <<>> THEN "judge" ELSE "lock"]]

\* One lock more. A grant row that was revoked while the call waited for it is
\* no longer found: the set of its locks is read when they are free.
Acquire(p) ==
  /\ call[p].at = "lock"
  /\ WaitsFor(p) = {}
  /\ call' = [call EXCEPT
       ![p].held = @ \union LocksOf(p, Head(call[p].todo)),
       ![p].read = IF call[p].op = "submit" THEN ReadUnder(Head(call[p].todo), @) ELSE @,
       ![p].todo = Tail(@),
       ![p].at = IF Len(call[p].todo) = 1 THEN "judge" ELSE "lock"]
  /\ UNCHANGED <<time, server, extension>>

End(p, answer) ==
  call' = [call EXCEPT ![p] = [Idle EXCEPT !.at = "done", !.answer = answer]]

\* A rejected precondition, a failed statement, a dead process: all roll back.
Abort(p) ==
  /\ call[p].at \in {"lock", "judge", "commit"}
  /\ End(p, "error")
  /\ UNCHANGED <<time, server, extension>>

Tick ==
  /\ time < MaxTime
  /\ time' = time + 1
  /\ UNCHANGED <<server, call, extension>>

-------------------------------------------------------------------------------
(* SubmitObservation                                                          *)

Base == [i \in DOMAIN Latest(snaps) |-> Latest(snaps)[i].by]
Observed(p) == IF call[p].arg \in Pages THEN seen[call[p].arg] ELSE call[p].started

\* outcome of a reading on the latest balance
OutcomeOf(points) ==
  LET last == Latest(snaps) IN
  IF last # <<>> /\ last[1].points = points THEN "unchanged"
  ELSE IF \/ ExceedsSanityCap(points, MaxPoints)
          \/ last # <<>> /\ IsImplausibleJump(last[1].points, points)
       THEN "needs_review" ELSE "recorded"

\* an account, or the number to link one
HasAccount(p) == call[p].read.account # None \/ call[p].member # None

\* A replay answers with the stored receipt; otherwise the outcome is settled
\* here, and an account may be linked on the way if the agent gave a number.
JudgeSubmission(p) ==
  LET c == call[p].arg
      read == call[p].read IN
  /\ call[p].op = "submit" /\ call[p].at = "judge"
  /\ IF ~Authorized(read) \/ (receipt[c] = None /\ ~HasAccount(p))
     THEN End(p, "error")
     ELSE IF receipt[c] # None THEN End(p, receipt[c].outcome)
     ELSE call' = [call EXCEPT ![p].at = "commit", ![p].base = Base,
                                ![p].answer = OutcomeOf(Reading[c])]
  /\ UNCHANGED <<time, server, extension>>

\* executeWithSnapshotId, inside the same transaction
Record(points, captured, by) ==
  \E i \in Slots(snaps, captured) :
     snaps' = InsertedAt(snaps, i, [points |-> points, captured |-> captured, by |-> by])

CommitSubmission(p) ==
  LET c == call[p].arg IN
  /\ call[p].op = "submit" /\ call[p].at = "commit"
  /\ Authorized(call[p].read)
  /\ receipt[c] = None                              \* unique (user, capture)
  /\ call[p].read.account = None => account = None  \* unique (user, provider)
  /\ account' = IF account = None THEN [member |-> call[p].member, deleted |-> FALSE]
                ELSE account
  /\ IF call[p].answer = "recorded" THEN Record(Reading[c], Observed(p), c)
     ELSE UNCHANGED snaps
  /\ receipt' = [receipt EXCEPT ![c] =
       [points |-> Reading[c], outcome |-> call[p].answer, observed |-> Observed(p),
        expires |-> time + ReviewTTL, base |-> call[p].base, member |-> account'.member]]
  /\ End(p, call[p].answer)
  /\ UNCHANGED <<time, tokenLive, grant, extension>>

-------------------------------------------------------------------------------
(* ResolveObservationReview                                                   *)

\* loadPending and, for a confirmation, deadline, account, witness, baseline.
Confirmable(c) ==
  /\ time < receipt[c].expires
  /\ account # None /\ ~account.deleted
  /\ account.member = receipt[c].member
  /\ Base = receipt[c].base

JudgeReview(p) ==
  LET c == call[p].arg IN
  /\ call[p].op \in {"confirm", "reject"} /\ call[p].at = "judge"
  /\ IF /\ receipt[c] # None /\ receipt[c].outcome = "needs_review"
        /\ call[p].op = "confirm" => Confirmable(c)
     THEN call' = [call EXCEPT ![p].at = "commit"]
     ELSE End(p, "error")
  /\ UNCHANGED <<time, server, extension>>

\* mutant: the receipt stays as it was
CommitConfirmOnly(p) ==
  LET c == call[p].arg IN
  /\ call[p].op = "confirm" /\ call[p].at = "commit"
  /\ Record(receipt[c].points, receipt[c].observed, c)
  /\ End(p, "recorded")
  /\ UNCHANGED <<time, tokenLive, grant, account, receipt, extension>>

\* transition(needs_review -> recorded), with the balance and its identity guard
CommitConfirm(p) ==
  LET c == call[p].arg IN
  /\ call[p].op = "confirm" /\ call[p].at = "commit"
  /\ time < receipt[c].expires
  /\ receipt[c].outcome = "needs_review"
  /\ Record(receipt[c].points, receipt[c].observed, c)
  /\ receipt' = [receipt EXCEPT ![c].outcome = "recorded"]
  /\ End(p, "recorded")
  /\ UNCHANGED <<time, tokenLive, grant, account, extension>>

CommitReject(p) ==
  LET c == call[p].arg IN
  /\ call[p].op = "reject" /\ call[p].at = "commit"
  /\ receipt[c].outcome = "needs_review"
  /\ receipt' = [receipt EXCEPT ![c].outcome = "rejected"]
  /\ End(p, "rejected")
  /\ UNCHANGED <<time, tokenLive, grant, account, snaps, extension>>

-------------------------------------------------------------------------------
(* Token, consent and account, changed elsewhere                              *)

\* The writes of RevokeConsent and RevokeAccessToken carry the row they read
\* before their transaction; replaceActive revokes whatever is open now.
Live == account # None /\ ~account.deleted

Effect(p) ==
  CASE call[p].op = "grant" ->
         /\ grant' = Append([g \in DOMAIN grant |-> [grant[g] EXCEPT !.revoked = TRUE]],
                            [expires |-> call[p].started + GrantTTL, revoked |-> FALSE])
         /\ UNCHANGED <<tokenLive, account, snaps>>
    [] call[p].op = "revokeGrants" ->
         /\ grant' = [g \in DOMAIN grant |->
              [grant[g] EXCEPT !.revoked = @ \/ g \in call[p].arg]]
         /\ UNCHANGED <<tokenLive, account, snaps>>
    [] call[p].op = "revokeToken" ->
         tokenLive' = FALSE /\ UNCHANGED <<grant, account, snaps>>
    [] call[p].op = "manual" ->
         Live /\ Record(call[p].arg, time, p) /\ UNCHANGED <<tokenLive, grant, account>>
    [] call[p].op = "edit" ->
         /\ Live /\ account' = [account EXCEPT !.member = call[p].member]
         /\ UNCHANGED <<tokenLive, grant, snaps>>
    [] call[p].op = "unlink" ->
         /\ Live /\ account' = [account EXCEPT !.deleted = TRUE]
         /\ UNCHANGED <<tokenLive, grant, snaps>>
    [] call[p].op = "link" ->
         /\ account = None
         /\ account' = [member |-> call[p].member, deleted |-> FALSE]
         /\ UNCHANGED <<tokenLive, grant, snaps>>

CommitOther(p) ==
  /\ call[p].op \notin {"submit", "confirm", "reject"} /\ call[p].at = "judge"
  /\ Effect(p)
  /\ End(p, "recorded")
  /\ UNCHANGED <<time, receipt, extension>>

\* Calls made by people and agents, not by the extension. RevokeConsent reads
\* the open grants and RevokeAccessToken the live token before they begin.
Start(p) ==
  /\ \/ \E c \in Agents, m \in Members \union {None} : Begin(p, "submit", c, m)
     \/ \E c \in Captures, op \in {"confirm", "reject"} :
          receipt[c] # None /\ Begin(p, op, c, None)
     \/ \E c \in Captures : Begin(p, "manual", Reading[c], None)
     \/ \E m \in Members : Begin(p, "edit", None, m)
     \/ Begin(p, "unlink", None, None)
     \/ \E m \in Members : account = None /\ Begin(p, "link", None, m)
     \/ Len(grant) < MaxGrants /\ Begin(p, "grant", None, None)
     \/ Open # {} /\ Begin(p, "revokeGrants", Open, None)
     \/ tokenLive /\ Begin(p, "revokeToken", None, None)
  /\ UNCHANGED <<time, server, extension>>

-------------------------------------------------------------------------------
(* The extension: background.ts runs one capture action at a time             *)

Remembered(c) == \E i \in DOMAIN completed : completed[i] = c

\* receiveCapture: first or repeated delivery of what a page shows.
Receive(c) ==
  /\ busy = None
  /\ seen' = [seen EXCEPT ![c] = IF @ = None THEN time ELSE @]
  /\ latest' = IF Remembered(c) \/ pending = c THEN latest ELSE c
  /\ UNCHANGED <<time, server, call, pending, completed, busy, settled, sent>>

Shown == IF pending # None THEN pending ELSE latest

\* record(): the identity, time and payload are frozen before the network.
Freeze ==
  /\ busy = None /\ Shown # None
  /\ pending' = Shown /\ busy' = "frozen"
  /\ UNCHANGED <<time, server, call, latest, completed, seen, settled, sent>>

Send(p) ==
  /\ busy = "frozen"
  /\ Begin(p, "submit", pending, None)
  /\ busy' = p /\ sent' = sent \union {pending}
  /\ UNCHANGED <<time, server, latest, pending, completed, seen, settled>>

\* completeCapture, with the last ids remembered
Complete(c, why) ==
  LET ids == Append(SelectSeq(completed, LAMBDA x : x # c), c)
      excess == IF Len(ids) > MaxCompleted THEN Len(ids) - MaxCompleted ELSE 0
  IN /\ completed' = SubSeq(ids, excess + 1, Len(ids))
     /\ latest' = IF latest = c THEN None ELSE latest
     /\ pending' = IF pending = c THEN None ELSE pending
     /\ settled' = settled \union {<<c, why>>}

\* mutant: a held reading closes the request too
AnswerAny ==
  /\ busy \in Calls /\ call[busy].at = "done"
  /\ IF call[busy].answer # "error"
     THEN Complete(pending, "answered")
     ELSE UNCHANGED <<latest, pending, completed, settled>>
  /\ busy' = None
  /\ UNCHANGED <<time, server, call, seen, sent>>

\* finishCapture: only a settled outcome closes the request.
Answer ==
  /\ busy \in Calls /\ call[busy].at = "done"
  /\ IF call[busy].answer \in {"recorded", "unchanged"}
     THEN Complete(pending, "answered")
     ELSE UNCHANGED <<latest, pending, completed, settled>>
  /\ busy' = None
  /\ UNCHANGED <<time, server, call, seen, sent>>

\* mutant: a timeout clears the request
GiveUpClearing ==
  /\ busy # None
  /\ busy' = None /\ pending' = None
  /\ UNCHANGED <<time, server, call, latest, completed, seen, settled, sent>>

\* The 25 s timeout, a lost answer, or the service worker is killed: whatever
\* was saved stays, and the call may go on.
GiveUp ==
  /\ busy # None
  /\ busy' = None
  /\ UNCHANGED <<time, server, call, latest, pending, completed, seen, settled, sent>>

Discard ==
  /\ busy = None /\ Shown # None
  /\ Complete(Shown, "discarded")
  /\ UNCHANGED <<time, server, call, busy, seen, sent>>

-------------------------------------------------------------------------------
Next ==
  \/ Tick \/ Freeze \/ Answer \/ GiveUp \/ Discard
  \/ \E c \in Pages : Receive(c)
  \/ \E p \in Calls :
       \/ Start(p) \/ Send(p) \/ Acquire(p) \/ Abort(p)
       \/ JudgeSubmission(p) \/ CommitSubmission(p)
       \/ JudgeReview(p) \/ CommitConfirm(p) \/ CommitReject(p) \/ CommitOther(p)

Spec == Init /\ [][Next]_vars

-------------------------------------------------------------------------------
(* What must hold                                                             *)

\* A capture reaches the history at most once, and exactly when its receipt
\* says so, however often it was sent, answered or not, held, confirmed or
\* rejected (submit-observation.ts:147-158, 225-262).
RecordedOnce ==
  \A c \in Captures :
    Cardinality({i \in DOMAIN snaps : snaps[i].by = c})
      = (IF receipt[c] # None /\ receipt[c].outcome = "recorded" THEN 1 ELSE 0)

\* The extension forgets a request that the server may have acted on only when
\* it knows the outcome or the user discarded it (background.ts:44-54).
NothingForgotten ==
  \A c \in sent : pending = c \/ \E s \in settled : s[1] = c

\* What the extension reports as saved is saved (capture-state.ts finishCapture).
SavedIsSaved ==
  \A c \in Pages : <<c, "answered">> \in settled =>
    receipt[c] # None /\ receipt[c].outcome \in {"recorded", "unchanged"}

\* No set of calls waits for locks that only its members hold: the shared order
\* of capture, token, provider, account and row locks (account-write-lock.ts:7).
NoLockCycle ==
  \A S \in (SUBSET Calls) \ {{}} : \E p \in S : WaitsFor(p) \intersect S = {}

\* A reading enters while its token, grant and account stand: a revocation that
\* committed first wins, whatever the submission had read (lockSubmission).
AuthorityHolds ==
  [][\A c \in Captures : receipt[c] = None /\ receipt'[c] # None =>
       /\ tokenLive /\ time < TokenExpiry
       /\ \E g \in Open : time < grant[g].expires
       /\ account # None => ~account.deleted]_vars

\* A held reading is confirmed on the balance it was compared with, for the
\* membership it was read for, and within its window (submit-observation.ts:235).
ReviewOnBaseline ==
  [][\A c \in Captures :
       receipt[c] # None /\ receipt'[c] # receipt[c] /\ receipt'[c].outcome = "recorded"
         => Confirmable(c)]_vars
===============================================================================

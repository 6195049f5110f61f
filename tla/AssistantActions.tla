-------------------------- MODULE AssistantActions --------------------------
(***************************************************************************)
(* Reviewed assistant actions: proposals an owner approves or rejects, and *)
(* the one write an approval may make.                                     *)
(*                                                                         *)
(*   manage-actions.ts             list, insert, reject, approve           *)
(*   drizzle-action-repository.ts  claim, settlePending, finish,           *)
(*                                 expireExecuting                         *)
(*   record-manual-balance.ts, goal-account-references.ts                  *)
(*                                 the account lock and identity check     *)
(*                                                                         *)
(* One owner, one loyalty account that every proposal refers to.  A SQL    *)
(* statement outside a transaction is one step; the transaction of an      *)
(* approval is several, and has a state of its own on the database server, *)
(* which outlives the client that gave up on it.  With Atomic = FALSE the  *)
(* unit of work is a pass-through (unitOfWork.atomic is false) and every   *)
(* write stands at once.                                                   *)
(***************************************************************************)
EXTENDS Naturals, Sequences, FiniteSets

CONSTANTS
  Actions,      \* proposal ids
  Balances,     \* the "manual_balance" proposals; the others are trip goals
  Requests,     \* approve and reject calls being served
  Memberships,  \* membership numbers the account may carry
  Atomic,       \* unitOfWork.atomic
  Ttl,          \* PROPOSAL_TTL_MS, in ticks
  Lease,        \* EXECUTION_LEASE_MS, in ticks
  Page,         \* proposals that list reads
  None          \* no action, no witness

ASSUME ActionsAssumption ==
  /\ Balances \subseteq Actions
  /\ Atomic \in BOOLEAN
  /\ Ttl \in Nat \ {0}
  /\ Lease \in Nat \ {0}
  /\ Page \in Nat \ {0}
  /\ None \notin Actions \cup Memberships

VARIABLES
  clock,
  account,   \* the account's membership number, and whether it is linked
  row,       \* row[a]: the assistant_action row
  request,   \* request[r]: where an approve or reject call is
  tx,        \* tx[r]: the state of r's transaction on the server
  applied    \* history: the memberships the writes of a were committed to

vars == <<clock, account, row, request, tx, applied>>

Terminal == {"succeeded", "rejected", "expired", "failed", "unknown"}
Statuses == {"absent", "pending", "executing"} \cup Terminal

(* updatedAt is kept of claimed rows, the only ones it is read of. *)
Row == [status : Statuses, expiresAt : Nat, updatedAt : Nat,
        witness : Memberships \cup {None}]

(* The await an approve or reject call is in: "find", "findReject": the    *)
(* findOwned after refresh; "expire", "reject": settlePending; "claim";    *)
(* "check", "refuse": the ownership recheck and its failed finish;         *)
(* "execute", "write": executeSaved; "journal": finish("succeeded");       *)
(* "commit"; "catch": finish after an exception; "rejournal": finish       *)
(* after a failed journal write.                                           *)
Places == {"idle", "find", "findReject", "expire", "reject", "claim",
           "check", "refuse", "execute", "write", "journal", "commit",
           "catch", "rejournal"}
Request == [at : Places, action : Actions \cup {None}, now : Nat,
            guard : BOOLEAN]

(* "written": the mutation is in, the account locked; "journaled": the     *)
(* action row too; "doubt": COMMIT was sent and its answer is lost.        *)
Phases == {"none", "written", "journaled", "doubt"}

Idle == [at |-> "idle", action |-> None, now |-> 0, guard |-> FALSE]

TypeOK ==
  /\ clock \in Nat
  /\ account \in [number : Memberships, live : BOOLEAN]
  /\ row \in [Actions -> Row]
  /\ request \in [Requests -> Request]
  /\ tx \in [Requests -> [phase : Phases, action : Actions \cup {None}]]
  /\ applied \in [Actions -> Seq(Memberships)]

NoTx == [phase |-> "none", action |-> None]

Init ==
  /\ clock = 0
  /\ account \in [number : Memberships, live : {TRUE}]
  /\ row = [a \in Actions |-> [status |-> "absent", expiresAt |-> 0,
              updatedAt |-> 0, witness |-> None]]
  /\ request = [r \in Requests |-> Idle]
  /\ tx = [r \in Requests |-> NoTx]
  /\ applied = [a \in Actions |-> <<>>]

-----------------------------------------------------------------------------
(* Helpers *)

MaxOf(m, n) == IF m < n THEN n ELSE m

(* lockById: held from the check to the end of the transaction. *)
AccountLocked == \E r \in Requests : tx[r].phase # "none"

(* An uncommitted finish holds the action row. *)
RowLocked(a) ==
  \E r \in Requests : tx[r].action = a /\ tx[r].phase \in {"journaled", "doubt"}

SetStatus(a, s) == [row EXCEPT ![a].status = s]

(* Mutant of Lapsed: the cutoff compares with the proposal's own expiry. *)
LapsedByExpiry(a) == row[a].status = "executing" /\ row[a].expiresAt > clock

(* expireExecuting's WHERE clause, with cutoff = now - EXECUTION_LEASE. *)
Lapsed(a) == row[a].status = "executing" /\ row[a].updatedAt + Lease <= clock

(* refresh, run first by list, reject and approve: one UPDATE, which waits *)
(* for the row locks it meets.                                             *)
Refresh ==
  /\ \A a \in Actions : Lapsed(a) => ~RowLocked(a)
  /\ row' = [a \in Actions |->
               IF Lapsed(a) THEN [row[a] EXCEPT !.status = "unknown"] ELSE row[a]]

(* Mutant of FinishApplies: without the status conjunct. *)
FinishAppliesAlways(a) == TRUE

(* finish: UPDATE ... WHERE status = 'executing'; no row found is an error. *)
FinishApplies(a) == row[a].status = "executing"

FinishedRow(a, s) == IF FinishApplies(a) THEN SetStatus(a, s) ELSE row

(* Mutant of IdentityHolds: the account exists, whatever its number. *)
IdentityIgnored(a) == account.live

(* The account is live and, for a balance, is the one that was reviewed. *)
IdentityHolds(a) ==
  account.live /\ (a \in Balances => account.number = row[a].witness)

Goto(r, place) == request' = [request EXCEPT ![r].at = place]
GotoAt(r, place) == request' = [request EXCEPT ![r].at = place, ![r].now = clock]
Return(r) == request' = [request EXCEPT ![r] = Idle]
EndTx(r) == tx' = [tx EXCEPT ![r] = NoTx]

-----------------------------------------------------------------------------
(* Environment: the clock, and the owner editing the account elsewhere.    *)

DeadlineAhead ==
  \E a \in Actions :
    \/ row[a].status = "pending" /\ clock < row[a].expiresAt
    \/ row[a].status = "executing" /\ clock < row[a].updatedAt + Lease

(* Time passes while something depends on it (bounds the clock). *)
Tick ==
  /\ DeadlineAhead
  /\ clock' = clock + 1
  /\ UNCHANGED <<account, row, request, tx, applied>>

(* UpdateLoyaltyAccount, UnlinkLoyaltyAccount, RestoreLoyaltyAccount: each *)
(* a transaction that takes the account lock.                              *)
EditAccount ==
  /\ ~AccountLocked
  /\ \/ account.live /\ \E m \in Memberships : account' = [account EXCEPT !.number = m]
     \/ account' = [account EXCEPT !.live = ~@]
  /\ UNCHANGED <<clock, row, request, tx, applied>>

(* proposeManualBalance, proposeTripGoal: the account is read, then the    *)
(* row inserted; a repeated id is left as it is (onConflictDoNothing).     *)
Propose(a) ==
  /\ account.live
  /\ row[a].status = "absent"
  /\ row' = [row EXCEPT ![a] =
       [status |-> "pending", expiresAt |-> clock + Ttl, updatedAt |-> clock,
        witness |-> IF a \in Balances THEN account.number ELSE None]]
  /\ UNCHANGED <<clock, account, request, tx, applied>>

(* listOwned: the newest Page rows.  A row expires Ttl after its creation, *)
(* so expiresAt orders the rows as createdAt does; rows of one moment come *)
(* in any order.  A row that may be among them, and one that certainly is: *)
Present == {a \in Actions : row[a].status # "absent"}

Listed(a) ==
  Cardinality({b \in Present : row[b].expiresAt > row[a].expiresAt}) < Page

Shown(a) ==
  Cardinality({b \in Present \ {a} : row[b].expiresAt >= row[a].expiresAt}) < Page

(* list: refresh, then settlePending of one expired row of the page.  The  *)
(* loop's later rows are later steps; its now may be older, which only     *)
(* delays them.  A row pushed off the page between the read and its        *)
(* settlement changes as SettlePending of an approve call would change it. *)
ListRefresh ==
  /\ Refresh
  /\ UNCHANGED <<clock, account, request, tx, applied>>

ListExpire(a) ==
  /\ Listed(a)
  /\ row[a].status = "pending" /\ row[a].expiresAt <= clock
  /\ row' = SetStatus(a, "expired")
  /\ UNCHANGED <<clock, account, request, tx, applied>>

-----------------------------------------------------------------------------
(* approve and reject up to the claim *)

(* A call begins: refresh, then findOwned. *)
Begin(r, a, place) ==
  /\ request[r].at = "idle" /\ tx[r] = NoTx
  /\ row[a].status # "absent"
  /\ Refresh
  /\ request' = [request EXCEPT ![r] = [Idle EXCEPT !.at = place, !.action = a]]
  /\ UNCHANGED <<clock, account, tx, applied>>

Approve(r, a) == Begin(r, a, "find")
Reject(r, a) == Begin(r, a, "findReject")

Find(r) ==
  LET existing == row[request[r].action]
  IN /\ request[r].at = "find"
     /\ \/ existing.status # "pending" /\ Return(r)
        \/ /\ existing.status = "pending"
           /\ GotoAt(r, IF existing.expiresAt <= clock THEN "expire" ELSE "claim")
     /\ UNCHANGED <<clock, account, row, tx, applied>>

FindReject(r) ==
  LET action == row[request[r].action]
  IN /\ request[r].at = "findReject"
     /\ GotoAt(r, IF action.expiresAt <= clock THEN "expire" ELSE "reject")
     /\ UNCHANGED <<clock, account, row, tx, applied>>

(* settlePending: conditional on the row still being pending, and on the   *)
(* side of its deadline that the status implies, at the caller's now.      *)
SettlePending(r) ==
  LET a == request[r].action
      now == request[r].now
      late == row[a].expiresAt <= now
  IN /\ request[r].at \in {"expire", "reject"}
     /\ row' = IF row[a].status # "pending" \/ late # (request[r].at = "expire")
               THEN row
               ELSE SetStatus(a, IF late THEN "expired" ELSE "rejected")
     /\ Return(r)
     /\ UNCHANGED <<clock, account, tx, applied>>

(* Mutants of Claim: it judges the deadline by the now of approve, read    *)
(* before the row lock; it takes an executing row over.                    *)
ClaimAtCallersNow(r) ==
  LET a == request[r].action
  IN /\ request[r].at = "claim"
     /\ IF row[a].status # "pending" THEN UNCHANGED row /\ Return(r)
        ELSE IF row[a].expiresAt <= request[r].now
             THEN row' = SetStatus(a, "expired") /\ Return(r)
             ELSE /\ row' = [row EXCEPT ![a].status = "executing",
                                        ![a].updatedAt = request[r].now]
                  /\ Goto(r, "check")
     /\ UNCHANGED <<clock, account, tx, applied>>
ClaimExecuting(r) ==
  LET a == request[r].action
  IN /\ request[r].at = "claim"
     /\ IF row[a].status \notin {"pending", "executing"} THEN UNCHANGED row /\ Return(r)
        ELSE /\ row' = [row EXCEPT ![a].status = "executing",
                                   ![a].updatedAt = clock]
             /\ Goto(r, "check")
     /\ UNCHANGED <<clock, account, tx, applied>>

(* claim: the row is locked, then judged at the later of the caller's now  *)
(* and the clock under the lock.                                           *)
Claim(r) ==
  LET a == request[r].action
      claimedAt == MaxOf(request[r].now, clock)
  IN /\ request[r].at = "claim"
     /\ \/ row[a].status # "pending" /\ UNCHANGED row /\ Return(r)
        \/ /\ row[a].status = "pending" /\ row[a].expiresAt <= claimedAt
           /\ row' = SetStatus(a, "expired")
           /\ Return(r)
        \/ /\ row[a].status = "pending" /\ claimedAt < row[a].expiresAt
           /\ row' = [row EXCEPT ![a].status = "executing",
                                 ![a].updatedAt = claimedAt]
           /\ Goto(r, "check")
     /\ UNCHANGED <<clock, account, tx, applied>>

-----------------------------------------------------------------------------
(* approve from the claim on *)

(* The recheck outside any transaction; whatever it throws is a failure.   *)
Check(r) ==
  LET a == request[r].action
  IN /\ request[r].at = "check"
     /\ \/ IdentityHolds(a) /\ Goto(r, "execute")
        \/ Goto(r, "refuse")
     /\ UNCHANGED <<clock, account, row, tx, applied>>

Refuse(r) ==
  LET a == request[r].action
  IN /\ request[r].at = "refuse" /\ ~RowLocked(a)
     /\ row' = FinishedRow(a, "failed")
     /\ Return(r)
     /\ UNCHANGED <<clock, account, tx, applied>>

(* The exception leaves run's callback: the transaction is rolled back.    *)
Throw(r, known) ==
  /\ request' = [request EXCEPT ![r].at = "catch", ![r].guard = known]
  /\ EndTx(r)

(* executeSaved up to its writes: the account is locked and looked at      *)
(* again.  Only the witness guard's own error is a known failure; an       *)
(* unlinked account, or a database error, is not.                          *)
Execute(r) ==
  LET a == request[r].action
  IN /\ request[r].at = "execute" /\ ~AccountLocked
     /\ \/ /\ IdentityHolds(a)
           /\ IF Atomic
              THEN /\ tx' = [tx EXCEPT ![r] = [phase |-> "written", action |-> a]]
                   /\ Goto(r, "journal")
              ELSE Goto(r, "write") /\ UNCHANGED tx
        \/ account.live /\ ~IdentityHolds(a) /\ Throw(r, TRUE)
        \/ Throw(r, FALSE)
     /\ UNCHANGED <<clock, account, row, applied>>

(* Without a transaction the write stands at once; the activity or event   *)
(* after it may still fail.                                                *)
Write(r) ==
  LET a == request[r].action
  IN /\ request[r].at = "write"
     /\ \/ /\ applied' = [applied EXCEPT ![a] = Append(@, account.number)]
           /\ \/ Goto(r, "journal") /\ UNCHANGED tx
              \/ Throw(r, FALSE)
        \/ Throw(r, FALSE) /\ UNCHANGED applied
     /\ UNCHANGED <<clock, account, row>>

(* finish("succeeded"): inside the transaction, or on its own. *)
Journal(r) ==
  LET a == request[r].action
  IN /\ request[r].at = "journal" /\ ~RowLocked(a)
     /\ IF Atomic
        THEN /\ UNCHANGED row
             /\ \/ /\ FinishApplies(a)
                   /\ tx' = [tx EXCEPT ![r].phase = "journaled"]
                   /\ Goto(r, "commit")
                \/ Throw(r, FALSE)
        ELSE /\ UNCHANGED tx
             /\ \/ FinishApplies(a) /\ row' = SetStatus(a, "succeeded") /\ Return(r)
                \/ UNCHANGED row /\ Goto(r, "rejournal")
     /\ UNCHANGED <<clock, account, applied>>

(* The server commits r's transaction: the write and the journal together. *)
Committed(r) ==
  LET a == tx[r].action
  IN /\ row' = SetStatus(a, "succeeded")
     /\ applied' = [applied EXCEPT ![a] = Append(@, account.number)]
     /\ EndTx(r)

Commit(r) ==
  /\ request[r].at = "commit"
  /\ \/ Committed(r) /\ Return(r)
     \/ /\ tx' = [tx EXCEPT ![r].phase = "doubt"]
        /\ Goto(r, "catch")
        /\ UNCHANGED <<row, applied>>
  /\ UNCHANGED <<clock, account>>

(* A COMMIT nobody waits for any more takes effect, or does not. *)
ServerDecides(r) ==
  /\ tx[r].phase = "doubt"
  /\ \/ Committed(r)
     \/ EndTx(r) /\ UNCHANGED <<row, applied>>
  /\ UNCHANGED <<clock, account, request>>

(* Mutant of CatchOutcome: every exception is taken for a rollback. *)
CatchOutcomeFailed(r) == "failed"

CatchOutcome(r) == IF request[r].guard THEN "failed" ELSE "unknown"

(* finish after an exception, and after a journal write that failed. *)
Catch(r) ==
  LET a == request[r].action
  IN /\ request[r].at \in {"catch", "rejournal"} /\ ~RowLocked(a)
     /\ row' = FinishedRow(a, CatchOutcome(r))
     /\ Return(r)
     /\ UNCHANGED <<clock, account, tx, applied>>

(* The process dies, or an error reaches the caller: the rest is not done. *)
(* The server rolls back, unless the COMMIT had been sent.                 *)
Crash(r) ==
  /\ request[r].at # "idle"
  /\ Return(r)
  /\ \/ tx[r].phase = "doubt" /\ UNCHANGED tx
     \/ request[r].at = "commit" /\ tx' = [tx EXCEPT ![r].phase = "doubt"]
     \/ tx[r].phase # "doubt" /\ EndTx(r)
  /\ UNCHANGED <<clock, account, row, applied>>

-----------------------------------------------------------------------------
Serve(r) ==
  \/ Find(r) \/ FindReject(r) \/ SettlePending(r) \/ Claim(r)
  \/ Check(r) \/ Refuse(r) \/ Execute(r) \/ Write(r)
  \/ Journal(r) \/ Commit(r) \/ Catch(r)

Next ==
  \/ Tick \/ EditAccount \/ ListRefresh
  \/ \E a \in Actions : Propose(a) \/ ListExpire(a)
  \/ \E r \in Requests :
       \/ \E a \in Actions : Approve(r, a) \/ Reject(r, a)
       \/ Serve(r) \/ ServerDecides(r) \/ Crash(r)

Spec == Init /\ [][Next]_vars

(* Node resumes every await, Postgres decides every transaction and time   *)
(* passes.  ListRefresh and ListExpire are the owner's: the page is opened *)
(* again and again (nothing in the code sweeps by itself), and settles the *)
(* proposals that it shows, no others.                                     *)
Fairness ==
  /\ WF_vars(Tick)
  /\ WF_vars(ListRefresh)
  /\ \A a \in Actions : WF_vars(Shown(a) /\ ListExpire(a))
  /\ \A r \in Requests : WF_vars(Serve(r)) /\ WF_vars(ServerDecides(r))

FairSpec == Spec /\ Fairness

-----------------------------------------------------------------------------
(* The inductive invariant *)

BeforeWrite == {"check", "refuse", "execute", "write"}
Busy == BeforeWrite \cup {"journal", "commit", "catch", "rejournal"}

(* r has claimed a: it is still serving the approval, or its transaction   *)
(* is still undecided.                                                     *)
WorksOn(r, a) ==
  \/ request[r].at \in Busy /\ request[r].action = a
  \/ tx[r].phase # "none" /\ tx[r].action = a

RequestsOK ==
  \A r \in Requests :
    /\ request[r].at # "idle" =>
         request[r].action \in Actions /\ row[request[r].action].status # "absent"
    /\ request[r].at \in {"write", "rejournal"} => ~Atomic
    /\ request[r].guard => request[r].at = "catch" /\ tx[r].phase = "none"

(* A claim is taken once, and nobody else gives its row an outcome, except *)
(* the recovery.                                                           *)
Claimed == {"executing", "unknown", "succeeded"}

ClaimsOK ==
  \A r \in Requests, a \in Actions : WorksOn(r, a) =>
    /\ row[a].status \in Claimed
    /\ \A q \in Requests : WorksOn(q, a) => q = r

(* A transaction belongs to the approval that opened it, is alone on the   *)
(* account, and holds still what it has checked.                           *)
TxOK ==
  \A r \in Requests :
    /\ tx[r].phase = "written" <=> Atomic /\ request[r].at = "journal"
    /\ tx[r].phase = "journaled" <=> request[r].at = "commit"
    /\ tx[r].phase = "doubt" => request[r].at \in {"idle", "catch"}
    /\ tx[r].phase # "none" =>
         /\ Atomic
         /\ tx[r].action \in Actions
         /\ request[r].at # "idle" => tx[r].action = request[r].action
         /\ \A q \in Requests : tx[q].phase # "none" => q = r
         /\ IdentityHolds(tx[r].action)
    /\ tx[r].phase \in {"journaled", "doubt"} =>
         row[tx[r].action].status = "executing"

(* What the journal says of an action agrees with the writes made for it. *)
AppliedOK ==
  /\ \A a \in Actions :
       /\ Len(applied[a]) <= 1
       /\ row[a].status \in {"absent", "pending", "rejected", "expired", "failed"}
            => Len(applied[a]) = 0
       /\ row[a].status = "succeeded" => Len(applied[a]) = 1
       /\ Atomic /\ row[a].status # "succeeded" => Len(applied[a]) = 0
       /\ Atomic /\ a \in Balances =>
            \A i \in 1..Len(applied[a]) : applied[a][i] = row[a].witness
  /\ \A r \in Requests :
       /\ request[r].at \in BeforeWrite \/ request[r].guard
            => Len(applied[request[r].action]) = 0
       /\ request[r].at = "journal" /\ ~Atomic
            => Len(applied[request[r].action]) = 1

(* The state of every approval, transaction and journal entry agree        *)
(* (manage-actions.ts:95-171): what the theorems of                        *)
(* AssistantActionsProofs rest on.                                         *)
Inv == TypeOK /\ RequestsOK /\ ClaimsOK /\ TxOK /\ AppliedOK

-----------------------------------------------------------------------------
(* Properties *)

(* With one transaction around the write and its journal entry, the        *)
(* journal never misleads: a proposal reads succeeded exactly when its     *)
(* write is in the data, and then once (manage-actions.ts:130-147), even   *)
(* when the COMMIT was not answered and finish("unknown") came after it.   *)
OutcomeExact ==
  Atomic => \A a \in Actions :
    Len(applied[a]) = IF row[a].status = "succeeded" THEN 1 ELSE 0

(* A balance is only ever written to the account that was reviewed         *)
(* (record-manual-balance.ts:67-71), whatever the owner edits meanwhile.   *)
ReviewedIdentity ==
  Atomic => \A a \in Balances : \A i \in 1..Len(applied[a]) :
    applied[a][i] = row[a].witness

(* No proposal starts to execute once its deadline has passed, however     *)
(* long the approval waited (drizzle-action-repository.ts:36-44), and none *)
(* expires before it.                                                      *)
DeadlineHolds ==
  [][\A a \in Actions :
       /\ row[a].status = "pending" /\ row'[a].status = "executing"
            => clock < row[a].expiresAt
       /\ row[a].status # "expired" /\ row'[a].status = "expired"
            => row[a].expiresAt <= clock]_vars

(* What the journal reports stays true: the promise of ReviewedWrite, also *)
(* without transactions, where the write and the journal are two steps.    *)
Writes == [a \in Actions |-> Len(applied[a])]
Report == [a \in Actions |->
  CASE row[a].status \in {"absent", "pending", "executing"} -> "open"
    [] row[a].status = "succeeded" -> "done"
    [] row[a].status = "unknown" -> "unknown"
    [] OTHER -> "void"]

Reviewed == INSTANCE ReviewedWrite WITH writes <- Writes, report <- Report

AtMostOnce == Reviewed!WriteSpec

(* As long as the owner keeps opening the page, every claimed proposal     *)
(* reaches an outcome, and every pending one that the page goes on showing *)
(* does, whatever died in between (manage-actions.ts:31-48, 164-166).  Of  *)
(* a pending proposal behind a page of newer ones nothing is promised.     *)
EventuallyDecided ==
  \A a \in Actions :
    row[a].status \in {"pending", "executing"} ~>
      \/ row[a].status \in Terminal
      \/ row[a].status = "pending" /\ ~Shown(a)
=============================================================================

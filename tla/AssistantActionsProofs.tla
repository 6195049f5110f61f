----------------------- MODULE AssistantActionsProofs -----------------------
(* Proofs about AssistantActions, for every value of its constants. *)
EXTENDS AssistantActions, TLAPS

-----------------------------------------------------------------------------
(* What the small updates the actions are built from leave behind. *)

LEMMA GotoHolds ==
  ASSUME TypeOK, NEW r \in Requests, NEW p \in Places, Goto(r, p)
  PROVE  /\ request' \in [Requests -> Request]
         /\ request'[r].at = p
         /\ request'[r].action = request[r].action
         /\ request'[r].guard = request[r].guard
         /\ \A q \in Requests \ {r} : request'[q] = request[q]
<1>1. request[r] \in Request
  BY DEF TypeOK
<1>2. [request[r] EXCEPT !.at = p] \in Request
  BY <1>1 DEF Request
<1>. QED  BY <1>1, <1>2 DEF Goto, TypeOK, Request

LEMMA GotoAtHolds ==
  ASSUME TypeOK, NEW r \in Requests, NEW p \in Places, GotoAt(r, p)
  PROVE  /\ request' \in [Requests -> Request]
         /\ request'[r].at = p
         /\ request'[r].action = request[r].action
         /\ request'[r].guard = request[r].guard
         /\ \A q \in Requests \ {r} : request'[q] = request[q]
<1>1. request[r] \in Request /\ clock \in Nat
  BY DEF TypeOK
<1>2. [request[r] EXCEPT !.at = p, !.now = clock] \in Request
  BY <1>1 DEF Request
<1>. QED  BY <1>1, <1>2 DEF GotoAt, TypeOK, Request

LEMMA ReturnHolds ==
  ASSUME TypeOK, NEW r \in Requests, Return(r)
  PROVE  /\ request' \in [Requests -> Request]
         /\ request'[r].at = "idle" /\ ~ request'[r].guard
         /\ \A q \in Requests \ {r} : request'[q] = request[q]
<1>1. Idle \in Request
  BY DEF Idle, Request, Places
<1>. QED  BY <1>1 DEF Return, TypeOK, Idle

LEMMA SetStatusHolds ==
  ASSUME TypeOK, NEW a \in Actions, NEW s \in Statuses, row' = SetStatus(a, s)
  PROVE  /\ row' \in [Actions -> Row]
         /\ row'[a].status = s
         /\ row'[a].witness = row[a].witness
         /\ \A b \in Actions \ {a} : row'[b] = row[b]
<1>1. row[a] \in Row
  BY DEF TypeOK
<1>2. [row[a] EXCEPT !.status = s] \in Row
  BY <1>1 DEF Row
<1>. QED  BY <1>1, <1>2 DEF SetStatus, TypeOK, Row

LEMMA EndTxHolds ==
  ASSUME TypeOK, NEW r \in Requests, EndTx(r)
  PROVE  /\ tx' \in [Requests -> [phase : Phases, action : Actions \cup {None}]]
         /\ tx'[r].phase = "none"
         /\ \A q \in Requests \ {r} : tx'[q] = tx[q]
<1>1. NoTx \in [phase : Phases, action : Actions \cup {None}]
  BY DEF NoTx, Phases
<1>. QED  BY <1>1 DEF EndTx, TypeOK, NoTx

LEMMA PhaseHolds ==
  ASSUME TypeOK, NEW r \in Requests, NEW p \in Phases,
         tx' = [tx EXCEPT ![r].phase = p]
  PROVE  /\ tx' \in [Requests -> [phase : Phases, action : Actions \cup {None}]]
         /\ tx'[r].phase = p /\ tx'[r].action = tx[r].action
         /\ \A q \in Requests \ {r} : tx'[q] = tx[q]
<1>1. tx[r] \in [phase : Phases, action : Actions \cup {None}]
  BY DEF TypeOK
<1>2. [tx[r] EXCEPT !.phase = p] \in [phase : Phases, action : Actions \cup {None}]
  BY <1>1
<1>. QED  BY <1>1, <1>2 DEF TypeOK

(* One more write of a to the account as it is. *)
LEMMA AppendHolds ==
  ASSUME TypeOK, NEW a \in Actions,
         applied' = [applied EXCEPT ![a] = Append(@, account.number)]
  PROVE  /\ applied' \in [Actions -> Seq(Memberships)]
         /\ Len(applied'[a]) = Len(applied[a]) + 1
         /\ Len(applied[a]) = 0 => applied'[a][1] = account.number
         /\ \A b \in Actions \ {a} : applied'[b] = applied[b]
<1>1. account.number \in Memberships /\ applied[a] \in Seq(Memberships)
  BY DEF TypeOK
<1>2. applied'[a] = Append(applied[a], account.number)
  BY DEF TypeOK
<1>3. Append(applied[a], account.number) \in Seq(Memberships)
  BY <1>1
<1>4. applied' \in [Actions -> Seq(Memberships)]
  BY <1>3 DEF TypeOK
<1>5. Len(applied'[a]) = Len(applied[a]) + 1
  BY <1>1, <1>2
<1>6. Len(applied[a]) = 0 => applied'[a][1] = account.number
  BY <1>1, <1>2
<1>. QED  BY <1>4, <1>5, <1>6 DEF TypeOK

LEMMA LenNat ==
  ASSUME TypeOK, NEW a \in Actions
  PROVE  Len(applied[a]) \in Nat
BY DEF TypeOK

-----------------------------------------------------------------------------
(* Steps that touch no claimed action *)

(* What may happen to a row that nobody has claimed, or that its recovery  *)
(* takes out of the hands of a claim.                                      *)
QuietRow(a) ==
  \/ row'[a].status = row[a].status /\ row'[a].witness = row[a].witness
  \/ row[a].status = "absent" /\ row'[a].status = "pending"
  \/ /\ row[a].status = "pending" /\ row'[a].status \in {"expired", "rejected"}
     /\ row'[a].witness = row[a].witness
  \/ /\ row[a].status = "executing" /\ row'[a].status = "unknown"
     /\ ~ RowLocked(a)
     /\ row'[a].witness = row[a].witness

(* A call that has claimed nothing moves between places of that kind. *)
QuietRequest(q) ==
  \/ request'[q] = request[q]
  \/ /\ request[q].at \notin Busy /\ request'[q].at \notin Busy
     /\ ~ request'[q].guard
     /\ request'[q].at # "idle" =>
          /\ request'[q].action \in Actions
          /\ row[request'[q].action].status # "absent"
     /\ tx[q].phase = "none" \/ request'[q].at = "idle"

(* Such steps preserve the invariant. *)
LEMMA QuietStep ==
  ASSUME Inv, TypeOK', UNCHANGED applied,
         \A q \in Requests :
           tx'[q] = tx[q] \/ (tx[q].phase = "none" /\ tx'[q].phase = "none"),
         UNCHANGED account \/ ~ AccountLocked,
         \A a \in Actions : QuietRow(a),
         \A q \in Requests : QuietRequest(q)
  PROVE  Inv'
<1>0. /\ TypeOK /\ TypeOK'
      /\ \A a \in Actions : row[a] \in Row /\ row'[a] \in Row
      /\ \A a \in Actions : Len(applied[a]) \in Nat
  BY LenNat DEF Inv, TypeOK
<1>1. \A a \in Actions :
        /\ row[a].status # "absent" =>
             row'[a].status # "absent" /\ row'[a].witness = row[a].witness
        /\ row[a].status \in Claimed => row'[a].status \in Claimed
        /\ row'[a].status = "succeeded" <=> row[a].status = "succeeded"
  BY DEF QuietRow, Claimed
<1>2. \A q \in Requests, a \in Actions : WorksOn(q, a)' => WorksOn(q, a)
  BY DEF QuietRequest, WorksOn
<1>3. RequestsOK'
  <2> SUFFICES ASSUME NEW q \in Requests
               PROVE  /\ request'[q].at # "idle" =>
                           /\ request'[q].action \in Actions
                           /\ row'[request'[q].action].status # "absent"
                      /\ request'[q].at \in {"write", "rejournal"} => ~Atomic
                      /\ request'[q].guard =>
                           request'[q].at = "catch" /\ tx'[q].phase = "none"
    BY DEF RequestsOK
  <2>. QED  BY <1>1 DEF QuietRequest, Inv, RequestsOK, Busy, BeforeWrite
<1>4. ClaimsOK'
  BY <1>1, <1>2 DEF Inv, ClaimsOK
<1>5. TxOK'
  <2> SUFFICES ASSUME NEW r \in Requests
               PROVE  (/\ tx[r].phase = "written" <=> Atomic /\ request[r].at = "journal"
                       /\ tx[r].phase = "journaled" <=> request[r].at = "commit"
                       /\ tx[r].phase = "doubt" => request[r].at \in {"idle", "catch"}
                       /\ tx[r].phase # "none" =>
                            /\ Atomic
                            /\ tx[r].action \in Actions
                            /\ request[r].at # "idle" => tx[r].action = request[r].action
                            /\ \A q \in Requests : tx[q].phase # "none" => q = r
                            /\ IdentityHolds(tx[r].action)
                       /\ tx[r].phase \in {"journaled", "doubt"} =>
                            row[tx[r].action].status = "executing")'
    BY DEF TxOK
  <2>1. /\ tx'[r].phase = "written" <=> Atomic /\ request'[r].at = "journal"
        /\ tx'[r].phase = "journaled" <=> request'[r].at = "commit"
        /\ tx'[r].phase = "doubt" => request'[r].at \in {"idle", "catch"}
    BY DEF QuietRequest, Inv, TxOK, Busy
  <2>2. ASSUME tx[r].phase # "none"
        PROVE  /\ Atomic
               /\ tx'[r].action \in Actions
               /\ request'[r].at # "idle" => tx'[r].action = request'[r].action
               /\ \A q \in Requests : tx'[q].phase # "none" => q = r
    BY <2>2 DEF QuietRequest, Inv, TxOK
  <2>3. ASSUME tx[r].phase # "none"
        PROVE  IdentityHolds(tx[r].action)'
    <3>. PICK a \in Actions : a = tx[r].action
      BY <2>2, <2>3
    <3>1. UNCHANGED account
      BY <2>3 DEF AccountLocked
    <3>2. row[a].status # "absent"
      BY <1>0, <2>3 DEF Inv, ClaimsOK, WorksOn, Claimed
    <3>3. IdentityHolds(a)
      BY <2>3 DEF Inv, TxOK
    <3>4. row'[a].witness = row[a].witness
      BY <1>1, <3>2
    <3>5. tx'[r].action = a
      BY <2>3
    <3>. QED  BY <3>1, <3>3, <3>4, <3>5 DEF IdentityHolds
  <2>4. ASSUME tx[r].phase \in {"journaled", "doubt"}
        PROVE  row'[tx[r].action].status = "executing"
    <3>. PICK a \in Actions : a = tx[r].action
      BY <2>2, <2>4
    <3>1. row[a].status = "executing" /\ RowLocked(a)
      BY <2>4 DEF Inv, TxOK, RowLocked
    <3>. QED  BY <3>1 DEF QuietRow
  <2>. QED  BY <2>1, <2>2, <2>3, <2>4
<1>6. AppliedOK'
  <2>1. ASSUME NEW a \in Actions
        PROVE  (/\ Len(applied[a]) <= 1
                /\ row[a].status \in {"absent", "pending", "rejected", "expired", "failed"}
                     => Len(applied[a]) = 0
                /\ row[a].status = "succeeded" => Len(applied[a]) = 1
                /\ Atomic /\ row[a].status # "succeeded" => Len(applied[a]) = 0)'
    BY <1>1 DEF QuietRow, Inv, AppliedOK
  <2>2. ASSUME Atomic, NEW a \in Balances, NEW i \in 1..Len(applied[a])
        PROVE  applied[a][i] = row'[a].witness
    <3>1. a \in Actions
      BY ActionsAssumption
    <3>2. row[a].status # "absent"
      BY <1>0, <2>2, <3>1 DEF Inv, AppliedOK
    <3>. QED  BY <1>1, <2>2, <3>1, <3>2 DEF Inv, AppliedOK
  <2>3. ASSUME NEW r \in Requests
        PROVE  (/\ request[r].at \in BeforeWrite \/ request[r].guard
                     => Len(applied[request[r].action]) = 0
                /\ request[r].at = "journal" /\ ~Atomic
                     => Len(applied[request[r].action]) = 1)'
    BY DEF QuietRequest, Inv, AppliedOK, Busy
  <2>. QED  BY <2>1, <2>2, <2>3 DEF AppliedOK
<1>. QED  BY <1>3, <1>4, <1>5, <1>6 DEF Inv

-----------------------------------------------------------------------------
(* Steps of the one approval that works on an action *)

(* What the invariant says of r and the action a it works on. *)
OwnRequest(r, a) ==
  /\ request[r].at # "idle" => request[r].action = a
  /\ request[r].at \in {"write", "rejournal"} => ~Atomic
  /\ request[r].guard => request[r].at = "catch" /\ tx[r].phase = "none"
OwnTx(r, a) ==
  /\ tx[r].phase = "written" <=> Atomic /\ request[r].at = "journal"
  /\ tx[r].phase = "journaled" <=> request[r].at = "commit"
  /\ tx[r].phase = "doubt" => request[r].at \in {"idle", "catch"}
  /\ tx[r].phase # "none" => Atomic /\ tx[r].action = a /\ IdentityHolds(a)
  /\ tx[r].phase \in {"journaled", "doubt"} => row[a].status = "executing"
OwnApplied(r, a) ==
  /\ Len(applied[a]) <= 1
  /\ row[a].status \in {"absent", "pending", "rejected", "expired", "failed"}
       => Len(applied[a]) = 0
  /\ row[a].status = "succeeded" => Len(applied[a]) = 1
  /\ Atomic /\ row[a].status # "succeeded" => Len(applied[a]) = 0
  /\ Atomic /\ a \in Balances =>
       \A i \in 1..Len(applied[a]) : applied[a][i] = row[a].witness
  /\ request[r].at \in BeforeWrite \/ request[r].guard => Len(applied[a]) = 0
  /\ request[r].at = "journal" /\ ~Atomic => Len(applied[a]) = 1
Own(r, a) ==
  /\ OwnRequest(r, a)
  /\ request[r].at \in Busy \/ tx[r].phase # "none" => row[a].status \in Claimed
  /\ OwnTx(r, a)
  /\ OwnApplied(r, a)

(* Whoever works on a: the invariant says as much, and nobody else does. *)
LEMMA OwnHolds ==
  ASSUME Inv, NEW r \in Requests, NEW a \in Actions, WorksOn(r, a)
  PROVE  /\ Own(r, a) /\ row[a].status \in Claimed
         /\ \A q \in Requests \ {r} : ~ WorksOn(q, a)
<1>1. row[a].status \in Claimed /\ \A q \in Requests \ {r} : ~ WorksOn(q, a)
  BY DEF Inv, ClaimsOK
<1>2. request[r].at # "idle" => request[r].action = a
  BY DEF WorksOn, Inv, TxOK, Busy, BeforeWrite
<1>3. tx[r].phase # "none" => tx[r].action = a
  <2>1. CASE request[r].at \in Busy
    BY <1>2, <2>1 DEF Inv, TxOK, Busy, BeforeWrite
  <2>. QED  BY <2>1 DEF WorksOn
<1>4. OwnRequest(r, a)
  BY <1>2 DEF OwnRequest, Inv, RequestsOK
<1>5. OwnTx(r, a)
  BY <1>3 DEF OwnTx, Inv, TxOK
<1>6. OwnApplied(r, a)
  <2>1. request[r].at # "idle" \/ ~ request[r].guard
    BY <1>4 DEF OwnRequest
  <2>. QED  BY <1>2, <2>1 DEF OwnApplied, Inv, AppliedOK, BeforeWrite
<1>. QED  BY <1>1, <1>4, <1>5, <1>6 DEF Own

(* A step that touches only r and a, on which nobody else works, preserves *)
(* the invariant when it preserves it of r and a.                          *)
LEMMA OwnStep ==
  ASSUME Inv, TypeOK', NEW r \in Requests, NEW a \in Actions,
         \A q \in Requests \ {r} : ~ WorksOn(q, a),
         UNCHANGED account,
         \A q \in Requests \ {r} : request'[q] = request[q] /\ tx'[q] = tx[q],
         \A b \in Actions \ {a} : row'[b] = row[b] /\ applied'[b] = applied[b],
         row'[a].witness = row[a].witness,
         row'[a].status \notin {"absent", "pending"},
         tx'[r].phase # "none" => tx[r].phase # "none" \/ ~ AccountLocked,
         Own(r, a)'
  PROVE  Inv'
<1>1. RequestsOK'
  BY DEF Own, OwnRequest, Inv, RequestsOK
<1>2. ClaimsOK'
  <2>1. \A b \in Actions \ {a} : ~ WorksOn(r, b)'
    BY DEF Own, OwnRequest, OwnTx, WorksOn, Busy, BeforeWrite
  <2>2. \A q \in Requests \ {r}, b \in Actions : WorksOn(q, b)' <=> WorksOn(q, b)
    BY DEF WorksOn
  <2>3. WorksOn(r, a)' => row'[a].status \in Claimed
    BY DEF WorksOn, Own
  <2>. QED  BY <2>1, <2>2, <2>3 DEF Inv, ClaimsOK
<1>3. TxOK'
  <2> SUFFICES ASSUME NEW q \in Requests
               PROVE  (/\ tx[q].phase = "written" <=> Atomic /\ request[q].at = "journal"
                       /\ tx[q].phase = "journaled" <=> request[q].at = "commit"
                       /\ tx[q].phase = "doubt" => request[q].at \in {"idle", "catch"}
                       /\ tx[q].phase # "none" =>
                            /\ Atomic
                            /\ tx[q].action \in Actions
                            /\ request[q].at # "idle" => tx[q].action = request[q].action
                            /\ \A p \in Requests : tx[p].phase # "none" => p = q
                            /\ IdentityHolds(tx[q].action)
                       /\ tx[q].phase \in {"journaled", "doubt"} =>
                            row[tx[q].action].status = "executing")'
    BY DEF TxOK
  <2>1. ASSUME NEW p1 \in Requests, NEW p2 \in Requests,
               tx'[p1].phase # "none", tx'[p2].phase # "none"
        PROVE  p1 = p2
    BY <2>1 DEF Inv, TxOK, AccountLocked
  <2>2. CASE q = r
    BY <2>1, <2>2 DEF Own, OwnRequest, OwnTx
  <2>3. CASE q # r
    <3>1. tx'[q] = tx[q] /\ request'[q] = request[q]
      BY <2>3
    <3>2. tx[q].phase # "none" => tx[q].action \in Actions \ {a}
      BY <2>3 DEF WorksOn, Inv, TxOK
    <3>3. ASSUME tx[q].phase # "none"
          PROVE  IdentityHolds(tx[q].action)'
      <4>. PICK b \in Actions \ {a} : b = tx[q].action
        BY <3>2, <3>3
      <4>1. IdentityHolds(b)
        BY <3>3 DEF Inv, TxOK
      <4>. QED  BY <3>1, <4>1 DEF IdentityHolds
    <3>. QED  BY <2>1, <3>1, <3>2, <3>3 DEF Inv, TxOK
  <2>. QED  BY <2>2, <2>3
<1>4. AppliedOK'
  <2>1. ASSUME NEW b \in Actions \ {a}
        PROVE  (/\ Len(applied[b]) <= 1
                /\ row[b].status \in {"absent", "pending", "rejected", "expired", "failed"}
                     => Len(applied[b]) = 0
                /\ row[b].status = "succeeded" => Len(applied[b]) = 1
                /\ Atomic /\ row[b].status # "succeeded" => Len(applied[b]) = 0
                /\ Atomic /\ b \in Balances =>
                     \A i \in 1..Len(applied[b]) : applied[b][i] = row[b].witness)'
    BY <2>1 DEF Inv, AppliedOK
  <2>2. ASSUME NEW q \in Requests \ {r}
        PROVE  (/\ request[q].at \in BeforeWrite \/ request[q].guard
                     => Len(applied[request[q].action]) = 0
                /\ request[q].at = "journal" /\ ~Atomic
                     => Len(applied[request[q].action]) = 1)'
    <3>1. request'[q] = request[q]
      OBVIOUS
    <3>2. request[q].at \in Busy \/ request[q].guard =>
            request[q].action \in Actions \ {a}
      BY DEF WorksOn, Inv, RequestsOK, Busy, BeforeWrite
    <3>. QED  BY <3>1, <3>2 DEF Inv, AppliedOK, Busy
  <2>3. (/\ request[r].at \in BeforeWrite \/ request[r].guard
              => Len(applied[request[r].action]) = 0
         /\ request[r].at = "journal" /\ ~Atomic
              => Len(applied[request[r].action]) = 1)'
    BY DEF Own, OwnRequest, OwnApplied, BeforeWrite
  <2>. QED  BY <2>1, <2>2, <2>3 DEF Own, OwnApplied, AppliedOK
<1>. QED  BY <1>1, <1>2, <1>3, <1>4 DEF Inv

-----------------------------------------------------------------------------
(* The invariant: initially, and across every action. *)

LEMMA InvInit == Init => Inv
<1> SUFFICES ASSUME Init PROVE Inv
  OBVIOUS
<1>1. TypeOK
  <2>1. /\ Idle \in Request
        /\ NoTx \in [phase : Phases, action : Actions \cup {None}]
    BY DEF Idle, Request, Places, NoTx, Phases
  <2>2. [status |-> "absent", expiresAt |-> 0, updatedAt |-> 0,
         witness |-> None] \in Row
    BY DEF Row, Statuses
  <2>3. row \in [Actions -> Row]
    BY <2>2 DEF Init
  <2>4. applied \in [Actions -> Seq(Memberships)]
    BY DEF Init
  <2>. QED  BY <2>1, <2>3, <2>4 DEF Init, TypeOK
<1>2. \A r \in Requests :
        request[r].at = "idle" /\ ~ request[r].guard /\ tx[r].phase = "none"
  BY DEF Init, Idle, NoTx
<1>3. \A a \in Actions : row[a].status = "absent" /\ applied[a] = <<>>
  BY DEF Init
<1>4. RequestsOK
  BY <1>2 DEF RequestsOK
<1>5. ClaimsOK
  BY <1>2 DEF ClaimsOK, WorksOn, Busy, BeforeWrite
<1>6. TxOK
  BY <1>2 DEF TxOK
<1>7. AppliedOK
  BY <1>2, <1>3 DEF AppliedOK, BeforeWrite
<1>. QED  BY <1>1, <1>4, <1>5, <1>6, <1>7 DEF Inv

(* The recovery only takes rows whose lock nobody holds. *)
LEMMA RefreshHolds ==
  ASSUME TypeOK, Refresh
  PROVE  row' \in [Actions -> Row] /\ \A a \in Actions : QuietRow(a)
<1>1. \A a \in Actions : row[a] \in Row
  BY DEF TypeOK
<1>2. \A a \in Actions : [row[a] EXCEPT !.status = "unknown"] \in Row
  BY <1>1 DEF Row, Statuses, Terminal
<1>3. row' \in [Actions -> Row]
  BY <1>1, <1>2 DEF Refresh
<1>4. \A a \in Actions :
        row'[a] = IF Lapsed(a) THEN [row[a] EXCEPT !.status = "unknown"] ELSE row[a]
  BY DEF Refresh
<1>5. \A a \in Actions : Lapsed(a) => row[a].status = "executing" /\ ~ RowLocked(a)
  BY DEF Refresh, Lapsed
<1>. QED  BY <1>1, <1>3, <1>4, <1>5 DEF QuietRow, Row

LEMMA TickInv ==
  ASSUME Inv, Tick
  PROVE  Inv'
<1>1. TypeOK'
  BY DEF Tick, Inv, TypeOK
<1>. QED
  BY <1>1, QuietStep DEF Tick, QuietRow, QuietRequest

LEMMA EditAccountInv ==
  ASSUME Inv, EditAccount
  PROVE  Inv'
<1>1. account' \in [number : Memberships, live : BOOLEAN]
  <2>1. account \in [number : Memberships, live : BOOLEAN]
    BY DEF Inv, TypeOK
  <2>2. CASE \E m \in Memberships : account' = [account EXCEPT !.number = m]
    BY <2>1, <2>2
  <2>3. CASE account' = [account EXCEPT !.live = ~ account.live]
    BY <2>1, <2>3
  <2>. QED  BY <2>2, <2>3 DEF EditAccount
<1>2. TypeOK'
  BY <1>1 DEF EditAccount, Inv, TypeOK
<1>. QED
  BY <1>2, QuietStep DEF EditAccount, QuietRow, QuietRequest

LEMMA ProposeInv ==
  ASSUME Inv, NEW a \in Actions, Propose(a)
  PROVE  Inv'
<1> DEFINE new == [status |-> "pending", expiresAt |-> clock + Ttl,
                   updatedAt |-> clock,
                   witness |-> IF a \in Balances THEN account.number ELSE None]
<1>1. new \in Row
  BY ActionsAssumption DEF Inv, TypeOK, Row, Statuses
<1>2. new.status = "pending"
  OBVIOUS
<1>3. row[a].status = "absent" /\ row' = [row EXCEPT ![a] = new]
  BY DEF Propose
<1> HIDE DEF new
<1>4. TypeOK'
  BY <1>1, <1>3 DEF Propose, Inv, TypeOK
<1>5. row'[a] = new /\ \A b \in Actions \ {a} : row'[b] = row[b]
  BY <1>3 DEF Inv, TypeOK
<1>6. \A b \in Actions : QuietRow(b)
  BY <1>2, <1>3, <1>5 DEF QuietRow
<1>. QED
  BY <1>4, <1>6, QuietStep DEF Propose, QuietRequest

LEMMA ListRefreshInv ==
  ASSUME Inv, ListRefresh
  PROVE  Inv'
<1>1. row' \in [Actions -> Row] /\ \A a \in Actions : QuietRow(a)
  BY RefreshHolds DEF ListRefresh, Inv
<1>2. TypeOK'
  BY <1>1 DEF ListRefresh, Inv, TypeOK
<1>. QED
  BY <1>1, <1>2, QuietStep DEF ListRefresh, QuietRequest

LEMMA ListExpireInv ==
  ASSUME Inv, NEW a \in Actions, ListExpire(a)
  PROVE  Inv'
<1>1. /\ row' \in [Actions -> Row]
      /\ row'[a].status = "expired" /\ row'[a].witness = row[a].witness
      /\ \A b \in Actions \ {a} : row'[b] = row[b]
  BY SetStatusHolds DEF ListExpire, Inv, Statuses, Terminal
<1>2. TypeOK'
  BY <1>1 DEF ListExpire, Inv, TypeOK
<1>3. \A b \in Actions : QuietRow(b)
  BY <1>1 DEF ListExpire, QuietRow
<1>. QED
  BY <1>2, <1>3, QuietStep DEF ListExpire, QuietRequest

LEMMA BeginInv ==
  ASSUME Inv, NEW r \in Requests, NEW a \in Actions,
         NEW place \in {"find", "findReject"}, Begin(r, a, place)
  PROVE  Inv'
<1> DEFINE new == [Idle EXCEPT !.at = place, !.action = a]
<1>1. /\ new \in Request
      /\ new.at = place /\ new.action = a /\ ~ new.guard
  BY DEF Idle, Request, Places
<1>2. request' = [request EXCEPT ![r] = new]
  BY DEF Begin
<1> HIDE DEF new
<1>3. row' \in [Actions -> Row] /\ \A b \in Actions : QuietRow(b)
  BY RefreshHolds DEF Begin, Inv
<1>4. TypeOK'
  BY <1>1, <1>2, <1>3 DEF Begin, Inv, TypeOK
<1>5. request'[r] = new /\ \A q \in Requests \ {r} : request'[q] = request[q]
  BY <1>2 DEF Inv, TypeOK
<1>6. QuietRequest(r)
  <2>1. request[r].at = "idle" /\ tx[r].phase = "none"
    BY DEF Begin, NoTx
  <2>2. "idle" \notin Busy /\ place \notin Busy
    BY DEF Busy, BeforeWrite
  <2>3. row[a].status # "absent"
    BY DEF Begin
  <2>. QED  BY <1>1, <1>5, <2>1, <2>2, <2>3 DEF QuietRequest
<1>7. \A q \in Requests : QuietRequest(q)
  BY <1>5, <1>6 DEF QuietRequest
<1>. QED
  BY <1>3, <1>4, <1>7, QuietStep DEF Begin

(* A call that has claimed nothing has no transaction, and is not in doubt *)
(* about an exception.                                                     *)
LEMMA EarlyHolds ==
  ASSUME Inv, NEW r \in Requests, request[r].at \notin Busy \cup {"idle"}
  PROVE  /\ request[r].action \in Actions
         /\ row[request[r].action].status # "absent"
         /\ ~ request[r].guard
         /\ tx[r].phase = "none"
<1>1. tx[r].phase \in Phases /\ request[r].guard \in BOOLEAN
  BY DEF Inv, TypeOK, Request
<1>2. tx[r].phase = "none"
  BY <1>1 DEF Inv, TxOK, Phases, Busy
<1>. QED  BY <1>1, <1>2 DEF Inv, RequestsOK, Busy

LEMMA FindInv ==
  ASSUME Inv, NEW r \in Requests, Find(r) \/ FindReject(r)
  PROVE  Inv'
<1>1. /\ request[r].action \in Actions
      /\ row[request[r].action].status # "absent"
      /\ ~ request[r].guard
      /\ tx[r].phase = "none"
      /\ request[r].at \notin Busy
  BY EarlyHolds DEF Find, FindReject, Busy, BeforeWrite
<1>2. /\ request' \in [Requests -> Request]
      /\ ~ request'[r].guard /\ request'[r].at \notin Busy
      /\ request'[r].at # "idle" => request'[r].action = request[r].action
      /\ \A q \in Requests \ {r} : request'[q] = request[q]
  <2>1. CASE Return(r)
    BY <2>1, ReturnHolds DEF Inv, Busy, BeforeWrite
  <2>2. ASSUME NEW p \in {"expire", "claim", "reject"}, GotoAt(r, p)
        PROVE  <1>2!:
    <3>1. p \in Places /\ p \notin Busy
      BY DEF Places, Busy, BeforeWrite
    <3>. QED  BY <1>1, <2>2, <3>1, GotoAtHolds DEF Inv
  <2>. QED  BY <2>1, <2>2 DEF Find, FindReject
<1>3. UNCHANGED <<clock, account, row, tx, applied>>
  BY DEF Find, FindReject
<1>4. TypeOK'
  BY <1>2, <1>3 DEF Inv, TypeOK
<1>5. \A a \in Actions : QuietRow(a)
  BY <1>3 DEF QuietRow
<1>6. \A q \in Requests : QuietRequest(q)
  BY <1>1, <1>2 DEF QuietRequest
<1>. QED  BY <1>3, <1>4, <1>5, <1>6, QuietStep

LEMMA SettlePendingInv ==
  ASSUME Inv, NEW r \in Requests, SettlePending(r)
  PROVE  Inv'
<1>1. /\ request[r].action \in Actions
      /\ tx[r].phase = "none"
      /\ request[r].at \notin Busy
  BY EarlyHolds DEF SettlePending, Busy, BeforeWrite
<1>. PICK a \in Actions : a = request[r].action
  BY <1>1
<1>2. /\ request' \in [Requests -> Request]
      /\ request'[r].at = "idle" /\ ~ request'[r].guard
      /\ \A q \in Requests \ {r} : request'[q] = request[q]
  BY ReturnHolds DEF SettlePending, Inv
<1>3. /\ row' \in [Actions -> Row]
      /\ \A b \in Actions : QuietRow(b)
  <2>1. CASE row' = row
    BY <2>1 DEF QuietRow, Inv, TypeOK
  <2>2. ASSUME NEW s \in {"expired", "rejected"},
               row[a].status = "pending", row' = SetStatus(a, s)
        PROVE  <1>3!:
    <3>1. /\ row' \in [Actions -> Row]
          /\ row'[a].status = s /\ row'[a].witness = row[a].witness
          /\ \A b \in Actions \ {a} : row'[b] = row[b]
      BY <2>2, SetStatusHolds DEF Inv, Statuses, Terminal
    <3>. QED  BY <2>2, <3>1 DEF QuietRow
  <2>. QED  BY <2>1, <2>2 DEF SettlePending
<1>4. UNCHANGED <<clock, account, tx, applied>>
  BY DEF SettlePending
<1>5. TypeOK'
  BY <1>2, <1>3, <1>4 DEF Inv, TypeOK
<1>6. \A q \in Requests : QuietRequest(q)
  BY <1>1, <1>2 DEF QuietRequest, Busy, BeforeWrite
<1>. QED  BY <1>3, <1>4, <1>5, <1>6, QuietStep

LEMMA ThrowHolds ==
  ASSUME TypeOK, NEW r \in Requests, NEW known \in BOOLEAN, Throw(r, known)
  PROVE  /\ request' \in [Requests -> Request]
         /\ request'[r].at = "catch"
         /\ request'[r].action = request[r].action
         /\ request'[r].guard = known
         /\ \A q \in Requests \ {r} : request'[q] = request[q]
         /\ tx' \in [Requests -> [phase : Phases, action : Actions \cup {None}]]
         /\ tx'[r].phase = "none"
         /\ \A q \in Requests \ {r} : tx'[q] = tx[q]
<1>1. request[r] \in Request
  BY DEF TypeOK
<1>2. [request[r] EXCEPT !.at = "catch", !.guard = known] \in Request
  BY <1>1 DEF Request, Places
<1>3. request' = [request EXCEPT ![r] =
                    [request[r] EXCEPT !.at = "catch", !.guard = known]]
  BY DEF Throw, TypeOK
<1>4. /\ request' \in [Requests -> Request]
      /\ request'[r].at = "catch"
      /\ request'[r].action = request[r].action
      /\ request'[r].guard = known
      /\ \A q \in Requests \ {r} : request'[q] = request[q]
  BY <1>1, <1>2, <1>3 DEF TypeOK, Request
<1>. QED  BY <1>4, EndTxHolds DEF Throw

(* finish: the row takes the outcome, or stays. *)
LEMMA FinishedHolds ==
  ASSUME TypeOK, NEW a \in Actions, NEW s \in Statuses, row' = FinishedRow(a, s)
  PROVE  /\ row' \in [Actions -> Row]
         /\ row'[a].status = IF FinishApplies(a) THEN s ELSE row[a].status
         /\ row'[a].witness = row[a].witness
         /\ \A b \in Actions \ {a} : row'[b] = row[b]
<1>1. CASE FinishApplies(a)
  BY <1>1, SetStatusHolds DEF FinishedRow
<1>2. CASE ~ FinishApplies(a)
  BY <1>2 DEF FinishedRow, TypeOK
<1>. QED  BY <1>1, <1>2

(* Everything known of a call between its claim and its answer. *)
LEMMA BusyHolds ==
  ASSUME Inv, NEW r \in Requests, request[r].at \in Busy
  PROVE  /\ request[r].action \in Actions
         /\ WorksOn(r, request[r].action)
         /\ Own(r, request[r].action)
         /\ row[request[r].action].status \in Claimed
         /\ \A q \in Requests \ {r} : ~ WorksOn(q, request[r].action)
         /\ tx[r].phase \in Phases
<1>1. request[r].action \in Actions
  BY DEF Inv, RequestsOK, Busy, BeforeWrite
<1>2. WorksOn(r, request[r].action)
  BY DEF WorksOn
<1>. QED  BY <1>1, <1>2, OwnHolds DEF Inv, TypeOK

LEMMA ClaimInv ==
  ASSUME Inv, NEW r \in Requests, Claim(r)
  PROVE  Inv'
<1>1. /\ request[r].action \in Actions
      /\ row[request[r].action].status # "absent"
      /\ ~ request[r].guard
      /\ tx[r].phase = "none"
      /\ request[r].at \notin Busy
  BY EarlyHolds DEF Claim, Busy, BeforeWrite
<1>. PICK a \in Actions : a = request[r].action
  BY <1>1
<1>2. UNCHANGED <<clock, account, tx, applied>>
  BY DEF Claim
<1>3. ASSUME Return(r),
             row' = row \/ (row[a].status = "pending" /\ row' = SetStatus(a, "expired"))
      PROVE  Inv'
  <2>1. /\ request' \in [Requests -> Request]
        /\ request'[r].at = "idle" /\ ~ request'[r].guard
        /\ \A q \in Requests \ {r} : request'[q] = request[q]
    BY <1>3, ReturnHolds DEF Inv
  <2>2. row' \in [Actions -> Row] /\ \A b \in Actions : QuietRow(b)
    <3>1. CASE row' = row
      BY <3>1 DEF QuietRow, Inv, TypeOK
    <3>2. CASE row[a].status = "pending" /\ row' = SetStatus(a, "expired")
      <4>1. /\ row' \in [Actions -> Row]
            /\ row'[a].status = "expired" /\ row'[a].witness = row[a].witness
            /\ \A b \in Actions \ {a} : row'[b] = row[b]
        BY <3>2, SetStatusHolds DEF Inv, Statuses, Terminal
      <4>. QED  BY <3>2, <4>1 DEF QuietRow
    <3>. QED  BY <1>3, <3>1, <3>2
  <2>3. TypeOK'
    BY <1>2, <2>1, <2>2 DEF Inv, TypeOK
  <2>4. \A q \in Requests : QuietRequest(q)
    BY <1>1, <2>1 DEF QuietRequest, Busy, BeforeWrite
  <2>. QED  BY <1>2, <2>2, <2>3, <2>4, QuietStep
<1>4. ASSUME row[a].status = "pending", Goto(r, "check"), NEW t \in Nat,
             row' = [row EXCEPT ![a].status = "executing", ![a].updatedAt = t]
      PROVE  Inv'
  <2>1. /\ request' \in [Requests -> Request]
        /\ request'[r].at = "check" /\ request'[r].action = a
        /\ ~ request'[r].guard
        /\ \A q \in Requests \ {r} : request'[q] = request[q]
    BY <1>1, <1>4, GotoHolds DEF Inv, Places
  <2>2. /\ row' \in [Actions -> Row]
        /\ row'[a].status = "executing" /\ row'[a].witness = row[a].witness
        /\ \A b \in Actions \ {a} : row'[b] = row[b]
    <3>1. row[a] \in Row
      BY DEF Inv, TypeOK
    <3>2. [row[a] EXCEPT !.status = "executing", !.updatedAt = t] \in Row
      BY <1>4, <3>1 DEF Row, Statuses
    <3>3. row' = [row EXCEPT ![a] =
                    [row[a] EXCEPT !.status = "executing", !.updatedAt = t]]
      BY <1>4 DEF Inv, TypeOK
    <3>. QED  BY <3>1, <3>2, <3>3 DEF Inv, TypeOK, Row
  <2>3. TypeOK'
    BY <1>2, <2>1, <2>2 DEF Inv, TypeOK
  <2>4. \A q \in Requests \ {r} : ~ WorksOn(q, a)
    BY <1>4 DEF Inv, ClaimsOK, Claimed
  <2>5. Len(applied[a]) = 0
    BY <1>4 DEF Inv, AppliedOK
  <2>6. Own(r, a)'
    <3>1. OwnRequest(r, a)'
      BY <2>1 DEF OwnRequest
    <3>2. OwnTx(r, a)'
      BY <1>1, <1>2, <2>1 DEF OwnTx
    <3>3. OwnApplied(r, a)'
      BY <1>2, <2>1, <2>2, <2>5 DEF OwnApplied
    <3>. QED  BY <2>2, <3>1, <3>2, <3>3 DEF Own, Claimed
  <2>. QED  BY <1>1, <1>2, <2>1, <2>2, <2>3, <2>4, <2>6, OwnStep
<1>5. MaxOf(request[r].now, clock) \in Nat
  BY DEF MaxOf, Inv, TypeOK, Request
<1>6. \/ /\ Return(r)
         /\ \/ row' = row
            \/ /\ row[request[r].action].status = "pending"
               /\ row' = SetStatus(request[r].action, "expired")
      \/ /\ row[request[r].action].status = "pending" /\ Goto(r, "check")
         /\ row' = [row EXCEPT
              ![request[r].action].status = "executing",
              ![request[r].action].updatedAt = MaxOf(request[r].now, clock)]
  BY DEF Claim
<1>7. CASE Return(r) /\ \/ row' = row
                        \/ /\ row[request[r].action].status = "pending"
                           /\ row' = SetStatus(request[r].action, "expired")
  <2>1. row' = row \/ (row[a].status = "pending" /\ row' = SetStatus(a, "expired"))
    BY <1>7
  <2>. QED  BY <1>3, <1>7, <2>1
<1>8. CASE /\ row[request[r].action].status = "pending" /\ Goto(r, "check")
           /\ row' = [row EXCEPT
                ![request[r].action].status = "executing",
                ![request[r].action].updatedAt = MaxOf(request[r].now, clock)]
  <2>1. row' = [row EXCEPT ![a].status = "executing",
                           ![a].updatedAt = MaxOf(request[r].now, clock)]
    BY <1>8
  <2>. QED  BY <1>4, <1>5, <1>8, <2>1
<1>. QED  BY <1>6, <1>7, <1>8

LEMMA CheckInv ==
  ASSUME Inv, NEW r \in Requests, Check(r)
  PROVE  Inv'
<1>1. request[r].at = "check" /\ request[r].at \in Busy
  BY DEF Check, Busy, BeforeWrite
<1>. PICK a \in Actions : a = request[r].action
  BY <1>1, BusyHolds
<1>2. /\ Own(r, a) /\ row[a].status \in Claimed
      /\ \A q \in Requests \ {r} : ~ WorksOn(q, a)
      /\ tx[r].phase = "none"
  BY <1>1, BusyHolds DEF Inv, TxOK, Phases
<1>3. UNCHANGED <<clock, account, row, tx, applied>>
  BY DEF Check
<1>4. /\ request' \in [Requests -> Request]
      /\ request'[r].at \in {"execute", "refuse"}
      /\ request'[r].action = a /\ request'[r].guard = request[r].guard
      /\ \A q \in Requests \ {r} : request'[q] = request[q]
  BY GotoHolds DEF Check, Inv, Places
<1>5. TypeOK'
  BY <1>3, <1>4 DEF Inv, TypeOK
<1>6. Own(r, a)'
  <2>1. OwnRequest(r, a)'
    BY <1>1, <1>2, <1>4 DEF Own, OwnRequest
  <2>2. OwnTx(r, a)'
    BY <1>2, <1>3, <1>4 DEF OwnTx
  <2>3. OwnApplied(r, a)'
    BY <1>1, <1>2, <1>3, <1>4 DEF Own, OwnApplied, BeforeWrite
  <2>. QED  BY <1>2, <1>3, <2>1, <2>2, <2>3 DEF Own
<1>. QED  BY <1>2, <1>3, <1>4, <1>5, <1>6, OwnStep DEF Claimed

LEMMA RefuseInv ==
  ASSUME Inv, NEW r \in Requests, Refuse(r)
  PROVE  Inv'
<1>1. request[r].at = "refuse" /\ request[r].at \in Busy
  BY DEF Refuse, Busy, BeforeWrite
<1>. PICK a \in Actions : a = request[r].action
  BY <1>1, BusyHolds
<1>2. /\ Own(r, a) /\ row[a].status \in Claimed
      /\ \A q \in Requests \ {r} : ~ WorksOn(q, a)
      /\ tx[r].phase = "none"
  BY <1>1, BusyHolds DEF Inv, TxOK, Phases
<1>3. UNCHANGED <<clock, account, tx, applied>>
  BY DEF Refuse
<1>4. /\ request' \in [Requests -> Request]
      /\ request'[r].at = "idle" /\ ~ request'[r].guard
      /\ \A q \in Requests \ {r} : request'[q] = request[q]
  BY ReturnHolds DEF Refuse, Inv
<1>5. /\ row' \in [Actions -> Row]
      /\ row'[a].status = IF FinishApplies(a) THEN "failed" ELSE row[a].status
      /\ row'[a].witness = row[a].witness
      /\ \A b \in Actions \ {a} : row'[b] = row[b]
  BY FinishedHolds DEF Refuse, Inv, Statuses, Terminal
<1>6. TypeOK'
  BY <1>3, <1>4, <1>5 DEF Inv, TypeOK
<1>7. Own(r, a)'
  <2>1. OwnRequest(r, a)'
    BY <1>4 DEF OwnRequest
  <2>2. OwnTx(r, a)'
    BY <1>2, <1>3, <1>4 DEF OwnTx
  <2>3. OwnApplied(r, a)'
    BY <1>1, <1>2, <1>3, <1>4, <1>5
    DEF Own, OwnApplied, BeforeWrite, FinishApplies
  <2>. QED
    BY <1>2, <1>3, <1>4, <2>1, <2>2, <2>3 DEF Own, Busy, BeforeWrite
<1>. QED
  BY <1>2, <1>3, <1>4, <1>5, <1>6, <1>7, OwnStep DEF Claimed, FinishApplies

LEMMA ExecuteInv ==
  ASSUME Inv, NEW r \in Requests, Execute(r)
  PROVE  Inv'
<1>1. /\ request[r].at = "execute" /\ request[r].at \in Busy
      /\ ~ AccountLocked
  BY DEF Execute, Busy, BeforeWrite
<1>. PICK a \in Actions : a = request[r].action
  BY <1>1, BusyHolds
<1>2. /\ Own(r, a) /\ row[a].status \in Claimed
      /\ \A q \in Requests \ {r} : ~ WorksOn(q, a)
      /\ tx[r].phase = "none"
  BY <1>1, BusyHolds DEF Inv, TxOK, Phases
<1>3. UNCHANGED <<clock, account, row, applied>>
  BY DEF Execute
<1>4. Len(applied[a]) = 0 /\ ~ request[r].guard
  BY <1>1, <1>2 DEF Own, OwnApplied, OwnRequest, BeforeWrite
<1>5. /\ request' \in [Requests -> Request]
      /\ tx' \in [Requests -> [phase : Phases, action : Actions \cup {None}]]
      /\ request'[r].action = a
      /\ \A q \in Requests \ {r} : request'[q] = request[q] /\ tx'[q] = tx[q]
      /\ \/ /\ Atomic /\ IdentityHolds(a) /\ request'[r].at = "journal"
            /\ tx'[r] = [phase |-> "written", action |-> a]
            /\ ~ request'[r].guard
         \/ /\ ~ Atomic /\ request'[r].at = "write"
            /\ tx'[r].phase = "none" /\ ~ request'[r].guard
         \/ /\ request'[r].at = "catch" /\ tx'[r].phase = "none"
  <2>1. CASE /\ IdentityHolds(a) /\ Atomic /\ Goto(r, "journal")
             /\ tx' = [tx EXCEPT ![r] = [phase |-> "written", action |-> a]]
    <3>1. [phase |-> "written", action |-> a]
            \in [phase : Phases, action : Actions \cup {None}]
      BY DEF Phases
    <3>2. /\ tx' \in [Requests -> [phase : Phases, action : Actions \cup {None}]]
          /\ tx'[r] = [phase |-> "written", action |-> a]
          /\ \A q \in Requests \ {r} : tx'[q] = tx[q]
      BY <2>1, <3>1 DEF Inv, TypeOK
    <3>3. /\ request' \in [Requests -> Request]
          /\ request'[r].at = "journal" /\ request'[r].action = a
          /\ ~ request'[r].guard
          /\ \A q \in Requests \ {r} : request'[q] = request[q]
      BY <1>4, <2>1, GotoHolds DEF Inv, Places
    <3>. QED  BY <2>1, <3>2, <3>3
  <2>2. CASE ~ Atomic /\ Goto(r, "write") /\ UNCHANGED tx
    <3>1. /\ request' \in [Requests -> Request]
          /\ request'[r].at = "write" /\ request'[r].action = a
          /\ ~ request'[r].guard
          /\ \A q \in Requests \ {r} : request'[q] = request[q]
      BY <1>4, <2>2, GotoHolds DEF Inv, Places
    <3>. QED  BY <1>2, <2>2, <3>1 DEF Inv, TypeOK
  <2>3. ASSUME NEW known \in BOOLEAN, Throw(r, known)
        PROVE  <1>5!:
    BY <2>3, ThrowHolds DEF Inv
  <2>. QED  BY <2>1, <2>2, <2>3 DEF Execute
<1>6. TypeOK'
  BY <1>3, <1>5 DEF Inv, TypeOK
<1>7. Own(r, a)'
  <2>1. OwnRequest(r, a)'
    BY <1>5 DEF OwnRequest
  <2>2. OwnTx(r, a)'
    <3>1. IdentityHolds(a)' <=> IdentityHolds(a)
      BY <1>3 DEF IdentityHolds
    <3>. QED  BY <1>5, <3>1 DEF OwnTx
  <2>3. OwnApplied(r, a)'
    BY <1>2, <1>3, <1>4, <1>5 DEF Own, OwnApplied
  <2>. QED  BY <1>2, <1>3, <2>1, <2>2, <2>3 DEF Own
<1>. QED
  BY <1>1, <1>2, <1>3, <1>5, <1>6, <1>7, OwnStep DEF Claimed

LEMMA WriteInv ==
  ASSUME Inv, NEW r \in Requests, Write(r)
  PROVE  Inv'
<1>1. request[r].at = "write" /\ request[r].at \in Busy
  BY DEF Write, Busy, BeforeWrite
<1>. PICK a \in Actions : a = request[r].action
  BY <1>1, BusyHolds
<1>2. /\ Own(r, a) /\ row[a].status \in Claimed
      /\ \A q \in Requests \ {r} : ~ WorksOn(q, a)
      /\ tx[r].phase = "none"
  BY <1>1, BusyHolds DEF Inv, TxOK, Phases
<1>3. UNCHANGED <<clock, account, row>>
  BY DEF Write
<1>4. ~ Atomic /\ Len(applied[a]) = 0 /\ ~ request[r].guard
  BY <1>1, <1>2 DEF Own, OwnApplied, OwnRequest, BeforeWrite
<1>5. row[a].status \in {"executing", "unknown"}
  BY <1>2, <1>4 DEF Own, OwnApplied, Claimed
<1>6. /\ applied' \in [Actions -> Seq(Memberships)]
      /\ \A b \in Actions \ {a} : applied'[b] = applied[b]
      /\ \/ Len(applied'[a]) = 1
         \/ Len(applied'[a]) = 0 /\ Throw(r, FALSE)
  <2>1. CASE applied' = [applied EXCEPT ![a] = Append(@, account.number)]
    <3>1. TypeOK
      BY DEF Inv
    <3>2. /\ applied' \in [Actions -> Seq(Memberships)]
          /\ Len(applied'[a]) = Len(applied[a]) + 1
          /\ \A b \in Actions \ {a} : applied'[b] = applied[b]
      BY <2>1, <3>1, AppendHolds
    <3>. QED  BY <1>4, <3>2
  <2>2. CASE Throw(r, FALSE) /\ UNCHANGED applied
    BY <1>4, <2>2 DEF Inv, TypeOK
  <2>. QED  BY <2>1, <2>2 DEF Write
<1>7. /\ request' \in [Requests -> Request]
      /\ tx' \in [Requests -> [phase : Phases, action : Actions \cup {None}]]
      /\ request'[r].action = a /\ ~ request'[r].guard
      /\ \A q \in Requests \ {r} : request'[q] = request[q] /\ tx'[q] = tx[q]
      /\ tx'[r].phase = "none"
      /\ request'[r].at \in {"journal", "catch"}
      /\ Throw(r, FALSE) => request'[r].at = "catch"
  <2>1. ASSUME Throw(r, FALSE) PROVE <1>7!:
    BY <2>1, ThrowHolds DEF Inv
  <2>2. CASE ~ Throw(r, FALSE)
    <3>1. Goto(r, "journal") /\ UNCHANGED tx
      BY <2>2 DEF Write
    <3>. QED  BY <1>2, <1>4, <2>2, <3>1, GotoHolds DEF Inv, TypeOK, Places
  <2>. QED  BY <2>1, <2>2
<1>8. TypeOK'
  BY <1>3, <1>6, <1>7 DEF Inv, TypeOK
<1>9. Own(r, a)'
  <2>1. OwnRequest(r, a)'
    BY <1>7 DEF OwnRequest
  <2>2. OwnTx(r, a)'
    BY <1>4, <1>7 DEF OwnTx
  <2>3. OwnApplied(r, a)'
    <3>1. row'[a].status \in {"executing", "unknown"}
      BY <1>3, <1>5
    <3>2. request'[r].at \notin BeforeWrite
      BY <1>7 DEF BeforeWrite
    <3>3. request'[r].at = "journal" => Len(applied'[a]) = 1
      BY <1>6, <1>7
    <3>4. Len(applied'[a]) <= 1
      <4>1. Len(applied'[a]) \in {0, 1}
        BY <1>6
      <4>2. \A n \in {0, 1} : n <= 1
        OBVIOUS
      <4>. QED  BY <4>1, <4>2, Zenon
    <3>. QED  BY <1>4, <1>7, <3>1, <3>2, <3>3, <3>4 DEF OwnApplied
  <2>. QED  BY <1>2, <1>3, <2>1, <2>2, <2>3 DEF Own
<1>. QED
  BY <1>2, <1>3, <1>6, <1>7, <1>8, <1>9, OwnStep DEF Claimed

LEMMA JournalInv ==
  ASSUME Inv, NEW r \in Requests, Journal(r)
  PROVE  Inv'
<1>1. request[r].at = "journal" /\ request[r].at \in Busy
  BY DEF Journal, Busy, BeforeWrite
<1>. PICK a \in Actions : a = request[r].action
  BY <1>1, BusyHolds
<1>2. /\ Own(r, a) /\ row[a].status \in Claimed
      /\ \A q \in Requests \ {r} : ~ WorksOn(q, a)
      /\ TypeOK
  BY <1>1, BusyHolds DEF Inv
<1>3. UNCHANGED <<clock, account, applied>>
  BY DEF Journal
<1>4. ~ request[r].guard
  BY <1>1, <1>2 DEF Own, OwnRequest
<1>5. CASE Atomic
  <2>1. UNCHANGED row
    BY <1>5 DEF Journal
  <2>2. /\ request' \in [Requests -> Request]
        /\ tx' \in [Requests -> [phase : Phases, action : Actions \cup {None}]]
        /\ request'[r].action = a /\ ~ request'[r].guard
        /\ \A q \in Requests \ {r} : request'[q] = request[q] /\ tx'[q] = tx[q]
        /\ \/ /\ row[a].status = "executing"
              /\ request'[r].at = "commit"
              /\ tx'[r].phase = "journaled" /\ tx'[r].action = tx[r].action
           \/ request'[r].at = "catch" /\ tx'[r].phase = "none"
    <3>1. CASE Throw(r, FALSE)
      BY <1>2, <3>1, ThrowHolds
    <3>2. CASE /\ FinishApplies(a) /\ Goto(r, "commit")
               /\ tx' = [tx EXCEPT ![r].phase = "journaled"]
      <4>1. "journaled" \in Phases /\ "commit" \in Places
        BY DEF Phases, Places
      <4>2. /\ request' \in [Requests -> Request]
            /\ request'[r].at = "commit" /\ request'[r].action = a
            /\ ~ request'[r].guard
            /\ \A q \in Requests \ {r} : request'[q] = request[q]
        BY <1>2, <1>4, <3>2, <4>1, GotoHolds
      <4>3. /\ tx' \in [Requests -> [phase : Phases, action : Actions \cup {None}]]
            /\ tx'[r].phase = "journaled" /\ tx'[r].action = tx[r].action
            /\ \A q \in Requests \ {r} : tx'[q] = tx[q]
        BY <1>2, <3>2, <4>1, PhaseHolds
      <4>. QED  BY <3>2, <4>2, <4>3 DEF FinishApplies
    <3>. QED  BY <1>5, <3>1, <3>2 DEF Journal
  <2>3. TypeOK'
    BY <1>3, <2>1, <2>2 DEF Inv, TypeOK
  <2>4. /\ tx[r].phase # "none" /\ tx[r].action = a /\ IdentityHolds(a)
    BY <1>1, <1>2, <1>5 DEF Own, OwnTx
  <2>5. Own(r, a)'
    <3>1. OwnRequest(r, a)'
      BY <2>2 DEF OwnRequest
    <3>2. OwnTx(r, a)'
      <4>1. IdentityHolds(a)'
        BY <1>3, <2>1, <2>4 DEF IdentityHolds
      <4>. QED  BY <1>5, <2>1, <2>2, <2>4, <4>1 DEF OwnTx
    <3>3. OwnApplied(r, a)'
      BY <1>2, <1>3, <1>5, <2>1, <2>2 DEF Own, OwnApplied, BeforeWrite
    <3>. QED  BY <1>2, <2>1, <3>1, <3>2, <3>3 DEF Own
  <2>. QED  BY <1>2, <1>3, <2>1, <2>2, <2>3, <2>4, <2>5, OwnStep DEF Claimed
<1>6. CASE ~ Atomic
  <2>1. UNCHANGED tx /\ tx[r].phase = "none"
    BY <1>2, <1>6 DEF Journal, Own, OwnTx
  <2>2. /\ request' \in [Requests -> Request]
        /\ request'[r].at # "idle" => request'[r].action = a
        /\ ~ request'[r].guard
        /\ \A q \in Requests \ {r} : request'[q] = request[q]
        /\ \/ request'[r].at = "rejournal" /\ row' = row
           \/ /\ request'[r].at = "idle" /\ row' = SetStatus(a, "succeeded")
    <3>1. CASE UNCHANGED row /\ Goto(r, "rejournal")
      BY <1>2, <1>4, <3>1, GotoHolds DEF Places
    <3>2. CASE row' = SetStatus(a, "succeeded") /\ Return(r)
      BY <1>2, <3>2, ReturnHolds
    <3>. QED  BY <1>6, <3>1, <3>2 DEF Journal
  <2>3. /\ row' \in [Actions -> Row]
        /\ row'[a].witness = row[a].witness
        /\ \A b \in Actions \ {a} : row'[b] = row[b]
        /\ row'[a].status \in Claimed
    BY <1>2, <2>2, SetStatusHolds DEF TypeOK, Claimed, Statuses, Terminal
  <2>4. TypeOK'
    BY <1>2, <1>3, <2>1, <2>2, <2>3 DEF TypeOK
  <2>5. Len(applied[a]) = 1
    BY <1>1, <1>2, <1>6 DEF Own, OwnApplied
  <2>6. Own(r, a)'
    <3>1. OwnRequest(r, a)'
      BY <1>6, <2>2 DEF OwnRequest
    <3>2. OwnTx(r, a)'
      BY <1>6, <2>1, <2>2 DEF OwnTx
    <3>3. OwnApplied(r, a)'
      BY <1>3, <1>6, <2>2, <2>3, <2>5 DEF OwnApplied, BeforeWrite, Claimed
    <3>. QED  BY <2>3, <3>1, <3>2, <3>3 DEF Own
  <2>. QED  BY <1>2, <1>3, <2>1, <2>2, <2>3, <2>4, <2>6, OwnStep DEF Claimed
<1>. QED  BY <1>5, <1>6

(* A commit makes the write and the journal entry one step. *)
LEMMA CommittedInv ==
  ASSUME Inv, TypeOK', NEW r \in Requests, NEW a \in Actions,
         tx[r].phase \in {"journaled", "doubt"}, tx[r].action = a,
         Committed(r), UNCHANGED <<clock, account>>,
         \A q \in Requests \ {r} : request'[q] = request[q],
         \/ request'[r].at = "idle" /\ ~ request'[r].guard
         \/ request'[r] = request[r] /\ request[r].at \in {"idle", "catch"}
  PROVE  Inv'
<1>1. /\ WorksOn(r, a) /\ tx[r].phase # "none" /\ TypeOK
      /\ row[a].status = "executing"
  BY DEF WorksOn, Inv, TxOK
<1>2. /\ Own(r, a) /\ Atomic /\ IdentityHolds(a)
      /\ \A q \in Requests \ {r} : ~ WorksOn(q, a)
  BY <1>1, OwnHolds DEF Own, OwnTx
<1>3. row' = SetStatus(a, "succeeded") /\ EndTx(r)
  BY DEF Committed
<1>4. /\ row'[a].status = "succeeded" /\ row'[a].witness = row[a].witness
      /\ \A b \in Actions \ {a} : row'[b] = row[b]
  BY <1>1, <1>3, SetStatusHolds DEF Statuses, Terminal
<1>5. tx'[r].phase = "none" /\ \A q \in Requests \ {r} : tx'[q] = tx[q]
  BY <1>1, <1>3, EndTxHolds
<1>6. Len(applied[a]) = 0
  BY <1>1, <1>2 DEF Own, OwnApplied
<1>7. applied' = [applied EXCEPT ![a] = Append(@, account.number)]
  BY DEF Committed
<1>8. /\ Len(applied'[a]) = 1
      /\ applied'[a][1] = account.number
      /\ \A b \in Actions \ {a} : applied'[b] = applied[b]
  <2>1. /\ Len(applied'[a]) = Len(applied[a]) + 1
        /\ Len(applied[a]) = 0 => applied'[a][1] = account.number
        /\ \A b \in Actions \ {a} : applied'[b] = applied[b]
    BY <1>1, <1>7, AppendHolds
  <2>. QED  BY <1>6, <2>1
<1>9. ~ request[r].guard
  BY <1>1 DEF Inv, RequestsOK
<1>10. Own(r, a)'
  <2>1. OwnRequest(r, a)'
    BY <1>2, <1>9 DEF Own, OwnRequest
  <2>2. OwnTx(r, a)'
    BY <1>5 DEF OwnTx
  <2>3. OwnApplied(r, a)'
    <3>1. ~ request'[r].guard /\ request'[r].at \notin BeforeWrite \cup {"journal"}
      BY <1>9 DEF BeforeWrite
    <3>2. a \in Balances => \A i \in 1..Len(applied'[a]) :
                              applied'[a][i] = row'[a].witness
      <4>1. a \in Balances => account.number = row[a].witness
        BY <1>2 DEF IdentityHolds
      <4>2. \A i \in 1..Len(applied'[a]) : i = 1
        BY <1>8
      <4>. QED  BY <1>4, <1>8, <4>1, <4>2
    <3>3. Len(applied'[a]) <= 1
      BY <1>8
    <3>. QED  BY <1>4, <1>8, <3>1, <3>2, <3>3 DEF OwnApplied
  <2>. QED  BY <1>4, <2>1, <2>2, <2>3 DEF Own, Claimed
<1>. QED  BY <1>2, <1>4, <1>5, <1>8, <1>10, OwnStep

(* The state after it is well typed. *)
LEMMA CommittedTypes ==
  ASSUME Inv, NEW r \in Requests, NEW a \in Actions, tx[r].action = a,
         Committed(r)
  PROVE  /\ row' \in [Actions -> Row]
         /\ tx' \in [Requests -> [phase : Phases, action : Actions \cup {None}]]
         /\ applied' \in [Actions -> Seq(Memberships)]
<1>1. TypeOK /\ "succeeded" \in Statuses
  BY DEF Inv, Statuses, Terminal
<1>2. /\ row' = SetStatus(a, "succeeded") /\ EndTx(r)
      /\ applied' = [applied EXCEPT ![a] = Append(@, account.number)]
  BY DEF Committed
<1>3. row' \in [Actions -> Row]
  BY <1>1, <1>2, SetStatusHolds
<1>4. tx' \in [Requests -> [phase : Phases, action : Actions \cup {None}]]
  BY <1>1, <1>2, EndTxHolds
<1>5. applied' \in [Actions -> Seq(Memberships)]
  BY <1>1, <1>2, AppendHolds
<1>. QED  BY <1>3, <1>4, <1>5

LEMMA CommitInv ==
  ASSUME Inv, NEW r \in Requests, Commit(r)
  PROVE  Inv'
<1>1. request[r].at = "commit" /\ request[r].at \in Busy /\ TypeOK
  BY DEF Commit, Busy, BeforeWrite, Inv
<1>. PICK a \in Actions : a = request[r].action
  BY <1>1, BusyHolds
<1>2. /\ Own(r, a) /\ row[a].status = "executing"
      /\ \A q \in Requests \ {r} : ~ WorksOn(q, a)
      /\ tx[r].phase = "journaled" /\ tx[r].action = a
  BY <1>1, BusyHolds DEF Own, OwnTx
<1>3. CASE Committed(r) /\ Return(r)
  <2>1. /\ request' \in [Requests -> Request]
        /\ request'[r].at = "idle" /\ ~ request'[r].guard
        /\ \A q \in Requests \ {r} : request'[q] = request[q]
    BY <1>1, <1>3, ReturnHolds
  <2>2. /\ row' \in [Actions -> Row]
        /\ tx' \in [Requests -> [phase : Phases, action : Actions \cup {None}]]
        /\ applied' \in [Actions -> Seq(Memberships)]
    BY <1>2, <1>3, CommittedTypes
  <2>3. TypeOK'
    BY <1>1, <2>1, <2>2 DEF Commit, TypeOK
  <2>. QED  BY <1>2, <1>3, <2>1, <2>3, CommittedInv DEF Commit
<1>4. CASE /\ tx' = [tx EXCEPT ![r].phase = "doubt"]
           /\ Goto(r, "catch")
           /\ UNCHANGED <<row, applied>>
  <2>1. /\ request' \in [Requests -> Request]
        /\ request'[r].at = "catch" /\ request'[r].action = a
        /\ request'[r].guard = request[r].guard
        /\ \A q \in Requests \ {r} : request'[q] = request[q]
    BY <1>1, <1>4, GotoHolds DEF Places
  <2>2. /\ tx' \in [Requests -> [phase : Phases, action : Actions \cup {None}]]
        /\ tx'[r].phase = "doubt" /\ tx'[r].action = a
        /\ \A q \in Requests \ {r} : tx'[q] = tx[q]
    BY <1>1, <1>2, <1>4, PhaseHolds DEF Phases
  <2>3. TypeOK'
    BY <1>1, <1>4, <2>1, <2>2 DEF Commit, TypeOK
  <2>4. ~ request[r].guard
    BY <1>1 DEF Inv, RequestsOK
  <2>5. Own(r, a)'
    <3>1. OwnRequest(r, a)'
      BY <2>1, <2>4 DEF OwnRequest
    <3>2. OwnTx(r, a)'
      <4>1. IdentityHolds(a)' /\ Atomic
        BY <1>2, <1>4 DEF IdentityHolds, Commit, Own, OwnTx
      <4>. QED  BY <1>2, <1>4, <2>1, <2>2, <4>1 DEF OwnTx
    <3>3. OwnApplied(r, a)'
      BY <1>2, <1>4, <2>1, <2>4 DEF Own, OwnApplied, BeforeWrite
    <3>. QED  BY <1>2, <1>4, <3>1, <3>2, <3>3 DEF Own, Claimed
  <2>. QED  BY <1>2, <1>4, <2>1, <2>2, <2>3, <2>5, OwnStep DEF Commit
<1>. QED  BY <1>3, <1>4 DEF Commit

LEMMA ServerDecidesInv ==
  ASSUME Inv, NEW r \in Requests, ServerDecides(r)
  PROVE  Inv'
<1>1. /\ tx[r].phase = "doubt" /\ TypeOK
      /\ request[r].at \in {"idle", "catch"}
      /\ UNCHANGED <<clock, account, request>>
  BY DEF ServerDecides, Inv, TxOK
<1>. PICK a \in Actions : a = tx[r].action
  BY <1>1 DEF Inv, TxOK
<1>2. /\ Own(r, a) /\ row[a].status = "executing"
      /\ \A q \in Requests \ {r} : ~ WorksOn(q, a)
  BY <1>1, OwnHolds DEF Own, OwnTx, WorksOn
<1>3. CASE Committed(r)
  <2>1. /\ row' \in [Actions -> Row]
        /\ tx' \in [Requests -> [phase : Phases, action : Actions \cup {None}]]
        /\ applied' \in [Actions -> Seq(Memberships)]
    BY <1>3, CommittedTypes
  <2>2. TypeOK'
    BY <1>1, <2>1 DEF TypeOK
  <2>. QED  BY <1>1, <1>3, <2>2, CommittedInv
<1>4. CASE EndTx(r) /\ UNCHANGED <<row, applied>>
  <2>1. /\ tx' \in [Requests -> [phase : Phases, action : Actions \cup {None}]]
        /\ tx'[r].phase = "none"
        /\ \A q \in Requests \ {r} : tx'[q] = tx[q]
    BY <1>1, <1>4, EndTxHolds
  <2>2. TypeOK'
    BY <1>1, <1>4, <2>1 DEF TypeOK
  <2>3. Own(r, a)'
    <3>1. OwnRequest(r, a)'
      BY <1>1, <1>2, <2>1 DEF Own, OwnRequest
    <3>2. OwnTx(r, a)'
      BY <1>1, <2>1 DEF OwnTx
    <3>3. OwnApplied(r, a)'
      BY <1>1, <1>2, <1>4 DEF Own, OwnApplied
    <3>. QED  BY <1>2, <1>4, <3>1, <3>2, <3>3 DEF Own, Claimed
  <2>. QED  BY <1>1, <1>2, <1>4, <2>1, <2>2, <2>3, OwnStep
<1>. QED  BY <1>3, <1>4 DEF ServerDecides

LEMMA CatchInv ==
  ASSUME Inv, NEW r \in Requests, Catch(r)
  PROVE  Inv'
<1>1. request[r].at \in {"catch", "rejournal"} /\ request[r].at \in Busy /\ TypeOK
  BY DEF Catch, Busy, BeforeWrite, Inv
<1>. PICK a \in Actions : a = request[r].action
  BY <1>1, BusyHolds
<1>2. /\ Own(r, a) /\ row[a].status \in Claimed
      /\ \A q \in Requests \ {r} : ~ WorksOn(q, a)
      /\ tx[r].phase \in Phases
  BY <1>1, BusyHolds
<1>3. tx[r].phase = "none"
  <2>1. tx[r].phase \notin {"written", "journaled"}
    BY <1>1, <1>2 DEF Own, OwnTx
  <2>2. tx[r].phase # "doubt"
    BY <1>2 DEF Catch, RowLocked, Own, OwnTx
  <2>. QED  BY <1>2, <2>1, <2>2 DEF Phases
<1>4. UNCHANGED <<clock, account, tx, applied>>
  BY DEF Catch
<1>5. /\ request' \in [Requests -> Request]
      /\ request'[r].at = "idle" /\ ~ request'[r].guard
      /\ \A q \in Requests \ {r} : request'[q] = request[q]
  BY <1>1, ReturnHolds DEF Catch
<1> DEFINE s == CatchOutcome(r)
<1>6. s \in Statuses /\ s \in {"failed", "unknown"}
      /\ (s = "failed" => Len(applied[a]) = 0)
  BY <1>2 DEF CatchOutcome, Statuses, Terminal, Own, OwnApplied
<1>7. row' = FinishedRow(a, s)
  BY DEF Catch
<1> HIDE DEF s
<1>8. /\ row' \in [Actions -> Row]
      /\ row'[a].status = IF FinishApplies(a) THEN s ELSE row[a].status
      /\ row'[a].witness = row[a].witness
      /\ \A b \in Actions \ {a} : row'[b] = row[b]
  BY <1>1, <1>6, <1>7, FinishedHolds
<1>9. TypeOK'
  BY <1>1, <1>4, <1>5, <1>8 DEF TypeOK
<1>10. Own(r, a)'
  <2>1. OwnRequest(r, a)'
    BY <1>5 DEF OwnRequest
  <2>2. OwnTx(r, a)'
    BY <1>3, <1>4, <1>5 DEF OwnTx
  <2>3. OwnApplied(r, a)'
    BY <1>2, <1>4, <1>5, <1>6, <1>8
    DEF Own, OwnApplied, BeforeWrite, FinishApplies
  <2>. QED
    BY <1>3, <1>4, <1>5, <2>1, <2>2, <2>3 DEF Own, Busy, BeforeWrite
<1>. QED
  BY <1>2, <1>4, <1>5, <1>6, <1>8, <1>9, <1>10, OwnStep
  DEF Claimed, FinishApplies

LEMMA CrashInv ==
  ASSUME Inv, NEW r \in Requests, Crash(r)
  PROVE  Inv'
<1>1. TypeOK /\ request[r].at # "idle" /\ UNCHANGED <<clock, account, row, applied>>
  BY DEF Crash, Inv
<1>2. /\ request' \in [Requests -> Request]
      /\ request'[r].at = "idle" /\ ~ request'[r].guard
      /\ \A q \in Requests \ {r} : request'[q] = request[q]
  BY <1>1, ReturnHolds DEF Crash
<1>. PICK a \in Actions : a = request[r].action
  BY <1>1 DEF Inv, RequestsOK
<1>3. /\ tx' \in [Requests -> [phase : Phases, action : Actions \cup {None}]]
      /\ \A q \in Requests \ {r} : tx'[q] = tx[q]
      /\ \/ tx[r].phase = "doubt" /\ tx'[r] = tx[r]
         \/ /\ request[r].at = "commit" /\ tx'[r].phase = "doubt"
            /\ tx'[r].action = tx[r].action
         \/ tx'[r].phase = "none"
  <2>1. CASE tx[r].phase = "doubt" /\ UNCHANGED tx
    BY <1>1, <2>1 DEF TypeOK
  <2>2. CASE request[r].at = "commit" /\ tx' = [tx EXCEPT ![r].phase = "doubt"]
    BY <1>1, <2>2, PhaseHolds DEF Phases
  <2>3. CASE EndTx(r)
    BY <1>1, <2>3, EndTxHolds
  <2>. QED  BY <2>1, <2>2, <2>3 DEF Crash
<1>4. TypeOK'
  BY <1>1, <1>2, <1>3 DEF TypeOK
<1>5. CASE request[r].at \notin Busy
  <2>1. tx[r].phase = "none" /\ tx'[r].phase = "none"
    <3>1. tx[r].phase = "none" /\ request[r].at # "commit"
      BY <1>1, <1>5, EarlyHolds DEF Busy
    <3>. QED  BY <1>3, <3>1
  <2>2. \A q \in Requests : QuietRequest(q)
    BY <1>2, <1>5 DEF QuietRequest, Busy, BeforeWrite
  <2>3. \A b \in Actions : QuietRow(b)
    BY <1>1 DEF QuietRow
  <2>. QED  BY <1>1, <1>3, <1>4, <2>1, <2>2, <2>3, QuietStep
<1>6. CASE request[r].at \in Busy
  <2>1. /\ Own(r, a) /\ row[a].status \in Claimed
        /\ \A q \in Requests \ {r} : ~ WorksOn(q, a)
    BY <1>6, BusyHolds
  <2>2. tx'[r].phase # "none" =>
          /\ tx[r].phase # "none"
          /\ tx'[r].phase = "doubt" /\ tx'[r].action = a
          /\ Atomic /\ IdentityHolds(a) /\ row[a].status = "executing"
    BY <1>3, <2>1 DEF Own, OwnTx
  <2>3. Own(r, a)'
    <3>1. OwnRequest(r, a)'
      BY <1>2 DEF OwnRequest
    <3>2. OwnTx(r, a)'
      <4>1. IdentityHolds(a)' <=> IdentityHolds(a)
        BY <1>1 DEF IdentityHolds
      <4>. QED  BY <1>1, <1>2, <2>2, <4>1 DEF OwnTx
    <3>3. OwnApplied(r, a)'
      BY <1>1, <1>2, <2>1 DEF Own, OwnApplied, BeforeWrite
    <3>. QED  BY <1>1, <2>1, <3>1, <3>2, <3>3 DEF Own
  <2>. QED  BY <1>1, <1>2, <1>3, <1>4, <2>1, <2>2, <2>3, OwnStep DEF Claimed
<1>. QED  BY <1>5, <1>6

LEMMA InvNext == Inv /\ [Next]_vars => Inv'
<1> SUFFICES ASSUME Inv, [Next]_vars PROVE Inv'
  OBVIOUS
<1>1. CASE Tick \/ EditAccount \/ ListRefresh
  BY <1>1, TickInv, EditAccountInv, ListRefreshInv
<1>2. ASSUME NEW a \in Actions, Propose(a) \/ ListExpire(a) PROVE Inv'
  BY <1>2, ProposeInv, ListExpireInv
<1>3. ASSUME NEW r \in Requests, NEW a \in Actions, Approve(r, a) \/ Reject(r, a)
      PROVE  Inv'
  BY <1>3, BeginInv DEF Approve, Reject
<1>4. ASSUME NEW r \in Requests, Serve(r) PROVE Inv'
  <2>1. CASE Find(r) \/ FindReject(r)
    BY <2>1, FindInv
  <2>2. CASE SettlePending(r) \/ Claim(r) \/ Check(r) \/ Refuse(r)
    BY <2>2, SettlePendingInv, ClaimInv, CheckInv, RefuseInv
  <2>3. CASE Execute(r) \/ Write(r) \/ Journal(r) \/ Commit(r) \/ Catch(r)
    BY <2>3, ExecuteInv, WriteInv, JournalInv, CommitInv, CatchInv
  <2>. QED  BY <1>4, <2>1, <2>2, <2>3 DEF Serve
<1>5. ASSUME NEW r \in Requests, ServerDecides(r) \/ Crash(r) PROVE Inv'
  BY <1>5, ServerDecidesInv, CrashInv
<1>6. CASE UNCHANGED vars
  BY <1>6 DEF vars, Inv, TypeOK, RequestsOK, ClaimsOK, TxOK, AppliedOK,
              WorksOn, IdentityHolds
<1>. QED  BY <1>1, <1>2, <1>3, <1>4, <1>5, <1>6 DEF Next

(* Every state of approvals, transactions and journal is consistent. *)
THEOREM Invariant == Spec => []Inv
<1>. QED  BY InvInit, InvNext, PTL DEF Spec

-----------------------------------------------------------------------------
(* What the owner reads in the journal *)

(* With transactions, a proposal reads succeeded exactly when its write is *)
(* in the data, and once (manage-actions.ts:130-147).                      *)
THEOREM Outcome == Spec => []OutcomeExact
<1>1. Inv => OutcomeExact
  BY DEF Inv, AppliedOK, OutcomeExact
<1>. QED  BY <1>1, Invariant, PTL

(* With transactions, a balance is only written to the membership that was *)
(* reviewed (record-manual-balance.ts:67-71).                              *)
THEOREM Identity == Spec => []ReviewedIdentity
<1>1. Inv => ReviewedIdentity
  BY ActionsAssumption DEF Inv, AppliedOK, ReviewedIdentity
<1>. QED  BY <1>1, Invariant, PTL

-----------------------------------------------------------------------------
(* Deadlines *)

(* A call's now is a reading of the clock. *)
NowNotAhead == \A r \in Requests : request[r].now <= clock

LEMMA NowStep == Inv /\ NowNotAhead /\ [Next]_vars => NowNotAhead'
<1> SUFFICES ASSUME Inv, NowNotAhead, [Next]_vars, NEW r \in Requests
             PROVE  request'[r].now <= clock'
  BY DEF NowNotAhead
<1>0. /\ clock \in Nat /\ request \in [Requests -> Request]
      /\ \A q \in Requests : request[q] \in Request /\ request[q].now \in Nat
      /\ request[r].now <= clock
  BY DEF Inv, TypeOK, Request, NowNotAhead
<1>1. CASE UNCHANGED request /\ (UNCHANGED clock \/ clock' = clock + 1)
  BY <1>0, <1>1
<1>2. CASE UNCHANGED clock /\ \E q \in Requests :
             \/ Return(q) \/ \E p \in Places : Goto(q, p) \/ GotoAt(q, p)
             \/ \E b \in BOOLEAN :
                  request' = [request EXCEPT ![q].at = "catch", ![q].guard = b]
             \/ \E p \in Places, a \in Actions :
                  request' = [request EXCEPT ![q] =
                                [Idle EXCEPT !.at = p, !.action = a]]
  <2>1. PICK q \in Requests :
             \/ Return(q) \/ \E p \in Places : Goto(q, p) \/ GotoAt(q, p)
             \/ \E b \in BOOLEAN :
                  request' = [request EXCEPT ![q].at = "catch", ![q].guard = b]
             \/ \E p \in Places, a \in Actions :
                  request' = [request EXCEPT ![q] =
                                [Idle EXCEPT !.at = p, !.action = a]]
    BY <1>2
  <2>0. \A n \in {0, clock, request[r].now} : n <= clock'
    <3>1. UNCHANGED clock
      BY <1>2
    <3>2. clock \in Nat /\ request[r].now \in Nat /\ request[r].now <= clock
      BY <1>0
    <3>. QED  BY <3>1, <3>2
  <2>2. CASE Return(q)
    <3>1. request'[r].now \in {0, request[r].now}
      BY <1>0, <2>2 DEF Return, Idle
    <3>. QED  BY <2>0, <3>1
  <2>3. ASSUME NEW p \in Places, Goto(q, p) PROVE request'[r].now <= clock'
    <3>1. request'[r].now = request[r].now
      BY <1>0, <2>3 DEF Goto, Request
    <3>. QED  BY <2>0, <3>1
  <2>4. ASSUME NEW p \in Places, GotoAt(q, p) PROVE request'[r].now <= clock'
    <3>1. request'[r].now \in {clock, request[r].now}
      BY <1>0, <2>4 DEF GotoAt, Request
    <3>. QED  BY <2>0, <3>1
  <2>5. ASSUME NEW b \in BOOLEAN,
               request' = [request EXCEPT ![q].at = "catch", ![q].guard = b]
        PROVE  request'[r].now <= clock'
    <3>1. request'[r].now = request[r].now
      BY <1>0, <2>5 DEF Request
    <3>. QED  BY <2>0, <3>1
  <2>6. ASSUME NEW p \in Places, NEW a \in Actions,
               request' = [request EXCEPT ![q] =
                             [Idle EXCEPT !.at = p, !.action = a]]
        PROVE  request'[r].now <= clock'
    <3>1. request'[r].now \in {0, request[r].now}
      BY <1>0, <2>6 DEF Idle
    <3>. QED  BY <2>0, <3>1
  <2>. QED  BY <2>1, <2>2, <2>3, <2>4, <2>5, <2>6
<1>3. ASSUME Tick \/ EditAccount \/ ListRefresh PROVE request'[r].now <= clock'
  BY <1>1, <1>3 DEF Tick, EditAccount, ListRefresh
<1>4. ASSUME NEW a \in Actions, Propose(a) \/ ListExpire(a)
      PROVE  request'[r].now <= clock'
  BY <1>1, <1>4 DEF Propose, ListExpire
<1>5. ASSUME NEW q \in Requests, NEW a \in Actions, Approve(q, a) \/ Reject(q, a)
      PROVE  request'[r].now <= clock'
  BY <1>2, <1>5 DEF Approve, Reject, Begin, Places
<1>6. ASSUME NEW q \in Requests, Serve(q) PROVE request'[r].now <= clock'
  <2>1. CASE Find(q) \/ FindReject(q)
    BY <1>2, <2>1 DEF Find, FindReject, Places
  <2>2. CASE SettlePending(q) \/ Claim(q)
    BY <1>2, <2>2 DEF SettlePending, Claim, Places
  <2>3. CASE Check(q) \/ Refuse(q) \/ Catch(q)
    BY <1>2, <2>3 DEF Check, Refuse, Catch, Places
  <2>4. CASE Execute(q)
    BY <1>2, <2>4 DEF Execute, Throw, Places
  <2>5. CASE Write(q)
    BY <1>2, <2>5 DEF Write, Throw, Places
  <2>6. CASE Journal(q)
    BY <1>2, <2>6 DEF Journal, Throw, Places
  <2>7. CASE Commit(q)
    BY <1>2, <2>7 DEF Commit, Places
  <2>. QED
    BY <1>6, <2>1, <2>2, <2>3, <2>4, <2>5, <2>6, <2>7 DEF Serve
<1>7. ASSUME NEW q \in Requests, ServerDecides(q) \/ Crash(q)
      PROVE  request'[r].now <= clock'
  BY <1>1, <1>2, <1>7 DEF ServerDecides, Crash
<1>8. CASE UNCHANGED vars
  BY <1>1, <1>8 DEF vars
<1>. QED
  BY <1>3, <1>4, <1>5, <1>6, <1>7, <1>8 DEF Next

LEMMA NowHolds == Spec => []NowNotAhead
<1>1. Init => NowNotAhead
  BY DEF Init, Idle, NowNotAhead
<1>. QED  BY <1>1, NowStep, Invariant, PTL DEF Spec

(* One step keeps the deadlines, of every row. *)
DeadlineStep(a) ==
  /\ row[a].status = "pending" /\ row'[a].status = "executing"
       => clock < row[a].expiresAt
  /\ row[a].status # "expired" /\ row'[a].status = "expired"
       => row[a].expiresAt <= clock

LEMMA DeadlineSteps ==
  Inv /\ NowNotAhead /\ [Next]_vars => \A a \in Actions : DeadlineStep(a)
<1> SUFFICES ASSUME Inv, NowNotAhead, [Next]_vars, NEW a \in Actions
             PROVE  DeadlineStep(a)
  OBVIOUS
<1>0. /\ TypeOK /\ clock \in Nat
      /\ \A b \in Actions : row[b] \in Row /\ row[b].expiresAt \in Nat
      /\ \A r \in Requests : request[r].now \in Nat /\ request[r].now <= clock
  BY DEF Inv, TypeOK, Request, Row, NowNotAhead
<1>1. CASE row'[a].status = row[a].status \/ row'[a].status \notin {"executing", "expired"}
  BY <1>1 DEF DeadlineStep
<1>2. ASSUME NEW s \in Statuses \ {"executing", "expired"},
             NEW b \in Actions, row' = SetStatus(b, s)
      PROVE  DeadlineStep(a)
  <2>1. a = b => row'[a].status = s
    BY <1>0, <1>2, SetStatusHolds
  <2>2. a # b => row'[a] = row[a]
    BY <1>0, <1>2, SetStatusHolds
  <2>. QED  BY <1>1, <1>2, <2>1, <2>2
<1>3. ASSUME NEW b \in Actions, row' = SetStatus(b, "expired"),
             row[b].expiresAt <= clock
      PROVE  DeadlineStep(a)
  <2>1. a # b => row'[a] = row[a]
    BY <1>0, <1>3, SetStatusHolds DEF Statuses, Terminal
  <2>2. a = b => row'[a].status = "expired"
    BY <1>0, <1>3, SetStatusHolds DEF Statuses, Terminal
  <2>. QED  BY <1>3, <2>1, <2>2 DEF DeadlineStep
<1>4. ASSUME Refresh PROVE DeadlineStep(a)
  BY <1>0, <1>1, <1>4 DEF Refresh, Row
<1>5. CASE UNCHANGED row
  BY <1>1, <1>5
<1>6. CASE Tick \/ EditAccount \/ ListRefresh
  BY <1>4, <1>5, <1>6 DEF Tick, EditAccount, ListRefresh
<1>7. ASSUME NEW b \in Actions, Propose(b) PROVE DeadlineStep(a)
  <2> DEFINE new == [status |-> "pending", expiresAt |-> clock + Ttl,
                     updatedAt |-> clock,
                     witness |-> IF b \in Balances THEN account.number ELSE None]
  <2>1. row' = [row EXCEPT ![b] = new] /\ new.status = "pending"
    BY <1>7 DEF Propose
  <2> HIDE DEF new
  <2>2. row'[a] = row[a] \/ row'[a].status = "pending"
    BY <1>0, <2>1 DEF TypeOK
  <2>. QED  BY <1>1, <2>2
<1>8. ASSUME NEW b \in Actions, ListExpire(b) PROVE DeadlineStep(a)
  BY <1>3, <1>8 DEF ListExpire
<1>9. ASSUME NEW r \in Requests, NEW b \in Actions, Approve(r, b) \/ Reject(r, b)
      PROVE  DeadlineStep(a)
  BY <1>4, <1>9 DEF Approve, Reject, Begin
<1>10. ASSUME NEW r \in Requests, SettlePending(r) PROVE DeadlineStep(a)
  <2>. PICK b \in Actions : b = request[r].action
    BY <1>10, EarlyHolds DEF SettlePending, Busy, BeforeWrite
  <2>1. CASE row[b].expiresAt <= request[r].now
    <3>1. row[b].expiresAt <= clock
      BY <1>0, <2>1
    <3>2. row' = row \/ row' = SetStatus(b, "expired")
      BY <1>10, <2>1 DEF SettlePending
    <3>. QED  BY <1>3, <1>5, <3>1, <3>2
  <2>2. CASE ~ (row[b].expiresAt <= request[r].now)
    <3>1. row' = row \/ row' = SetStatus(b, "rejected")
      BY <1>10, <2>2 DEF SettlePending
    <3>. QED  BY <1>2, <1>5, <3>1 DEF Statuses, Terminal
  <2>. QED  BY <2>1, <2>2
<1>11. ASSUME NEW r \in Requests, Claim(r) PROVE DeadlineStep(a)
  <2>. PICK b \in Actions : b = request[r].action
    BY <1>11, EarlyHolds DEF Claim, Busy, BeforeWrite
  <2> DEFINE t == MaxOf(request[r].now, clock)
  <2>1. t = clock
    BY <1>0 DEF MaxOf
  <2>2. \/ row' = row
        \/ /\ row[request[r].action].expiresAt <= t
           /\ row' = SetStatus(request[r].action, "expired")
        \/ /\ t < row[request[r].action].expiresAt
           /\ row' = [row EXCEPT ![request[r].action].status = "executing",
                                 ![request[r].action].updatedAt = t]
    BY <1>11 DEF Claim
  <2> HIDE DEF t
  <2>3. CASE row[b].expiresAt <= t /\ row' = SetStatus(b, "expired")
    BY <1>3, <2>1, <2>3
  <2>4. CASE /\ t < row[b].expiresAt
             /\ row' = [row EXCEPT ![b].status = "executing",
                                   ![b].updatedAt = t]
    <3>1. a # b => row'[a] = row[a]
      BY <1>0, <2>4 DEF TypeOK
    <3>2. row'[b].status = "executing"
      BY <1>0, <2>4 DEF TypeOK, Row
    <3>3. a = b => clock < row[a].expiresAt
      BY <2>1, <2>4
    <3>. QED  BY <3>1, <3>2, <3>3 DEF DeadlineStep
  <2>. QED  BY <1>5, <2>2, <2>3, <2>4
<1>12. ASSUME NEW r \in Requests, Refuse(r) \/ Catch(r) PROVE DeadlineStep(a)
  <2>. PICK b \in Actions : b = request[r].action
    BY <1>12, BusyHolds DEF Refuse, Catch, Busy, BeforeWrite
  <2>1. \E s \in {"failed", "unknown"} : row' = FinishedRow(b, s)
    BY <1>12 DEF Refuse, Catch, CatchOutcome
  <2>. QED  BY <1>2, <1>5, <2>1 DEF FinishedRow, Statuses, Terminal
<1>13. ASSUME NEW r \in Requests, Journal(r) PROVE DeadlineStep(a)
  <2>. PICK b \in Actions : b = request[r].action
    BY <1>13, BusyHolds DEF Journal, Busy, BeforeWrite
  <2>1. UNCHANGED row \/ row' = SetStatus(b, "succeeded")
    BY <1>13 DEF Journal
  <2>. QED  BY <1>2, <1>5, <2>1 DEF Statuses, Terminal
<1>14. ASSUME NEW r \in Requests, Commit(r) \/ ServerDecides(r)
       PROVE  DeadlineStep(a)
  <2>1. UNCHANGED row \/ Committed(r)
    BY <1>14 DEF Commit, ServerDecides
  <2>2. tx[r].action \in Actions
    BY <1>14 DEF Commit, ServerDecides, Inv, TxOK
  <2>3. CASE Committed(r)
    <3>1. row' = SetStatus(tx[r].action, "succeeded")
      BY <2>3 DEF Committed
    <3>. QED  BY <1>2, <2>2, <3>1 DEF Statuses, Terminal
  <2>. QED  BY <1>5, <2>1, <2>3
<1>15. ASSUME NEW r \in Requests,
              \/ Find(r) \/ FindReject(r) \/ Check(r) \/ Execute(r)
              \/ Write(r) \/ Crash(r)
       PROVE  DeadlineStep(a)
  BY <1>5, <1>15 DEF Find, FindReject, Check, Execute, Write, Crash
<1>16. CASE UNCHANGED vars
  BY <1>5, <1>16 DEF vars
<1>. QED
  BY <1>6, <1>7, <1>8, <1>9, <1>10, <1>11, <1>12, <1>13, <1>14, <1>15, <1>16
  DEF Next, Serve

(* No proposal starts to execute after its deadline, or expires before it. *)
THEOREM Deadline == Spec => DeadlineHolds
<1>1. Inv /\ NowNotAhead /\ [Next]_vars =>
        [\A a \in Actions :
           /\ row[a].status = "pending" /\ row'[a].status = "executing"
                => clock < row[a].expiresAt
           /\ row[a].status # "expired" /\ row'[a].status = "expired"
                => row[a].expiresAt <= clock]_vars
  BY DeadlineSteps DEF DeadlineStep
<1>. QED  BY <1>1, Invariant, NowHolds, PTL DEF Spec, DeadlineHolds

-----------------------------------------------------------------------------
(* The journal implements ReviewedWrite, with and without transactions. *)

(* What the contract sees of a status. *)
LEMMA ReportIs ==
  ASSUME NEW a \in Actions
  PROVE  /\ row[a].status \in {"absent", "pending", "executing"} => Report[a] = "open"
         /\ row[a].status = "succeeded" => Report[a] = "done"
         /\ row[a].status = "unknown" => Report[a] = "unknown"
         /\ row[a].status \in {"rejected", "expired", "failed"} => Report[a] = "void"
BY DEF Report

LEMMA ReportKept ==
  ASSUME NEW a \in Actions,
         \/ row'[a].status = row[a].status
         \/ /\ row[a].status \in {"absent", "pending", "executing"}
            /\ row'[a].status \in {"absent", "pending", "executing"}
  PROVE  Report'[a] = Report[a]
BY DEF Report

LEMMA WritesAre ==
  UNCHANGED applied => UNCHANGED Writes
BY DEF Writes

LEMMA WriteStutter ==
  ASSUME UNCHANGED applied,
         \A a \in Actions :
           \/ row'[a].status = row[a].status
           \/ /\ row[a].status \in {"absent", "pending", "executing"}
              /\ row'[a].status \in {"absent", "pending", "executing"}
  PROVE  UNCHANGED Reviewed!wvars
<1>1. \A a \in Actions : Report'[a] = Report[a]
  BY ReportKept
<1>2. UNCHANGED Report
  BY <1>1 DEF Report
<1>. QED  BY <1>2, WritesAre DEF Reviewed!wvars

(* Several rows are recovered at once. *)
LEMMA UnknownStep ==
  ASSUME UNCHANGED applied, NEW S \in SUBSET Actions,
         \A a \in S : row[a].status = "executing" /\ row'[a].status = "unknown",
         \A a \in Actions \ S : row'[a].status = row[a].status
  PROVE  Reviewed!ReportUnknown(S)
<1>1. \A a \in S : Report[a] = "open" /\ Report'[a] = "unknown"
  BY DEF Report
<1>2. \A a \in Actions \ S : Report'[a] = Report[a]
  BY ReportKept
<1>3. Report' = [a \in Actions |-> IF a \in S THEN "unknown" ELSE Report[a]]
  BY <1>1, <1>2 DEF Report
<1>. QED  BY <1>1, <1>3, WritesAre DEF Reviewed!ReportUnknown

(* One row takes an outcome without a write. *)
LEMMA VoidStep ==
  ASSUME UNCHANGED applied, NEW a \in Actions, Len(applied[a]) = 0,
         row[a].status \in {"pending", "executing"},
         row'[a].status \in {"rejected", "expired", "failed"},
         \A b \in Actions \ {a} : row'[b] = row[b]
  PROVE  Reviewed!ReportVoid({a})
<1>1. Report[a] = "open" /\ Report'[a] = "void" /\ Writes[a] = 0
  BY DEF Report, Writes
<1>2. \A b \in Actions \ {a} : Report'[b] = Report[b]
  BY ReportKept
<1>3. Report' = [b \in Actions |-> IF b \in {a} THEN "void" ELSE Report[b]]
  BY <1>1, <1>2 DEF Report
<1>. QED  BY <1>1, <1>3, WritesAre DEF Reviewed!ReportVoid

(* One write is committed, and journaled with it or not. *)
LEMMA HappenStep ==
  ASSUME TypeOK, NEW a \in Actions, Len(applied[a]) = 0,
         applied' = [applied EXCEPT ![a] = Append(@, account.number)],
         row[a].status \in {"executing", "unknown"},
         \/ row' = row
         \/ row[a].status = "executing" /\ row' = SetStatus(a, "succeeded")
  PROVE  Reviewed!Happen(a)
<1>1. Writes[a] = 0 /\ Report[a] \in {"open", "unknown"}
  BY DEF Writes, Report
<1>2. Writes' = [Writes EXCEPT ![a] = 1]
  <2>1. /\ Len(applied'[a]) = Len(applied[a]) + 1
        /\ \A b \in Actions \ {a} : applied'[b] = applied[b]
    BY AppendHolds
  <2>2. Len(applied'[a]) = 1
    BY <2>1
  <2>3. Writes'[a] = 1 /\ \A b \in Actions \ {a} : Writes'[b] = Writes[b]
    BY <2>1, <2>2 DEF Writes
  <2>. QED  BY <2>3 DEF Writes
<1>3. CASE row' = row
  <2>1. UNCHANGED Report
    BY <1>3 DEF Report
  <2>. QED  BY <1>1, <1>2, <2>1 DEF Reviewed!Happen
<1>4. CASE row[a].status = "executing" /\ row' = SetStatus(a, "succeeded")
  <2>1. /\ row'[a].status = "succeeded"
        /\ \A b \in Actions \ {a} : row'[b] = row[b]
    BY <1>4, SetStatusHolds DEF Statuses, Terminal
  <2>2. Report[a] = "open" /\ Report'[a] = "done"
    BY <1>4, <2>1 DEF Report
  <2>3. \A b \in Actions \ {a} : Report'[b] = Report[b]
    BY <2>1, ReportKept
  <2>4. Report' = [Report EXCEPT ![a] = "done"]
    BY <2>2, <2>3 DEF Report
  <2>. QED  BY <1>1, <1>2, <2>2, <2>4 DEF Reviewed!Happen
<1>. QED  BY <1>3, <1>4

LEMMA ReviewedInit == Init => Reviewed!WriteInit
<1> SUFFICES ASSUME Init PROVE Reviewed!WriteInit
  OBVIOUS
<1>1. \A a \in Actions : Writes[a] = 0 /\ Report[a] = "open"
  BY DEF Init, Writes, Report
<1>2. Writes = [a \in Actions |-> 0] /\ Report = [a \in Actions |-> "open"]
  BY <1>1 DEF Writes, Report
<1>. QED  BY <1>2 DEF Reviewed!WriteInit

LEMMA ReviewedStep ==
  Inv /\ [Next]_vars => [Reviewed!WriteNext]_(Reviewed!wvars)
<1> SUFFICES ASSUME Inv, [Next]_vars
             PROVE  Reviewed!WriteNext \/ UNCHANGED Reviewed!wvars
  OBVIOUS
<1>0. TypeOK /\ \A a \in Actions : row[a] \in Row
  BY DEF Inv, TypeOK
<1>1. CASE UNCHANGED <<row, applied>>
  BY <1>1, WriteStutter
<1>2. ASSUME Refresh, UNCHANGED applied PROVE Reviewed!WriteNext
  <2> DEFINE S == {a \in Actions : Lapsed(a)}
  <2>1. /\ \A a \in S : row[a].status = "executing" /\ row'[a].status = "unknown"
        /\ \A a \in Actions \ S : row'[a].status = row[a].status
    BY <1>0, <1>2 DEF Refresh, Lapsed, Row
  <2>2. S \in SUBSET Actions
    OBVIOUS
  <2> HIDE DEF S
  <2>3. Reviewed!ReportUnknown(S)
    BY <1>2, <2>1, <2>2, UnknownStep
  <2>. QED  BY <2>2, <2>3 DEF Reviewed!WriteNext
<1>3. ASSUME NEW a \in Actions, NEW s \in {"rejected", "expired", "failed"},
             row[a].status \in {"pending", "executing"}, Len(applied[a]) = 0,
             row' = SetStatus(a, s), UNCHANGED applied
      PROVE  Reviewed!WriteNext
  <2>1. row'[a].status = s /\ \A b \in Actions \ {a} : row'[b] = row[b]
    BY <1>0, <1>3, SetStatusHolds DEF Statuses, Terminal
  <2>2. Reviewed!ReportVoid({a})
    BY <1>3, <2>1, VoidStep
  <2>. QED  BY <2>2 DEF Reviewed!WriteNext
<1>4. \A a \in Actions : row[a].status = "pending" => Len(applied[a]) = 0
  BY DEF Inv, AppliedOK
<1>5. CASE Tick \/ EditAccount \/ ListRefresh
  BY <1>1, <1>2, <1>5 DEF Tick, EditAccount, ListRefresh
<1>6. ASSUME NEW a \in Actions, Propose(a) PROVE UNCHANGED Reviewed!wvars
  <2> DEFINE new == [status |-> "pending", expiresAt |-> clock + Ttl,
                     updatedAt |-> clock,
                     witness |-> IF a \in Balances THEN account.number ELSE None]
  <2>1. row' = [row EXCEPT ![a] = new] /\ new.status = "pending"
    BY <1>6 DEF Propose
  <2> HIDE DEF new
  <2>2. /\ row[a].status = "absent" /\ row'[a].status = "pending"
        /\ \A b \in Actions \ {a} : row'[b] = row[b]
    BY <1>0, <1>6, <2>1 DEF TypeOK, Propose
  <2>. QED  BY <1>6, <2>2, WriteStutter DEF Propose
<1>7. ASSUME NEW a \in Actions, ListExpire(a) PROVE Reviewed!WriteNext
  BY <1>3, <1>4, <1>7 DEF ListExpire
<1>8. ASSUME NEW r \in Requests, NEW a \in Actions, Approve(r, a) \/ Reject(r, a)
      PROVE  Reviewed!WriteNext
  BY <1>2, <1>8 DEF Approve, Reject, Begin
<1>9. ASSUME NEW r \in Requests, SettlePending(r)
      PROVE  Reviewed!WriteNext \/ UNCHANGED Reviewed!wvars
  <2>. PICK a \in Actions : a = request[r].action
    BY <1>9, EarlyHolds DEF SettlePending, Busy, BeforeWrite
  <2>1. UNCHANGED applied /\
        (\/ row' = row
         \/ row[a].status = "pending" /\ row' = SetStatus(a, "expired")
         \/ row[a].status = "pending" /\ row' = SetStatus(a, "rejected"))
    BY <1>9 DEF SettlePending
  <2>. QED  BY <1>1, <1>3, <1>4, <2>1
<1>10. ASSUME NEW r \in Requests, Claim(r)
       PROVE  Reviewed!WriteNext \/ UNCHANGED Reviewed!wvars
  <2>. PICK a \in Actions : a = request[r].action
    BY <1>10, EarlyHolds DEF Claim, Busy, BeforeWrite
  <2> DEFINE t == MaxOf(request[r].now, clock)
  <2>1. /\ UNCHANGED applied
        /\ \/ row' = row
           \/ /\ row[request[r].action].status = "pending"
              /\ row' = SetStatus(request[r].action, "expired")
           \/ /\ row[request[r].action].status = "pending"
              /\ row' = [row EXCEPT ![request[r].action].status = "executing",
                                    ![request[r].action].updatedAt = t]
    BY <1>10 DEF Claim
  <2> HIDE DEF t
  <2>2. CASE row[a].status = "pending" /\ row' = SetStatus(a, "expired")
    BY <1>3, <1>4, <2>1, <2>2
  <2>3. CASE /\ row[a].status = "pending"
             /\ row' = [row EXCEPT ![a].status = "executing", ![a].updatedAt = t]
    <3>1. row'[a].status = "executing" /\ \A b \in Actions \ {a} : row'[b] = row[b]
      BY <1>0, <2>3 DEF TypeOK, Row
    <3>. QED  BY <2>1, <2>3, <3>1, WriteStutter
  <2>. QED  BY <1>1, <2>1, <2>2, <2>3
<1>11. ASSUME NEW r \in Requests, Refuse(r) \/ Catch(r)
       PROVE  Reviewed!WriteNext \/ UNCHANGED Reviewed!wvars
  <2>0. request[r].at \in Busy /\ UNCHANGED applied
    BY <1>11 DEF Refuse, Catch, Busy, BeforeWrite
  <2>. PICK a \in Actions : a = request[r].action
    BY <2>0, BusyHolds
  <2>1. \/ UNCHANGED row
        \/ /\ row[a].status = "executing" /\ row' = SetStatus(a, "failed")
           /\ request[r].at \in BeforeWrite \/ request[r].guard
        \/ row[a].status = "executing" /\ row' = SetStatus(a, "unknown")
    BY <1>11
    DEF Refuse, Catch, CatchOutcome, FinishedRow, FinishApplies, BeforeWrite
  <2>2. CASE /\ row[a].status = "executing" /\ row' = SetStatus(a, "failed")
             /\ request[r].at \in BeforeWrite \/ request[r].guard
    <3>1. Len(applied[a]) = 0
      BY <2>2 DEF Inv, AppliedOK
    <3>. QED  BY <1>3, <2>0, <2>2, <3>1
  <2>3. CASE row[a].status = "executing" /\ row' = SetStatus(a, "unknown")
    <3>1. row'[a].status = "unknown" /\ \A b \in Actions \ {a} : row'[b] = row[b]
      BY <1>0, <2>3, SetStatusHolds DEF Statuses, Terminal
    <3>2. Reviewed!ReportUnknown({a})
      BY <2>0, <2>3, <3>1, UnknownStep
    <3>. QED  BY <3>2 DEF Reviewed!WriteNext
  <2>. QED  BY <1>1, <2>0, <2>1, <2>2, <2>3
<1>12. ASSUME NEW r \in Requests, Write(r)
       PROVE  Reviewed!WriteNext \/ UNCHANGED Reviewed!wvars
  <2>0. request[r].at = "write" /\ request[r].at \in Busy /\ UNCHANGED row
    BY <1>12 DEF Write, Busy, BeforeWrite
  <2>. PICK a \in Actions : a = request[r].action
    BY <2>0, BusyHolds
  <2>1. /\ Len(applied[a]) = 0
        /\ row[a].status \in {"executing", "unknown"}
    <3>1. Len(applied[a]) = 0
      BY <2>0 DEF Inv, AppliedOK, BeforeWrite
    <3>2. row[a].status \in Claimed
      BY <2>0, BusyHolds
    <3>3. row[a].status # "succeeded"
      <4>1. row[a].status = "succeeded" => Len(applied[a]) = 1
        BY DEF Inv, AppliedOK
      <4>. QED  BY <3>1, <4>1
    <3>. QED  BY <3>1, <3>2, <3>3 DEF Claimed
  <2>2. \/ applied' = [applied EXCEPT ![a] = Append(@, account.number)]
        \/ UNCHANGED applied
    BY <1>12 DEF Write
  <2>3. CASE applied' = [applied EXCEPT ![a] = Append(@, account.number)]
    <3>1. Reviewed!Happen(a)
      BY <1>0, <2>0, <2>1, <2>3, HappenStep
    <3>. QED  BY <3>1 DEF Reviewed!WriteNext
  <2>. QED  BY <1>1, <2>0, <2>2, <2>3
<1>13. ASSUME NEW r \in Requests, Journal(r)
       PROVE  Reviewed!WriteNext \/ UNCHANGED Reviewed!wvars
  <2>0. /\ request[r].at = "journal" /\ request[r].at \in Busy
        /\ UNCHANGED applied
    BY <1>13 DEF Journal, Busy, BeforeWrite
  <2>. PICK a \in Actions : a = request[r].action
    BY <2>0, BusyHolds
  <2>1. \/ UNCHANGED row
        \/ /\ ~ Atomic /\ row[a].status = "executing"
           /\ row' = SetStatus(a, "succeeded")
    BY <1>13 DEF Journal, FinishApplies
  <2>2. CASE /\ ~ Atomic /\ row[a].status = "executing"
             /\ row' = SetStatus(a, "succeeded")
    <3>1. row'[a].status = "succeeded" /\ \A b \in Actions \ {a} : row'[b] = row[b]
      BY <1>0, <2>2, SetStatusHolds DEF Statuses, Terminal
    <3>2. Report[a] = "open" /\ Report'[a] = "done"
      BY <2>2, <3>1 DEF Report
    <3>3. \A b \in Actions \ {a} : Report'[b] = Report[b]
      BY <3>1, ReportKept
    <3>4. Report' = [Report EXCEPT ![a] = "done"]
      BY <3>2, <3>3 DEF Report
    <3>5. Writes[a] = 1
      BY <2>0, <2>2 DEF Inv, AppliedOK, Writes
    <3>6. Reviewed!ReportDone(a)
      BY <2>0, <3>2, <3>4, <3>5, WritesAre DEF Reviewed!ReportDone
    <3>. QED  BY <3>6 DEF Reviewed!WriteNext
  <2>. QED  BY <1>1, <2>0, <2>1, <2>2
<1>14. ASSUME NEW r \in Requests, Commit(r) \/ ServerDecides(r)
       PROVE  Reviewed!WriteNext \/ UNCHANGED Reviewed!wvars
  <2>1. Committed(r) \/ UNCHANGED <<row, applied>>
    BY <1>14 DEF Commit, ServerDecides
  <2>2. tx[r].phase \in {"journaled", "doubt"}
    BY <1>14 DEF Commit, ServerDecides, Inv, TxOK
  <2>. PICK a \in Actions : a = tx[r].action
    BY <2>2 DEF Inv, TxOK
  <2>3. CASE Committed(r)
    <3>1. row[a].status = "executing" /\ Atomic
      BY <2>2 DEF Inv, TxOK
    <3>2. Len(applied[a]) = 0
      BY <3>1 DEF Inv, AppliedOK
    <3>3. /\ row' = SetStatus(a, "succeeded")
          /\ applied' = [applied EXCEPT ![a] = Append(@, account.number)]
      BY <2>3 DEF Committed
    <3>4. Reviewed!Happen(a)
      BY <1>0, <3>1, <3>2, <3>3, HappenStep
    <3>. QED  BY <3>4 DEF Reviewed!WriteNext
  <2>. QED  BY <1>1, <2>1, <2>3
<1>15. ASSUME NEW r \in Requests,
              Find(r) \/ FindReject(r) \/ Check(r) \/ Execute(r) \/ Crash(r)
       PROVE  Reviewed!WriteNext \/ UNCHANGED Reviewed!wvars
  BY <1>1, <1>15 DEF Find, FindReject, Check, Execute, Crash
<1>16. CASE UNCHANGED vars
  BY <1>1, <1>16 DEF vars
<1>. QED
  BY <1>5, <1>6, <1>7, <1>8, <1>9, <1>10, <1>11, <1>12, <1>13, <1>14, <1>15,
     <1>16
  DEF Next, Serve

(* At most once: a write is made once or never, reported done only when it *)
(* was made and void only when it never will be.                           *)
THEOREM Implements == Spec => AtMostOnce
<1>. QED
  BY ReviewedInit, ReviewedStep, Invariant, PTL
  DEF Spec, AtMostOnce, Reviewed!WriteSpec

=============================================================================

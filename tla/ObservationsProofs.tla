--------------------------- MODULE ObservationsProofs ---------------------------
(* For any number of calls, captures and membership numbers: a capture is      *)
(* recorded once, under an authority that stands; a held reading is confirmed  *)
(* on its baseline; the extension neither forgets nor invents an outcome; and  *)
(* the calls never wait for each other in a circle.                            *)
EXTENDS Observations, FiniteSetTheorems, SequenceTheorems, WellFoundedInduction, TLAPS

Kinds == {"capture", "token", "provider", "account", "grant", "receipt"}
Lock == Kinds \X (Captures \union Nat \union {None})
Row == [member : Members, deleted : BOOLEAN]
Snap == [points : Nat, captured : Nat, by : Captures \union Calls]
Judged == {"submit", "confirm", "reject"}

CallState ==
  [op : Ops, arg : Captures \union {None} \union Nat \union SUBSET Nat,
   member : Members \union {None}, at : {"idle", "lock", "judge", "commit", "done"},
   todo : Seq(Kinds), held : SUBSET Lock,
   read : [token : BOOLEAN, account : {None} \union Row, grant : Nat],
   started : Nat, base : Seq(Captures \union Calls), answer : Outcomes \union {"error"}]

Types ==
  /\ time \in Nat /\ tokenLive \in BOOLEAN
  /\ grant \in Seq([expires : Nat, revoked : BOOLEAN])
  /\ account \in {None} \union Row
  /\ snaps \in Seq(Snap)
  /\ receipt \in [Captures -> {None} \union Receipt]
  /\ call \in [Calls -> CallState]
  /\ latest \in Pages \union {None} /\ pending \in Pages \union {None}
  /\ seen \in [Pages -> Nat \union {None}]
  /\ busy \in Calls \union {None, "frozen"}
  /\ sent \subseteq Pages

Running(p) == call[p].at \in {"lock", "judge", "commit"}

\* What a call that took a lock of this kind may rely on.
Holding(p, kind) ==
  LET me == call[p] IN
  /\ kind \in {"token", "provider", "account"} => <<kind, None>> \in me.held
  /\ kind \in {"capture", "receipt"} => <<kind, me.arg>> \in me.held
  /\ kind = "grant" /\ me.op = "revokeGrants" => \A g \in me.arg : <<kind, g>> \in me.held
  /\ me.op = "submit" =>
       /\ kind = "token" /\ me.read.token => tokenLive
       /\ kind = "account" /\ me.read.account # None => account = me.read.account
       /\ kind = "grant" /\ me.read.grant # 0 =>
            me.read.grant \in Open /\ <<kind, me.read.grant>> \in me.held

\* A call has taken its first n locks, in order.
Taken(p, n) ==
  LET plan == Plan(call[p].op) IN
  /\ call[p].todo = SubSeq(plan, n + 1, Len(plan))
  /\ call[p].at = "lock" <=> n < Len(plan)
  /\ \A i \in 1 .. n : Holding(p, plan[i])

\* What an operation may be called with, and a running call was.
Fit(op, arg, member) ==
  /\ op \in Judged => arg \in Captures
  /\ op \in {"confirm", "reject"} => receipt[arg] # None
  /\ op = "submit" /\ arg \in Pages => seen[arg] # None
  /\ op = "revokeGrants" => arg \subseteq Nat
  /\ op = "manual" => arg \in Nat
  /\ op \in {"edit", "link"} => member \in Members

Given(p) == Fit(call[p].op, call[p].arg, call[p].member)

\* A confirmation that was judged still agrees with everything but the clock.
Agreed(c) ==
  /\ account # None /\ ~account.deleted
  /\ account.member = receipt[c].member
  /\ Base = receipt[c].base

Decided(p) ==
  LET me == call[p] IN
  me.at = "commit" =>
    /\ me.op \in Judged
    /\ me.op = "submit" =>
         /\ me.answer \in {"recorded", "unchanged", "needs_review"}
         /\ me.read.account # None \/ me.member # None
    /\ me.op = "confirm" => Agreed(me.arg)

CallOK(p) ==
  Running(p) =>
    /\ Given(p) /\ Decided(p)
    /\ \E n \in 0 .. Len(Plan(call[p].op)) : Taken(p, n)

Exclusive == \A p, q \in Calls : call[p].held \intersect call[q].held # {} => p = q

\* What the extension shows was seen; what it waits for is what it asked.
SavedIn(rows, c) == rows[c] # None /\ rows[c].outcome \in {"recorded", "unchanged"}
Saved(c) == SavedIn(receipt, c)

Extension ==
  /\ \A c \in Pages : c \in {latest, pending} => seen[c] # None
  /\ busy # None => pending # None
  /\ busy \in Calls =>
       /\ call[busy].at # "idle"
       /\ Running(busy) => call[busy].op = "submit" /\ call[busy].arg = pending
       /\ call[busy].at = "done" /\ call[busy].answer \in {"recorded", "unchanged"}
            => Saved(pending)

Inv ==
  /\ Types /\ Exclusive /\ Extension
  /\ \A p \in Calls : CallOK(p)
  /\ RecordedOnce /\ NothingForgotten /\ SavedIsSaved

--------------------------------------------------------------------------------
(* The plans, and histories with one more reading                              *)

\* The locks of every operation.
LEMMA Plans ==
  /\ Plan("submit") = <<"capture", "token", "provider", "account", "grant">>
  /\ Plan("confirm") = <<"provider", "account", "receipt">>
  /\ Plan("reject") = <<"provider", "account", "receipt">>
  /\ Plan("manual") = <<"provider", "account">>
  /\ Plan("edit") = <<"provider", "account">>
  /\ Plan("unlink") = <<"provider", "account">>
  /\ Plan("grant") = <<"provider", "grant">>
  /\ Plan("revokeGrants") = <<"grant">>
  /\ Plan("revokeToken") = <<"token">>
  /\ Plan("link") = <<>>
BY DEF Plan, LockOrder

\* Every plan is made of kinds of locks.
LEMMA PlanType == ASSUME NEW op \in Ops PROVE Plan(op) \in Seq(Kinds)
<1>1. <<"capture", "token", "provider", "account", "grant">> \in Seq(Kinds)
  <2>1. /\ "capture" \in Kinds /\ "token" \in Kinds /\ "provider" \in Kinds
        /\ "account" \in Kinds /\ "grant" \in Kinds
    BY DEF Kinds
  <2> QED
    BY <2>1
<1>2. <<"provider", "account", "receipt">> \in Seq(Kinds)
  BY DEF Kinds
<1>3. <<"provider", "account">> \in Seq(Kinds) /\ <<"provider", "grant">> \in Seq(Kinds)
  BY DEF Kinds
<1>4. <<"grant">> \in Seq(Kinds) /\ <<"token">> \in Seq(Kinds) /\ <<>> \in Seq(Kinds)
  BY DEF Kinds
<1>5. /\ Plan("submit") \in Seq(Kinds) /\ Plan("confirm") \in Seq(Kinds)
      /\ Plan("reject") \in Seq(Kinds) /\ Plan("manual") \in Seq(Kinds)
      /\ Plan("edit") \in Seq(Kinds) /\ Plan("unlink") \in Seq(Kinds)
      /\ Plan("grant") \in Seq(Kinds) /\ Plan("revokeGrants") \in Seq(Kinds)
      /\ Plan("revokeToken") \in Seq(Kinds) /\ Plan("link") \in Seq(Kinds)
  BY <1>1, <1>2, <1>3, <1>4, Plans, Zenon
<1> QED
  BY <1>5 DEF Ops

\* What is left of a plan, one lock later.
LEMMA Suffix ==
  ASSUME NEW s \in Seq(Kinds), NEW n \in Nat, n < Len(s)
  PROVE  LET t == SubSeq(s, n + 1, Len(s)) IN
         /\ Head(t) = s[n + 1] /\ Tail(t) = SubSeq(s, n + 2, Len(s))
         /\ Len(t) = Len(s) - n /\ t \in Seq(Kinds) /\ Tail(t) \in Seq(Kinds)
<1> DEFINE t == SubSeq(s, n + 1, Len(s))
<1>1. Len(t) = Len(s) - n /\ t \in Seq(Kinds) /\ \A i \in 1 .. Len(t) : t[i] = s[n + i]
  OBVIOUS
<1>2. Head(t) = s[n + 1]
  BY <1>1
<1>3. Tail(t) = SubSeq(s, n + 2, Len(s))
  BY <1>1
<1>4. Tail(t) \in Seq(Kinds)
  <2> HIDE DEF t
  <2> QED
    BY <1>1
<1> QED
  BY <1>1, <1>2, <1>3, <1>4

\* t is s with x put in after the first k.
OneMore(s, t, k, x) ==
  /\ Len(t) = Len(s) + 1
  /\ \A j \in 1 .. Len(t) :
       t[j] = IF j <= k THEN s[j] ELSE IF j = k + 1 THEN x ELSE s[j - 1]

\* A history with a reading put in after the first k.
LEMMA Insertion ==
  ASSUME NEW S, NEW s \in Seq(S), NEW k \in 0 .. Len(s), NEW x \in S
  PROVE  InsertedAt(s, k, x) \in Seq(S) /\ OneMore(s, InsertedAt(s, k, x), k, x)
<1> DEFINE a == SubSeq(s, 1, k)
           b == SubSeq(s, k + 1, Len(s))
<1>0. Len(s) \in Nat /\ k \in Nat /\ k <= Len(s)
  OBVIOUS
<1>1. a \in Seq(S) /\ Len(a) = k /\ \A j \in 1 .. k : a[j] = s[j]
  OBVIOUS
<1>2. b \in Seq(S) /\ Len(b) = Len(s) - k /\ \A j \in 1 .. Len(b) : b[j] = s[k + j]
  OBVIOUS
<1>3. InsertedAt(s, k, x) = a \o <<x>> \o b
  BY DEF InsertedAt
<1> HIDE DEF a, b
<1> DEFINE ax == a \o <<x>>
<1>4. ax \in Seq(S) /\ Len(ax) = k + 1 /\ ax[k + 1] = x /\ \A j \in 1 .. k : ax[j] = s[j]
  BY <1>1
<1> DEFINE t == ax \o b
<1>5. /\ t \in Seq(S) /\ Len(t) = k + 1 + Len(b)
      /\ \A j \in 1 .. k + 1 + Len(b) :
           t[j] = IF j <= k + 1 THEN ax[j] ELSE b[j - (k + 1)]
  <2> HIDE DEF ax
  <2>1. /\ t \in Seq(S) /\ Len(t) = Len(ax) + Len(b)
        /\ \A j \in 1 .. Len(ax) + Len(b) :
             t[j] = IF j <= Len(ax) THEN ax[j] ELSE b[j - Len(ax)]
    BY <1>2, <1>4, ConcatProperties, Zenon
  <2> QED
    BY <2>1, <1>4, Zenon
<1> HIDE DEF ax, t
<1>6. ASSUME NEW j \in 1 .. Len(s) + 1
      PROVE t[j] = IF j <= k THEN s[j] ELSE IF j = k + 1 THEN x ELSE s[j - 1]
  <2>0. j \in 1 .. k + 1 + Len(b)
    BY <1>0, <1>2
  <2>1. CASE j <= k
    BY <2>1, <2>0, <1>0, <1>4, <1>5
  <2>2. CASE j = k + 1
    BY <2>2, <2>0, <1>0, <1>4, <1>5
  <2>3. CASE j > k + 1
    <3>1. t[j] = b[j - (k + 1)] /\ j - (k + 1) \in 1 .. Len(b)
      BY <2>3, <2>0, <1>0, <1>2, <1>5
    <3> QED
      BY <3>1, <1>0, <1>2, <2>3
  <2> QED
    BY <2>1, <2>2, <2>3, <1>0
<1>7. InsertedAt(s, k, x) = t
  BY <1>3 DEF t, ax
<1>8. t \in Seq(S) /\ Len(t) = Len(s) + 1
  BY <1>0, <1>2, <1>5
<1>9. OneMore(s, t, k, x)
  BY <1>6, <1>8 DEF OneMore
<1> QED
  BY <1>7, <1>8, <1>9

Places(s, c) == {i \in DOMAIN s : s[i].by = c}

\* It adds one place to its own capture and none to another.
LEMMA CountInserted ==
  ASSUME NEW s \in Seq(Snap), NEW k \in 0 .. Len(s), NEW x \in Snap, NEW c
  PROVE  Cardinality(Places(InsertedAt(s, k, x), c))
           = Cardinality(Places(s, c)) + IF x.by = c THEN 1 ELSE 0
<1>0. Len(s) \in Nat /\ k \in Nat /\ k <= Len(s)
  OBVIOUS
<1> DEFINE t == InsertedAt(s, k, x)
           A == Places(s, c)
           B == Places(t, c) \ {k + 1}
           f == [j \in A |-> IF j <= k THEN j ELSE j + 1]
<1>1. /\ t \in Seq(Snap) /\ Len(t) = Len(s) + 1
      /\ \A j \in 1 .. Len(t) :
           t[j] = IF j <= k THEN s[j] ELSE IF j = k + 1 THEN x ELSE s[j - 1]
  <2>1. t \in Seq(Snap) /\ OneMore(s, t, k, x)
    BY Insertion
  <2> QED
    BY <2>1 DEF OneMore
<1> HIDE DEF t
<1>2. A \subseteq 1 .. Len(s) /\ \A j \in 1 .. Len(s) : j \in A <=> s[j].by = c
  BY DEF Places
<1>3. \A j \in 1 .. Len(s) + 1 : j \in B <=> t[j].by = c /\ j # k + 1
  BY <1>1 DEF Places
<1>3a. B \subseteq 1 .. Len(s) + 1
  BY <1>1 DEF Places
<1> HIDE DEF A, B
<1>4. ASSUME NEW j \in A PROVE f[j] \in B
  <2>1. j \in 1 .. Len(s) /\ s[j].by = c
    BY <1>2
  <2>2. CASE j <= k
    <3>1. j \in 1 .. Len(s) + 1 /\ t[j] = s[j] /\ j # k + 1
      BY <2>1, <2>2, <1>0, <1>1
    <3> QED
      BY <3>1, <2>1, <2>2, <1>3
  <2>3. CASE ~(j <= k)
    <3>1. j + 1 \in 1 .. Len(s) + 1 /\ t[j + 1] = s[j] /\ j + 1 # k + 1
      BY <2>1, <2>3, <1>0, <1>1
    <3> QED
      BY <3>1, <2>1, <2>3, <1>3
  <2> QED
    BY <2>2, <2>3
<1>5. \A i, j \in A : f[i] = f[j] => i = j
  BY <1>2
<1>6. ASSUME NEW j \in B PROVE \E i \in A : f[i] = j
  <2>1. CASE j <= k
    BY <2>1, <1>1, <1>2, <1>3, <1>3a
  <2>2. CASE j > k + 1
    <3>1. j - 1 \in 1 .. Len(s) /\ t[j] = s[j - 1] /\ t[j].by = c
      BY <1>0, <2>2, <1>1, <1>3, <1>3a
    <3>2. j - 1 \in A
      BY <3>1, <1>2
    <3>3. ~(j - 1 <= k) /\ j \in Int
      BY <1>0, <1>3a, <2>2
    <3> QED
      BY <3>2, <3>3
  <2> QED
    BY <2>1, <2>2, <1>3, <1>3a
<1>7. f \in Bijection(A, B)
  BY <1>4, <1>5, <1>6 DEF Bijection, Injection, Surjection, IsInjective
<1>8. IsFiniteSet(A)
  <2>1. IsFiniteSet(1 .. Len(s))
    BY <1>0, FS_Interval
  <2> QED
    BY <2>1, <1>2, FS_Subset
<1>9. IsFiniteSet(B) /\ Cardinality(A) = Cardinality(B)
  BY <1>7, <1>8, FS_Bijection DEF ExistsBijection
<1>10. k + 1 \notin B /\ Places(t, c) = IF x.by = c THEN B \union {k + 1} ELSE B
  BY <1>1, <1>3, <1>3a DEF B, Places
<1> QED
  BY <1>9, <1>10, FS_AddElement, FS_CardinalityType DEF A, t

--------------------------------------------------------------------------------
(* What a call may rely on                                                     *)

\* A call that took all its locks holds every one of its plan.
LEMMA AllTaken ==
  ASSUME NEW p \in Calls, call \in [Calls -> CallState], CallOK(p),
         call[p].at \in {"judge", "commit"}
  PROVE  \A i \in 1 .. Len(Plan(call[p].op)) : Holding(p, Plan(call[p].op)[i])
<1>1. PICK n \in 0 .. Len(Plan(call[p].op)) : Taken(p, n)
  BY DEF CallOK, Running
<1>2. call[p].op \in Ops
  BY DEF CallState
<1>3. Len(Plan(call[p].op)) \in Nat
  BY <1>2, PlanType
<1>4. n = Len(Plan(call[p].op))
  BY <1>1, <1>3 DEF Taken
<1> QED
  BY <1>1, <1>4 DEF Taken

\* Spelled out by operation.
LEMMA HeldByAll ==
  ASSUME NEW p \in Calls, call \in [Calls -> CallState], CallOK(p),
         call[p].at \in {"judge", "commit"}
  PROVE  /\ call[p].op = "submit" =>
              /\ Holding(p, "token") /\ Holding(p, "provider") /\ Holding(p, "account")
              /\ Holding(p, "grant")
         /\ call[p].op \in {"confirm", "reject", "manual", "edit", "unlink"} =>
              Holding(p, "provider") /\ Holding(p, "account")
         /\ call[p].op = "grant" => Holding(p, "provider")
         /\ call[p].op = "revokeGrants" => Holding(p, "grant")
         /\ call[p].op = "revokeToken" => Holding(p, "token")
<1> DEFINE op == call[p].op
<1>1. \A i \in 1 .. Len(Plan(op)) : Holding(p, Plan(op)[i])
  BY AllTaken
<1> HIDE DEF op
<1>2. op = "submit" => /\ Holding(p, "token") /\ Holding(p, "provider")
                       /\ Holding(p, "account") /\ Holding(p, "grant")
  <2> SUFFICES ASSUME op = "submit" PROVE /\ Holding(p, "token") /\ Holding(p, "provider")
                       /\ Holding(p, "account") /\ Holding(p, "grant")
    OBVIOUS
  <2>1. Plan(op) = <<"capture", "token", "provider", "account", "grant">>
    BY Plans
  <2>2. \A i \in 1 .. 5 : Holding(p, Plan(op)[i])
    BY <1>1, <2>1
  <2>3. /\ Holding(p, Plan(op)[2]) /\ Holding(p, Plan(op)[3])
        /\ Holding(p, Plan(op)[4]) /\ Holding(p, Plan(op)[5])
    BY <2>2
  <2>4. Plan(op)[2] = "token" /\ Plan(op)[3] = "provider" /\ Plan(op)[4] = "account"
        /\ Plan(op)[5] = "grant"
    BY <2>1
  <2> QED
    BY <2>3, <2>4
<1>3. op \in {"confirm", "reject"} => Holding(p, "provider") /\ Holding(p, "account")
  <2> SUFFICES ASSUME op \in {"confirm", "reject"}
               PROVE  Holding(p, "provider") /\ Holding(p, "account")
    OBVIOUS
  <2>1. Plan(op) = <<"provider", "account", "receipt">>
    BY Plans
  <2>2. Holding(p, Plan(op)[1]) /\ Holding(p, Plan(op)[2])
    BY <1>1, <2>1
  <2>3. Plan(op)[1] = "provider" /\ Plan(op)[2] = "account"
    BY <2>1
  <2> QED
    BY <2>2, <2>3
<1>4. op \in {"manual", "edit", "unlink"} => Holding(p, "provider") /\ Holding(p, "account")
  <2> SUFFICES ASSUME op \in {"manual", "edit", "unlink"}
               PROVE  Holding(p, "provider") /\ Holding(p, "account")
    OBVIOUS
  <2>1. Plan(op) = <<"provider", "account">>
    BY Plans
  <2>2. Holding(p, Plan(op)[1]) /\ Holding(p, Plan(op)[2])
    BY <1>1, <2>1
  <2>3. Plan(op)[1] = "provider" /\ Plan(op)[2] = "account"
    BY <2>1
  <2> QED
    BY <2>2, <2>3
<1>5. op = "grant" => Holding(p, "provider")
  <2> SUFFICES ASSUME op = "grant" PROVE Holding(p, "provider")
    OBVIOUS
  <2>1. Plan(op) = <<"provider", "grant">>
    BY Plans
  <2>2. Holding(p, Plan(op)[1]) /\ Plan(op)[1] = "provider"
    BY <1>1, <2>1
  <2> QED
    BY <2>2
<1>6. op = "revokeGrants" => Holding(p, "grant")
  <2> SUFFICES ASSUME op = "revokeGrants" PROVE Holding(p, "grant")
    OBVIOUS
  <2>1. Plan(op) = <<"grant">>
    BY Plans
  <2>2. Holding(p, Plan(op)[1]) /\ Plan(op)[1] = "grant"
    BY <1>1, <2>1
  <2> QED
    BY <2>2
<1>7. op = "revokeToken" => Holding(p, "token")
  <2> SUFFICES ASSUME op = "revokeToken" PROVE Holding(p, "token")
    OBVIOUS
  <2>1. Plan(op) = <<"token">>
    BY Plans
  <2>2. Holding(p, Plan(op)[1]) /\ Plan(op)[1] = "token"
    BY <1>1, <2>1
  <2> QED
    BY <2>2
<1> QED
  BY <1>2, <1>3, <1>4, <1>5, <1>6, <1>7 DEF op

\* Steps that respect the locks of a call leave it as it was.
LEMMA Frame ==
  ASSUME Types, NEW q \in Calls, CallOK(q), call'[q] = call[q],
         tokenLive' = tokenLive \/ <<"token", None>> \notin call[q].held,
         account' = account \/ account = None \/ <<"account", None>> \notin call[q].held,
         \A g \in Open : \/ g \in Open' \/ <<"grant", g>> \notin call[q].held
                         \/ <<"provider", None>> \notin call[q].held,
         <<"account", None>> \in call[q].held => UNCHANGED <<snaps, receipt>>,
         \A c \in Captures : receipt[c] # None => receipt'[c] # None,
         \A c \in Pages : seen[c] # None => seen'[c] # None
  PROVE  CallOK(q)'
<1> SUFFICES ASSUME Running(q)' PROVE (Given(q) /\ Decided(q))' /\
                 \E n \in 0 .. Len(Plan(call'[q].op)) : Taken(q, n)'
  BY DEF CallOK
<1>0. Running(q) /\ call[q] \in CallState
  BY DEF Running, Types
<1>1. Given(q)'
  <2>1. Given(q)
    BY <1>0 DEF CallOK
  <2>2. call[q].op \in {"confirm", "reject"} => call[q].arg \in Captures
    BY <2>1 DEF Given, Fit, Judged
  <2> QED
    BY <2>1, <2>2 DEF Given, Fit
<1>2. Decided(q)'
  <2> SUFFICES ASSUME call[q].at = "commit" PROVE Decided(q)'
    BY DEF Decided
  <2>1. Decided(q)
    BY <1>0 DEF CallOK
  <2>2. CASE call[q].op = "confirm"
    <3>1. Holding(q, "account")
      BY <2>2, HeldByAll DEF Types
    <3>2. <<"account", None>> \in call[q].held
      BY <3>1 DEF Holding
    <3>3. Agreed(call[q].arg)
      BY <2>1, <2>2 DEF Decided
    <3>4. UNCHANGED <<account, snaps, receipt>>
      BY <3>2, <3>3 DEF Agreed
    <3>5. Agreed(call[q].arg)'
      BY <3>3, <3>4 DEF Agreed, Base
    <3> QED
      BY <2>1, <2>2, <3>5 DEF Decided
  <2>3. CASE call[q].op # "confirm"
    BY <2>1, <2>3 DEF Decided
  <2> QED
    BY <2>2, <2>3
<1>3. PICK n \in 0 .. Len(Plan(call[q].op)) : Taken(q, n)
  BY <1>0 DEF CallOK
<1>4. ASSUME NEW i \in 1 .. n PROVE Holding(q, Plan(call[q].op)[i])'
  <2> DEFINE kind == Plan(call[q].op)[i]
  <2>1. Holding(q, kind)
    BY <1>3 DEF Taken
  <2>2. call[q].op = "submit" /\ kind = "grant" => <<"provider", None>> \in call[q].held
    <3> SUFFICES ASSUME call[q].op = "submit", kind = "grant"
                 PROVE  <<"provider", None>> \in call[q].held
      OBVIOUS
    <3>1. Plan(call[q].op) = <<"capture", "token", "provider", "account", "grant">>
      BY Plans
    <3> DEFINE plan == Plan(call[q].op)
    <3>2. /\ Len(plan) = 5 /\ plan[1] = "capture" /\ plan[2] = "token"
          /\ plan[3] = "provider" /\ plan[4] = "account"
      BY <3>1
    <3>3. n \in 0 .. 5 /\ i \in 1 .. n /\ plan[i] = "grant"
      BY <3>2, <1>3
    <3> HIDE DEF plan
    <3>4. i = 5 /\ n = 5
      BY <3>2, <3>3
    <3>5. Holding(q, plan[3])
      BY <3>4, <1>3 DEF Taken, plan
    <3> QED
      BY <3>2, <3>5 DEF Holding
  <2>0. kind' = kind
    BY DEF Plan
  <2> HIDE DEF kind
  <2> DEFINE me == call[q]
  <2>3. /\ kind \in {"token", "provider", "account"} => <<kind, None>> \in me.held
        /\ kind \in {"capture", "receipt"} => <<kind, me.arg>> \in me.held
        /\ kind = "grant" /\ me.op = "revokeGrants" => \A g \in me.arg : <<kind, g>> \in me.held
    BY <2>1, Zenon DEF Holding
  <2>4. me.op = "submit" /\ kind = "token" /\ me.read.token => tokenLive'
    <3>1. me.op = "submit" /\ kind = "token" /\ me.read.token => tokenLive
      BY <2>1, Zenon DEF Holding
    <3> SUFFICES ASSUME me.op = "submit", kind = "token", me.read.token
                 PROVE  tokenLive'
      OBVIOUS
    <3>2. <<"token", None>> \in me.held
      BY <2>3
    <3>3. tokenLive' = tokenLive
      BY <3>2
    <3> QED
      BY <3>1, <3>3, Zenon
  <2>5. me.op = "submit" /\ kind = "account" /\ me.read.account # None
          => account' = me.read.account
    <3>1. me.op = "submit" /\ kind = "account" /\ me.read.account # None
          => account = me.read.account
      BY <2>1, Zenon DEF Holding
    <3> QED
      BY <3>1, <2>3
  <2>6. me.op = "submit" /\ kind = "grant" /\ me.read.grant # 0 =>
            me.read.grant \in Open' /\ <<kind, me.read.grant>> \in me.held
    <3>1. me.op = "submit" /\ kind = "grant" /\ me.read.grant # 0 =>
            me.read.grant \in Open /\ <<kind, me.read.grant>> \in me.held
      BY <2>1, Zenon DEF Holding
    <3> QED
      BY <3>1, <2>2
  <2>7. Holding(q, kind)'
    BY <2>0, <2>3, <2>4, <2>5, <2>6, Zenon DEF Holding
  <2> QED
    BY <2>7 DEF kind
<1>5. Taken(q, n)'
  BY <1>3, <1>4 DEF Taken
<1> QED
  BY <1>1, <1>2, <1>3, <1>5

--------------------------------------------------------------------------------
(* Steps that change one call and nothing of what calls share                  *)

\* What a call may become: it keeps what it was asked, and reports a saved
\* reading only when there is one.
Continues(p, new) ==
  /\ call[p].at = "idle" \/ Running(p)
  /\ Running(p) => /\ new.at # "idle"
                   /\ new.at # "done" => new.op = call[p].op /\ new.arg = call[p].arg
  /\ Running(p) /\ call[p].op = "submit" /\ new.at = "done"
       /\ new.answer \in {"recorded", "unchanged"} => Saved(call[p].arg)

\* When only one call moves, the others may rely on what they relied on.
LEMMA OtherCalls ==
  ASSUME Inv, NEW p \in Calls, UNCHANGED <<server, seen>>,
         \A q \in Calls : q # p => call'[q] = call[q]
  PROVE  \A q \in Calls : q # p => CallOK(q)'
<1> SUFFICES ASSUME NEW q \in Calls, q # p PROVE CallOK(q)'
  OBVIOUS
<1>1. Types /\ CallOK(q) /\ call'[q] = call[q]
  BY DEF Inv
<1>2. Open' = Open
  BY DEF Open, server
<1>3. UNCHANGED <<tokenLive, account, snaps, receipt, seen>>
  BY DEF server
<1> QED
  BY <1>1, <1>2, <1>3, Frame

\* A step of one call that touches nothing shared keeps the invariant.
LEMMA CallOnly ==
  ASSUME Inv, NEW p \in Calls, NEW new \in CallState, call' = [call EXCEPT ![p] = new],
         UNCHANGED <<time, server, extension>>, Continues(p, new), CallOK(p)',
         \A q \in Calls : q # p => new.held \intersect call[q].held = {}
  PROVE  Inv'
<1>0. /\ UNCHANGED <<time, tokenLive, grant, account, snaps, receipt>>
      /\ UNCHANGED <<latest, pending, completed, busy, seen, settled, sent>>
  BY DEF server, extension
<1>1. call \in [Calls -> CallState] /\ call' \in [Calls -> CallState]
  BY DEF Inv, Types
<1>2. call'[p] = new /\ \A q \in Calls : q # p => call'[q] = call[q]
  BY <1>1
<1>3. Types'
  BY <1>0, <1>1 DEF Inv, Types
<1>4. Exclusive'
  <2>1. \A q \in Calls : q # p => call'[q].held \intersect call'[p].held = {}
    BY <1>2
  <2> QED
    BY <1>2, <2>1 DEF Inv, Exclusive
<1>5. \A q \in Calls : CallOK(q)'
  BY <1>2, OtherCalls DEF extension
<1>6. Extension'
  <2>0. Extension
    BY DEF Inv
  <2>1. \A c \in Pages : c \in {latest', pending'} => seen'[c] # None
    BY <1>0, <2>0 DEF Extension
  <2>2. busy' # None => pending' # None
    BY <1>0, <2>0 DEF Extension
  <2>3. ASSUME busy \in Calls
        PROVE  /\ call'[busy].at # "idle"
               /\ Running(busy)' => call'[busy].op = "submit" /\ call'[busy].arg = pending
               /\ call'[busy].at = "done" /\ call'[busy].answer \in {"recorded", "unchanged"}
                    => Saved(pending)
    <3>1. CASE busy = p
      <4>1. Running(p) /\ call[p].op = "submit" /\ call[p].arg = pending
        BY <2>0, <2>3, <3>1 DEF Extension, Continues
      <4> QED
        BY <1>0, <1>2, <3>1, <4>1 DEF Continues, Running
    <3>2. CASE busy # p
      BY <1>0, <1>2, <2>0, <2>3, <3>2 DEF Extension, Running
    <3> QED
      BY <3>1, <3>2
  <2> QED
    BY <1>0, <2>1, <2>2, <2>3 DEF Extension, Saved, SavedIn
<1>7. RecordedOnce' /\ NothingForgotten' /\ SavedIsSaved'
  BY <1>0 DEF Inv, RecordedOnce, NothingForgotten, SavedIsSaved
<1> QED
  BY <1>3, <1>4, <1>5, <1>6, <1>7 DEF Inv

\* A call before it began, and one that is over.
LEMMA Fresh ==
  /\ Idle \in CallState
  /\ \A a \in Outcomes \union {"error"} : [Idle EXCEPT !.at = "done", !.answer = a] \in CallState
<1>1. Unread \in [token : BOOLEAN, account : {None} \union Row, grant : Nat]
  BY DEF Unread
<1>2. <<>> \in Seq(Kinds) /\ <<>> \in Seq(Captures \union Calls) /\ {} \in SUBSET Lock
  OBVIOUS
<1>3. "link" \in Ops
  BY DEF Ops
<1> HIDE DEF Unread
<1>4. Idle \in CallState
  BY <1>1, <1>2, <1>3 DEF Idle, CallState
<1> HIDE DEF Idle
<1>5. ASSUME NEW a \in Outcomes \union {"error"}
      PROVE [Idle EXCEPT !.at = "done", !.answer = a] \in CallState
  BY <1>4 DEF CallState
<1> QED
  BY <1>4, <1>5

\* A call ends without effect: refused, rolled back, or answered from a receipt.
LEMMA Ends ==
  ASSUME Inv, NEW p \in Calls, Running(p), NEW a \in Outcomes \union {"error"},
         End(p, a), UNCHANGED <<time, server, extension>>,
         call[p].op = "submit" /\ a \in {"recorded", "unchanged"} => Saved(call[p].arg)
  PROVE  Inv'
<1> DEFINE new == [Idle EXCEPT !.at = "done", !.answer = a]
<1>1. new \in CallState /\ call' = [call EXCEPT ![p] = new]
  BY Fresh DEF End
<1>2. new.at = "done" /\ new.answer = a /\ new.held = {}
  BY DEF Idle
<1> HIDE DEF new
<1>3. Continues(p, new)
  BY <1>2 DEF Continues
<1>4. call'[p] = new
  BY <1>1 DEF Inv, Types
<1>5. CallOK(p)'
  BY <1>2, <1>4 DEF CallOK, Running
<1> QED
  BY <1>1, <1>2, <1>3, <1>5, CallOnly

Args == Captures \union {None} \union Nat \union SUBSET Nat

\* A call begins with all its locks ahead of it.
LEMMA Begun ==
  ASSUME Inv, NEW p \in Calls, NEW op, NEW arg \in Args, NEW m \in Members \union {None},
         Begin(p, op, arg, m), Fit(op, arg, m), UNCHANGED <<receipt, seen>>
  PROVE  \E new \in CallState :
           /\ call[p].at = "idle" /\ call' = [call EXCEPT ![p] = new]
           /\ new.at \in {"lock", "judge"} /\ new.held = {}
           /\ new.op = op /\ new.arg = arg
           /\ call'[p] = new /\ CallOK(p)'
<1> DEFINE plan == Plan(op)
           new == [Idle EXCEPT !.op = op, !.arg = arg, !.member = m, !.todo = plan,
                    !.started = time, !.at = IF plan = <<>> THEN "judge" ELSE "lock"]
<1>1. op \in Ops
  BY ObservationsAssumption DEF Begin
<1>2. plan \in Seq(Kinds) /\ Len(plan) \in Nat /\ plan = SubSeq(plan, 1, Len(plan))
      /\ (plan = <<>> <=> ~(0 < Len(plan)))
  BY <1>1, PlanType
<1>3. call[p].at = "idle" /\ call' = [call EXCEPT ![p] = new]
  BY DEF Begin
<1> HIDE DEF plan
<1>4. /\ new.op = op /\ new.arg = arg /\ new.member = m /\ new.todo = plan
      /\ new.held = {} /\ new.at = IF plan = <<>> THEN "judge" ELSE "lock"
  BY DEF Idle
<1>5. time \in Nat
  BY DEF Inv, Types
<1>6. new \in CallState
  <2> DEFINE at == IF plan = <<>> THEN "judge" ELSE "lock"
             asked == [Idle EXCEPT !.op = op, !.arg = arg, !.member = m]
  <2>1. Idle \in CallState
    BY Fresh
  <2>2. at \in {"idle", "lock", "judge", "commit", "done"}
    OBVIOUS
  <2> HIDE DEF Idle, at
  <2>3. asked \in CallState
    BY <1>1, <2>1 DEF CallState, Args
  <2>4. new = [asked EXCEPT !.todo = plan, !.started = time, !.at = at]
    BY <2>1 DEF at, CallState
  <2> HIDE DEF asked, new
  <2> QED
    BY <1>2, <1>5, <2>2, <2>3, <2>4 DEF CallState
<1> HIDE DEF new
<1>7. call'[p] = new
  BY <1>3 DEF Inv, Types
<1>8. CallOK(p)'
  <2>1. Given(p)' /\ Decided(p)'
    <3>1. Given(p)'
      BY <1>4, <1>7 DEF Given, Fit
    <3>2. call'[p].at # "commit"
      BY <1>4, <1>7
    <3> QED
      BY <3>1, <3>2 DEF Decided
  <2>2. Taken(p, 0)'
    <3>1. Plan(call'[p].op) = plan
      BY <1>4, <1>7 DEF plan, Plan
    <3> QED
      BY <1>2, <1>4, <1>7, <3>1 DEF Taken, Plan
  <2> QED
    BY <1>2, <1>4, <1>7, <2>1, <2>2 DEF CallOK, plan, Plan
<1> QED
  BY <1>3, <1>4, <1>6, <1>7, <1>8

\* A call that begins keeps the invariant.
LEMMA Begins ==
  ASSUME Inv, NEW p \in Calls, NEW op, NEW arg \in Args, NEW m \in Members \union {None},
         Begin(p, op, arg, m), Fit(op, arg, m), UNCHANGED <<time, server, extension>>
  PROVE  Inv'
<1>1. UNCHANGED <<receipt, seen>>
  BY DEF server, extension
<1>2. PICK new \in CallState :
           /\ call[p].at = "idle" /\ call' = [call EXCEPT ![p] = new]
           /\ new.at \in {"lock", "judge"} /\ new.held = {}
           /\ new.op = op /\ new.arg = arg
           /\ call'[p] = new /\ CallOK(p)'
  BY <1>1, Begun
<1>3. Continues(p, new)
  BY <1>2 DEF Continues, Running
<1> QED
  BY <1>2, <1>3, CallOnly

\* So does every operation people and agents may start.
LEMMA StartKeeps == ASSUME Inv, NEW p \in Calls, Start(p) PROVE Inv'
<1>0. UNCHANGED <<time, server, extension>> /\ Types
  BY DEF Start, Inv
<1>1. None \in Members \union {None} /\ None \in Args
  BY DEF Args
<1>2. ASSUME NEW c \in Agents, NEW m \in Members \union {None}, Begin(p, "submit", c, m)
      PROVE  Inv'
  <2>1. Fit("submit", c, m) /\ c \in Args
    BY ObservationsAssumption DEF Fit, Judged, Args, Captures
  <2> QED
    BY <1>0, <1>2, <2>1, Begins
<1>3. ASSUME NEW c \in Captures, NEW op \in {"confirm", "reject"}, receipt[c] # None,
             Begin(p, op, c, None)
      PROVE  Inv'
  <2>1. Fit(op, c, None) /\ c \in Args
    BY <1>3 DEF Fit, Judged, Args
  <2> QED
    BY <1>0, <1>1, <1>3, <2>1, Begins
<1>4. ASSUME NEW c \in Captures, Begin(p, "manual", Reading[c], None) PROVE Inv'
  <2>1. Fit("manual", Reading[c], None) /\ Reading[c] \in Args
    BY ObservationsAssumption DEF Fit, Judged, Args
  <2> QED
    BY <1>0, <1>1, <1>4, <2>1, Begins
<1>5. ASSUME NEW m \in Members, NEW op \in {"edit", "link"}, Begin(p, op, None, m) PROVE Inv'
  <2>1. Fit(op, None, m) /\ m \in Members \union {None}
    BY DEF Fit, Judged
  <2> QED
    BY <1>0, <1>1, <1>5, <2>1, Begins
<1>6. ASSUME NEW op \in {"unlink", "grant", "revokeToken"}, Begin(p, op, None, None)
      PROVE  Inv'
  <2>1. Fit(op, None, None)
    BY DEF Fit, Judged
  <2> QED
    BY <1>0, <1>1, <1>6, <2>1, Begins
<1>7. ASSUME Begin(p, "revokeGrants", Open, None) PROVE Inv'
  <2>1. Open \subseteq Nat
    BY <1>0 DEF Types, Open
  <2>2. Fit("revokeGrants", Open, None) /\ Open \in Args
    BY <2>1 DEF Fit, Judged, Args
  <2> QED
    BY <1>0, <1>1, <1>7, <2>2, Begins
<1> QED
  BY <1>2, <1>3, <1>4, <1>5, <1>6, <1>7 DEF Start

\* Only a submission and a review lock a capture.
LEMMA CaptureLocks ==
  ASSUME NEW op \in Ops, NEW i \in 1 .. Len(Plan(op)), Plan(op)[i] \in {"capture", "receipt"}
  PROVE  op \in Judged
<1>1. op \in {"manual", "edit", "unlink"} => FALSE
  BY Plans
<1>2. ASSUME op = "grant" PROVE FALSE
  <2> DEFINE plan == Plan(op)
  <2>1. plan = <<"provider", "grant">>
    BY <1>2, Plans
  <2>2. Len(plan) = 2 /\ plan[1] = "provider" /\ plan[2] = "grant"
    BY <2>1
  <2> HIDE DEF plan
  <2>3. i = 1 \/ i = 2
    BY <2>2 DEF plan
  <2> QED
    BY <2>2, <2>3 DEF plan
<1>3. op # "revokeGrants" /\ op # "revokeToken"
  BY Plans
<1>4. op # "link"
  BY Plans
<1> QED
  BY <1>1, <1>2, <1>3, <1>4 DEF Ops, Judged

\* Grants are numbered from one.
LEMMA GrantNumbers == ASSUME Types PROVE Open \subseteq Nat \ {0}
BY DEF Types, Open

\* Some open grant is the newest.
LEMMA NewestGrant ==
  ASSUME Types, Open # {} PROVE \E g \in Open : \A h \in Open : h <= g
<1> DEFINE above == {n \in Nat : \A h \in Open : h <= n}
<1>1. Open \subseteq Nat \ {0}
  BY GrantNumbers
<1>2. Len(grant) \in above
  BY DEF Types, Open
<1>3. PICK n \in above : \A m \in above : ~(<<m, n>> \in OpToRel(<, Nat))
  BY <1>2, NatLessThanWellFounded, WFMin
<1>4. \A m \in above : ~(m < n)
  BY <1>3 DEF OpToRel
<1>5. n \in Open
  <2> SUFFICES ASSUME n \notin Open PROVE FALSE
    OBVIOUS
  <2>1. n \in Nat /\ \A h \in Open : h \in Nat \ {0} /\ h <= n /\ h # n
    BY <1>1
  <2>2. n - 1 \in Nat /\ \A h \in Open : h <= n - 1
    BY <2>1
  <2>3. n - 1 \in above
    BY <2>2
  <2> QED
    BY <1>4, <2>1, <2>3
<1> QED
  BY <1>5

\* A kind and what it is taken on make a lock.
LEMMA Pair ==
  \A kind \in Kinds, x \in Captures \union Nat \union {None} : <<kind, x>> \in Lock
BY DEF Lock

\* What a call locks next, and what it knows then.
LEMMA NextLock ==
  ASSUME Inv, NEW p \in Calls, call[p].at = "lock"
  PROVE  \E n \in Nat :
           LET me == call[p]
               plan == Plan(me.op) IN
           /\ n < Len(plan) /\ Taken(p, n)
           /\ Head(me.todo) = plan[n + 1] /\ Tail(me.todo) = SubSeq(plan, n + 2, Len(plan))
           /\ Len(me.todo) = Len(plan) - n /\ plan \in Seq(Kinds)
           /\ Tail(me.todo) \in Seq(Kinds)
           /\ LocksOf(p, Head(me.todo)) \subseteq Lock
<1> DEFINE me == call[p]
           plan == Plan(me.op)
<1>0. /\ CallOK(p) /\ Running(p) /\ me.op \in Ops /\ Types
  BY DEF Inv, Types, CallState, Running
<1>1. PICK n \in 0 .. Len(plan) : Taken(p, n)
  BY <1>0 DEF CallOK
<1>2. plan \in Seq(Kinds) /\ Len(plan) \in Nat
  BY <1>0, PlanType
<1>3. n < Len(plan) /\ n \in Nat /\ me.todo = SubSeq(plan, n + 1, Len(plan))
  BY <1>1, <1>2 DEF Taken
<1>4. /\ Head(me.todo) = plan[n + 1] /\ Tail(me.todo) = SubSeq(plan, n + 2, Len(plan))
      /\ Len(me.todo) = Len(plan) - n /\ Tail(me.todo) \in Seq(Kinds)
  <2> HIDE DEF plan
  <2> QED
    BY <1>2, <1>3, Suffix
<1>5. n + 1 \in 1 .. Len(plan) /\ plan[n + 1] \in Kinds
  BY <1>2, <1>3
<1>6. LocksOf(p, plan[n + 1]) \subseteq Lock
  <2> DEFINE kind == plan[n + 1]
  <2> SUFFICES LocksOf(p, kind) \subseteq Lock
    OBVIOUS
  <2>1. kind \in {"capture", "receipt"} => me.arg \in Captures
    BY <1>0, <1>5, CaptureLocks DEF CallOK, Given, Fit
  <2>2. me.op = "revokeGrants" => me.arg \subseteq Nat
    BY <1>0 DEF CallOK, Given, Fit
  <2>3. Open \subseteq Nat /\ kind \in Kinds
    BY <1>0, <1>5, GrantNumbers
  <2> HIDE DEF kind
  <2>4. CASE kind \in {"capture", "receipt"}
    <3>1. LocksOf(p, kind) = {<<kind, me.arg>>}
      BY <2>4 DEF LocksOf
    <3>2. kind \in Kinds /\ me.arg \in Captures \union Nat \union {None}
      BY <2>1, <2>3, <2>4
    <3> QED
      BY <3>1, <3>2, Pair
  <2>5. CASE kind = "grant"
    <3> DEFINE rows == IF me.op = "revokeGrants" THEN me.arg ELSE Open
    <3>1. LocksOf(p, kind) = {<<kind, g>> : g \in rows}
      BY <2>5 DEF LocksOf
    <3>2. rows \subseteq Nat
      BY <2>2, <2>3
    <3> HIDE DEF rows
    <3>3. \A g \in rows : <<kind, g>> \in Lock
      BY <2>3, <3>2, Pair
    <3> QED
      BY <3>1, <3>3, Zenon
  <2>6. CASE kind \notin {"capture", "receipt", "grant"}
    <3>1. LocksOf(p, kind) = {<<kind, None>>}
      BY <2>6 DEF LocksOf
    <3> QED
      BY <2>3, <3>1, Pair
  <2> QED
    BY <2>4, <2>5, <2>6
<1> QED
  BY <1>1, <1>2, <1>3, <1>4, <1>6

\* One more lock: what was held before still is, and the new one is.
LEMMA AcquireKeeps == ASSUME Inv, NEW p \in Calls, Acquire(p) PROVE Inv'
<1> DEFINE me == call[p]
           plan == Plan(me.op)
           kind == Head(me.todo)
           locks == LocksOf(p, kind)
           read == IF me.op = "submit" THEN ReadUnder(kind, me.read) ELSE me.read
           at == IF Len(me.todo) = 1 THEN "judge" ELSE "lock"
           new == [me EXCEPT !.held = me.held \union locks, !.read = read,
                             !.todo = Tail(me.todo), !.at = at]
<1>0. /\ call[p].at = "lock" /\ WaitsFor(p) = {} /\ UNCHANGED <<time, server, extension>>
      /\ Types /\ CallOK(p) /\ me \in CallState
  BY DEF Acquire, Inv, Types
<1>1. PICK n \in Nat :
        /\ n < Len(plan) /\ Taken(p, n)
        /\ kind = plan[n + 1] /\ Tail(me.todo) = SubSeq(plan, n + 2, Len(plan))
        /\ Len(me.todo) = Len(plan) - n /\ plan \in Seq(Kinds)
        /\ Tail(me.todo) \in Seq(Kinds)
        /\ locks \subseteq Lock
  BY <1>0, NextLock
<1>2. call' = [call EXCEPT ![p] = new]
  BY <1>0 DEF Acquire, Types, CallState
<1>3. /\ read \in [token : BOOLEAN, account : {None} \union Row, grant : Nat]
      /\ me.op = "submit" =>
           /\ read.token = IF kind = "token" THEN tokenLive ELSE me.read.token
           /\ read.account = IF kind = "account" THEN account ELSE me.read.account
           /\ kind # "grant" => read.grant = me.read.grant
           /\ kind = "grant" /\ read.grant # 0 => read.grant \in Open
  <2> HIDE DEF kind
  <2>1. me.read \in [token : BOOLEAN, account : {None} \union Row, grant : Nat]
    BY <1>0 DEF CallState
  <2> DEFINE last == IF Open = {} THEN 0 ELSE CHOOSE g \in Open : \A h \in Open : h <= g
  <2>2. last \in Nat /\ (last # 0 => last \in Open)
    <3>1. CASE Open = {}
      BY <3>1
    <3>2. CASE Open # {}
      <4>1. \E g \in Open : \A h \in Open : h <= g
        BY <1>0, <3>2, NewestGrant
      <4>2. last \in Open
        BY <3>2, <4>1, Zenon
      <4> QED
        BY <1>0, <4>2, GrantNumbers
    <3> QED
      BY <3>1, <3>2
  <2> HIDE DEF last
  <2>3. ReadUnder(kind, me.read) =
          CASE kind = "token" -> [me.read EXCEPT !.token = tokenLive]
            [] kind = "account" -> [me.read EXCEPT !.account = account]
            [] kind = "grant" -> [me.read EXCEPT !.grant = last]
            [] OTHER -> me.read
    BY DEF ReadUnder, last
  <2> QED
    BY <1>0, <2>1, <2>2, <2>3 DEF Types
<1>4. /\ new.held = me.held \union locks /\ new.read = read /\ new.op = me.op
      /\ new.arg = me.arg /\ new.member = me.member /\ new.at = at
      /\ new.todo = Tail(me.todo)
  <2> HIDE DEF kind, locks, read, at
  <2> QED
    BY <1>0 DEF CallState
<1>5. new \in CallState
  <2>1. me.held \union locks \subseteq Lock
    BY <1>0, <1>1 DEF CallState
  <2>2. Tail(me.todo) \in Seq(Kinds)
    BY <1>1
  <2>3. at \in {"idle", "lock", "judge", "commit", "done"}
    OBVIOUS
  <2> HIDE DEF kind, locks, read, at
  <2> QED
    BY <1>0, <1>3, <2>1, <2>2, <2>3 DEF CallState
<1> HIDE DEF new
<1>6. call'[p] = new
  BY <1>0, <1>2 DEF Types
<1>7. UNCHANGED <<tokenLive, grant, account, receipt, seen>> /\ Open' = Open
  BY <1>0 DEF server, extension, Open
<1>8. ASSUME NEW k, Holding(p, k) \/ k = kind PROVE Holding(p, k)'
  <2>1. locks = LocksOf(p, kind)
    OBVIOUS
  <2> HIDE DEF kind, locks, read, at
  <2>2. k \in {"token", "provider", "account"} => <<k, None>> \in me.held \union locks
    BY <1>8, <2>1 DEF Holding, LocksOf
  <2>3. k \in {"capture", "receipt"} => <<k, me.arg>> \in me.held \union locks
    BY <1>8, <2>1 DEF Holding, LocksOf
  <2>4. k = "grant" /\ me.op = "revokeGrants"
          => \A g \in me.arg : <<k, g>> \in me.held \union locks
    BY <1>8, <2>1 DEF Holding, LocksOf
  <2>5. me.op = "submit" /\ k = "token" /\ read.token => tokenLive
    BY <1>3, <1>8, Zenon DEF Holding
  <2>6. me.op = "submit" /\ k = "account" /\ read.account # None => account = read.account
    BY <1>3, <1>8, Zenon DEF Holding
  <2>7. me.op = "submit" /\ k = "grant" /\ read.grant # 0 =>
          read.grant \in Open /\ <<k, read.grant>> \in me.held \union locks
    <3>1. CASE k = kind
      BY <1>3, <2>1, <3>1 DEF LocksOf
    <3>2. CASE k # kind
      BY <1>3, <1>8, <3>2 DEF Holding
    <3> QED
      BY <3>1, <3>2
  <2> HIDE DEF me
  <2> QED
    BY <1>4, <1>6, <1>7, <2>2, <2>3, <2>4, <2>5, <2>6, <2>7, Zenon DEF Holding
<1>9. Taken(p, n + 1)'
  <2>1. Plan(call'[p].op) = plan
    BY <1>4, <1>6 DEF Plan
  <2>2. Len(plan) \in Nat /\ n + 1 <= Len(plan)
    BY <1>1
  <2>3. at = "lock" <=> n + 1 < Len(plan)
    BY <1>1, <2>2
  <2>4. ASSUME NEW i \in 1 .. n + 1 PROVE Holding(p, plan[i])'
    <3> DEFINE k == plan[i]
    <3> SUFFICES Holding(p, k)'
      OBVIOUS
    <3>1. Holding(p, k) \/ k = kind
      <4>1. \A j \in 1 .. n : Holding(p, plan[j])
        BY <1>1 DEF Taken
      <4>2. i \in 1 .. n \/ i = n + 1
        BY <1>1
      <4> QED
        BY <1>1, <4>1, <4>2
    <3>2. k' = k
      BY <2>1 DEF Plan
    <3> HIDE DEF k, kind
    <3>3. PICK j : j = k
      OBVIOUS
    <3>4. Holding(p, j)'
      BY <1>8, <3>1, <3>3
    <3>5. k' = j
      BY <3>2, <3>3
    <3> QED
      BY <3>4, <3>5, Zenon
  <2>5. /\ call'[p].todo = SubSeq(plan, n + 2, Len(plan)) /\ n + 1 + 1 = n + 2
        /\ call'[p].at = at
    <3>1. call'[p].todo = Tail(me.todo) /\ call'[p].at = at
      BY <1>4, <1>6, Zenon
    <3>2. Tail(me.todo) = SubSeq(plan, n + 2, Len(plan))
      BY <1>1, Zenon
    <3> QED
      BY <3>1, <3>2
  <2>6. plan' = plan
    BY <2>1 DEF Plan
  <2> HIDE DEF plan, kind, at
  <2>7. Plan(call[p].op)' = plan
    BY <2>6 DEF plan
  <2> QED
    BY <2>3, <2>4, <2>5, <2>6, <2>7 DEF Taken
<1>10. CallOK(p)'
  <2>1. Given(p)'
    BY <1>0, <1>4, <1>6, <1>7 DEF CallOK, Running, Given, Fit
  <2>2. Decided(p)'
    BY <1>4, <1>6 DEF Decided
  <2>3. n + 1 \in 0 .. Len(Plan(call'[p].op))
    <3>1. Len(plan) \in Nat /\ n + 1 <= Len(plan) /\ n \in Nat
      BY <1>1
    <3>2. Plan(call'[p].op) = plan
      BY <1>4, <1>6 DEF Plan
    <3> QED
      BY <3>1, <3>2
  <2> QED
    BY <1>9, <2>1, <2>2, <2>3 DEF CallOK, Plan
<1>11. \A q \in Calls : q # p => new.held \intersect call[q].held = {}
  <2> HIDE DEF kind
  <2>1. ASSUME NEW q \in Calls, q # p PROVE me.held \intersect call[q].held = {}
    BY <2>1 DEF Inv, Exclusive
  <2>2. ASSUME NEW q \in Calls, q # p PROVE locks \intersect call[q].held = {}
    BY <1>0, <2>2 DEF WaitsFor, Holders, kind
  <2> QED
    BY <1>4, <2>1, <2>2
<1>12. Continues(p, new)
  BY <1>0, <1>4 DEF Continues, Running
<1> QED
  BY <1>0, <1>2, <1>5, <1>10, <1>11, <1>12, CallOnly

\* A call is judged, under all its locks, and goes on to commit.
LEMMA Judgement ==
  ASSUME Inv, NEW p \in Calls, call[p].at = "judge", NEW new \in CallState,
         call' = [call EXCEPT ![p] = new], UNCHANGED <<time, server, extension>>,
         new.at = "commit", new.op = call[p].op, new.arg = call[p].arg,
         new.member = call[p].member, new.todo = call[p].todo, new.held = call[p].held,
         new.read = call[p].read, Decided(p)'
  PROVE  Inv'
<1>0. /\ CallOK(p) /\ Running(p) /\ Types /\ call'[p] = new
  BY DEF Inv, Types, Running
<1>1. UNCHANGED <<tokenLive, grant, account, receipt, seen>> /\ Open' = Open
  BY DEF server, extension, Open
<1>2. Given(p)'
  BY <1>0, <1>1 DEF CallOK, Given, Fit
<1>3. PICK n \in 0 .. Len(Plan(call[p].op)) : Taken(p, n)
  BY <1>0 DEF CallOK
<1>4. Plan(call[p].op)' = Plan(call[p].op)
  BY <1>0 DEF Plan
<1>5. ASSUME NEW i \in 1 .. n PROVE Holding(p, Plan(call[p].op)[i])'
  <2> DEFINE k == Plan(call[p].op)[i]
  <2> SUFFICES Holding(p, k)'
    OBVIOUS
  <2>1. Holding(p, k)
    BY <1>3 DEF Taken
  <2>2. k' = k
    BY <1>4
  <2> HIDE DEF k
  <2> QED
    BY <1>0, <1>1, <2>1, <2>2 DEF Holding, Types
<1>6. Taken(p, n)'
  BY <1>0, <1>3, <1>4, <1>5 DEF Taken
<1>7. CallOK(p)'
  BY <1>2, <1>3, <1>4, <1>6 DEF CallOK
<1>8. Continues(p, new)
  BY <1>0 DEF Continues
<1>9. \A q \in Calls : q # p => new.held \intersect call[q].held = {}
  BY DEF Inv, Exclusive
<1> QED
  BY <1>7, <1>8, <1>9, CallOnly

\* The identity of the latest reading.
LEMMA BaseType == ASSUME Types PROVE Base \in Seq(Captures \union Calls)
<1>1. CASE snaps = <<>>
  BY <1>1 DEF Base, Latest
<1>2. CASE snaps # <<>>
  <2>1. snaps[Len(snaps)] \in Snap
    BY <1>2 DEF Types
  <2>2. Base = [i \in 1 .. 1 |-> snaps[Len(snaps)].by]
    BY <1>2 DEF Base, Latest
  <2> QED
    BY <2>1, <2>2 DEF Snap
<1> QED
  BY <1>1, <1>2

\* A submission is refused, answered from its receipt, or goes on to commit.
LEMMA SubmissionJudged == ASSUME Inv, NEW p \in Calls, JudgeSubmission(p) PROVE Inv'
<1> DEFINE c == call[p].arg
           answer == OutcomeOf(Reading[c])
           new == [call[p] EXCEPT !.at = "commit", !.base = Base, !.answer = answer]
<1>0. /\ Running(p) /\ UNCHANGED <<time, server, extension>> /\ call[p].at = "judge"
      /\ call[p].op = "submit" /\ call[p] \in CallState /\ Types
  BY DEF JudgeSubmission, Running, Inv, Types
<1>1. c \in Captures
  BY <1>0 DEF Inv, CallOK, Given, Fit, Judged
<1>2. CASE End(p, "error")
  BY <1>0, <1>2, Ends
<1>3. CASE receipt[c] # None /\ End(p, receipt[c].outcome)
  <2>1. receipt[c].outcome \in Outcomes
    BY <1>0, <1>1, <1>3 DEF Types, Receipt
  <2> QED
    BY <1>0, <1>3, <2>1, Ends DEF Saved, SavedIn
<1>4. CASE /\ receipt[c] = None /\ HasAccount(p)
           /\ call' = [call EXCEPT ![p].at = "commit", ![p].base = Base, ![p].answer = answer]
  <2>1. answer \in {"recorded", "unchanged", "needs_review"}
    BY DEF OutcomeOf
  <2>2. Base \in Seq(Captures \union Calls)
    BY <1>0, BaseType
  <2> HIDE DEF answer
  <2>3. call' = [call EXCEPT ![p] = new]
    BY <1>0, <1>4 DEF Types, CallState
  <2>4. new \in CallState
    BY <1>0, <2>1, <2>2 DEF CallState, Outcomes
  <2>5. /\ new.at = "commit" /\ new.op = call[p].op /\ new.arg = call[p].arg
        /\ new.member = call[p].member /\ new.todo = call[p].todo /\ new.held = call[p].held
        /\ new.read = call[p].read /\ new.answer = answer
    BY <1>0 DEF CallState
  <2> HIDE DEF new
  <2>6. call'[p] = new
    BY <1>0, <2>3 DEF Types
  <2>7. Decided(p)'
    BY <1>0, <1>4, <2>1, <2>5, <2>6 DEF Decided, Judged, HasAccount
  <2> QED
    BY <1>0, <2>3, <2>4, <2>5, <2>7, Judgement
<1> QED
  BY <1>2, <1>3, <1>4 DEF JudgeSubmission

\* A review is refused, or goes on to commit what still agrees.
LEMMA ReviewJudged == ASSUME Inv, NEW p \in Calls, JudgeReview(p) PROVE Inv'
<1> DEFINE c == call[p].arg
           new == [call[p] EXCEPT !.at = "commit"]
<1>0. /\ Running(p) /\ UNCHANGED <<time, server, extension>> /\ call[p].at = "judge"
      /\ call[p].op \in {"confirm", "reject"} /\ call[p] \in CallState /\ Types
  BY DEF JudgeReview, Running, Inv, Types
<1>1. CASE End(p, "error")
  BY <1>0, <1>1, Ends
<1>2. CASE /\ call[p].op = "confirm" => Confirmable(c)
           /\ call' = [call EXCEPT ![p].at = "commit"]
  <2>1. call' = [call EXCEPT ![p] = new]
    BY <1>0, <1>2 DEF Types, CallState
  <2>2. new \in CallState
    BY <1>0 DEF CallState
  <2>3. /\ new.at = "commit" /\ new.op = call[p].op /\ new.arg = call[p].arg
        /\ new.member = call[p].member /\ new.todo = call[p].todo /\ new.held = call[p].held
        /\ new.read = call[p].read
    BY <1>0 DEF CallState
  <2> HIDE DEF new
  <2>4. call'[p] = new
    BY <1>0, <2>1 DEF Types
  <2>5. UNCHANGED <<account, receipt, snaps>>
    BY <1>0 DEF server
  <2>6. call[p].op = "confirm" => Agreed(c)'
    BY <1>2, <2>5 DEF Confirmable, Agreed, Base, Latest
  <2>7. Decided(p)'
    BY <1>0, <2>3, <2>4, <2>6 DEF Decided, Judged, Agreed
  <2> QED
    BY <1>0, <2>1, <2>2, <2>3, <2>7, Judgement
<1> QED
  BY <1>1, <1>2 DEF JudgeReview

\* A call that rolls back.
LEMMA AbortKeeps == ASSUME Inv, NEW p \in Calls, Abort(p) PROVE Inv'
BY Ends DEF Abort, Running

--------------------------------------------------------------------------------
(* Steps that commit                                                           *)

Has(p, kind) == <<kind, None>> \in call[p].held

\* A commit changes what its call has locked, or what nothing relied on; it
\* keeps every receipt, and every saved reading saved.
LEMMA Commits ==
  ASSUME Inv, NEW p \in Calls, Running(p), NEW a \in Outcomes \union {"error"},
         End(p, a), UNCHANGED <<time, extension>>,
         tokenLive' \in BOOLEAN, grant' \in Seq([expires : Nat, revoked : BOOLEAN]),
         account' \in {None} \union Row, snaps' \in Seq(Snap),
         receipt' \in [Captures -> {None} \union Receipt],
         tokenLive' = tokenLive \/ Has(p, "token"),
         account' = account \/ account = None \/ Has(p, "account"),
         \A g \in Open : g \in Open' \/ <<"grant", g>> \in call[p].held \/ Has(p, "provider"),
         UNCHANGED <<snaps, receipt>> \/ Has(p, "account"),
         \A c \in Captures : receipt[c] # None => receipt'[c] # None,
         \A c \in Captures : Saved(c) => Saved(c)',
         RecordedOnce',
         call[p].op = "submit" /\ a \in {"recorded", "unchanged"} => SavedIn(receipt', call[p].arg)
  PROVE  Inv'
<1> DEFINE new == [Idle EXCEPT !.at = "done", !.answer = a]
<1>0. UNCHANGED <<latest, pending, completed, busy, seen, settled, sent>>
  BY DEF extension
<1>1. call \in [Calls -> CallState] /\ new \in CallState /\ call' = [call EXCEPT ![p] = new]
  BY Fresh DEF Inv, Types, End
<1>2. new.at = "done" /\ new.answer = a /\ new.held = {}
  BY DEF Idle
<1> HIDE DEF new
<1>3. call'[p] = new /\ \A q \in Calls : q # p => call'[q] = call[q]
  BY <1>1
<1>4. Types'
  <2>1. call' \in [Calls -> CallState]
    BY <1>1
  <2> QED
    BY <1>0, <2>1 DEF Inv, Types
<1>5. Exclusive'
  BY <1>2, <1>3 DEF Inv, Exclusive
<1>6. ASSUME NEW q \in Calls PROVE CallOK(q)'
  <2>1. CASE q = p
    BY <1>2, <1>3, <2>1 DEF CallOK, Running
  <2>2. CASE q # p
    <3>1. \A lock : lock \in call[p].held => lock \notin call[q].held
      BY <2>2 DEF Inv, Exclusive
    <3>2. tokenLive' = tokenLive \/ <<"token", None>> \notin call[q].held
      BY <3>1 DEF Has
    <3>3. account' = account \/ account = None \/ <<"account", None>> \notin call[q].held
      BY <3>1 DEF Has
    <3>4. \A g \in Open : \/ g \in Open' \/ <<"grant", g>> \notin call[q].held
                          \/ <<"provider", None>> \notin call[q].held
      BY <3>1 DEF Has
    <3>5. <<"account", None>> \in call[q].held => UNCHANGED <<snaps, receipt>>
      BY <3>1 DEF Has
    <3>6. Types /\ CallOK(q) /\ call'[q] = call[q]
      BY <1>3, <2>2 DEF Inv
    <3>7. \A c \in Pages : seen[c] # None => seen'[c] # None
      BY <1>0
    <3> QED
      BY <3>2, <3>3, <3>4, <3>5, <3>6, <3>7, Frame
  <2> QED
    BY <2>1, <2>2
<1>7. Extension'
  <2>0. Extension /\ Types
    BY DEF Inv
  <2>1. /\ \A c \in Pages : c \in {latest', pending'} => seen'[c] # None
        /\ busy' # None => pending' # None
    BY <1>0, <2>0 DEF Extension
  <2>2. ASSUME busy \in Calls
        PROVE  /\ call'[busy].at # "idle"
               /\ Running(busy)' => call'[busy].op = "submit" /\ call'[busy].arg = pending
               /\ call'[busy].at = "done" /\ call'[busy].answer \in {"recorded", "unchanged"}
                    => Saved(pending)'
    <3>1. CASE busy = p
      <4>1. call[p].op = "submit" /\ call[p].arg = pending
        BY <2>0, <2>2, <3>1 DEF Extension
      <4>2. a \in {"recorded", "unchanged"} => Saved(pending)'
        BY <1>0, <4>1 DEF Saved, SavedIn
      <4> QED
        BY <1>0, <1>2, <1>3, <3>1, <4>2 DEF Running
    <3>2. CASE busy # p
      <4>1. call[busy].at = "done" /\ call[busy].answer \in {"recorded", "unchanged"}
              => Saved(pending)
        BY <2>0, <2>2 DEF Extension
      <4>2. pending \in Captures
        BY <2>0, <2>2, ObservationsAssumption DEF Extension, Types, Captures
      <4> QED
        BY <1>0, <1>3, <2>0, <2>2, <3>2, <4>1, <4>2 DEF Extension, Running
    <3> QED
      BY <3>1, <3>2
  <2> QED
    BY <1>0, <2>1, <2>2 DEF Extension, Saved, SavedIn
<1>8. NothingForgotten' /\ SavedIsSaved'
  <2>1. NothingForgotten'
    BY <1>0 DEF Inv, NothingForgotten
  <2>2. \A c \in Pages : <<c, "answered">> \in settled' => Saved(c)'
    BY <1>0 DEF Inv, SavedIsSaved, Saved, SavedIn, Captures
  <2> QED
    BY <2>1, <2>2 DEF SavedIsSaved, Saved, SavedIn
<1> QED
  BY <1>4, <1>5, <1>6, <1>7, <1>8 DEF Inv

\* The history gains one reading, of the one who wrote it.
LEMMA Recorded ==
  ASSUME Types, NEW points \in Nat, NEW captured \in Nat, NEW by \in Captures \union Calls,
         Record(points, captured, by)
  PROVE  /\ snaps' \in Seq(Snap)
         /\ \A c \in Captures : Cardinality(Places(snaps', c))
              = Cardinality(Places(snaps, c)) + IF by = c THEN 1 ELSE 0
<1> DEFINE x == [points |-> points, captured |-> captured, by |-> by]
<1>1. PICK i \in Slots(snaps, captured) : snaps' = InsertedAt(snaps, i, x)
  BY DEF Record
<1>2. i \in 0 .. Len(snaps) /\ snaps \in Seq(Snap) /\ x \in Snap /\ x.by = by
  BY <1>1 DEF Slots, Types, Snap
<1> HIDE DEF x
<1>3. InsertedAt(snaps, i, x) \in Seq(Snap)
  <2>1. ASSUME NEW S, NEW s \in Seq(S), NEW k \in 0 .. Len(s), NEW y \in S
        PROVE  InsertedAt(s, k, y) \in Seq(S)
    BY Insertion
  <2> QED
    BY <1>2, <2>1
<1>4. \A c : Cardinality(Places(InsertedAt(snaps, i, x), c))
              = Cardinality(Places(snaps, c)) + IF x.by = c THEN 1 ELSE 0
  BY <1>2, CountInserted
<1> QED
  BY <1>1, <1>2, <1>3, <1>4

\* How often a capture is in the history, by its receipt.
LEMMA Counts ==
  RecordedOnce <=> \A c \in Captures :
    Cardinality(Places(snaps, c)) = IF receipt[c] # None /\ receipt[c].outcome = "recorded"
                                    THEN 1 ELSE 0
BY DEF RecordedOnce, Places

\* A submission writes its receipt, and its reading when the receipt says so.
LEMMA SubmissionCommitted == ASSUME Inv, NEW p \in Calls, CommitSubmission(p) PROVE Inv'
<1> DEFINE c == call[p].arg
           a == call[p].answer
           row == [points |-> Reading[c], outcome |-> a, observed |-> Observed(p),
                   expires |-> time + ReviewTTL, base |-> call[p].base,
                   member |-> account'.member]
<1>0. /\ Running(p) /\ Types /\ call[p] \in CallState /\ call[p].op = "submit"
      /\ End(p, a) /\ UNCHANGED <<time, tokenLive, grant, extension>> /\ receipt[c] = None
      /\ CallOK(p) /\ call[p].at = "commit" /\ RecordedOnce
  BY DEF CommitSubmission, Running, Inv, Types
<1>1. /\ c \in Captures /\ (c \in Pages => seen[c] # None)
      /\ a \in {"recorded", "unchanged", "needs_review"}
      /\ call[p].read.account # None \/ call[p].member # None
  BY <1>0 DEF CallOK, Given, Fit, Judged, Decided
<1>2. Holding(p, "account")
  BY <1>0, HeldByAll DEF Types
<1>3. Has(p, "account") /\ (call[p].read.account # None => account = call[p].read.account)
  BY <1>0, <1>2 DEF Holding, Has
<1>4. /\ account' = IF account = None THEN [member |-> call[p].member, deleted |-> FALSE]
                    ELSE account
      /\ receipt' = [receipt EXCEPT ![c] = row]
  BY DEF CommitSubmission
<1>5. account' \in Row
  <2>1. CASE account = None
    <3>1. call[p].member \in Members
      BY <1>0, <1>1, <1>3, <2>1 DEF CallState
    <3> QED
      BY <1>4, <2>1, <3>1 DEF Row
  <2>2. CASE account # None
    BY <1>0, <1>4, <2>2 DEF Types
  <2> QED
    BY <2>1, <2>2
<1>6. Observed(p) \in Nat /\ Reading[c] \in Nat
  BY <1>0, <1>1, ObservationsAssumption DEF Observed, Types, CallState
<1>7. row \in Receipt /\ row # None /\ row.outcome = a
  <2>1. time + ReviewTTL \in Nat
    BY <1>0, ObservationsAssumption DEF Types
  <2>2. account'.member \in Members
    BY <1>5 DEF Row
  <2>3. call[p].base \in Seq(Captures \union Calls) /\ a \in Outcomes
    BY <1>0, <1>1 DEF CallState, Outcomes
  <2>4. row \in Receipt
    BY <1>6, <2>1, <2>2, <2>3 DEF Receipt
  <2> QED
    BY <2>4, ObservationsAssumption
<1> HIDE DEF row
<1>8. receipt' \in [Captures -> {None} \union Receipt] /\ receipt'[c] = row
      /\ \A d \in Captures : d # c => receipt'[d] = receipt[d]
  BY <1>0, <1>1, <1>4, <1>7 DEF Types
<1>9. /\ snaps' \in Seq(Snap)
      /\ \A d \in Captures : Cardinality(Places(snaps', d)) = Cardinality(Places(snaps, d))
           + IF a = "recorded" /\ d = c THEN 1 ELSE 0
  <2>1. CASE a = "recorded"
    <3>1. Record(Reading[c], Observed(p), c)
      BY <2>1 DEF CommitSubmission
    <3> QED
      BY <1>0, <1>1, <1>6, <2>1, <3>1, Recorded
  <2>2. CASE a # "recorded"
    <3>1. snaps' = snaps
      BY <2>2 DEF CommitSubmission
    <3>2. \A d \in Captures : Cardinality(Places(snaps, d)) \in Nat
      BY <1>0, Counts
    <3> QED
      BY <1>0, <2>2, <3>1, <3>2 DEF Types
  <2> QED
    BY <2>1, <2>2
<1>10. RecordedOnce'
  <2>1. ASSUME NEW d \in Captures
        PROVE Cardinality(Places(snaps', d)) =
                IF receipt'[d] # None /\ receipt'[d].outcome = "recorded" THEN 1 ELSE 0
    <3>1. Cardinality(Places(snaps, d)) =
            IF receipt[d] # None /\ receipt[d].outcome = "recorded" THEN 1 ELSE 0
      BY <1>0, Counts
    <3>2. CASE d = c
      BY <1>0, <1>7, <1>8, <1>9, <3>1, <3>2
    <3>3. CASE d # c
      BY <1>8, <1>9, <3>1, <3>3
    <3> QED
      BY <3>2, <3>3
  <2> QED
    BY <2>1 DEF RecordedOnce, Places
<1>11. Open' = Open
  BY <1>0 DEF Open
<1>12. \A d \in Captures : (receipt[d] # None => receipt'[d] # None) /\ (Saved(d) => Saved(d)')
  BY <1>0, <1>7, <1>8 DEF Saved, SavedIn
<1>13. a \in {"recorded", "unchanged"} => SavedIn(receipt', call[p].arg)
  BY <1>7, <1>8 DEF SavedIn
<1>14. account' = account \/ account = None
  BY <1>4
<1>15. /\ tokenLive' \in BOOLEAN /\ tokenLive' = tokenLive
       /\ grant' \in Seq([expires : Nat, revoked : BOOLEAN])
       /\ a \in Outcomes \union {"error"} /\ UNCHANGED <<time, extension>>
  BY <1>0 DEF Types, CallState
<1> HIDE DEF a
<1> QED
  BY <1>0, <1>3, <1>5, <1>8, <1>9, <1>10, <1>11, <1>12, <1>13, <1>14, <1>15, Commits

\* A confirmation or a rejection turns a held receipt, and a confirmation
\* records what it held.
LEMMA ReviewCommitted ==
  ASSUME Inv, NEW p \in Calls, CommitConfirm(p) \/ CommitReject(p) PROVE Inv'
<1> DEFINE c == call[p].arg
           a == IF call[p].op = "confirm" THEN "recorded" ELSE "rejected"
<1>0. /\ Running(p) /\ Types /\ call[p] \in CallState /\ call[p].op \in {"confirm", "reject"}
      /\ End(p, a) /\ UNCHANGED <<time, tokenLive, grant, account, extension>>
      /\ CallOK(p) /\ call[p].at = "commit" /\ RecordedOnce
  <2>1. CASE CommitConfirm(p)
    BY <2>1 DEF CommitConfirm, Running, Inv, Types
  <2>2. CASE CommitReject(p)
    BY <2>2 DEF CommitReject, Running, Inv, Types
  <2> QED
    BY <2>1, <2>2
<1>1. /\ c \in Captures /\ receipt[c] # None
  BY <1>0 DEF CallOK, Given, Fit, Judged
<1>2. receipt[c] \in Receipt /\ receipt[c].outcome = "needs_review"
      /\ receipt' = [receipt EXCEPT ![c].outcome = a]
  BY <1>0, <1>1 DEF CommitConfirm, CommitReject, Types
<1>3. Holding(p, "account")
  BY <1>0, HeldByAll DEF Types
<1>4. Has(p, "account")
  BY <1>3 DEF Holding, Has
<1> DEFINE row == [receipt[c] EXCEPT !.outcome = a]
<1>5. row \in Receipt /\ row.outcome = a /\ row # None
  <2>1. a \in Outcomes
    BY DEF Outcomes
  <2>2. row \in Receipt /\ row.outcome = a
    BY <1>2, <2>1 DEF Receipt
  <2> QED
    BY <2>2, ObservationsAssumption
<1>6. /\ receipt' \in [Captures -> {None} \union Receipt] /\ receipt'[c] = row
      /\ \A d \in Captures : d # c => receipt'[d] = receipt[d]
  BY <1>0, <1>1, <1>2, <1>5 DEF Types
<1>7. /\ snaps' \in Seq(Snap)
      /\ \A d \in Captures : Cardinality(Places(snaps', d)) = Cardinality(Places(snaps, d))
           + IF a = "recorded" /\ d = c THEN 1 ELSE 0
  <2>1. CASE a = "recorded"
    <3>1. Record(receipt[c].points, receipt[c].observed, c)
      BY <1>0, <2>1 DEF CommitConfirm, CommitReject
    <3>2. receipt[c].points \in Nat /\ receipt[c].observed \in Nat
      BY <1>2 DEF Receipt
    <3> QED
      BY <1>0, <1>1, <2>1, <3>1, <3>2, Recorded
  <2>2. CASE a # "recorded"
    <3>1. snaps' = snaps
      BY <1>0, <2>2 DEF CommitConfirm, CommitReject
    <3>2. \A d \in Captures : Cardinality(Places(snaps, d)) \in Nat
      BY <1>0, Counts
    <3> QED
      BY <1>0, <2>2, <3>1, <3>2 DEF Types
  <2> QED
    BY <2>1, <2>2
<1> HIDE DEF row
<1>8. RecordedOnce'
  <2>1. ASSUME NEW d \in Captures
        PROVE Cardinality(Places(snaps', d)) =
                IF receipt'[d] # None /\ receipt'[d].outcome = "recorded" THEN 1 ELSE 0
    <3>1. Cardinality(Places(snaps, d)) =
            IF receipt[d] # None /\ receipt[d].outcome = "recorded" THEN 1 ELSE 0
      BY <1>0, Counts
    <3>2. CASE d = c
      BY <1>2, <1>5, <1>6, <1>7, <3>1, <3>2
    <3>3. CASE d # c
      BY <1>6, <1>7, <3>1, <3>3
    <3> QED
      BY <3>2, <3>3
  <2> QED
    BY <2>1 DEF RecordedOnce, Places
<1>9. Open' = Open
  BY <1>0 DEF Open
<1>10. \A d \in Captures : (receipt[d] # None => receipt'[d] # None) /\ (Saved(d) => Saved(d)')
  BY <1>2, <1>5, <1>6 DEF Saved, SavedIn
<1>11. /\ tokenLive' \in BOOLEAN /\ tokenLive' = tokenLive
       /\ grant' \in Seq([expires : Nat, revoked : BOOLEAN])
       /\ account' \in {None} \union Row /\ account' = account
       /\ a \in Outcomes \union {"error"} /\ UNCHANGED <<time, extension>>
  BY <1>0 DEF Types, Outcomes
<1>12. call[p].op # "submit"
  BY <1>0
<1> HIDE DEF a
<1> QED
  BY <1>0, <1>4, <1>6, <1>7, <1>8, <1>9, <1>10, <1>11, <1>12, Commits

\* Grants with some of them revoked.
LEMMA GrantRows ==
  ASSUME Types
  PROVE  /\ [g \in DOMAIN grant |-> [grant[g] EXCEPT !.revoked = TRUE]]
              \in Seq([expires : Nat, revoked : BOOLEAN])
         /\ \A gone : (\A g \in DOMAIN grant : gone[g] \in BOOLEAN) =>
              [g \in DOMAIN grant |-> [grant[g] EXCEPT !.revoked = gone[g]]]
                \in Seq([expires : Nat, revoked : BOOLEAN])
<1> DEFINE G == [expires : Nat, revoked : BOOLEAN]
<1>1. ASSUME NEW gone, \A g \in DOMAIN grant : gone[g] \in BOOLEAN
      PROVE  [g \in DOMAIN grant |-> [grant[g] EXCEPT !.revoked = gone[g]]] \in Seq(G)
  <2>1. grant \in Seq(G)
    BY DEF Types
  <2>1a. DOMAIN grant = 1 .. Len(grant) /\ Len(grant) \in Nat
    BY <2>1
  <2>2. ASSUME NEW g \in DOMAIN grant PROVE [grant[g] EXCEPT !.revoked = gone[g]] \in G
    <3>1. grant[g] \in G
      <4> HIDE DEF G
      <4> QED
        BY <2>1, <2>1a
    <3> QED
      BY <1>1, <3>1
  <2> HIDE DEF G
  <2> QED
    BY <2>1a, <2>2
<1>2. [g \in DOMAIN grant |-> [grant[g] EXCEPT !.revoked = TRUE]] \in Seq(G)
  <2>1. grant \in Seq(G)
    BY DEF Types
  <2>1a. DOMAIN grant = 1 .. Len(grant) /\ Len(grant) \in Nat
    BY <2>1
  <2>2. ASSUME NEW g \in DOMAIN grant PROVE [grant[g] EXCEPT !.revoked = TRUE] \in G
    <3>1. grant[g] \in G
      <4> HIDE DEF G
      <4> QED
        BY <2>1, <2>1a
    <3> QED
      BY <3>1
  <2> HIDE DEF G
  <2> QED
    BY <2>1a, <2>2
<1> QED
  BY <1>1, <1>2

\* Tokens, grants, accounts and readings typed in by hand.
LEMMA OtherCommitted == ASSUME Inv, NEW p \in Calls, CommitOther(p) PROVE Inv'
<1> DEFINE me == call[p]
<1>0. /\ Running(p) /\ Types /\ me \in CallState /\ me.op \notin Judged
      /\ End(p, "recorded") /\ UNCHANGED <<time, extension, receipt>> /\ Effect(p)
      /\ CallOK(p) /\ me.at = "judge" /\ RecordedOnce /\ me.op # "submit"
  BY DEF CommitOther, Running, Inv, Types, Judged
<1>1. Given(p)
  BY <1>0 DEF CallOK
<1>2. /\ receipt' \in [Captures -> {None} \union Receipt]
      /\ \A d \in Captures : receipt[d] # None => receipt'[d] # None
      /\ \A d \in Captures : Saved(d) => Saved(d)'
      /\ "recorded" \in Outcomes \union {"error"} /\ UNCHANGED <<time, extension>>
  BY <1>0 DEF Types, Outcomes, Saved, SavedIn
<1>3. snaps' = snaps => RecordedOnce' /\ snaps' \in Seq(Snap)
  BY <1>0 DEF RecordedOnce, Types
<1>4. grant' = grant => Open' = Open /\ grant' \in Seq([expires : Nat, revoked : BOOLEAN])
  BY <1>0 DEF Open, Types
<1>5. /\ tokenLive' = tokenLive => tokenLive' \in BOOLEAN
      /\ account' = account => account' \in {None} \union Row
  BY <1>0 DEF Types
<1> DEFINE Fine ==
      /\ tokenLive' \in BOOLEAN /\ grant' \in Seq([expires : Nat, revoked : BOOLEAN])
      /\ account' \in {None} \union Row /\ snaps' \in Seq(Snap)
      /\ tokenLive' = tokenLive \/ Has(p, "token")
      /\ account' = account \/ account = None \/ Has(p, "account")
      /\ \A g \in Open : g \in Open' \/ <<"grant", g>> \in me.held \/ Has(p, "provider")
      /\ UNCHANGED <<snaps, receipt>> \/ Has(p, "account")
      /\ RecordedOnce'
<1> SUFFICES Fine
  BY <1>0, <1>2, Commits
<1>6. CASE me.op = "grant"
  <2>1. grant' = Append([g \in DOMAIN grant |-> [grant[g] EXCEPT !.revoked = TRUE]],
                        [expires |-> me.started + GrantTTL, revoked |-> FALSE])
        /\ UNCHANGED <<tokenLive, account, snaps>>
    BY <1>0, <1>6 DEF Effect
  <2>2. grant' \in Seq([expires : Nat, revoked : BOOLEAN])
    <3>1. [g \in DOMAIN grant |-> [grant[g] EXCEPT !.revoked = TRUE]]
            \in Seq([expires : Nat, revoked : BOOLEAN])
      BY <1>0, GrantRows
    <3>2. me.started + GrantTTL \in Nat
      BY <1>0, ObservationsAssumption DEF CallState
    <3> QED
      BY <2>1, <3>1, <3>2
  <2>3. Holding(p, "provider")
    BY <1>0, <1>6, HeldByAll DEF Types
  <2> QED
    BY <1>0, <1>3, <1>5, <2>1, <2>2, <2>3 DEF Holding, Has
<1>7. CASE me.op = "revokeGrants"
  <2>1. grant' = [g \in DOMAIN grant |->
              [grant[g] EXCEPT !.revoked = grant[g].revoked \/ g \in me.arg]]
        /\ UNCHANGED <<tokenLive, account, snaps>>
    BY <1>0, <1>7 DEF Effect
  <2> DEFINE gone == [g \in DOMAIN grant |-> grant[g].revoked \/ g \in me.arg]
  <2>2a. \A g \in DOMAIN grant : gone[g] \in BOOLEAN /\ (gone[g] <=> grant[g].revoked \/ g \in me.arg)
    BY Zenon
  <2>2b. grant' = [g \in DOMAIN grant |-> [grant[g] EXCEPT !.revoked = gone[g]]]
    BY <2>1
  <2> HIDE DEF gone
  <2>2. grant' \in Seq([expires : Nat, revoked : BOOLEAN])
    BY <1>0, <2>2a, <2>2b, GrantRows
  <2>3. Holding(p, "grant")
    BY <1>0, <1>7, HeldByAll DEF Types
  <2>4. \A g \in me.arg : <<"grant", g>> \in me.held
    BY <1>7, <2>3 DEF Holding
  <2>5. ASSUME NEW g \in Open, g \notin me.arg PROVE g \in Open'
    <3>1. g \in DOMAIN grant /\ ~grant[g].revoked
      BY DEF Open
    <3>2. ~gone[g]
      BY <2>2a, <2>5, <3>1
    <3>3. DOMAIN grant' = DOMAIN grant /\ grant'[g] = [grant[g] EXCEPT !.revoked = gone[g]]
      BY <2>2b, <3>1
    <3>4. grant'[g].revoked = gone[g]
      BY <1>0, <3>1, <3>3 DEF Types
    <3> QED
      BY <3>1, <3>2, <3>3, <3>4 DEF Open
  <2> QED
    BY <1>0, <1>3, <1>5, <2>1, <2>2, <2>4, <2>5
<1>8. CASE me.op = "revokeToken"
  <2>1. tokenLive' = FALSE /\ UNCHANGED <<grant, account, snaps>>
    BY <1>0, <1>8 DEF Effect
  <2>2. Holding(p, "token")
    BY <1>0, <1>8, HeldByAll DEF Types
  <2> QED
    BY <1>0, <1>3, <1>4, <1>5, <2>1, <2>2 DEF Holding, Has
<1>9. CASE me.op = "manual"
  <2>1. Record(me.arg, time, p) /\ UNCHANGED <<tokenLive, grant, account>>
    BY <1>0, <1>9 DEF Effect
  <2>2. me.arg \in Nat /\ time \in Nat
    BY <1>0, <1>1, <1>9 DEF Given, Fit, Types
  <2>3. /\ snaps' \in Seq(Snap)
        /\ \A c \in Captures : Cardinality(Places(snaps', c))
              = Cardinality(Places(snaps, c)) + IF p = c THEN 1 ELSE 0
    BY <1>0, <2>1, <2>2, Recorded
  <2>4. RecordedOnce'
    <3>1. \A c \in Captures : p # c
      BY ObservationsAssumption
    <3>2. \A c \in Captures : Cardinality(Places(snaps', c)) =
            IF receipt[c] # None /\ receipt[c].outcome = "recorded" THEN 1 ELSE 0
      BY <1>0, <2>3, <3>1, Counts
    <3> QED
      BY <1>0, <3>2 DEF RecordedOnce, Places
  <2>5. Holding(p, "account")
    BY <1>0, <1>9, HeldByAll DEF Types
  <2> QED
    BY <1>0, <1>4, <1>5, <2>1, <2>3, <2>4, <2>5 DEF Holding, Has
<1>10. CASE me.op \in {"edit", "unlink"}
  <2>1. /\ account # None /\ UNCHANGED <<tokenLive, grant, snaps>>
        /\ account' = IF me.op = "edit" THEN [account EXCEPT !.member = me.member]
                      ELSE [account EXCEPT !.deleted = TRUE]
    BY <1>0, <1>10 DEF Effect, Live
  <2>2. me.op = "edit" => me.member \in Members
    BY <1>1 DEF Given, Fit
  <2>3. account' \in Row
    BY <1>0, <2>1, <2>2 DEF Types, Row
  <2>4. Holding(p, "account")
    BY <1>0, <1>10, HeldByAll DEF Types
  <2> QED
    BY <1>0, <1>3, <1>4, <1>5, <2>1, <2>3, <2>4 DEF Holding, Has
<1>11. CASE me.op = "link"
  <2>1. /\ account = None /\ account' = [member |-> me.member, deleted |-> FALSE]
        /\ UNCHANGED <<tokenLive, grant, snaps>>
    BY <1>0, <1>11 DEF Effect
  <2>2. me.member \in Members
    BY <1>1, <1>11 DEF Given, Fit
  <2>3. account' \in Row
    BY <2>1, <2>2 DEF Row
  <2> QED
    BY <1>0, <1>3, <1>4, <1>5, <2>1, <2>3
<1> QED
  BY <1>0, <1>6, <1>7, <1>8, <1>9, <1>10, <1>11 DEF CallState, Ops, Judged

--------------------------------------------------------------------------------
(* The extension and the clock                                                 *)

\* A step that leaves every call and the server as they were.
LEMMA CallsStand ==
  ASSUME Inv, call' = call, UNCHANGED server, time' \in Nat,
         latest' \in Pages \union {None}, pending' \in Pages \union {None},
         seen' \in [Pages -> Nat \union {None}], busy' \in Calls \union {None, "frozen"},
         sent' \subseteq Pages,
         \A c \in Pages : seen[c] # None => seen'[c] # None,
         \A c \in Pages : c \in {latest', pending'} => seen'[c] # None,
         busy' # None => pending' # None,
         busy' \in Calls => busy' = busy /\ pending' = pending,
         NothingForgotten', SavedIsSaved'
  PROVE  Inv'
<1>0. UNCHANGED <<tokenLive, grant, account, snaps, receipt>> /\ Types
  BY DEF server, Inv
<1>1. Types'
  BY <1>0 DEF Types
<1>2. Exclusive' /\ RecordedOnce'
  BY <1>0 DEF Inv, Exclusive, RecordedOnce
<1>3. ASSUME NEW q \in Calls PROVE CallOK(q)'
  <2>1. Open' = Open
    BY <1>0 DEF Open
  <2>2. CallOK(q)
    BY DEF Inv
  <2> QED
    BY <1>0, <2>1, <2>2, Frame
<1>4. Extension'
  <2>1. Extension
    BY DEF Inv
  <2>2. ASSUME busy' \in Calls
        PROVE  /\ call[busy].at # "idle"
               /\ Running(busy) => call[busy].op = "submit" /\ call[busy].arg = pending
               /\ call[busy].at = "done" /\ call[busy].answer \in {"recorded", "unchanged"}
                    => Saved(pending)
    BY <2>1, <2>2 DEF Extension
  <2> QED
    BY <1>0, <2>2 DEF Extension, Running, Saved, SavedIn
<1> QED
  BY <1>1, <1>2, <1>3, <1>4 DEF Inv

\* A capture is settled: what was pending or shown may go, nothing else.
LEMMA Completed ==
  ASSUME Types, NEW c \in Pages, NEW why, Complete(c, why)
  PROVE  /\ latest' \in {latest, None} /\ pending' \in {pending, None}
         /\ pending # c => pending' = pending
         /\ settled' = settled \union {<<c, why>>}
<1>1. /\ latest' = IF latest = c THEN None ELSE latest
      /\ pending' = IF pending = c THEN None ELSE pending
      /\ settled' = settled \union {<<c, why>>}
  BY DEF Complete
<1> QED
  BY <1>1

\* Receiving, freezing, answering, giving up, discarding.
LEMMA ExtensionKeeps ==
  ASSUME Inv, (\E c \in Pages : Receive(c)) \/ Freeze \/ Answer \/ GiveUp \/ Discard
  PROVE  Inv'
<1>0. /\ Types /\ Extension /\ NothingForgotten /\ SavedIsSaved
      /\ UNCHANGED <<time, server, call, sent>> /\ time' \in Nat /\ sent' \subseteq Pages
      /\ receipt' = receipt
  BY DEF Inv, Types, Receive, Freeze, Answer, GiveUp, Discard, server
<1>1. Shown # None => Shown \in Pages /\ Shown \in {latest, pending}
  BY <1>0 DEF Shown, Types
<1>2. settled' = settled => SavedIsSaved'
  BY <1>0 DEF SavedIsSaved
<1>3. ASSUME NEW c \in Pages, Receive(c) PROVE Inv'
  <2>1. /\ busy = None /\ seen' = [seen EXCEPT ![c] = IF seen[c] = None THEN time ELSE seen[c]]
        /\ latest' \in {latest, c} /\ UNCHANGED <<pending, busy, settled>>
    BY <1>3 DEF Receive
  <2>2. time # None
    BY <1>0, ObservationsAssumption DEF Types
  <2>3. /\ seen' \in [Pages -> Nat \union {None}] /\ seen'[c] # None
        /\ \A d \in Pages : seen[d] # None => seen'[d] # None
    BY <1>0, <2>1, <2>2 DEF Types
  <2>4. \A d \in Pages : d \in {latest', pending'} => seen'[d] # None
    BY <1>0, <2>1, <2>3 DEF Extension
  <2>5. NothingForgotten'
    BY <1>0, <2>1 DEF NothingForgotten
  <2>6. /\ latest' \in Pages \union {None} /\ pending' \in Pages \union {None}
        /\ busy' = None
    BY <1>0, <2>1 DEF Types
  <2>7. busy' \notin Calls
    BY <2>6, ObservationsAssumption
  <2> QED
    BY <1>0, <1>2, <2>1, <2>3, <2>4, <2>5, <2>6, <2>7, CallsStand
<1>4. CASE Freeze
  <2>1. /\ Shown # None /\ pending' = Shown /\ busy' = "frozen"
        /\ UNCHANGED <<latest, seen, settled>>
    BY <1>4 DEF Freeze
  <2>2. /\ latest' \in Pages \union {None} /\ pending' \in Pages \union {None}
        /\ seen' \in [Pages -> Nat \union {None}] /\ busy' \notin Calls
        /\ \A d \in Pages : d \in {latest', pending'} => seen'[d] # None
    BY <1>0, <1>1, <2>1, ObservationsAssumption DEF Types, Extension
  <2>3. pending # None => pending' = pending
    BY <2>1 DEF Shown
  <2>4. NothingForgotten'
    <3>1. \A c \in sent : c # None
      BY <1>0, ObservationsAssumption DEF Types, Captures
    <3> QED
      BY <1>0, <2>1, <2>3, <3>1 DEF NothingForgotten
  <2> QED
    BY <1>0, <1>2, <2>1, <2>2, <2>4, CallsStand
<1>5. ASSUME NEW c \in Pages, NEW why \in {"answered", "discarded"}, Complete(c, why),
             pending \in {None, c}, why = "answered" => Saved(c),
             busy' = None, seen' = seen
      PROVE  Inv'
  <2>1. /\ latest' \in {latest, None} /\ pending' \in {pending, None}
        /\ settled' = settled \union {<<c, why>>}
    BY <1>0, <1>5, Completed
  <2>2. /\ latest' \in Pages \union {None} /\ pending' \in Pages \union {None}
        /\ seen' \in [Pages -> Nat \union {None}] /\ busy' \notin Calls
        /\ \A d \in Pages : d \in {latest', pending'} => seen'[d] # None
    BY <1>0, <1>5, <2>1, ObservationsAssumption DEF Types, Extension, Captures
  <2>3. NothingForgotten'
    <3>1. ASSUME NEW d \in sent' PROVE pending' = d \/ \E s \in settled' : s[1] = d
      <4>1. d # None /\ (pending = d \/ \E s \in settled : s[1] = d)
        BY <1>0, <3>1, ObservationsAssumption DEF Types, NothingForgotten, Captures
      <4>2. CASE pending = d
        <5>1. d = c /\ <<c, why>> \in settled' /\ <<c, why>>[1] = c
          BY <1>5, <2>1, <4>1, <4>2
        <5> QED
          BY <5>1
      <4>3. CASE \E s \in settled : s[1] = d
        BY <2>1, <4>3
      <4> QED
        BY <4>1, <4>2, <4>3
    <3> QED
      BY <3>1 DEF NothingForgotten
  <2>4. SavedIsSaved'
    BY <1>0, <1>5, <2>1 DEF SavedIsSaved, Saved, SavedIn
  <2> QED
    BY <1>0, <1>5, <2>2, <2>3, <2>4, CallsStand
<1>6. ASSUME busy' = None, UNCHANGED <<latest, pending, seen, settled>> PROVE Inv'
  <2>1. /\ latest' \in Pages \union {None} /\ pending' \in Pages \union {None}
        /\ seen' \in [Pages -> Nat \union {None}] /\ busy' \notin Calls
        /\ \A d \in Pages : d \in {latest', pending'} => seen'[d] # None
    BY <1>0, <1>6, ObservationsAssumption DEF Types, Extension
  <2>2. NothingForgotten'
    BY <1>0, <1>6 DEF NothingForgotten
  <2> QED
    BY <1>0, <1>2, <1>6, <2>1, <2>2, CallsStand
<1>7. CASE Answer
  <2>1. /\ busy \in Calls /\ call[busy].at = "done" /\ busy' = None /\ seen' = seen
        /\ IF call[busy].answer \in {"recorded", "unchanged"}
           THEN Complete(pending, "answered")
           ELSE UNCHANGED <<latest, pending, completed, settled>>
    BY <1>7 DEF Answer
  <2>2. CASE call[busy].answer \in {"recorded", "unchanged"}
    <3>1. pending \in Pages /\ Saved(pending)
      BY <1>0, <2>1, <2>2, ObservationsAssumption DEF Extension, Types
    <3> QED
      BY <1>5, <2>1, <2>2, <3>1
  <2>3. CASE call[busy].answer \notin {"recorded", "unchanged"}
    BY <1>6, <2>1, <2>3
  <2> QED
    BY <2>2, <2>3
<1>8. CASE GiveUp
  BY <1>6, <1>8 DEF GiveUp
<1>9. CASE Discard
  <2>1. /\ busy' = None /\ seen' = seen /\ Shown # None /\ Complete(Shown, "discarded")
    BY <1>9 DEF Discard
  <2>2. pending \in {None, Shown}
    BY DEF Shown
  <2> QED
    BY <1>1, <1>5, <2>1, <2>2
<1> QED
  BY <1>3, <1>4, <1>7, <1>8, <1>9

\* Time passes.
LEMMA TickKeeps == ASSUME Inv, Tick PROVE Inv'
<1>1. /\ call' = call /\ UNCHANGED server /\ time' \in Nat
      /\ UNCHANGED <<latest, pending, completed, busy, seen, settled, sent, receipt>>
      /\ Types /\ Extension /\ NothingForgotten /\ SavedIsSaved
  BY DEF Inv, Types, Tick, server, extension
<1>2. NothingForgotten' /\ SavedIsSaved'
  BY <1>1 DEF NothingForgotten, SavedIsSaved
<1>3. /\ latest' \in Pages \union {None} /\ pending' \in Pages \union {None}
      /\ seen' \in [Pages -> Nat \union {None}] /\ busy' \in Calls \union {None, "frozen"}
      /\ sent' \subseteq Pages
  BY <1>1 DEF Types
<1>4. /\ \A c \in Pages : c \in {latest', pending'} => seen'[c] # None
      /\ busy' # None => pending' # None
  BY <1>1 DEF Extension
<1> QED
  BY <1>1, <1>2, <1>3, <1>4, CallsStand

\* The frozen request is sent as a call of its own.
LEMMA SendKeeps == ASSUME Inv, NEW p \in Calls, Send(p) PROVE Inv'
<1>0. /\ busy = "frozen" /\ Begin(p, "submit", pending, None)
      /\ busy' = p /\ sent' = sent \union {pending}
      /\ UNCHANGED <<time, server, latest, pending, completed, seen, settled>>
      /\ Types /\ Extension /\ call \in [Calls -> CallState]
      /\ UNCHANGED <<tokenLive, grant, account, snaps, receipt>>
  BY DEF Send, Inv, Types, server
<1>1. pending \in Pages /\ seen[pending] # None
  BY <1>0, ObservationsAssumption DEF Extension, Types
<1>2. /\ Fit("submit", pending, None) /\ pending \in Args /\ None \in Members \union {None}
      /\ UNCHANGED <<receipt, seen>>
  BY <1>0, <1>1 DEF Fit, Judged, Args, Captures
<1>3. PICK new \in CallState :
           /\ call[p].at = "idle" /\ call' = [call EXCEPT ![p] = new]
           /\ new.at \in {"lock", "judge"} /\ new.held = {}
           /\ new.op = "submit" /\ new.arg = pending
           /\ call'[p] = new /\ CallOK(p)'
  BY <1>0, <1>2, Begun
<1>4. \A q \in Calls : q # p => call'[q] = call[q]
  BY <1>0, <1>3
<1>5. Types'
  <2>1. call' \in [Calls -> CallState]
    BY <1>0, <1>3
  <2> QED
    BY <1>0, <1>1, <2>1 DEF Types
<1>6. Exclusive'
  BY <1>3, <1>4 DEF Inv, Exclusive
<1>7. \A q \in Calls : CallOK(q)'
  BY <1>0, <1>3, <1>4, OtherCalls
<1>8. Extension'
  <2>1. pending # None /\ p \in Calls
    BY <1>1, ObservationsAssumption DEF Captures
  <2>2. \A c \in Pages : c \in {latest', pending'} => seen'[c] # None
    BY <1>0 DEF Extension
  <2> QED
    BY <1>0, <1>3, <2>1, <2>2 DEF Extension, Running
<1>9. RecordedOnce' /\ SavedIsSaved'
  BY <1>0 DEF Inv, RecordedOnce, SavedIsSaved
<1>10. NothingForgotten'
  BY <1>0 DEF Inv, NothingForgotten
<1> QED
  BY <1>5, <1>6, <1>7, <1>8, <1>9, <1>10 DEF Inv

\* The first state.
LEMMA InitInv == ASSUME Init PROVE Inv
<1>1. \A p \in Calls : call[p] = Idle
  BY DEF Init
<1>2. Idle.at = "idle" /\ Idle.held = {}
  BY DEF Idle
<1>3. Types
  <2>1. call \in [Calls -> CallState]
    BY Fresh DEF Init
  <2>2. grant \in Seq([expires : Nat, revoked : BOOLEAN])
    <3>1. GrantTTL \in Nat
      BY ObservationsAssumption
    <3> QED
      BY <3>1 DEF Init
  <2>3. account \in {None} \union Row
    BY DEF Init, Row
  <2>4. snaps \in Seq(Snap) /\ receipt \in [Captures -> {None} \union Receipt]
        /\ seen \in [Pages -> Nat \union {None}]
    BY DEF Init
  <2> QED
    BY <2>1, <2>2, <2>3, <2>4 DEF Init, Types
<1>4. Exclusive
  BY <1>1, <1>2 DEF Exclusive
<1>5. \A p \in Calls : CallOK(p)
  BY <1>1, <1>2 DEF CallOK, Running
<1>6. Extension
  BY ObservationsAssumption DEF Extension, Init, Captures
<1>7. RecordedOnce
  <2>1. \A c \in Captures : {i \in DOMAIN snaps : snaps[i].by = c} = {}
    BY DEF Init
  <2> QED
    BY <2>1, FS_EmptySet DEF RecordedOnce, Init
<1>8. NothingForgotten /\ SavedIsSaved
  BY DEF Init, NothingForgotten, SavedIsSaved
<1> QED
  BY <1>3, <1>4, <1>5, <1>6, <1>7, <1>8 DEF Inv

\* Every step.
LEMMA NextInv == ASSUME Inv, [Next]_vars PROVE Inv'
<1>1. CASE Tick
  BY <1>1, TickKeeps
<1>2. CASE Freeze \/ Answer \/ GiveUp \/ Discard \/ \E c \in Pages : Receive(c)
  BY <1>2, ExtensionKeeps
<1>3. ASSUME NEW p \in Calls,
             \/ Start(p) \/ Send(p) \/ Acquire(p) \/ Abort(p)
             \/ JudgeSubmission(p) \/ CommitSubmission(p)
             \/ JudgeReview(p) \/ CommitConfirm(p) \/ CommitReject(p) \/ CommitOther(p)
      PROVE  Inv'
  BY <1>3, StartKeeps, SendKeeps, AcquireKeeps, AbortKeeps, SubmissionJudged,
     SubmissionCommitted, ReviewJudged, ReviewCommitted, OtherCommitted
<1>4. CASE UNCHANGED vars
  <2>1. /\ UNCHANGED <<time, tokenLive, grant, account, snaps, receipt, call>>
        /\ UNCHANGED <<latest, pending, completed, busy, seen, settled, sent>>
    BY <1>4 DEF vars, server, extension
  <2>2. NothingForgotten' /\ SavedIsSaved'
    BY <2>1 DEF Inv, NothingForgotten, SavedIsSaved
  <2>3. /\ time' \in Nat /\ latest' \in Pages \union {None} /\ pending' \in Pages \union {None}
        /\ seen' \in [Pages -> Nat \union {None}] /\ busy' \in Calls \union {None, "frozen"}
        /\ sent' \subseteq Pages
    BY <2>1 DEF Inv, Types
  <2>4. /\ \A c \in Pages : c \in {latest', pending'} => seen'[c] # None
        /\ busy' # None => pending' # None
    BY <2>1 DEF Inv, Extension
  <2>5. UNCHANGED server
    BY <2>1 DEF server
  <2> QED
    BY <2>1, <2>2, <2>3, <2>4, <2>5, CallsStand
<1> QED
  BY <1>1, <1>2, <1>3, <1>4 DEF Next

\* The invariant holds whatever the instance.
THEOREM Invariance == Spec => []Inv
<1>1. Init => Inv
  BY InitInv
<1>2. Inv /\ [Next]_vars => Inv'
  BY NextInv
<1> QED
  BY <1>1, <1>2, PTL DEF Spec

\* A capture reaches the history once, and exactly when its receipt says so.
THEOREM RecordedOnceHolds == Spec => []RecordedOnce
<1>1. Inv => RecordedOnce
  BY DEF Inv
<1> QED
  BY <1>1, Invariance, PTL

\* A request the server may have acted on is not forgotten before its outcome.
THEOREM NothingForgottenHolds == Spec => []NothingForgotten
<1>1. Inv => NothingForgotten
  BY DEF Inv
<1> QED
  BY <1>1, Invariance, PTL

\* What the extension reports as saved is saved.
THEOREM SavedIsSavedHolds == Spec => []SavedIsSaved
<1>1. Inv => SavedIsSaved
  BY DEF Inv
<1> QED
  BY <1>1, Invariance, PTL

--------------------------------------------------------------------------------
(* What a commit may rest on                                                   *)

\* Receipts change only when a submission or a review commits.
LEMMA ReceiptSteps ==
  ASSUME [Next]_vars
  PROVE  \/ receipt' = receipt
         \/ \E p \in Calls : CommitSubmission(p) \/ CommitConfirm(p) \/ CommitReject(p)
<1>1. CASE Tick \/ Freeze \/ Answer \/ GiveUp \/ Discard \/ \E c \in Pages : Receive(c)
  BY <1>1 DEF Tick, Freeze, Answer, GiveUp, Discard, Receive, server
<1>2. ASSUME NEW p \in Calls,
             \/ Start(p) \/ Send(p) \/ Acquire(p) \/ Abort(p)
             \/ JudgeSubmission(p) \/ JudgeReview(p)
      PROVE  receipt' = receipt
  BY <1>2 DEF Start, Send, Acquire, Abort, JudgeSubmission, JudgeReview, server
<1>3. ASSUME NEW p \in Calls, CommitOther(p) PROVE receipt' = receipt
  BY <1>3 DEF CommitOther
<1>4. CASE UNCHANGED vars
  BY <1>4 DEF vars, server
<1> QED
  BY <1>1, <1>2, <1>3, <1>4 DEF Next

Authority(c) ==
  receipt[c] = None /\ receipt'[c] # None =>
    /\ tokenLive /\ time < TokenExpiry
    /\ \E g \in Open : time < grant[g].expires
    /\ account # None => ~account.deleted

\* A receipt appears only under a live token, an open grant and a live account.
LEMMA AuthorityStep == ASSUME Inv, [Next]_vars PROVE \A c \in Captures : Authority(c)
<1> SUFFICES ASSUME NEW c \in Captures, receipt[c] = None, receipt'[c] # None
             PROVE  /\ tokenLive /\ time < TokenExpiry
                    /\ \E g \in Open : time < grant[g].expires
                    /\ account # None => ~account.deleted
  BY DEF Authority
<1>1. ASSUME NEW p \in Calls, CommitConfirm(p) \/ CommitReject(p) PROVE FALSE
  <2> DEFINE d == call[p].arg
  <2>1. Running(p) /\ call[p].op \in {"confirm", "reject"} /\ CallOK(p) /\ Types
    BY <1>1 DEF CommitConfirm, CommitReject, Running, Inv
  <2>2. d \in Captures /\ receipt[d] # None
    BY <2>1 DEF CallOK, Given, Fit, Judged
  <2>3. \E a : receipt' = [receipt EXCEPT ![d].outcome = a]
    BY <1>1 DEF CommitConfirm, CommitReject
  <2> QED
    BY <2>1, <2>2, <2>3 DEF Types
<1>2. PICK p \in Calls : CommitSubmission(p)
  BY <1>1, ReceiptSteps
<1> DEFINE read == call[p].read
<1>3. /\ call[p].op = "submit" /\ call[p].at = "commit" /\ CallOK(p) /\ Types
      /\ Authorized(read) /\ (read.account = None => account = None)
  BY <1>2 DEF CommitSubmission, Inv
<1>4. Holding(p, "token") /\ Holding(p, "grant") /\ Holding(p, "account")
  BY <1>3, HeldByAll DEF Types
<1>5. read.token /\ time < TokenExpiry /\ read.grant # 0 /\ time < grant[read.grant].expires
      /\ (read.account # None => ~read.account.deleted)
  BY <1>3 DEF Authorized
<1>6. tokenLive
  BY <1>3, <1>4, <1>5 DEF Holding
<1>7. read.grant \in Open
  BY <1>3, <1>4, <1>5 DEF Holding
<1>8. read.account # None => account = read.account
  BY <1>3, <1>4 DEF Holding
<1> HIDE DEF read
<1> QED
  BY <1>3, <1>5, <1>6, <1>7, <1>8

\* A reading enters while its token, grant and account stand.
THEOREM AuthorityAlwaysHolds == Spec => AuthorityHolds
<1>1. Inv /\ [Next]_vars =>
        [\A c \in Captures : receipt[c] = None /\ receipt'[c] # None =>
           /\ tokenLive /\ time < TokenExpiry
           /\ \E g \in Open : time < grant[g].expires
           /\ account # None => ~account.deleted]_vars
  BY AuthorityStep DEF Authority
<1> QED
  BY <1>1, Invariance, PTL DEF Spec, AuthorityHolds

Baseline(c) ==
  receipt[c] # None /\ receipt'[c] # receipt[c] /\ receipt'[c].outcome = "recorded"
    => Confirmable(c)

\* A receipt is confirmed only on the baseline it names, within its window.
LEMMA BaselineStep == ASSUME Inv, [Next]_vars PROVE \A c \in Captures : Baseline(c)
<1> SUFFICES ASSUME NEW c \in Captures, receipt[c] # None, receipt'[c] # receipt[c],
                    receipt'[c].outcome = "recorded"
             PROVE  Confirmable(c)
  BY DEF Baseline
<1>1. ASSUME NEW p \in Calls, CommitSubmission(p) PROVE FALSE
  <2> DEFINE d == call[p].arg
  <2>1. Types /\ receipt[d] = None /\ \E row : receipt' = [receipt EXCEPT ![d] = row]
    BY <1>1 DEF CommitSubmission, Inv
  <2> QED
    BY <2>1 DEF Types
<1>2. ASSUME NEW p \in Calls, CommitReject(p) PROVE FALSE
  <2> DEFINE d == call[p].arg
  <2>1. Types /\ receipt' = [receipt EXCEPT ![d].outcome = "rejected"]
    BY <1>2 DEF CommitReject, Inv
  <2>2. receipt[c] \in Receipt
    BY <2>1 DEF Types
  <2>3. d = c
    BY <2>1 DEF Types
  <2>4. receipt'[c].outcome = "rejected"
    BY <2>1, <2>2, <2>3 DEF Types, Receipt
  <2> QED
    BY <2>4
<1>3. PICK p \in Calls : CommitConfirm(p)
  BY <1>1, <1>2, ReceiptSteps
<1> DEFINE d == call[p].arg
<1>4. /\ call[p].op = "confirm" /\ call[p].at = "commit" /\ CallOK(p) /\ Types
      /\ time < receipt[d].expires /\ receipt' = [receipt EXCEPT ![d].outcome = "recorded"]
  BY <1>3 DEF CommitConfirm, Inv
<1>5. Agreed(d)
  BY <1>4 DEF CallOK, Decided, Running
<1>6. d = c
  BY <1>4 DEF Types
<1> QED
  BY <1>4, <1>5, <1>6 DEF Agreed, Confirmable

\* A held reading is confirmed on the balance it was compared with.
THEOREM ReviewOnBaselineHolds == Spec => ReviewOnBaseline
<1>1. Inv /\ [Next]_vars =>
        [\A c \in Captures :
           receipt[c] # None /\ receipt'[c] # receipt[c] /\ receipt'[c].outcome = "recorded"
             => Confirmable(c)]_vars
  BY BaselineStep DEF Baseline
<1> QED
  BY <1>1, Invariance, PTL DEF Spec, ReviewOnBaseline

--------------------------------------------------------------------------------
(* The order of the locks                                                      *)

Rank(kind) ==
  CASE kind = "capture" -> 1 [] kind = "token" -> 2 [] kind = "provider" -> 3
    [] kind = "account" -> 4 [] OTHER -> 5

\* A waiting call holds only locks that come before the one it waits for.
Ascending ==
  \A p \in Calls : call[p].at = "lock" =>
    \A lock \in call[p].held : Rank(lock[1]) < Rank(Head(call[p].todo))

\* Every plan takes its locks in the order of Rank.
LEMMA PlanAscends ==
  ASSUME NEW op \in Ops, NEW i \in Nat, 1 <= i, i < Len(Plan(op))
  PROVE  Rank(Plan(op)[i]) < Rank(Plan(op)[i + 1])
<1> DEFINE plan == Plan(op)
<1>0. /\ Rank("capture") = 1 /\ Rank("token") = 2 /\ Rank("provider") = 3
      /\ Rank("account") = 4 /\ Rank("grant") = 5 /\ Rank("receipt") = 5
  BY DEF Rank
<1>1. CASE op = "submit"
  <2>1. /\ Len(plan) = 5 /\ plan[1] = "capture" /\ plan[2] = "token" /\ plan[3] = "provider"
        /\ plan[4] = "account" /\ plan[5] = "grant"
    BY <1>1, Plans
  <2> HIDE DEF plan
  <2>2. i < 5
    BY <2>1 DEF plan
  <2>3. CASE i = 1 BY <1>0, <2>1, <2>3 DEF plan
  <2>4. CASE i = 2 BY <1>0, <2>1, <2>4 DEF plan
  <2>5. CASE i = 3 BY <1>0, <2>1, <2>5 DEF plan
  <2>6. CASE i = 4 BY <1>0, <2>1, <2>6 DEF plan
  <2> QED
    BY <2>2, <2>3, <2>4, <2>5, <2>6
<1>2. CASE op \in {"confirm", "reject"}
  <2>1. /\ Len(plan) = 3 /\ plan[1] = "provider" /\ plan[2] = "account" /\ plan[3] = "receipt"
    BY <1>2, Plans
  <2> HIDE DEF plan
  <2>2. i = 1 \/ i = 2
    BY <2>1 DEF plan
  <2> QED
    BY <1>0, <2>1, <2>2 DEF plan
<1>3. CASE op \in {"manual", "edit", "unlink"}
  <2>1. /\ Len(plan) = 2 /\ plan[1] = "provider" /\ plan[2] = "account"
    BY <1>3, Plans
  <2> HIDE DEF plan
  <2>2. i = 1
    BY <2>1 DEF plan
  <2> QED
    BY <1>0, <2>1, <2>2 DEF plan
<1>4. CASE op = "grant"
  <2>1. /\ Len(plan) = 2 /\ plan[1] = "provider" /\ plan[2] = "grant"
    BY <1>4, Plans
  <2> HIDE DEF plan
  <2>2. i = 1
    BY <2>1 DEF plan
  <2> QED
    BY <1>0, <2>1, <2>2 DEF plan
<1>5. CASE op \in {"revokeGrants", "revokeToken", "link"}
  <2>1. Len(plan) <= 1
    BY <1>5, Plans
  <2> QED
    BY <2>1
<1> QED
  BY <1>1, <1>2, <1>3, <1>4, <1>5 DEF Ops

\* The locks of a kind carry it.
LEMMA LockKind ==
  ASSUME NEW p, NEW kind, NEW lock \in LocksOf(p, kind) PROVE lock[1] = kind
<1>1. CASE kind \in {"capture", "receipt"}
  BY <1>1 DEF LocksOf
<1>2. CASE kind = "grant"
  <2> DEFINE rows == IF call[p].op = "revokeGrants" THEN call[p].arg ELSE Open
  <2>1. LocksOf(p, kind) = {<<kind, g>> : g \in rows}
    BY <1>2 DEF LocksOf
  <2> HIDE DEF rows
  <2> QED
    BY <2>1
<1>3. CASE kind \notin {"capture", "receipt", "grant"}
  BY <1>3 DEF LocksOf
<1> QED
  BY <1>1, <1>2, <1>3

\* Ranks are small numbers.
LEMMA RankType == \A kind : Rank(kind) \in 1 .. 5
BY DEF Rank

\* The lock a call takes comes before the one it waits for next.
LEMMA AcquireAscends ==
  ASSUME Inv, Ascending, NEW p \in Calls, Acquire(p) PROVE Ascending'
<1> DEFINE me == call[p]
           plan == Plan(me.op)
           kind == Head(me.todo)
           locks == LocksOf(p, kind)
<1>0. /\ me.at = "lock" /\ call \in [Calls -> CallState]
  BY DEF Acquire, Inv, Types
<1>1. PICK n \in Nat :
        /\ n < Len(plan) /\ kind = plan[n + 1]
        /\ Tail(me.todo) = SubSeq(plan, n + 2, Len(plan))
        /\ Len(me.todo) = Len(plan) - n /\ plan \in Seq(Kinds)
  BY <1>0, NextLock
<1>2. /\ call'[p].held = me.held \union locks /\ call'[p].todo = Tail(me.todo)
      /\ call'[p].at = IF Len(me.todo) = 1 THEN "judge" ELSE "lock"
      /\ \A q \in Calls : q # p => call'[q] = call[q]
  <2> HIDE DEF kind
  <2> QED
    BY <1>0 DEF Acquire, CallState, kind
<1>3. ASSUME NEW q \in Calls, call'[q].at = "lock", NEW lock \in call'[q].held
      PROVE  Rank(lock[1]) < Rank(Head(call'[q].todo))
  <2>1. CASE q # p
    BY <1>2, <1>3, <2>1 DEF Ascending
  <2>2. CASE q = p
    <3>1. n + 1 < Len(plan) /\ Len(plan) \in Nat
      BY <1>1, <1>2, <1>3, <2>2
    <3>2. Head(call'[p].todo) = plan[n + 2]
      <4> HIDE DEF plan
      <4>1. Len(SubSeq(plan, n + 2, Len(plan))) = Len(plan) - (n + 1)
        BY <1>1, <3>1
      <4> QED
        BY <1>1, <1>2, <3>1, <4>1
    <3>3. Rank(kind) < Rank(plan[n + 2])
      <4>1. me.op \in Ops
        BY <1>0 DEF CallState
      <4>2. n + 1 \in Nat /\ 1 <= n + 1 /\ n + 1 + 1 = n + 2
        OBVIOUS
      <4> QED
        BY <1>1, <3>1, <4>1, <4>2, PlanAscends
    <3>4. Rank(lock[1]) <= Rank(kind) /\ Rank(lock[1]) \in Nat
      <4>1. CASE lock \in me.held
        BY <1>0, <4>1, RankType DEF Ascending
      <4>2. CASE lock \in locks
        BY <4>2, LockKind, RankType
      <4> QED
        BY <1>2, <1>3, <2>2, <4>1, <4>2
    <3> QED
      BY <2>2, <3>2, <3>3, <3>4, RankType
  <2> QED
    BY <2>1, <2>2
<1> QED
  BY <1>3 DEF Ascending

\* A call that ends, or only begins, holds no lock.
LEMMA AscendingOf ==
  ASSUME Ascending, NEW p \in Calls,
         \A q \in Calls : q # p => call'[q] = call[q],
         call'[p].held = {} \/ call'[p].at # "lock"
  PROVE  Ascending'
BY DEF Ascending

\* Every step keeps the order.
LEMMA AscendingStep == ASSUME Inv, Ascending, [Next]_vars PROVE Ascending'
<1>0. call \in [Calls -> CallState]
  BY DEF Inv, Types
<1>1. ASSUME call' = call PROVE Ascending'
  BY <1>1 DEF Ascending
<1>2. CASE Tick \/ Freeze \/ Answer \/ GiveUp \/ Discard \/ (\E c \in Pages : Receive(c))
           \/ UNCHANGED vars
  BY <1>1, <1>2 DEF Tick, Freeze, Answer, GiveUp, Discard, Receive, vars
<1>3. ASSUME NEW p \in Calls, NEW a, End(p, a) PROVE Ascending'
  <2>1. call'[p].at = "done" /\ \A q \in Calls : q # p => call'[q] = call[q]
    BY <1>0, <1>3 DEF End, Idle
  <2> QED
    BY <2>1, AscendingOf
<1>4. ASSUME NEW p \in Calls, NEW op, NEW arg, NEW m, Begin(p, op, arg, m) PROVE Ascending'
  <2> DEFINE new == [Idle EXCEPT !.op = op, !.arg = arg, !.member = m, !.todo = Plan(op),
                       !.started = time, !.at = IF Plan(op) = <<>> THEN "judge" ELSE "lock"]
  <2>1. call' = [call EXCEPT ![p] = new] /\ new.held = {}
    BY <1>4 DEF Begin, Idle
  <2> HIDE DEF new
  <2>2. call'[p].held = {} /\ \A q \in Calls : q # p => call'[q] = call[q]
    BY <1>0, <2>1
  <2> QED
    BY <2>2, AscendingOf
<1>5. ASSUME NEW p \in Calls, Start(p) \/ Send(p) PROVE Ascending'
  BY <1>4, <1>5 DEF Start, Send
<1>6. ASSUME NEW p \in Calls, JudgeSubmission(p) \/ JudgeReview(p) PROVE Ascending'
  <2>1. CASE \E a : End(p, a)
    BY <1>3, <2>1
  <2>2. CASE ~ \E a : End(p, a)
    <3>1. call'[p].at = "commit" /\ \A q \in Calls : q # p => call'[q] = call[q]
      BY <1>0, <1>6, <2>2 DEF JudgeSubmission, JudgeReview, CallState
    <3> QED
      BY <3>1, AscendingOf
  <2> QED
    BY <2>1, <2>2
<1>7. ASSUME NEW p \in Calls, Abort(p) \/ CommitSubmission(p) \/ CommitConfirm(p)
                              \/ CommitReject(p) \/ CommitOther(p)
      PROVE  Ascending'
  BY <1>3, <1>7 DEF Abort, CommitSubmission, CommitConfirm, CommitReject, CommitOther
<1> QED
  BY <1>2, <1>5, <1>6, <1>7, AcquireAscends DEF Next

\* In a circle, each would wait for a later kind of lock than the one before.
LEMMA NoCircle == ASSUME Ascending PROVE NoLockCycle
<1> SUFFICES ASSUME NEW S, S \subseteq Calls, S # {},
                    \A p \in S : WaitsFor(p) \intersect S # {}
             PROVE  FALSE
  BY DEF NoLockCycle
<1> DEFINE r(p) == Rank(Head(call[p].todo))
<1>1. ASSUME NEW p \in S PROVE \E q \in S : r(p) < r(q)
  <2>1. PICK q \in S : q \in WaitsFor(p)
    OBVIOUS
  <2>2. PICK lock : lock \in call[q].held /\ lock \in LocksOf(p, Head(call[p].todo))
    BY <2>1 DEF WaitsFor, Holders
  <2>3. lock[1] = Head(call[p].todo)
    BY <2>2, LockKind
  <2>4. call[q].at = "lock"
    <3>1. WaitsFor(q) # {}
      OBVIOUS
    <3> QED
      BY <3>1 DEF WaitsFor
  <2> QED
    BY <2>2, <2>3, <2>4 DEF Ascending
<1>2. \A p \in S : r(p) \in 1 .. 5
  BY RankType
<1> HIDE DEF r
<1>3. PICK p1 : p1 \in S
  BY Zenon
<1>4. PICK p2 \in S : r(p1) < r(p2)
  BY <1>1, <1>3
<1>5. PICK p3 \in S : r(p2) < r(p3)
  BY <1>1
<1>6. PICK p4 \in S : r(p3) < r(p4)
  BY <1>1
<1>7. PICK p5 \in S : r(p4) < r(p5)
  BY <1>1
<1>8. PICK p6 \in S : r(p5) < r(p6)
  BY <1>1
<1> QED
  BY <1>2, <1>3, <1>4, <1>5, <1>6, <1>7, <1>8

\* No set of calls waits only for locks its members hold.
THEOREM NoLockCycleHolds == Spec => []NoLockCycle
<1>1. Init => Ascending
  BY DEF Init, Ascending, Idle
<1>2. Inv /\ Ascending /\ [Next]_vars => Ascending'
  BY AscendingStep
<1>3. Ascending => NoLockCycle
  BY NoCircle
<1> QED
  BY <1>1, <1>2, <1>3, Invariance, PTL DEF Spec
================================================================================

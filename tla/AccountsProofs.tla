----------------------------- MODULE AccountsProofs -----------------------------
(* For any programs, goals, calls and menus: no cycle of lock waits, no lost   *)
(* update, readings of their own membership only, an expiry that never goes    *)
(* back, and goals that name linked accounts.                                  *)
EXTENDS Accounts, WellFoundedInduction, FiniteSetTheorems, TLAPS

Phases == {"idle", "fetch", "lock", "judge", "commit", "list", "clock", "delete"}
Lock == ({"row", "slot"} \X Programs) \union ({"goal"} \X Goals)
GoalOps == {"goal", "rename", "drop"}

CallState ==
  [job : Job \union {None}, at : Phases, todo : Seq(Lock), held : SUBSET Lock,
   read : [Programs -> Account \union {None}], goalRead : GoalRow \union {None},
   of : (Nat \X Members) \union {None}, now : Nat, captured : Nat]

Typed ==
  /\ account \in [Programs -> Account \union {None}]
  /\ goal \in [Goals -> GoalRow \union {None}]
  /\ call \in [Calls -> CallState]

\* Above every program.
Top == CHOOSE n \in Nat : \A p \in Programs : p < n

\* Where a lock stands in the one order all calls take theirs in.
Rank(lock) ==
  CASE lock[1] = "row" -> lock[2]
    [] lock[1] = "slot" -> Top + lock[2]
    [] OTHER -> Top + Top

\* The locks a job needs, whatever their order.
Needed(job) ==
  {l \in Lock :
     \/ l[1] = "row" /\ job.op \notin {"link", "rename", "drop"} /\ l[2] \in job.on
     \/ l[1] = "slot" /\ job.op \in {"link", "import"} /\ l[2] \in job.on
     \/ l[1] = "goal" /\ job.op \in GoalOps /\ l[2] = job.goal}

\* The sequence q takes the locks of a set, each above the one before.
Ordered(q, locks) ==
  /\ q \in Seq(Lock) /\ Range(q) = locks
  /\ \A i, j \in DOMAIN q : i < j => Rank(q[i]) < Rank(q[j])

Below(low, high) == \A l \in low, k \in high : Rank(l) < Rank(k)

Phased(s) ==
  /\ s.at # "idle" => s.job \in Job
  /\ s.at = "fetch" => s.job.op = "sync" /\ \A p \in s.job.on : s.read[p] # None
  /\ s.at # "idle" /\ s.job.op = "link" => \A p \in s.job.on : s.read[p] = None
  /\ s.at \in {"list", "clock", "delete"} <=> s.at # "idle" /\ s.job.op = "purge"
  /\ s.at \notin {"lock", "judge", "commit"} => s.held = {}
  /\ s.at \in {"judge", "commit"} => s.held = Needed(s.job)

\* What is left to lock is what is needed and not held, above all that is.
Queued(s) ==
  s.at \in {"fetch", "lock"} =>
    /\ s.todo # <<>> /\ s.held \subseteq Needed(s.job)
    /\ Ordered(s.todo, Needed(s.job) \ s.held)
    /\ Below(s.held, Needed(s.job) \ s.held)

\* A row that is locked is still as it was read, and so is a goal but for the
\* accounts the purge takes from it.
RowsAsRead(s) ==
  \A p \in Programs : <<"row", p>> \in s.held /\ s.read[p] # None => account[p] = s.read[p]
GoalAsRead(s) ==
  \A g \in Goals : <<"goal", g>> \in s.held =>
    /\ g = s.job.goal /\ (s.goalRead = None <=> goal[g] = None)
    /\ goal[g] # None => s.goalRead.title = goal[g].title

\* Nobody takes a slot that was found vacant under its lock.
SlotsVacant(s) ==
  s.at = "commit" =>
    \A p \in Programs : <<"slot", p>> \in s.held /\ s.read[p] = None => account[p] = None

Timely(s) == s.now <= time /\ s.captured <= time

\* What the judgement has established.
Judged(s) ==
  s.at = "commit" =>
    /\ s.job.op \notin {"link", "import", "rename", "drop"} =>
         \A p \in s.job.on : s.read[p] # None
    /\ s.job.op # "link" =>
         /\ s.captured <= s.now
         /\ \A p \in Programs : <<"row", p>> \in s.held /\ s.read[p] # None =>
              s.read[p].updated <= s.now
    /\ s.job.op = "sync" => \A p \in s.job.on : s.of = <<s.read[p].id, s.read[p].member>>
    /\ s.job.op = "goal" => \A p \in s.job.on : Live(s.read[p])
    /\ s.job.op \in {"rename", "drop"} => s.goalRead # None

CallOK(s) ==
  /\ Phased(s) /\ Queued(s) /\ Timely(s) /\ Judged(s)
  /\ RowsAsRead(s) /\ GoalAsRead(s) /\ SlotsVacant(s)

\* One call holds a lock.
Exclusive == \A c, d \in Calls : call[c].held \intersect call[d].held # {} => c = d

IInv ==
  /\ TypeOK /\ Typed
  /\ \A c \in Calls : CallOK(call[c])
  /\ Exclusive

-------------------------------------------------------------------------------
(* Sequences, the least number, and the order of the locks                     *)

\* A set of naturals has a least element: induction, by a set and no predicate.
LEMMA LeastNat ==
  ASSUME NEW T, T \subseteq Nat, T # {}
  PROVE  \E x \in T : \A y \in T : x <= y
<1> DEFINE R == {ss \in Nat \X Nat : ss[1] < ss[2]}
<1>1. IsWellFoundedOn(R, Nat)
  BY NatLessThanWellFounded, Zenon DEF OpToRel
<1>2. \A y, x \in Nat : <<y, x>> \in R <=> y < x
  OBVIOUS
<1> HIDE DEF R
<1>3. PICK x \in T : \A y \in T : ~(<<y, x>> \in R)
  BY <1>1, WFMin, Zenon
<1>4. \A y \in T : ~(y < x)
  BY <1>2, <1>3
<1> QED
  BY <1>4

Ascends(s, on) ==
  /\ s \in [1 .. Cardinality(on) -> on]
  /\ Range(s) = on
  /\ \A i, j \in DOMAIN s : i < j => s[i] < s[j]

\* The least element before an ascending sequence of the others.
LEMMA Prepend ==
  ASSUME NEW on, on \subseteq Nat, IsFiniteSet(on), NEW m \in on, \A y \in on : m <= y,
         NEW s, Ascends(s, on \ {m})
  PROVE  \E t : Ascends(t, on)
<1> DEFINE n == Cardinality(on)
           t == [i \in 1 .. n |-> IF i = 1 THEN m ELSE s[i - 1]]
<1>1. n \in Nat /\ Cardinality(on \ {m}) = n - 1 /\ Cardinality(on \ {m}) \in Nat
  BY FS_RemoveElement, FS_CardinalityType
<1>2. \A i \in 1 .. n - 1 : s[i] \in on \ {m} /\ m < s[i]
  <2>1. \A i \in 1 .. n - 1 : s[i] \in on \ {m}
    BY <1>1 DEF Ascends
  <2>2. \A y \in on \ {m} : m < y
    OBVIOUS
  <2> QED
    BY <2>1, <2>2
<1>3. t \in [1 .. n -> on]
  BY <1>1, <1>2
<1>4. \A i \in 2 .. n : i - 1 \in 1 .. n - 1 /\ t[i] = s[i - 1]
  BY <1>1
<1>5. \A i, j \in 1 .. n : i < j => t[i] < t[j]
  <2> SUFFICES ASSUME NEW i \in 1 .. n, NEW j \in 1 .. n, i < j PROVE t[i] < t[j]
    OBVIOUS
  <2>1. CASE i = 1
    <3>1. j \in 2 .. n
      BY <1>1, <2>1
    <3>2. t[j] = s[j - 1] /\ j - 1 \in 1 .. n - 1
      BY <1>4, <3>1
    <3> QED
      BY <1>2, <2>1, <3>2
  <2>2. CASE i # 1
    <3>1. i - 1 < j - 1 /\ i \in 2 .. n /\ j \in 2 .. n
      BY <1>1, <2>2
    <3>2. t[i] = s[i - 1] /\ t[j] = s[j - 1] /\ i - 1 \in 1 .. n - 1 /\ j - 1 \in 1 .. n - 1
      BY <1>4, <3>1
    <3>3. DOMAIN s = 1 .. n - 1
      BY <1>1 DEF Ascends
    <3> HIDE DEF t, n
    <3> QED
      BY <3>1, <3>2, <3>3 DEF Ascends
  <2> QED
    BY <2>1, <2>2
<1>6. \A p \in on : \E i \in 1 .. n : t[i] = p
  <2> SUFFICES ASSUME NEW p \in on PROVE \E i \in 1 .. n : t[i] = p
    OBVIOUS
  <2>1. CASE p = m
    <3>1. 1 \in 1 .. n
      BY <1>1, FS_EmptySet
    <3> QED
      BY <2>1, <3>1
  <2>2. CASE p # m
    <3>1. PICK i \in 1 .. n - 1 : s[i] = p
      BY <1>1, <2>2 DEF Ascends, Range
    <3>2. i + 1 \in 2 .. n /\ i + 1 - 1 = i
      BY <1>1, <3>1
    <3> QED
      BY <1>1, <1>4, <3>1, <3>2
  <2> QED
    BY <2>1, <2>2
<1>7. Range(t) = on
  BY <1>3, <1>6 DEF Range
<1> QED
  BY <1>3, <1>5, <1>7 DEF Ascends

LEMMA AscendingExists ==
  ASSUME NEW on, on \subseteq Nat, IsFiniteSet(on)
  PROVE  \E s : Ascends(s, on)
<1> DEFINE Bad(o) == o \subseteq Nat /\ IsFiniteSet(o) /\ ~\E s : Ascends(s, o)
           T == {n \in Nat : \E o \in SUBSET Nat : Bad(o) /\ Cardinality(o) = n}
<1> SUFFICES ASSUME T # {} PROVE FALSE
  BY FS_CardinalityType
<1>1. PICK n \in T : \A k \in T : n <= k
  BY LeastNat
<1>2. PICK o \in SUBSET Nat : Bad(o) /\ Cardinality(o) = n
  BY <1>1
<1>3. o # {}
  <2> SUFFICES ASSUME o = {} PROVE FALSE
    OBVIOUS
  <2>1. Cardinality(o) = 0
    BY FS_EmptySet
  <2>2. Ascends(<<>>, o)
    BY <2>1 DEF Ascends, Range
  <2> QED
    BY <1>2, <2>2
<1>4. PICK m \in o : \A y \in o : m <= y
  BY <1>3, LeastNat
<1>5. IsFiniteSet(o \ {m}) /\ Cardinality(o \ {m}) = n - 1 /\ o \ {m} \in SUBSET Nat
  BY <1>2, FS_RemoveElement
<1>6. Cardinality(o \ {m}) \in Nat
  BY <1>5, FS_CardinalityType
<1>7. ~Bad(o \ {m})
  BY <1>1, <1>5, <1>6
<1>8. PICK s : Ascends(s, o \ {m})
  BY <1>5, <1>7
<1> QED
  BY <1>2, <1>4, <1>8, Prepend

LEMMA ProgramsNat == Programs \subseteq Nat
BY AccountsAssumption

\* A finite set of programs has a bound.
LEMMA TopBound == Top \in Nat /\ \A p \in Programs : p < Top
<1>1. PICK s : Ascends(s, Programs)
  BY AscendingExists, AccountsAssumption
<1> DEFINE n == Cardinality(Programs)
<1>2. n \in Nat
  BY FS_CardinalityType, AccountsAssumption
<1>3. \E top \in Nat : \A p \in Programs : p < top
  <2>1. CASE n = 0
    <3>1. Programs = {}
      BY <1>1, <2>1 DEF Ascends, Range
    <3> QED
      BY <3>1
  <2>2. CASE n > 0
    <3>1. n \in 1 .. n /\ s[n] \in Programs /\ DOMAIN s = 1 .. n
      BY <1>1, <1>2, <2>2 DEF Ascends
    <3>2. \A p \in Programs : p < s[n] + 1
      <4> SUFFICES ASSUME NEW p \in Programs PROVE p < s[n] + 1
        OBVIOUS
      <4>1. PICK i \in 1 .. n : s[i] = p
        BY <1>1, <3>1 DEF Ascends, Range
      <4>2. i < n \/ i = n
        BY <1>2
      <4>3. s[i] < s[n] \/ s[i] = s[n]
        BY <1>1, <3>1, <4>2 DEF Ascends
      <4>4. p \in Nat /\ s[n] \in Nat
        BY <3>1, ProgramsNat
      <4> HIDE DEF n
      <4> QED
        BY <4>1, <4>3, <4>4
    <3>3. s[n] + 1 \in Nat
      <4>1. s[n] \in Nat
        BY <3>1, ProgramsNat
      <4> HIDE DEF n
      <4> QED
        BY <4>1
    <3> QED
      BY <3>2, <3>3
  <2> QED
    BY <1>2, <2>1, <2>2
<1> QED
  BY <1>3 DEF Top

LEMMA AscendingOf ==
  ASSUME NEW on, on \subseteq Programs
  PROVE  Ascends(Ascending(on), on) /\ Cardinality(on) \in Nat
<1>1. IsFiniteSet(on) /\ on \subseteq Nat
  BY FS_Subset, AccountsAssumption
<1>2. \E s : Ascends(s, on)
  BY <1>1, AscendingExists
<1>3. \E s \in [1 .. Cardinality(on) -> on] :
        Range(s) = on /\ \A i, j \in DOMAIN s : i < j => s[i] < s[j]
  BY <1>2 DEF Ascends
<1> QED
  BY <1>1, <1>3, FS_CardinalityType DEF Ascending, Ascends

LEMMA RankType == \A l \in Lock : Rank(l) \in Nat
BY TopBound, AccountsAssumption DEF Rank, Lock

\* The locks of a set of programs, in their order.
LEMMA TaggedOrdered ==
  ASSUME NEW on, on \subseteq Programs, NEW tag \in {"row", "slot"}
  PROVE  Ordered([i \in DOMAIN Ascending(on) |-> <<tag, Ascending(on)[i]>>], {tag} \X on)
<1> DEFINE s == Ascending(on)
           n == Cardinality(on)
           q == [i \in DOMAIN s |-> <<tag, s[i]>>]
<1>1. Ascends(s, on) /\ n \in Nat
  BY AscendingOf
<1>2. DOMAIN s = 1 .. n /\ \A i \in 1 .. n : s[i] \in on
  BY <1>1 DEF Ascends
<1>3. \A i \in 1 .. n : q[i] = <<tag, s[i]>> /\ q[i] \in Lock
  BY <1>2 DEF Lock
<1>4. q \in Seq(Lock)
  BY <1>1, <1>2, <1>3
<1>5. \A p \in on : \E i \in 1 .. n : s[i] = p
  BY <1>1, <1>2 DEF Ascends, Range
<1>6. Range(q) = {tag} \X on
  BY <1>2, <1>3, <1>5 DEF Range
<1>7. \A i, j \in DOMAIN q : i < j => Rank(q[i]) < Rank(q[j])
  <2> SUFFICES ASSUME NEW i \in 1 .. n, NEW j \in 1 .. n, i < j
               PROVE  Rank(q[i]) < Rank(q[j])
    BY <1>2
  <2>1. s[i] < s[j] /\ s[i] \in Nat /\ s[j] \in Nat
    BY <1>1, <1>2, AccountsAssumption DEF Ascends
  <2>2. q[i] = <<tag, s[i]>> /\ q[j] = <<tag, s[j]>>
    BY <1>3
  <2> HIDE DEF q, s, n
  <2> QED
    BY <2>1, <2>2, TopBound DEF Rank
<1> QED
  BY <1>4, <1>6, <1>7 DEF Ordered

LEMMA ConcatOrdered ==
  ASSUME NEW q, NEW r, NEW A, NEW B, Ordered(q, A), Ordered(r, B), Below(A, B)
  PROVE  Ordered(q \o r, A \union B)
<1> DEFINE s == q \o r
<1>1. s \in Seq(Lock) /\ DOMAIN s = 1 .. Len(q) + Len(r)
  BY DEF Ordered
<1>2. \A i \in DOMAIN s :
        \/ i \in DOMAIN q /\ s[i] = q[i]
        \/ i - Len(q) \in DOMAIN r /\ s[i] = r[i - Len(q)] /\ i > Len(q)
  BY DEF Ordered
<1>3. /\ \A i \in DOMAIN q : i \in DOMAIN s /\ s[i] = q[i]
      /\ \A i \in DOMAIN r : Len(q) + i \in DOMAIN s /\ s[Len(q) + i] = r[i]
  BY DEF Ordered
<1>4. Range(s) = A \union B
  <2>1. Range(s) \subseteq A \union B
    <3> SUFFICES ASSUME NEW i \in DOMAIN s PROVE s[i] \in A \union B
      BY DEF Range
    <3> QED
      BY <1>2 DEF Ordered, Range
  <2>2. A \union B \subseteq Range(s)
    <3>1. A = {q[i] : i \in DOMAIN q} /\ B = {r[i] : i \in DOMAIN r}
      BY DEF Ordered, Range
    <3> QED
      BY <1>3, <3>1 DEF Range
  <2> QED
    BY <2>1, <2>2
<1>5. \A i, j \in DOMAIN s : i < j => Rank(s[i]) < Rank(s[j])
  <2> SUFFICES ASSUME NEW i \in DOMAIN s, NEW j \in DOMAIN s, i < j
               PROVE  Rank(s[i]) < Rank(s[j])
    OBVIOUS
  <2> HIDE DEF s
  <2>1. CASE i \in DOMAIN q /\ j \in DOMAIN q
    BY <1>1, <1>2, <2>1 DEF Ordered
  <2>2. CASE i \in DOMAIN q /\ j \notin DOMAIN q
    BY <1>1, <1>2, <2>2 DEF Ordered, Below, Range
  <2>3. CASE i \notin DOMAIN q
    <3>1. j \notin DOMAIN q
      BY <1>1, <2>3 DEF Ordered
    <3>2. i - Len(q) < j - Len(q)
      BY <1>1 DEF Ordered
    <3> QED
      BY <1>1, <1>2, <2>3, <3>1, <3>2 DEF Ordered
  <2> QED
    BY <2>1, <2>2, <2>3
<1> QED
  BY <1>1, <1>4, <1>5 DEF Ordered

LEMMA OneOrdered == ASSUME NEW l \in Lock PROVE Ordered(<<l>>, {l})
BY DEF Ordered, Range

\* The head is the lowest, the tail takes the others.
LEMMA TailOrdered ==
  ASSUME NEW q, NEW A, Ordered(q, A), q # <<>>
  PROVE  /\ Head(q) \in A /\ Below({Head(q)}, A \ {Head(q)})
         /\ Ordered(Tail(q), A \ {Head(q)})
         /\ Len(q) = 1 <=> A = {Head(q)}
<1>1. /\ q \in Seq(Lock) /\ Len(q) \in Nat /\ Len(q) > 0
      /\ DOMAIN q = 1 .. Len(q) /\ Head(q) = q[1] /\ 1 \in DOMAIN q
  BY DEF Ordered
<1>2. A = {q[i] : i \in DOMAIN q}
  BY DEF Ordered, Range
<1>3. \A i \in DOMAIN q : Rank(q[i]) \in Nat
  BY <1>1, RankType
<1>4. \A i \in DOMAIN q : i # 1 => q[i] # q[1] /\ Rank(q[1]) < Rank(q[i])
  <2> SUFFICES ASSUME NEW i \in DOMAIN q, i # 1
               PROVE  q[i] # q[1] /\ Rank(q[1]) < Rank(q[i])
    OBVIOUS
  <2>1. 1 < i
    BY <1>1
  <2>2. Rank(q[1]) < Rank(q[i])
    BY <1>1, <2>1 DEF Ordered
  <2> QED
    BY <1>3, <1>1, <2>2
<1>5. Head(q) \in A /\ Below({Head(q)}, A \ {Head(q)})
  BY <1>1, <1>2, <1>4 DEF Below
<1> DEFINE t == Tail(q)
<1>6. t \in Seq(Lock) /\ DOMAIN t = 1 .. Len(q) - 1
  BY <1>1
<1>7. \A i \in DOMAIN t : t[i] = q[i + 1] /\ i + 1 \in DOMAIN q /\ i + 1 # 1
  BY <1>1
<1>8. \A i \in DOMAIN q : i # 1 => i - 1 \in DOMAIN t /\ t[i - 1] = q[i]
  BY <1>1
<1> HIDE DEF t
<1>9. Range(t) = A \ {Head(q)}
  <2>1. Range(t) \subseteq A \ {Head(q)}
    BY <1>1, <1>2, <1>4, <1>7 DEF Range
  <2>2. A \ {Head(q)} \subseteq Range(t)
    BY <1>1, <1>2, <1>8 DEF Range
  <2> QED
    BY <2>1, <2>2
<1>10. \A i, j \in DOMAIN t : i < j => Rank(t[i]) < Rank(t[j])
  <2> SUFFICES ASSUME NEW i \in DOMAIN t, NEW j \in DOMAIN t, i < j
               PROVE  Rank(t[i]) < Rank(t[j])
    OBVIOUS
  <2>1. i + 1 < j + 1
    BY <1>6
  <2> QED
    BY <1>7, <2>1 DEF Ordered
<1>11. Len(q) = 1 <=> A = {Head(q)}
  <2>1. ASSUME Len(q) = 1 PROVE A = {Head(q)}
    BY <1>1, <1>2, <2>1
  <2>2. ASSUME Len(q) # 1 PROVE A # {Head(q)}
    <3>1. 2 \in DOMAIN q
      BY <1>1, <2>2
    <3> QED
      BY <1>1, <1>2, <1>4, <3>1
  <2> QED
    BY <2>1, <2>2
<1> QED
  BY <1>5, <1>6, <1>9, <1>10, <1>11 DEF Ordered, t

LEMMA JobFields ==
  ASSUME NEW job \in Job
  PROVE  /\ job.op \in Ops /\ job.on \subseteq Programs
         /\ job.goal \in Goals \union {None} /\ job.member \in Members \union {None}
         /\ job.op \in {"link", "edit", "import"} => job.member \in Members
         /\ job.op = "sync" => \E p \in Programs : job.on = {p}
         /\ job.op \in GoalOps <=> job.goal # None
         /\ job.op \in GoalOps => job.goal \in Goals
         /\ job.op \notin {"goal", "rename", "drop", "purge"} => job.on # {}
BY DEF Job, GoalOps

LEMMA OrderedNotEmpty == ASSUME NEW q, NEW A, Ordered(q, A), A # {} PROVE q # <<>>
BY DEF Ordered, Range

LEMMA TaggedNotEmpty == ASSUME NEW tag, NEW on, on # {} PROVE {tag} \X on # {}
<1>1. PICK p \in on : TRUE
  OBVIOUS
<1>2. <<tag, p>> \in {tag} \X on
  BY <1>1
<1> QED
  BY <1>2

\* What a plan is made of.
LEMMA RowsOrdered ==
  ASSUME NEW on, on \subseteq Programs PROVE Ordered(AccountLocks(on), {"row"} \X on)
BY TaggedOrdered DEF AccountLocks

LEMMA SlotsOrdered ==
  ASSUME NEW on, on \subseteq Programs PROVE Ordered(Slots(on), {"slot"} \X on)
BY TaggedOrdered DEF Slots

LEMMA RowsBelowSlots ==
  ASSUME NEW on, on \subseteq Programs
  PROVE  Below({"row"} \X on, {"slot"} \X on)
<1> SUFFICES ASSUME NEW p \in on, NEW q \in on PROVE Rank(<<"row", p>>) < Rank(<<"slot", q>>)
  BY DEF Below
<1>1. p \in Nat /\ q \in Nat /\ p < Top /\ Top \in Nat
  BY ProgramsNat, TopBound
<1> QED
  BY <1>1 DEF Rank

LEMMA RowsBelowGoal ==
  ASSUME NEW on, on \subseteq Programs, NEW g
  PROVE  Below({"row"} \X on, {<<"goal", g>>})
<1> SUFFICES ASSUME NEW p \in on PROVE Rank(<<"row", p>>) < Rank(<<"goal", g>>)
  BY DEF Below
<1>1. p \in Nat /\ p < Top /\ Top \in Nat
  BY ProgramsNat, TopBound
<1> QED
  BY <1>1 DEF Rank

\* Every job locks what it needs, in the one order.
LEMMA PlanOrdered ==
  ASSUME NEW job \in Job
  PROVE  /\ Plan(job) \in Seq(Lock)
         /\ job.op # "purge" => Ordered(Plan(job), Needed(job)) /\ Plan(job) # <<>>
<1> DEFINE on == job.on
<1>1. on \subseteq Programs
  BY JobFields
<1>2. CASE job.op = "link"
  <2>1. Needed(job) = {"slot"} \X on
    BY <1>1, <1>2 DEF Needed, Lock, GoalOps
  <2>2. Plan(job) = Slots(on)
    BY <1>2 DEF Plan, PlanInOrder
  <2>3. on # {}
    BY <1>2, JobFields
  <2>4. Ordered(Plan(job), Needed(job))
    BY <1>1, <2>1, <2>2, SlotsOrdered
  <2>5. Needed(job) # {}
    BY <2>1, <2>3, TaggedNotEmpty
  <2> QED
    BY <2>4, <2>5, OrderedNotEmpty DEF Ordered
<1>3. CASE job.op = "import"
  <2>1. Needed(job) = ({"row"} \X on) \union ({"slot"} \X on)
    BY <1>1, <1>3 DEF Needed, Lock, GoalOps
  <2>2. Plan(job) = AccountLocks(on) \o Slots(on)
    BY <1>3 DEF Plan, PlanInOrder
  <2>3. on # {}
    BY <1>3, JobFields
  <2>4. /\ Ordered(AccountLocks(on), {"row"} \X on) /\ Ordered(Slots(on), {"slot"} \X on)
        /\ Below({"row"} \X on, {"slot"} \X on)
    BY <1>1, RowsOrdered, SlotsOrdered, RowsBelowSlots
  <2>6. Ordered(AccountLocks(on) \o Slots(on), ({"row"} \X on) \union ({"slot"} \X on))
    BY <2>4, ConcatOrdered
  <2>5. Needed(job) # {}
    BY <2>1, <2>3, TaggedNotEmpty
  <2> QED
    BY <2>1, <2>2, <2>5, <2>6, OrderedNotEmpty DEF Ordered
<1>4. CASE job.op = "goal"
  <2>1. job.goal \in Goals
    BY <1>4, JobFields DEF GoalOps
  <2>2. Needed(job) = ({"row"} \X on) \union {<<"goal", job.goal>>}
    BY <1>1, <1>4, <2>1 DEF Needed, Lock, GoalOps
  <2>3. Plan(job) = AccountLocks(on) \o <<<<"goal", job.goal>>>>
    BY <1>4 DEF Plan, PlanInOrder
  <2>4. Ordered(<<<<"goal", job.goal>>>>, {<<"goal", job.goal>>})
    BY <2>1, OneOrdered DEF Lock
  <2>5. Ordered(Plan(job), Needed(job))
    <3>1. /\ Ordered(AccountLocks(on), {"row"} \X on)
          /\ Below({"row"} \X on, {<<"goal", job.goal>>})
      BY <1>1, RowsOrdered, RowsBelowGoal
    <3>2. Ordered(AccountLocks(on) \o <<<<"goal", job.goal>>>>,
                  ({"row"} \X on) \union {<<"goal", job.goal>>})
      BY <2>4, <3>1, ConcatOrdered
    <3> QED
      BY <2>2, <2>3, <3>2
  <2>6. Needed(job) # {}
    BY <2>2
  <2> QED
    BY <2>5, <2>6, OrderedNotEmpty DEF Ordered
<1>5. CASE job.op \in {"rename", "drop"}
  <2>1. job.goal \in Goals
    BY <1>5, JobFields DEF GoalOps
  <2>2. Needed(job) = {<<"goal", job.goal>>}
    BY <1>1, <1>5, <2>1 DEF Needed, Lock, GoalOps
  <2>3. Plan(job) = <<<<"goal", job.goal>>>>
    BY <1>5 DEF Plan, PlanInOrder
  <2>4. Ordered(Plan(job), Needed(job))
    BY <2>1, <2>2, <2>3, OneOrdered DEF Lock
  <2> QED
    BY <2>2, <2>4, OrderedNotEmpty DEF Ordered
<1>6. CASE job.op \notin {"link", "import", "goal", "rename", "drop"}
  <2>1. Plan(job) = AccountLocks(on)
    BY <1>6 DEF Plan, PlanInOrder
  <2>2. Ordered(Plan(job), {"row"} \X on)
    BY <1>1, <2>1, RowsOrdered
  <2>3. Needed(job) = {"row"} \X on
    BY <1>1, <1>6 DEF Needed, Lock, GoalOps
  <2>4. job.op # "purge" => on # {}
    BY <1>6, JobFields
  <2>5. job.op # "purge" => Needed(job) # {}
    BY <2>3, <2>4, TaggedNotEmpty
  <2> QED
    BY <2>2, <2>3, <2>5, OrderedNotEmpty DEF Ordered
<1> QED
  BY <1>2, <1>3, <1>4, <1>5, <1>6

-------------------------------------------------------------------------------
(* The invariant                                                               *)

LEMMA Nones ==
  /\ None \notin Goals /\ None \notin Members /\ None \notin Nat
  /\ None \notin Account /\ None \notin GoalRow
BY AccountsAssumption

LEMMA IdleOK == Idle \in CallState /\ (time \in Nat => CallOK(Idle))
<1>1. NoRows \in [Programs -> Account \union {None}] /\ <<>> \in Seq(Lock)
  BY DEF NoRows
<1>2. Idle \in CallState
  BY <1>1 DEF Idle, CallState, Phases
<1>3. ASSUME time \in Nat PROVE CallOK(Idle)
  BY <1>3 DEF Idle, CallOK, Phased, Queued, Timely, Judged, RowsAsRead, GoalAsRead, SlotsVacant
<1> QED
  BY <1>2, <1>3

LEMMA InitInv == Init => IInv
<1> SUFFICES ASSUME Init PROVE IInv
  OBVIOUS
<1>1. PICK m \in Members : account = [p \in Programs |-> NewAccount(1, m, 0)]
  BY DEF Init
<1>2. time = 0 /\ time \in 0 .. MaxTime
  BY AccountsAssumption DEF Init
<1>3. NewAccount(1, m, 0) \in [id : 1 .. 1, member : Members, updated : 0 .. 0,
                              deleted : 0 .. 0 \union {None}, expiry : Expiry,
                              readings : SUBSET Reading]
  BY DEF NewAccount, Expiry
<1>4. NewAccount(1, m, 0) \in Account
  BY DEF NewAccount, Account, Expiry
<1>5. TypeOK
  BY <1>1, <1>2, <1>3 DEF Init, TypeOK, NewAccount
<1>6. Typed
  BY <1>1, <1>4, IdleOK DEF Init, Typed
<1>7. \A c \in Calls : CallOK(call[c])
  BY <1>2, IdleOK DEF Init
<1>8. Exclusive
  BY DEF Init, Exclusive, Idle
<1> QED
  BY <1>5, <1>6, <1>7, <1>8 DEF IInv

\* A step of one call that writes nothing.
LEMMA CallStep ==
  ASSUME IInv, NEW c \in Calls, NEW new \in CallState,
         call' = [call EXCEPT ![c] = new], UNCHANGED <<time, data>>,
         CallOK(new),
         \A d \in Calls : d # c => new.held \intersect call[d].held = {}
  PROVE  IInv'
<1>1. \A d \in Calls : call'[d] = IF d = c THEN new ELSE call[d]
  BY DEF IInv, Typed
<1>2. TypeOK'
  BY DEF IInv, TypeOK, data
<1>3. Typed'
  BY DEF IInv, Typed, data
<1>4. \A d \in Calls : CallOK(call'[d])
  BY <1>1 DEF IInv
<1>5. \A d \in Calls : CallOK(call[d])'
  <2> SUFFICES ASSUME NEW d \in Calls PROVE CallOK(call[d])'
    OBVIOUS
  <2>1. CallOK(call'[d])
    BY <1>4
  <2> QED
    BY <2>1 DEF CallOK, Phased, Queued, Timely, Judged, RowsAsRead, GoalAsRead, SlotsVacant, data
<1>6. Exclusive'
  BY <1>1 DEF IInv, Exclusive
<1> QED
  BY <1>2, <1>3, <1>5, <1>6 DEF IInv

LEMMA EndInv ==
  ASSUME IInv, NEW c \in Calls, End(c), UNCHANGED <<time, data>>
  PROVE  IInv'
<1>1. time \in Nat
  BY AccountsAssumption DEF IInv, TypeOK
<1>2. Idle.held = {}
  BY DEF Idle
<1> QED
  BY <1>1, <1>2, IdleOK, CallStep DEF End

LEMMA TickInv == ASSUME IInv, Tick PROVE IInv'
<1>1. time \in Nat /\ time' \in 0 .. MaxTime /\ time <= time' /\ UNCHANGED <<data, call>>
  BY AccountsAssumption DEF IInv, TypeOK, Tick
<1>2. TypeOK'
  BY <1>1 DEF IInv, TypeOK, data
<1>3. Typed' /\ Exclusive'
  BY <1>1 DEF IInv, Typed, Exclusive, data
<1>4. \A c \in Calls : CallOK(call[c])'
  <2> SUFFICES ASSUME NEW c \in Calls PROVE CallOK(call[c])'
    OBVIOUS
  <2>1. CallOK(call[c]) /\ call[c] \in CallState
    BY DEF IInv, Typed
  <2>2. Timely(call[c])'
    BY <1>1, <2>1 DEF CallOK, Timely, CallState
  <2> QED
    BY <1>1, <2>1, <2>2 DEF CallOK, Phased, Queued, Judged, RowsAsRead, GoalAsRead, SlotsVacant, data
<1> QED
  BY <1>2, <1>3, <1>4 DEF IInv

LEMMA AbortInv == ASSUME IInv, NEW c \in Calls, Abort(c) PROVE IInv'
BY EndInv DEF Abort

LEMMA BeginInv == ASSUME IInv, NEW c \in Calls, Begin(c) PROVE IInv'
<1>1. PICK job \in Menu[c] :
        /\ Startable(job) /\ UNCHANGED <<time, data>>
        /\ call' = [call EXCEPT ![c] =
             [Idle EXCEPT !.job = job, !.read = Seen(job), !.todo = Plan(job),
                !.now = IF job.op = "link" THEN time ELSE 0,
                !.goalRead = IF job.goal = None THEN None ELSE goal[job.goal],
                !.at = CASE job.op = "sync" -> "fetch" [] job.op = "purge" -> "list"
                         [] OTHER -> "lock"]]
  BY DEF Begin
<1> DEFINE at == CASE job.op = "sync" -> "fetch" [] job.op = "purge" -> "list"
                   [] OTHER -> "lock"
           now == IF job.op = "link" THEN time ELSE 0
           goalRead == IF job.goal = None THEN None ELSE goal[job.goal]
           new == [Idle EXCEPT !.job = job, !.read = Seen(job), !.todo = Plan(job),
                     !.now = now, !.goalRead = goalRead, !.at = at]
<1>2. job \in Job
  BY AccountsAssumption
<1>3. /\ job.op = "sync" => at = "fetch"
      /\ job.op = "purge" => at = "list"
      /\ job.op \notin {"sync", "purge"} => at = "lock"
  OBVIOUS
<1>4. at \in Phases
  BY <1>3 DEF Phases
<1>5. Seen(job) \in [Programs -> Account \union {None}]
  BY DEF IInv, Typed, Seen
<1>6. goalRead \in GoalRow \union {None}
  BY <1>2, JobFields DEF IInv, Typed
<1>7. now \in Nat /\ now <= time /\ time \in Nat
  BY AccountsAssumption DEF IInv, TypeOK
<1>8. /\ new.job = job /\ new.read = Seen(job) /\ new.todo = Plan(job) /\ new.now = now
      /\ new.goalRead = goalRead /\ new.at = at /\ new.held = {} /\ new.captured = 0
  BY DEF Idle
<1>9. new \in CallState
  BY <1>2, <1>4, <1>5, <1>6, <1>7, IdleOK, PlanOrdered DEF CallState
<1> HIDE DEF new, at, now, goalRead
<1>10. Phased(new)
  <2>1. job.op = "sync" => \A p \in job.on : Seen(job)[p] # None
    BY <1>1, <1>2, JobFields DEF Startable, Live, Seen
  <2>2. job.op = "link" => \A p \in job.on : Seen(job)[p] = None
    BY <1>1, <1>2, JobFields DEF Startable, Seen
  <2> QED
    BY <1>2, <1>3, <1>8, <2>1, <2>2 DEF Phased
<1>11. Queued(new)
  BY <1>2, <1>3, <1>8, PlanOrdered DEF Queued, Below
<1>12. new.at # "commit" /\ new.held = {}
  BY <1>3, <1>8
<1>13. CallOK(new)
  BY <1>7, <1>8, <1>10, <1>11, <1>12
  DEF CallOK, Timely, Judged, RowsAsRead, GoalAsRead, SlotsVacant
<1> QED
  BY <1>1, <1>9, <1>12, <1>13, CallStep DEF new, at, now, goalRead

LEMMA FetchInv == ASSUME IInv, NEW c \in Calls, Fetch(c) PROVE IInv'
<1> DEFINE s == call[c]
           p == CHOOSE p \in s.job.on : TRUE
           of == <<s.read[p].id, s.read[p].member>>
           new == [s EXCEPT !.at = "lock", !.captured = time, !.of = of]
<1>1. s \in CallState /\ CallOK(s) /\ s.at = "fetch" /\ s.job \in Job /\ s.job.op = "sync"
  BY DEF IInv, Typed, Fetch, CallOK, Phased
<1>2. p \in s.job.on /\ p \in Programs
  BY <1>1, JobFields
<1>3. s.read[p] \in Account
  BY <1>1, <1>2 DEF CallOK, Phased, CallState
<1>4. of \in Nat \X Members
  BY <1>3 DEF Account
<1>5. time \in Nat
  BY AccountsAssumption DEF IInv, TypeOK
<1>6. new \in CallState
  BY <1>1, <1>4, <1>5 DEF CallState, Phases
<1>7. /\ new.job = s.job /\ new.at = "lock" /\ new.todo = s.todo /\ new.held = s.held
      /\ new.read = s.read /\ new.goalRead = s.goalRead /\ new.now = s.now
      /\ new.captured = time
  BY <1>1 DEF CallState
<1>8. call' = [call EXCEPT ![c] = new] /\ UNCHANGED <<time, data>>
  <2>1. /\ call' = [call EXCEPT ![c].at = "lock", ![c].captured = time, ![c].of = of]
        /\ UNCHANGED <<time, data>>
    BY DEF Fetch
  <2> HIDE DEF of
  <2> QED
    BY <2>1, <1>1 DEF IInv, Typed
<1> HIDE DEF new, of, p
<1>9. CallOK(new)
  BY <1>1, <1>5, <1>7
  DEF CallOK, Phased, Queued, Timely, Judged, RowsAsRead, GoalAsRead, SlotsVacant
<1>10. new.held = {}
  BY <1>1, <1>7 DEF CallOK, Phased
<1> QED
  BY <1>6, <1>8, <1>9, <1>10, CallStep

\* What reading under a new lock gives.
LEMMA ReadUnderFields ==
  ASSUME IInv, NEW c \in Calls, NEW lock \in Lock
  PROVE  /\ ReadUnder(c, lock) \in CallState
         /\ \A f \in {"job", "at", "todo", "held", "of", "now", "captured"} :
              ReadUnder(c, lock)[f] = call[c][f]
         /\ lock[1] # "goal" => ReadUnder(c, lock).goalRead = call[c].goalRead
         /\ lock[1] = "row" =>
              /\ \A p \in Programs :
                   ReadUnder(c, lock).read[p] # call[c].read[p] => p = lock[2]
              /\ ReadUnder(c, lock).read[lock[2]] \in {account[lock[2]], None}
         /\ lock[1] # "row" => ReadUnder(c, lock).read = call[c].read
         /\ lock[1] = "goal" => ReadUnder(c, lock).goalRead = goal[lock[2]]
<1>1. call[c] \in CallState
  BY DEF IInv, Typed
<1>2. CASE lock[1] = "row"
  <2> DEFINE me == call[c]
             p == lock[2]
             seen == IF \/ me.job.op = "import"
                        \/ me.read[p] # None /\ account[p] # None /\ me.read[p].id = account[p].id
                     THEN account[p] ELSE None
  <2>1. p \in Programs
    BY <1>2 DEF Lock
  <2>2. seen \in {account[p], None} /\ seen \in Account \union {None}
    BY <2>1 DEF IInv, Typed
  <2>3. ReadUnder(c, lock) = [me EXCEPT !.read[p] = seen]
    BY <1>2 DEF ReadUnder
  <2> HIDE DEF seen
  <2> QED
    BY <1>1, <1>2, <2>1, <2>2, <2>3 DEF CallState
<1>3. CASE lock[1] = "goal"
  <2>1. lock[2] \in Goals
    BY <1>3 DEF Lock
  <2>2. goal[lock[2]] \in GoalRow \union {None}
    BY <2>1 DEF IInv, Typed
  <2>3. ReadUnder(c, lock) = [call[c] EXCEPT !.goalRead = goal[lock[2]]]
    BY <1>3 DEF ReadUnder
  <2> QED
    BY <1>1, <1>3, <2>2, <2>3 DEF CallState
<1>4. CASE lock[1] = "slot"
  <2>1. ReadUnder(c, lock) = call[c]
    BY <1>4 DEF ReadUnder
  <2> QED
    BY <1>1, <1>4, <2>1
<1> QED
  BY <1>2, <1>3, <1>4 DEF Lock

LEMMA AcquireInv == ASSUME IInv, NEW c \in Calls, Acquire(c) PROVE IInv'
<1> DEFINE s == call[c]
           lock == Head(s.todo)
           left == Needed(s.job) \ s.held
           r == ReadUnder(c, lock)
           at == IF Len(s.todo) = 1 THEN "judge" ELSE "lock"
           new == [r EXCEPT !.held = @ \union {lock}, !.todo = Tail(@), !.at = at]
<1>1. /\ s \in CallState /\ CallOK(s) /\ s.at = "lock" /\ WaitsFor(c) \subseteq {c}
      /\ call' = [call EXCEPT ![c] = new] /\ UNCHANGED <<time, data>>
  BY DEF IInv, Typed, Acquire
<1>2. /\ s.todo # <<>> /\ s.held \subseteq Needed(s.job) /\ Ordered(s.todo, left)
      /\ Below(s.held, left)
  BY <1>1 DEF CallOK, Queued
<1>3. /\ lock \in left /\ Below({lock}, left \ {lock}) /\ Ordered(Tail(s.todo), left \ {lock})
      /\ Len(s.todo) = 1 <=> left = {lock}
  <2> HIDE DEF left
  <2> QED
    BY <1>2, TailOrdered
<1>4. lock \in Needed(s.job) /\ lock \notin s.held /\ lock \in Lock
  BY <1>3 DEF Needed
<1>5. \A d \in Calls : d # c => lock \notin call[d].held
  BY <1>1 DEF WaitsFor, Holders
<1>6. /\ r \in CallState /\ r.job = s.job /\ r.at = s.at /\ r.todo = s.todo /\ r.held = s.held
      /\ r.of = s.of /\ r.now = s.now /\ r.captured = s.captured
  BY <1>4, ReadUnderFields
<1>7. /\ lock[1] # "goal" => r.goalRead = s.goalRead
      /\ lock[1] = "row" =>
           /\ \A p \in Programs : r.read[p] # s.read[p] => p = lock[2]
           /\ r.read[lock[2]] \in {account[lock[2]], None}
      /\ lock[1] # "row" => r.read = s.read
      /\ lock[1] = "goal" => r.goalRead = goal[lock[2]]
  BY <1>4, ReadUnderFields
<1>8. Tail(s.todo) \in Seq(Lock)
  BY <1>3 DEF Ordered
<1> HIDE DEF r, lock, left
<1>9. /\ new \in CallState /\ new.job = s.job /\ new.at = at /\ new.todo = Tail(s.todo)
      /\ new.held = s.held \union {lock} /\ new.read = r.read /\ new.goalRead = r.goalRead
      /\ new.of = s.of /\ new.now = s.now /\ new.captured = s.captured
  BY <1>4, <1>6, <1>8 DEF CallState, Phases
<1> HIDE DEF new
<1>10. Phased(new)
  <2>1. s.job \in Job /\ s.job.op # "purge"
    BY <1>1 DEF CallOK, Phased
  <2>2. at = "judge" => s.held \union {lock} = Needed(s.job)
    BY <1>2, <1>3, <1>4 DEF left
  <2>3. s.job.op = "link" => r.read = s.read
    BY <1>4, <1>7 DEF Needed
  <2> QED
    BY <1>1, <1>9, <2>1, <2>2, <2>3 DEF CallOK, Phased
<1>11. Queued(new)
  <2> SUFFICES ASSUME at = "lock"
               PROVE  /\ Tail(s.todo) # <<>> /\ s.held \union {lock} \subseteq Needed(s.job)
                      /\ Ordered(Tail(s.todo), Needed(s.job) \ (s.held \union {lock}))
                      /\ Below(s.held \union {lock}, Needed(s.job) \ (s.held \union {lock}))
    BY <1>9 DEF Queued
  <2>1. Needed(s.job) \ (s.held \union {lock}) = left \ {lock}
    BY DEF left
  <2>2. left \ {lock} # {}
    BY <1>3
  <2>3. Below(s.held \union {lock}, left \ {lock})
    BY <1>2, <1>3 DEF Below
  <2> QED
    BY <1>2, <1>3, <1>4, <2>1, <2>2, <2>3, OrderedNotEmpty
<1>12. RowsAsRead(new)
  <2> SUFFICES ASSUME NEW p \in Programs, <<"row", p>> \in s.held \union {lock}, r.read[p] # None
               PROVE  account[p] = r.read[p]
    BY <1>9 DEF RowsAsRead
  <2>1. CASE <<"row", p>> = lock
    <3>1. lock[1] = "row" /\ lock[2] = p
      BY <2>1
    <3> QED
      BY <1>7, <3>1
  <2>2. CASE <<"row", p>> # lock
    <3>1. lock[1] = "row" => lock[2] # p
      BY <1>4, <2>2 DEF Lock
    <3>2. r.read[p] = s.read[p]
      BY <1>7, <3>1
    <3> QED
      BY <1>1, <2>2, <3>2 DEF CallOK, RowsAsRead
  <2> QED
    BY <2>1, <2>2
<1>13. GoalAsRead(new)
  <2> SUFFICES ASSUME NEW g \in Goals, <<"goal", g>> \in s.held \union {lock}
               PROVE  /\ g = s.job.goal /\ (r.goalRead = None <=> goal[g] = None)
                      /\ goal[g] # None => r.goalRead.title = goal[g].title
    BY <1>9 DEF GoalAsRead
  <2>1. \A l \in Needed(s.job) : l[1] = "goal" => l = <<"goal", s.job.goal>>
    BY DEF Needed, Lock
  <2>2. g = s.job.goal
    BY <1>2, <1>4, <2>1
  <2>3. CASE <<"goal", g>> = lock
    BY <1>7, <2>2, <2>3
  <2>4. CASE <<"goal", g>> # lock
    <3>1. lock[1] # "goal"
      BY <1>4, <2>1, <2>2, <2>4
    <3> QED
      BY <1>1, <1>7, <2>4, <3>1 DEF CallOK, GoalAsRead
  <2> QED
    BY <2>3, <2>4
<1>14. CallOK(new)
  <2>1. at # "commit"
    OBVIOUS
  <2> QED
    BY <1>1, <1>9, <1>10, <1>11, <1>12, <1>13, <2>1 DEF CallOK, Timely, Judged, SlotsVacant
<1>15. \A d \in Calls : d # c => new.held \intersect call[d].held = {}
  BY <1>5, <1>9 DEF IInv, Exclusive
<1> QED
  BY <1>1, <1>9, <1>14, <1>15, CallStep DEF new, r, lock

LEMMA JudgeInv == ASSUME IInv, NEW c \in Calls, Judge(c) PROVE IInv'
<1> DEFINE s == call[c]
<1>1. s \in CallState /\ CallOK(s) /\ s.at = "judge" /\ Accepts(c) /\ UNCHANGED <<time, data>>
  BY DEF IInv, Typed, Judge
<1>2. PICK captured \in IF s.job.op \in {"record", "import"} THEN 0 .. time ELSE {s.captured} :
        call' = [call EXCEPT ![c].at = "commit", ![c].captured = captured,
                             ![c].now = IF @ < time /\ s.job.op # "link" THEN time ELSE @]
  BY DEF Judge
<1> DEFINE now == IF s.now < time /\ s.job.op # "link" THEN time ELSE s.now
           new == [s EXCEPT !.at = "commit", !.captured = captured, !.now = now]
<1>3. time \in Nat /\ s.now \in Nat /\ s.captured \in Nat /\ s.now <= time /\ s.captured <= time
  BY <1>1, AccountsAssumption DEF IInv, TypeOK, CallOK, Timely, CallState
<1>4. captured \in Nat /\ captured <= time /\ now \in Nat /\ now <= time
  BY <1>3
<1>5. s.job.op # "link" => now = time
  BY <1>3
<1>6. call' = [call EXCEPT ![c] = new]
  BY <1>1, <1>2 DEF IInv, Typed
<1> HIDE DEF now
<1>7. /\ new \in CallState /\ new.job = s.job /\ new.at = "commit" /\ new.todo = s.todo
      /\ new.held = s.held /\ new.read = s.read /\ new.goalRead = s.goalRead /\ new.of = s.of
      /\ new.now = now /\ new.captured = captured
  BY <1>1, <1>4 DEF CallState, Phases
<1>8. /\ s.job \in Job /\ s.job.op # "purge" /\ s.held = Needed(s.job)
      /\ s.job.on \subseteq Programs
  BY <1>1, JobFields DEF CallOK, Phased
<1> HIDE DEF new
<1>9. Phased(new) /\ Queued(new) /\ Timely(new)
  BY <1>1, <1>4, <1>7, <1>8 DEF CallOK, Phased, Queued, Timely
<1>10. RowsAsRead(new) /\ GoalAsRead(new)
  BY <1>1, <1>7 DEF CallOK, RowsAsRead, GoalAsRead
<1>11. SlotsVacant(new)
  <2> SUFFICES ASSUME NEW p \in Programs, <<"slot", p>> \in Needed(s.job),
                      s.read[p] = None
               PROVE  account[p] = None
    BY <1>7, <1>8 DEF SlotsVacant
  <2>1. s.job.op \in {"link", "import"} /\ p \in s.job.on
    BY DEF Needed
  <2> QED
    BY <1>1, <2>1 DEF Accepts, Vacant
<1>12. Judged(new)
  <2>1. ASSUME s.job.op \notin {"link", "import", "rename", "drop"}
        PROVE  \A p \in s.job.on : s.read[p] # None
    BY <1>1, <2>1 DEF Accepts, SyncApplies, Live
  <2>2. ASSUME s.job.op # "link",
               NEW p \in Programs, <<"row", p>> \in s.held, s.read[p] # None
        PROVE  s.read[p].updated <= now
    <3>1. account[p] = s.read[p]
      BY <1>1, <2>2 DEF CallOK, RowsAsRead
    <3>2. account[p].updated \in 0 .. time
      BY <2>2, <3>1 DEF IInv, TypeOK
    <3> QED
      BY <1>5, <2>2, <3>1, <3>2
  <2>3. s.job.op = "sync" => \A p \in s.job.on : s.of = <<s.read[p].id, s.read[p].member>>
    BY <1>1 DEF Accepts, SyncApplies
  <2>4. s.job.op = "goal" => \A p \in s.job.on : Live(s.read[p])
    BY <1>1 DEF Accepts
  <2>5. s.job.op \in {"rename", "drop"} => s.goalRead # None
    BY <1>1 DEF Accepts
  <2> QED
    BY <1>4, <1>5, <1>7, <2>1, <2>2, <2>3, <2>4, <2>5 DEF Judged
<1>13. CallOK(new)
  BY <1>9, <1>10, <1>11, <1>12 DEF CallOK
<1>14. \A d \in Calls : d # c => new.held \intersect call[d].held = {}
  BY <1>7 DEF IInv, Exclusive
<1> QED
  BY <1>1, <1>6, <1>7, <1>13, <1>14, CallStep

\* A step of one call that writes, and holds nothing any more.
LEMMA DataStep ==
  ASSUME IInv, NEW c \in Calls, NEW new \in CallState,
         call' = [call EXCEPT ![c] = new], time' = time,
         new.held = {}, new.at \in {"idle", "delete"}, Phased(new), Timely(new),
         TypeOK', account' \in [Programs -> Account \union {None}],
         goal' \in [Goals -> GoalRow \union {None}],
         \A d \in Calls, p \in Programs :
           d # c /\ <<"row", p>> \in call[d].held /\ account[p] # None => account'[p] = account[p],
         \A d \in Calls, p \in Programs :
           d # c /\ <<"slot", p>> \in call[d].held /\ account[p] = None => account'[p] = None,
         \A d \in Calls, g \in Goals :
           d # c /\ <<"goal", g>> \in call[d].held =>
             /\ goal'[g] = None <=> goal[g] = None
             /\ goal[g] # None => goal'[g].title = goal[g].title
  PROVE  IInv'
<1>1. call' \in [Calls -> CallState] /\ \A d \in Calls : call'[d] = IF d = c THEN new ELSE call[d]
  BY DEF IInv, Typed
<1>2. Typed'
  BY <1>1 DEF Typed
<1>3. Exclusive'
  BY <1>1 DEF IInv, Exclusive
<1>4. ASSUME NEW d \in Calls PROVE CallOK(call[d])'
  <2>1. CASE d = c
    <3>1. call'[d] = new
      BY <1>1, <2>1
    <3> QED
      BY <3>1
      DEF CallOK, Phased, Queued, Timely, Judged, RowsAsRead, GoalAsRead, SlotsVacant
  <2>2. CASE d # c
    <3>1. call'[d] = call[d] /\ CallOK(call[d])
      BY <1>1, <2>2 DEF IInv
    <3>2. Phased(call[d])' /\ Queued(call[d])' /\ Timely(call[d])' /\ Judged(call[d])'
      <4>1. Phased(call[d])' /\ Queued(call[d])'
        BY <3>1 DEF CallOK, Phased, Queued
      <4>2. Timely(call[d])' /\ Judged(call[d])'
        BY <3>1 DEF CallOK, Timely, Judged
      <4> QED
        BY <4>1, <4>2
    <3>3. RowsAsRead(call[d])'
      BY <2>2, <3>1 DEF CallOK, RowsAsRead
    <3>4. GoalAsRead(call[d])'
      BY <2>2, <3>1 DEF CallOK, GoalAsRead
    <3>5. SlotsVacant(call[d])'
      BY <2>2, <3>1 DEF CallOK, SlotsVacant
    <3> QED
      BY <3>2, <3>3, <3>4, <3>5 DEF CallOK
  <2> QED
    BY <2>1, <2>2
<1> QED
  BY <1>2, <1>3, <1>4 DEF IInv

LEMMA PurgeListInv == ASSUME IInv, NEW c \in Calls, PurgeList(c) PROVE IInv'
<1> DEFINE s == call[c]
           read == [p \in Programs |-> IF account[p] # None /\ ~Live(account[p])
                                       THEN account[p] ELSE None]
           new == [s EXCEPT !.at = "clock", !.read = read]
<1>1. s \in CallState /\ CallOK(s) /\ s.at = "list"
  BY DEF IInv, Typed, PurgeList
<1>2. read \in [Programs -> Account \union {None}]
  BY DEF IInv, Typed
<1>3. call' = [call EXCEPT ![c] = new] /\ UNCHANGED <<time, data>>
  BY <1>1 DEF IInv, Typed, PurgeList
<1> HIDE DEF read
<1>4. /\ new \in CallState /\ new.job = s.job /\ new.at = "clock" /\ new.held = s.held
      /\ new.now = s.now /\ new.captured = s.captured
  BY <1>1, <1>2 DEF CallState, Phases
<1> HIDE DEF new
<1>5. new.held = {} /\ Phased(new)
  BY <1>1, <1>4 DEF CallOK, Phased
<1>6. CallOK(new)
  BY <1>1, <1>4, <1>5 DEF CallOK, Queued, Timely, Judged, RowsAsRead, GoalAsRead, SlotsVacant
<1> QED
  BY <1>3, <1>4, <1>5, <1>6, CallStep

LEMMA PurgeClockInv == ASSUME IInv, NEW c \in Calls, PurgeClock(c) PROVE IInv'
<1> DEFINE s == call[c]
           doomed == [p \in Programs |-> IF s.read[p] # None /\ ~InWindow(s.read[p])
                                         THEN s.read[p] ELSE None]
           new == [s EXCEPT !.at = "delete", !.read = doomed]
<1>1. s \in CallState /\ CallOK(s) /\ s.at = "clock" /\ UNCHANGED <<time, data>>
  BY DEF IInv, Typed, PurgeClock
<1>2. doomed \in [Programs -> Account \union {None}]
  BY <1>1 DEF CallState
<1>3. End(c) \/ call' = [call EXCEPT ![c].at = "delete", ![c].read = doomed]
  BY DEF PurgeClock
<1> HIDE DEF doomed
<1>4. CASE call' = [call EXCEPT ![c].at = "delete", ![c].read = doomed]
  <2>1. call' = [call EXCEPT ![c] = new]
    BY <1>1, <1>4 DEF IInv, Typed
  <2>2. /\ new \in CallState /\ new.job = s.job /\ new.at = "delete" /\ new.held = s.held
        /\ new.now = s.now /\ new.captured = s.captured
    BY <1>1, <1>2 DEF CallState, Phases
  <2> HIDE DEF new
  <2>3. new.held = {} /\ Phased(new)
    BY <1>1, <2>2 DEF CallOK, Phased
  <2>4. CallOK(new)
    BY <1>1, <2>2, <2>3 DEF CallOK, Queued, Timely, Judged, RowsAsRead, GoalAsRead, SlotsVacant
  <2> QED
    BY <1>1, <2>1, <2>2, <2>3, <2>4, CallStep
<1> QED
  BY <1>1, <1>3, <1>4, EndInv

\* Goals as the purge leaves them: the same, less at most one account.
Trimmed(old, new, x) ==
  \/ new = old
  \/ old # None /\ new = [old EXCEPT !.on = @ \ {x}]

\* What a deletion does to the rows.
LEMMA PurgeEffect ==
  ASSUME IInv, NEW c \in Calls, PurgeDelete(c)
  PROVE  \E p \in Programs :
           /\ call[c].at = "delete" /\ call[c].job.op = "purge"
           /\ \A d \in Calls : <<"row", p>> \notin call[d].held
           /\ End(c) \/ call' = [call EXCEPT ![c].read = [@ EXCEPT ![p] = None]]
           /\ UNCHANGED <<time, issued, begun>>
           /\ account' \in [Programs -> Account \union {None}]
           /\ goal' \in [Goals -> GoalRow \union {None}]
           /\ \A q \in Programs : account'[q] = account[q] \/ (q = p /\ account'[q] = None)
           /\ \A g \in Goals :
                /\ Trimmed(goal[g], goal'[g], <<p, call[c].read[p].id>>)
                /\ account'[p] # account[p] /\ goal[g] # None =>
                     /\ goal'[g] # None /\ account[p].id = call[c].read[p].id
                     /\ goal'[g].on = goal[g].on \ {<<p, call[c].read[p].id>>}
<1> DEFINE s == call[c]
<1>1. PICK p \in Programs :
        /\ s.at = "delete" /\ s.read[p] # None
        /\ Holders(<<"row", p>>) = {}
        /\ LET id == s.read[p].id
               hit == account[p] # None /\ account[p].id = id
               left == [s.read EXCEPT ![p] = None] IN
           /\ account' = IF hit THEN [account EXCEPT ![p] = None] ELSE account
           /\ goal' = [g \in Goals |-> IF goal[g] = None \/ ~hit THEN goal[g]
                                       ELSE [goal[g] EXCEPT !.on = @ \ {<<p, id>>}]]
           /\ IF left = NoRows THEN End(c) ELSE call' = [call EXCEPT ![c].read = left]
        /\ UNCHANGED <<time, issued, begun>>
  BY DEF PurgeDelete
<1> DEFINE id == s.read[p].id
           hit == account[p] # None /\ account[p].id = id
<1>2. s.job.op = "purge"
  BY <1>1 DEF IInv, CallOK, Phased
<1>3. \A d \in Calls : <<"row", p>> \notin call[d].held
  BY <1>1 DEF Holders
<1>4. End(c) \/ call' = [call EXCEPT ![c].read = [@ EXCEPT ![p] = None]]
  <2>1. CASE End(c)
    BY <2>1
  <2>2. CASE call' = [call EXCEPT ![c].read = [s.read EXCEPT ![p] = None]]
    BY <2>2
  <2> QED
    BY <1>1, <2>1, <2>2
<1>5. account' = IF hit THEN [account EXCEPT ![p] = None] ELSE account
  BY <1>1
<1>6. goal' = [g \in Goals |-> IF goal[g] = None \/ ~hit THEN goal[g]
                              ELSE [goal[g] EXCEPT !.on = @ \ {<<p, id>>}]]
  BY <1>1
<1>7. /\ account' \in [Programs -> Account \union {None}]
      /\ \A q \in Programs : account'[q] = account[q] \/ (q = p /\ account'[q] = None)
      /\ account'[p] # account[p] => hit
  BY <1>5 DEF IInv, Typed
<1> HIDE DEF hit
<1>8. ASSUME NEW g \in Goals
      PROVE  /\ goal'[g] \in GoalRow \union {None}
             /\ Trimmed(goal[g], goal'[g], <<p, id>>)
             /\ hit /\ goal[g] # None =>
                  goal'[g] # None /\ goal'[g].on = goal[g].on \ {<<p, id>>}
  <2>1. goal[g] \in GoalRow \union {None}
    BY DEF IInv, Typed
  <2>2. CASE goal[g] = None \/ ~hit
    BY <1>6, <2>1, <2>2 DEF Trimmed
  <2>3. CASE goal[g] # None /\ hit
    <3>1. goal'[g] = [goal[g] EXCEPT !.on = @ \ {<<p, id>>}]
      BY <1>6, <2>3
    <3>2. goal'[g] \in GoalRow /\ goal'[g].on = goal[g].on \ {<<p, id>>}
      BY <2>1, <2>3, <3>1 DEF GoalRow
    <3> QED
      BY <2>3, <3>1, <3>2, Nones DEF Trimmed
  <2> QED
    BY <2>2, <2>3
<1>9. goal' \in [Goals -> GoalRow \union {None}]
  BY <1>6, <1>8
<1> QED
  BY <1>1, <1>2, <1>3, <1>4, <1>7, <1>8, <1>9 DEF hit

LEMMA PurgeDeleteInv == ASSUME IInv, NEW c \in Calls, PurgeDelete(c) PROVE IInv'
<1> DEFINE s == call[c]
<1>1. PICK p \in Programs :
           /\ s.at = "delete" /\ s.job.op = "purge"
           /\ \A d \in Calls : <<"row", p>> \notin call[d].held
           /\ End(c) \/ call' = [call EXCEPT ![c].read = [@ EXCEPT ![p] = None]]
           /\ UNCHANGED <<time, issued, begun>>
           /\ account' \in [Programs -> Account \union {None}]
           /\ goal' \in [Goals -> GoalRow \union {None}]
           /\ \A q \in Programs : account'[q] = account[q] \/ (q = p /\ account'[q] = None)
           /\ \A g \in Goals :
                /\ Trimmed(goal[g], goal'[g], <<p, s.read[p].id>>)
                /\ account'[p] # account[p] /\ goal[g] # None =>
                     /\ goal'[g] # None /\ account[p].id = s.read[p].id
                     /\ goal'[g].on = goal[g].on \ {<<p, s.read[p].id>>}
  BY PurgeEffect, Zenon
<1> DEFINE x == <<p, s.read[p].id>>
<1>2. s \in CallState /\ CallOK(s) /\ time \in Nat
  BY AccountsAssumption DEF IInv, Typed, TypeOK
<1>3. ASSUME NEW g \in Goals
      PROVE  /\ goal'[g] = None <=> goal[g] = None
             /\ goal[g] # None =>
                  goal'[g].title = goal[g].title /\ goal'[g].on \subseteq goal[g].on
  <2>1. goal[g] \in GoalRow \union {None} /\ goal'[g] \in GoalRow \union {None}
    BY <1>1 DEF IInv, Typed
  <2>2. Trimmed(goal[g], goal'[g], x)
    BY <1>1
  <2>3. CASE goal'[g] = goal[g]
    BY <2>3
  <2>4. CASE goal[g] # None /\ goal'[g] = [goal[g] EXCEPT !.on = @ \ {x}]
    <3>1. goal'[g].title = goal[g].title /\ goal'[g].on = goal[g].on \ {x} /\ goal'[g] \in GoalRow
      BY <2>1, <2>4 DEF GoalRow
    <3> QED
      BY <2>4, <3>1, Nones
  <2> QED
    BY <2>2, <2>3, <2>4 DEF Trimmed
<1>4. ASSUME NEW g \in Goals, goal'[g] # None, NEW y \in goal'[g].on
      PROVE  account'[y[1]] # None /\ account'[y[1]].id = y[2]
  <2>1. goal[g] # None /\ goal[g] \in GoalRow /\ y \in goal[g].on
    BY <1>3, <1>4 DEF IInv, Typed
  <2>2. account[y[1]] # None /\ account[y[1]].id = y[2] /\ y \in Programs \X Nat
    BY <2>1 DEF IInv, TypeOK, GoalRow
  <2>3. CASE account'[y[1]] = account[y[1]]
    BY <2>2, <2>3
  <2>4. CASE account'[y[1]] # account[y[1]]
    <3>1. y[1] = p
      BY <1>1, <2>2, <2>4
    <3>2. account[p].id = s.read[p].id /\ goal'[g].on = goal[g].on \ {x}
      BY <1>1, <2>1, <2>4, <3>1
    <3>3. y = x
      BY <2>2, <3>1, <3>2
    <3> QED
      BY <1>4, <3>2, <3>3
  <2> QED
    BY <2>3, <2>4
<1>5. TypeOK'
  <2>1. ASSUME NEW q \in Programs, account'[q] # None PROVE account'[q] = account[q]
    BY <1>1, <2>1
  <2> QED
    BY <1>1, <1>4, <2>1 DEF IInv, TypeOK
<1>6. \A q \in Programs : account[q] = None => account'[q] = None
  BY <1>1
<1>7. \A d \in Calls, q \in Programs : <<"row", q>> \in call[d].held => account'[q] = account[q]
  BY <1>1
<1>8. CASE End(c)
  <2>1. Idle.held = {} /\ Idle.at = "idle" /\ call' = [call EXCEPT ![c] = Idle]
    BY <1>8 DEF Idle, End
  <2>2. Phased(Idle) /\ Timely(Idle) /\ Idle \in CallState
    BY <1>2, IdleOK DEF CallOK
  <2>3. /\ time' = time /\ account' \in [Programs -> Account \union {None}]
        /\ goal' \in [Goals -> GoalRow \union {None}]
    BY <1>1
  <2> HIDE DEF s
  <2> QED
    BY <1>3, <1>5, <1>6, <1>7, <2>1, <2>2, <2>3, DataStep
<1>9. CASE call' = [call EXCEPT ![c].read = [@ EXCEPT ![p] = None]]
  <2> DEFINE new == [s EXCEPT !.read = [@ EXCEPT ![p] = None]]
  <2>1. call' = [call EXCEPT ![c] = new]
    BY <1>2, <1>9 DEF IInv, Typed
  <2>2. /\ new \in CallState /\ new.job = s.job /\ new.at = s.at /\ new.held = s.held
        /\ new.now = s.now /\ new.captured = s.captured
    BY <1>2 DEF CallState
  <2> HIDE DEF new
  <2>3. new.held = {} /\ Phased(new) /\ Timely(new) /\ new.at = "delete"
    BY <1>1, <1>2, <2>2 DEF CallOK, Phased, Timely
  <2>4. /\ time' = time /\ account' \in [Programs -> Account \union {None}]
        /\ goal' \in [Goals -> GoalRow \union {None}]
    BY <1>1
  <2> QED
    BY <1>3, <1>5, <1>6, <1>7, <2>1, <2>2, <2>3, <2>4, DataStep
<1> QED
  BY <1>1, <1>8, <1>9

-------------------------------------------------------------------------------
(* Writing                                                                     *)

\* A row as TypeOK has it, with n ids issued and at time t.
Sane(row, n, t) ==
  /\ row \in [id : 1 .. n, member : Members, updated : 0 .. t, deleted : 0 .. t \union {None},
              expiry : Expiry, readings : SUBSET Reading]
  /\ row.expiry.at <= row.updated

\* The expiry of a row keeps up when it is rewritten.
Renews(old, new) ==
  new.expiry # old.expiry =>
    /\ new.expiry.at >= old.expiry.at
    /\ new.expiry.by = "activity" => \A r \in new.readings : r.captured <= new.expiry.at

LEMMA SaneAccount ==
  ASSUME NEW row, NEW n \in Nat, NEW t \in Nat, Sane(row, n, t)
  PROVE  row \in Account /\ row # None
<1>1. row \in Account
  BY DEF Sane, Account
<1> QED
  BY <1>1, Nones

\* What recording a reading makes of a row.
Extends(row, new, n, t, of) ==
  /\ Sane(new, n, t)
  /\ new.id = row.id /\ new.member = row.member /\ new.deleted = row.deleted
  /\ row.readings \subseteq new.readings
  /\ \A r \in new.readings \ row.readings : r.of = of
  /\ Renews(row, new)

\* A reading is kept, and renews the expiry only if it is the newest.
LEMMA RecordedFacts ==
  ASSUME NEW n \in Nat, NEW t \in Nat, NEW row, Sane(row, n, t),
         NEW captured \in Nat, NEW of \in Nat \X Members, NEW m \in Nat, captured <= m, m <= t
  PROVE  Extends(row, Recorded(row, captured, of, m), n, t, of)
<1> DEFINE reading == [captured |-> captured, of |-> of]
           expiry == IF Stale(row, captured) THEN row.expiry
                     ELSE [by |-> "activity", at |-> captured]
           updated == Later(m, row.updated)
           new == Recorded(row, captured, of, m)
<1>1. /\ row \in [id : 1 .. n, member : Members, updated : 0 .. t, deleted : 0 .. t \union {None},
                  expiry : Expiry, readings : SUBSET Reading]
      /\ row.updated \in 0 .. t /\ row.expiry \in Expiry /\ row.expiry.at \in Nat
      /\ row.expiry.at <= row.updated /\ row.readings \subseteq Reading
  BY DEF Sane, Expiry
<1>2. reading \in Reading /\ reading.captured = captured /\ reading.of = of
  BY DEF Reading
<1>3. updated \in 0 .. t /\ m <= updated /\ row.updated <= updated
  BY <1>1 DEF Later
<1>4. /\ expiry \in Expiry /\ expiry.at \in Nat /\ expiry.at <= updated
      /\ expiry # row.expiry =>
           /\ ~Stale(row, captured) /\ expiry.at = captured /\ expiry.by = "activity"
  <2>1. CASE Stale(row, captured)
    BY <1>1, <1>3, <2>1
  <2>2. CASE ~Stale(row, captured)
    <3>1. expiry = [by |-> "activity", at |-> captured]
      BY <2>2
    <3> HIDE DEF expiry, updated
    <3> QED
      BY <1>3, <2>2, <3>1 DEF Expiry
  <2> QED
    BY <2>1, <2>2
<1>5. new = [row EXCEPT !.readings = @ \union {reading}, !.expiry = expiry, !.updated = updated]
  BY DEF Recorded
<1> HIDE DEF reading, expiry, updated, new
<1>6. /\ new \in [id : 1 .. n, member : Members, updated : 0 .. t, deleted : 0 .. t \union {None},
                  expiry : Expiry, readings : SUBSET Reading]
      /\ new.id = row.id /\ new.member = row.member /\ new.deleted = row.deleted
      /\ new.readings = row.readings \union {reading} /\ new.expiry = expiry
      /\ new.updated = updated
  BY <1>1, <1>2, <1>3, <1>4, <1>5
<1>7. Sane(new, n, t)
  BY <1>4, <1>6 DEF Sane
<1>8. Renews(row, new)
  <2> SUFFICES ASSUME expiry # row.expiry
               PROVE  /\ expiry.at >= row.expiry.at
                      /\ \A r \in row.readings \union {reading} : r.captured <= expiry.at
    BY <1>6 DEF Renews
  <2>1. ~(captured < row.updated) /\ \A r \in row.readings : ~(captured < r.captured)
    BY <1>4 DEF Stale
  <2>2. \A r \in row.readings : r.captured \in Nat
    BY <1>1 DEF Reading
  <2> QED
    BY <1>1, <1>2, <1>4, <2>1, <2>2
<1> QED
  BY <1>2, <1>6, <1>7, <1>8 DEF new, Extends

\* What writing back a row that was read and judged gives.
Keeps(op, row, new) ==
  /\ new.id = row.id
  /\ op # "edit" => new.member = row.member
  /\ op \notin {"unlink", "restore"} => new.deleted = row.deleted
  /\ row.readings \subseteq new.readings
  /\ \A r \in new.readings \ row.readings : r.of = <<new.id, new.member>>
  /\ Renews(row, new)

LEMMA WrittenFacts ==
  ASSUME NEW c \in Calls, NEW p \in Programs, NEW n \in Nat, NEW t \in Nat, NEW m \in Nat,
         LET s == call[c] IN
         /\ s \in CallState /\ s.job \in Job /\ Sane(s.read[p], n, t)
         /\ s.read[p].updated <= s.now /\ s.captured <= s.now /\ s.now <= m /\ m <= t
         /\ s.job.op = "sync" => s.of = <<s.read[p].id, s.read[p].member>>
  PROVE  /\ Sane(Written(c, p, m), n, t)
         /\ Keeps(call[c].job.op, call[c].read[p], Written(c, p, m))
<1> DEFINE s == call[c]
           row == s.read[p]
           at == Later(s.now, row.updated)
           new == Written(c, p, m)
           of == <<row.id, row.member>>
<1>1. /\ row \in [id : 1 .. n, member : Members, updated : 0 .. t, deleted : 0 .. t \union {None},
                  expiry : Expiry, readings : SUBSET Reading]
      /\ row.id \in 1 .. n /\ row.member \in Members
      /\ row.updated \in 0 .. t /\ row.expiry \in Expiry /\ row.expiry.at \in Nat
      /\ row.expiry.at <= row.updated
  BY DEF Sane, Expiry
<1>2. s.now \in Nat /\ s.captured \in Nat
  BY DEF CallState
<1>3. at \in 0 .. t /\ row.updated <= at /\ s.now \in 0 .. t
  BY <1>1, <1>2 DEF Later
<1>4. of \in Nat \X Members
  BY <1>1
<1>5. CASE s.job.op = "edit"
  <2>1. s.job.member \in Members
    BY <1>5, JobFields
  <2>2. new = [row EXCEPT !.member = s.job.member, !.updated = at]
    BY <1>5 DEF Written
  <2> HIDE DEF new, at, row
  <2>3. /\ new \in [id : 1 .. n, member : Members, updated : 0 .. t, deleted : 0 .. t \union {None},
                    expiry : Expiry, readings : SUBSET Reading]
        /\ new.id = row.id /\ new.deleted = row.deleted /\ new.readings = row.readings
        /\ new.expiry = row.expiry /\ new.updated = at
    BY <1>1, <1>3, <2>1, <2>2
  <2> QED
    BY <1>1, <1>3, <1>5, <2>3 DEF Sane, Keeps, Renews, row, new
<1>6. CASE s.job.op = "expire"
  <2>1. new = [row EXCEPT !.expiry = [by |-> "user", at |-> at], !.updated = at]
    BY <1>6 DEF Written
  <2>2. [by |-> "user", at |-> at] \in Expiry
    BY <1>3 DEF Expiry
  <2> HIDE DEF new, at, row
  <2>3. /\ new \in [id : 1 .. n, member : Members, updated : 0 .. t, deleted : 0 .. t \union {None},
                    expiry : Expiry, readings : SUBSET Reading]
        /\ new.id = row.id /\ new.deleted = row.deleted /\ new.readings = row.readings
        /\ new.member = row.member /\ new.updated = at
        /\ new.expiry.at = at /\ new.expiry.by = "user"
    BY <1>1, <1>3, <2>1, <2>2
  <2> QED
    BY <1>1, <1>3, <1>6, <2>3 DEF Sane, Keeps, Renews, row, new
<1>7. CASE s.job.op \in {"unlink", "restore"}
  <2>1. \E deleted \in 0 .. t \union {None}, updated \in 0 .. t :
          /\ row.updated <= updated
          /\ new = [row EXCEPT !.deleted = deleted, !.updated = updated]
    BY <1>3, <1>7 DEF Written
  <2>2. PICK deleted \in 0 .. t \union {None}, updated \in 0 .. t :
          /\ row.updated <= updated
          /\ new = [row EXCEPT !.deleted = deleted, !.updated = updated]
    BY <2>1
  <2> HIDE DEF new, at, row
  <2>3. /\ new \in [id : 1 .. n, member : Members, updated : 0 .. t, deleted : 0 .. t \union {None},
                    expiry : Expiry, readings : SUBSET Reading]
        /\ new.id = row.id /\ new.readings = row.readings
        /\ new.member = row.member /\ new.updated = updated /\ new.expiry = row.expiry
    BY <1>1, <2>2
  <2> QED
    BY <1>1, <1>7, <2>2, <2>3 DEF Sane, Keeps, Renews, row, new
<1>8. CASE s.job.op \notin {"edit", "expire", "unlink", "restore"}
  <2>1. new = Recorded(row, s.captured, of, m)
    <3>1. CASE s.job.op = "sync"
      BY <3>1 DEF Written
    <3>2. CASE s.job.op # "sync"
      BY <1>8, <3>2 DEF Written
    <3> QED
      BY <3>1, <3>2
  <2>2. s.captured <= m
    BY <1>2
  <2> HIDE DEF of, new, row
  <2>3. /\ Sane(new, n, t)
        /\ new.id = row.id /\ new.member = row.member /\ new.deleted = row.deleted
        /\ row.readings \subseteq new.readings
        /\ \A r \in new.readings \ row.readings : r.of = of
        /\ Renews(row, new)
    <3>1. Sane(row, n, t) /\ m <= t
      BY DEF row
    <3> DEFINE captured == s.captured
    <3>2. captured \in Nat /\ captured <= m
      BY <1>2, <2>2
    <3> HIDE DEF captured
    <3>3. Extends(row, Recorded(row, captured, of, m), n, t, of)
      BY <1>4, <3>1, <3>2, RecordedFacts
    <3> QED
      BY <2>1, <3>3 DEF captured, Extends
  <2> QED
    BY <2>3 DEF Keeps, row, new, of
<1> QED
  BY <1>5, <1>6, <1>7, <1>8

\* A first row of a program's next membership.
Born(row, n) ==
  /\ row.id = n
  /\ \A r \in row.readings : r.of = <<row.id, row.member>>

LEMMA LinkedFacts ==
  ASSUME NEW c \in Calls, NEW p \in Programs, NEW t \in Nat, NEW m \in Nat,
         issued[p] \in Nat, call[c] \in CallState, call[c].job \in Job,
         call[c].job.op \in {"link", "import"},
         call[c].now <= m, m <= t, call[c].captured <= call[c].now \/ call[c].job.op = "link"
  PROVE  LET new == IF call[c].job.op = "link" THEN Linked(c, p)
                    ELSE Recorded(Linked(c, p), call[c].captured,
                                  <<issued[p] + 1, call[c].job.member>>, m) IN
         Sane(new, issued[p] + 1, t) /\ Born(new, issued[p] + 1)
<1> DEFINE n == issued[p] + 1
           member == call[c].job.member
           now == call[c].now
           captured == call[c].captured
           row == NewAccount(n, member, now)
           of == <<n, member>>
           new == Recorded(row, captured, of, m)
<1>1. n \in Nat /\ n \in 1 .. n /\ member \in Members /\ now \in Nat /\ captured \in Nat
  BY JobFields DEF CallState
<1>2. now \in 0 .. t /\ of \in Nat \X Members
  BY <1>1
<1>3. Linked(c, p) = row
  BY DEF Linked
<1> HIDE DEF n, now, member
<1>4. /\ row \in [id : 1 .. n, member : Members, updated : 0 .. t, deleted : 0 .. t \union {None},
                  expiry : Expiry, readings : SUBSET Reading]
      /\ row.id = n /\ row.readings = {} /\ row.member = member
      /\ row.expiry.at = row.updated
  BY <1>1, <1>2 DEF NewAccount, Expiry
<1>5. Sane(row, n, t) /\ Born(row, n)
  <2>1. row.updated \in 0 .. t
    BY <1>4
  <2> HIDE DEF row
  <2> QED
    BY <1>4, <2>1 DEF Sane, Born
<1>6. CASE call[c].job.op = "link"
  BY <1>3, <1>5, <1>6 DEF n
<1>7. CASE call[c].job.op = "import"
  <2>1. captured <= m
    BY <1>1, <1>7 DEF now
  <2> HIDE DEF row, of, captured
  <2>2. Extends(row, Recorded(row, captured, of, m), n, t, of)
    BY <1>1, <1>2, <1>5, <2>1, RecordedFacts
  <2>3. Sane(new, n, t) /\ Born(new, n)
    BY <1>4, <2>2 DEF Born, Extends, of
  <2> QED
    BY <1>3, <1>7, <2>3 DEF n, of, row, member, captured, now
<1> QED
  BY <1>6, <1>7

\* A commit finds each account as it was read, or its slot still vacant.
Fresh(c, p) ==
  /\ account[p] = None /\ call[c].read[p] = None /\ call[c].job.op \in {"link", "import"}
  /\ <<"slot", p>> \in call[c].held

Kept(c, p) ==
  /\ account[p] # None /\ call[c].read[p] = account[p] /\ call[c].job.op # "link"
  /\ <<"row", p>> \in call[c].held

LEMMA CommitCases ==
  ASSUME IInv, NEW c \in Calls, CommitAccounts(c), NEW p \in call[c].job.on
  PROVE  p \in Programs /\ (Fresh(c, p) \/ Kept(c, p))
<1> DEFINE s == call[c]
<1>1. /\ s.at = "commit" /\ s.job.op \notin GoalOps /\ CallOK(s) /\ s.job \in Job
      /\ s.job.op # "purge" /\ s.held = Needed(s.job)
  BY DEF IInv, CommitAccounts, GoalOps, CallOK, Phased
<1>2. p \in Programs
  BY <1>1, JobFields
<1>3. s.job.op \in {"link", "import"} => <<"slot", p>> \in s.held
  BY <1>1, <1>2 DEF Needed, Lock
<1>4. s.job.op # "link" => <<"row", p>> \in s.held
  BY <1>1, <1>2 DEF Needed, Lock, GoalOps
<1>5. CASE s.read[p] = None
  <2>1. s.job.op \in {"link", "import"}
    BY <1>1, <1>5 DEF CallOK, Judged, GoalOps
  <2>2. account[p] = None
    BY <1>1, <1>2, <1>3, <1>5, <2>1 DEF CallOK, SlotsVacant
  <2> QED
    BY <1>2, <1>3, <1>5, <2>1, <2>2 DEF Fresh
<1>6. CASE s.read[p] # None
  <2>1. s.job.op # "link"
    BY <1>1, <1>6 DEF CallOK, Phased
  <2>2. account[p] = s.read[p]
    BY <1>1, <1>2, <1>4, <1>6, <2>1 DEF CallOK, RowsAsRead
  <2> QED
    BY <1>2, <1>4, <1>6, <2>1, <2>2 DEF Kept
<1> QED
  BY <1>5, <1>6

\* What a commit of accounts makes of each row.
LEMMA CommitRow ==
  ASSUME IInv, NEW c \in Calls, CommitAccounts(c), NEW p \in Programs
  PROVE  \/ account'[p] = account[p] /\ issued'[p] = issued[p]
         \/ /\ Fresh(c, p) /\ issued'[p] = issued[p] + 1
            /\ Sane(account'[p], issued'[p], time) /\ Born(account'[p], issued[p] + 1)
         \/ /\ Kept(c, p) /\ issued'[p] = issued[p] /\ Sane(account'[p], issued'[p], time)
            /\ Keeps(call[c].job.op, account[p], account'[p])
<1> DEFINE s == call[c]
           job == s.job
<1>1. PICK m \in s.now .. time :
        account' = [q \in Programs |->
         IF q \notin job.on THEN account[q]
         ELSE IF job.op = "link" THEN Linked(c, q) ELSE Imported(c, q, m)]
  BY DEF CommitAccounts
<1>2. /\ issued' = NewIds(c) /\ CallOK(s) /\ s \in CallState /\ s.at = "commit"
      /\ s.job \in Job /\ issued[p] \in Nat /\ time \in Nat
  BY AccountsAssumption DEF CommitAccounts, IInv, Typed, TypeOK, CallOK, Phased
<1>3. m \in Nat /\ s.now <= m /\ m <= time
  BY <1>2 DEF CallState
<1>4. job.op # "link" => s.captured <= s.now
  BY <1>2 DEF CallOK, Judged
<1>5. CASE p \notin job.on
  <2>1. account'[p] = account[p]
    BY <1>1, <1>5
  <2>2. issued'[p] = issued[p]
    BY <1>2, <1>5 DEF NewIds
  <2> QED
    BY <2>1, <2>2
<1>6. CASE p \in job.on /\ Fresh(c, p)
  <2>1. issued'[p] = issued[p] + 1
    BY <1>2, <1>6 DEF NewIds, Fresh
  <2>2. account'[p] = IF job.op = "link" THEN Linked(c, p)
                      ELSE Recorded(Linked(c, p), s.captured, <<issued[p] + 1, job.member>>, m)
    BY <1>1, <1>6 DEF Fresh, Imported
  <2>3. LET new == IF call[c].job.op = "link" THEN Linked(c, p)
                    ELSE Recorded(Linked(c, p), call[c].captured,
                                  <<issued[p] + 1, call[c].job.member>>, m) IN
        Sane(new, issued[p] + 1, time) /\ Born(new, issued[p] + 1)
    BY <1>2, <1>3, <1>4, <1>6, LinkedFacts DEF Fresh
  <2> QED
    BY <1>6, <2>1, <2>2, <2>3
<1>7. CASE p \in job.on /\ Kept(c, p)
  <2>1. issued'[p] = issued[p]
    BY <1>2, <1>7 DEF NewIds, Kept
  <2>2. account'[p] = Written(c, p, m)
    BY <1>1, <1>7 DEF Kept, Imported
  <2>3. Sane(s.read[p], issued[p], time)
    BY <1>7 DEF IInv, TypeOK, Kept, Sane
  <2>4. /\ s.read[p].updated <= s.now /\ s.captured <= s.now
        /\ s.job.op = "sync" => s.of = <<s.read[p].id, s.read[p].member>>
    BY <1>2, <1>7 DEF CallOK, Judged, Kept
  <2>5. Sane(Written(c, p, m), issued[p], time) /\ Keeps(job.op, s.read[p], Written(c, p, m))
    BY <1>2, <1>3, <2>3, <2>4, WrittenFacts
  <2> QED
    BY <1>7, <2>1, <2>2, <2>5 DEF Kept
<1> QED
  BY <1>5, <1>6, <1>7, CommitCases

LEMMA CommitAccountsInv == ASSUME IInv, NEW c \in Calls, CommitAccounts(c) PROVE IInv'
<1> DEFINE Row(p) ==
      \/ account'[p] = account[p] /\ issued'[p] = issued[p]
      \/ /\ Fresh(c, p) /\ issued'[p] = issued[p] + 1
         /\ Sane(account'[p], issued'[p], time) /\ Born(account'[p], issued[p] + 1)
      \/ /\ Kept(c, p) /\ issued'[p] = issued[p] /\ Sane(account'[p], issued'[p], time)
         /\ Keeps(call[c].job.op, account[p], account'[p])
<1>1. \A p \in Programs : Row(p)
  BY CommitRow
<1>2. /\ UNCHANGED <<time, goal, begun>> /\ call' = [call EXCEPT ![c] = Idle]
      /\ DOMAIN account' = Programs /\ account' = [p \in Programs |-> account'[p]]
      /\ issued' = [p \in Programs |-> issued'[p]]
  BY DEF CommitAccounts, End, NewIds
<1>3. time \in Nat /\ issued \in [Programs -> Nat]
  BY AccountsAssumption DEF IInv, TypeOK
<1>4. issued' \in [Programs -> Nat]
  <2>1. \A p \in Programs : issued'[p] \in Nat
    BY <1>1, <1>3
  <2> QED
    BY <1>2, <2>1
<1>5. account' \in [Programs -> Account \union {None}]
  <2>1. ASSUME NEW p \in Programs PROVE account'[p] \in Account \union {None}
    <3>1. account'[p] = account[p] \/ Sane(account'[p], issued'[p], time)
      BY <1>1
    <3>2. account[p] \in Account \union {None}
      BY DEF IInv, Typed
    <3> QED
      BY <1>3, <1>4, <3>1, <3>2, SaneAccount
  <2> QED
    BY <1>2, <2>1
<1>6. ASSUME NEW p \in Programs, account'[p] # None PROVE Sane(account'[p], issued'[p], time)
  <2>1. CASE account'[p] = account[p] /\ issued'[p] = issued[p]
    BY <1>6, <2>1 DEF IInv, TypeOK, Sane
  <2> QED
    BY <1>1, <2>1
<1>7. ASSUME NEW p \in Programs, account[p] # None
      PROVE  account'[p] # None /\ account'[p].id = account[p].id
  <2>1. CASE account'[p] = account[p]
    BY <1>7, <2>1
  <2>2. CASE Sane(account'[p], issued'[p], time) /\ Keeps(call[c].job.op, account[p], account'[p])
    BY <1>3, <1>4, <2>2, SaneAccount DEF Keeps
  <2> QED
    BY <1>1, <1>7, <2>1, <2>2 DEF Fresh
<1>8. TypeOK'
  <2>1. ASSUME NEW g \in Goals, goal'[g] # None, NEW x \in goal'[g].on
        PROVE  account'[x[1]] # None /\ account'[x[1]].id = x[2]
    <3>1. goal[g] \in GoalRow /\ x \in goal[g].on
      BY <1>2, <2>1 DEF IInv, Typed
    <3>2. account[x[1]] # None /\ account[x[1]].id = x[2] /\ x[1] \in Programs
      BY <2>1, <1>2, <3>1 DEF IInv, TypeOK, GoalRow
    <3> QED
      BY <1>7, <3>2
  <2>2. time' \in 0 .. MaxTime
    BY <1>2 DEF IInv, TypeOK
  <2> QED
    BY <1>2, <1>4, <1>6, <2>1, <2>2 DEF TypeOK, Sane
<1>9. ASSUME NEW d \in Calls, NEW p \in Programs, d # c
      PROVE  /\ <<"row", p>> \in call[d].held /\ account[p] # None => account'[p] = account[p]
             /\ <<"slot", p>> \in call[d].held /\ account[p] = None => account'[p] = None
  <2>1. ~(<<"row", p>> \in call[d].held /\ Kept(c, p))
    BY <1>9 DEF IInv, Exclusive, Kept
  <2>2. ~(<<"slot", p>> \in call[d].held /\ Fresh(c, p))
    BY <1>9 DEF IInv, Exclusive, Fresh
  <2> QED
    BY <1>1, <2>1, <2>2 DEF Fresh, Kept
<1>10. /\ Idle.held = {} /\ Idle.at = "idle" /\ Phased(Idle) /\ Timely(Idle) /\ Idle \in CallState
  BY <1>3, IdleOK DEF CallOK, Idle
<1>11. time' = time /\ goal' = goal /\ goal' \in [Goals -> GoalRow \union {None}]
  BY <1>2 DEF IInv, Typed
<1>12. call' = [call EXCEPT ![c] = Idle]
  BY <1>2
<1> HIDE DEF Row
<1> QED
  BY <1>5, <1>8, <1>9, <1>10, <1>11, <1>12, DataStep

\* What a commit makes of the goal.
LEMMA GoalEffect ==
  ASSUME IInv, NEW c \in Calls, CommitGoal(c)
  PROVE  LET job == call[c].job
             g == job.goal
             row == goal'[g]
             named == {<<p, call[c].read[p].id>> : p \in job.on} IN
         /\ job.op \in GoalOps /\ g \in Goals /\ <<"goal", g>> \in call[c].held
         /\ call[c].at = "commit" /\ call' = [call EXCEPT ![c] = Idle]
         /\ UNCHANGED <<time, account, issued, begun>>
         /\ goal' \in [Goals -> GoalRow \union {None}]
         /\ \A h \in Goals : h # g => goal'[h] = goal[h]
         /\ job.op = "drop" => row = None
         /\ job.op = "rename" => goal[g] # None /\ row # None /\ row.on = goal[g].on
         /\ job.op = "goal" =>
              /\ row # None /\ row.on = named
              /\ goal[g] # None => row.title = goal[g].title
              /\ \A p \in job.on : p \in Programs /\ Live(call[c].read[p])
                                   /\ account[p] = call[c].read[p]
<1> DEFINE s == call[c]
           job == s.job
           g == job.goal
           old == s.goalRead
           named == {<<p, s.read[p].id>> : p \in job.on}
           row == CASE job.op = "drop" -> None
                    [] job.op = "rename" -> [goal[g] EXCEPT !.title = 1]
                    [] OTHER -> [title |-> IF old = None THEN 0 ELSE old.title, on |-> named]
<1>1. /\ s.at = "commit" /\ job.op \in GoalOps /\ goal' = [goal EXCEPT ![g] = row]
      /\ call' = [call EXCEPT ![c] = Idle] /\ UNCHANGED <<time, account, issued, begun>>
  BY DEF CommitGoal, GoalOps, End
<1>2. s \in CallState /\ CallOK(s) /\ job \in Job /\ s.held = Needed(job)
  BY <1>1 DEF IInv, Typed, CallOK, Phased
<1>3. g \in Goals /\ <<"goal", g>> \in s.held /\ job.on \subseteq Programs
  BY <1>1, <1>2, JobFields DEF Needed, Lock
<1>4. /\ old = None <=> goal[g] = None
      /\ goal[g] # None => old.title = goal[g].title
      /\ goal[g] \in GoalRow \union {None} /\ old \in GoalRow \union {None}
  BY <1>2, <1>3 DEF CallOK, GoalAsRead, CallState, IInv, Typed
<1>5. CASE job.op = "drop"
  <2>1. row = None
    BY <1>5
  <2> HIDE DEF row
  <2> QED
    BY <1>1, <1>3, <1>5, <2>1 DEF IInv, Typed
<1>6. CASE job.op = "rename"
  <2>1. goal[g] # None /\ goal[g] \in GoalRow
    BY <1>1, <1>2, <1>4, <1>6 DEF CallOK, Judged
  <2>2. row = [goal[g] EXCEPT !.title = 1]
    BY <1>6
  <2> HIDE DEF row
  <2>3. row \in GoalRow /\ row.on = goal[g].on /\ row # None
    BY <2>1, <2>2, Nones DEF GoalRow
  <2> QED
    BY <1>1, <1>3, <1>6, <2>1, <2>3 DEF IInv, Typed
<1>7. CASE job.op = "goal"
  <2>1. \A p \in job.on : Live(s.read[p])
    BY <1>1, <1>2, <1>7 DEF CallOK, Judged
  <2>2. \A p \in job.on : <<"row", p>> \in s.held
    BY <1>2, <1>3, <1>7 DEF Needed, Lock
  <2>3. \A p \in job.on : account[p] = s.read[p] /\ s.read[p] \in Account
    BY <1>2, <1>3, <2>1, <2>2 DEF CallOK, RowsAsRead, CallState, Live
  <2>4. named \subseteq Programs \X Nat
    BY <1>3, <2>3 DEF Account
  <2> DEFINE title == IF old = None THEN 0 ELSE old.title
  <2>5. title \in {0, 1} /\ (goal[g] # None => title = goal[g].title)
    BY <1>4 DEF GoalRow
  <2>6. row = [title |-> title, on |-> named]
    BY <1>7
  <2> HIDE DEF row, title, named
  <2>7. row \in GoalRow /\ row.on = named /\ row.title = title /\ row # None
    BY <2>4, <2>5, <2>6, Nones DEF GoalRow
  <2>8. goal' \in [Goals -> GoalRow \union {None}] /\ goal'[g] = row
    BY <1>1, <1>3, <2>7 DEF IInv, Typed
  <2>9. \A h \in Goals : h # g => goal'[h] = goal[h]
    BY <1>1, <1>3 DEF IInv, Typed
  <2> QED
    BY <1>1, <1>3, <1>7, <2>1, <2>3, <2>5, <2>7, <2>8, <2>9 DEF named
<1> QED
  BY <1>1, <1>5, <1>6, <1>7 DEF GoalOps

LEMMA CommitGoalInv == ASSUME IInv, NEW c \in Calls, CommitGoal(c) PROVE IInv'
<1> DEFINE s == call[c]
           job == s.job
           g == job.goal
           row == goal'[g]
           named == {<<p, s.read[p].id>> : p \in job.on}
<1>1. /\ job.op \in GoalOps /\ g \in Goals /\ <<"goal", g>> \in s.held
      /\ call' = [call EXCEPT ![c] = Idle]
      /\ UNCHANGED <<time, account, issued, begun>>
      /\ goal' \in [Goals -> GoalRow \union {None}]
      /\ \A h \in Goals : h # g => goal'[h] = goal[h]
      /\ job.op = "drop" => row = None
      /\ job.op = "rename" => goal[g] # None /\ row.on = goal[g].on
      /\ job.op = "goal" =>
           /\ row.on = named
           /\ \A p \in job.on : p \in Programs /\ Live(s.read[p]) /\ account[p] = s.read[p]
  BY GoalEffect
<1>2. ASSUME NEW h \in Goals, goal'[h] # None, NEW x \in goal'[h].on
      PROVE  account[x[1]] # None /\ account[x[1]].id = x[2]
  <2>1. CASE h # g \/ job.op = "rename"
    <3>1. goal[h] # None /\ x \in goal[h].on
      BY <1>1, <1>2, <2>1
    <3> QED
      BY <3>1 DEF IInv, TypeOK
  <2>2. CASE h = g /\ job.op = "goal"
    <3>1. PICK p \in job.on : x = <<p, s.read[p].id>>
      BY <1>1, <1>2, <2>2
    <3> QED
      BY <1>1, <2>2, <3>1 DEF Live
  <2> QED
    BY <1>1, <1>2, <2>1, <2>2 DEF GoalOps
<1>3. TypeOK'
  BY <1>1, <1>2 DEF IInv, TypeOK
<1>4. \A d \in Calls, h \in Goals : d # c /\ <<"goal", h>> \in call[d].held => goal'[h] = goal[h]
  BY <1>1 DEF IInv, Exclusive
<1>5. time \in Nat
  BY AccountsAssumption DEF IInv, TypeOK
<1>6. /\ Idle.held = {} /\ Idle.at = "idle" /\ Phased(Idle) /\ Timely(Idle) /\ Idle \in CallState
  BY <1>5, IdleOK DEF CallOK, Idle
<1>7. /\ call' = [call EXCEPT ![c] = Idle] /\ time' = time /\ account' = account
      /\ goal' \in [Goals -> GoalRow \union {None}]
      /\ account' \in [Programs -> Account \union {None}]
  BY <1>1 DEF IInv, Typed
<1> QED
  BY <1>3, <1>4, <1>6, <1>7, DataStep

LEMMA NextInv == IInv /\ [Next]_vars => IInv'
<1> SUFFICES ASSUME IInv, [Next]_vars PROVE IInv'
  OBVIOUS
<1>1. CASE Tick
  BY <1>1, TickInv
<1>2. ASSUME NEW c \in Calls, Begin(c) PROVE IInv'
  BY <1>2, BeginInv
<1>3. ASSUME NEW c \in Calls, Fetch(c) PROVE IInv'
  BY <1>3, FetchInv
<1>4. ASSUME NEW c \in Calls, Acquire(c) PROVE IInv'
  BY <1>4, AcquireInv
<1>5. ASSUME NEW c \in Calls, Abort(c) PROVE IInv'
  BY <1>5, AbortInv
<1>6. ASSUME NEW c \in Calls, Judge(c) PROVE IInv'
  BY <1>6, JudgeInv
<1>7. ASSUME NEW c \in Calls, CommitAccounts(c) PROVE IInv'
  BY <1>7, CommitAccountsInv
<1>8. ASSUME NEW c \in Calls, CommitGoal(c) PROVE IInv'
  BY <1>8, CommitGoalInv
<1>9. ASSUME NEW c \in Calls, PurgeList(c) PROVE IInv'
  BY <1>9, PurgeListInv
<1>10. ASSUME NEW c \in Calls, PurgeClock(c) PROVE IInv'
  BY <1>10, PurgeClockInv
<1>11. ASSUME NEW c \in Calls, PurgeDelete(c) PROVE IInv'
  BY <1>11, PurgeDeleteInv
<1>12. CASE UNCHANGED vars
  <2>1. UNCHANGED <<time, account, issued, goal, call>>
    BY <1>12 DEF vars, data
  <2>2. TypeOK' /\ Typed' /\ Exclusive'
    BY <2>1 DEF IInv, TypeOK, Typed, Exclusive
  <2>3. ASSUME NEW c \in Calls PROVE CallOK(call[c])'
    <3>1. CallOK(call[c])
      BY DEF IInv
    <3> QED
      BY <2>1, <3>1 DEF CallOK, Phased, Queued, Timely, Judged, RowsAsRead, GoalAsRead, SlotsVacant
  <2> QED
    BY <2>2, <2>3 DEF IInv
<1> QED
  BY <1>1, <1>2, <1>3, <1>4, <1>5, <1>6, <1>7, <1>8, <1>9, <1>10, <1>11, <1>12 DEF Next

\* The invariant the other theorems rest on: every row that is locked is as its
\* call read it, and what is left to lock ascends above what is held.
THEOREM Invariance == Spec => []IInv
<1>1. Init => IInv
  BY InitInv
<1>2. IInv /\ [Next]_vars => IInv'
  BY NextInv
<1> QED
  BY <1>1, <1>2, PTL DEF Spec

-------------------------------------------------------------------------------
(* What follows                                                                *)

\* A call that waits for one that waits too stands lower in the order.
LEMMA WaitClimbs ==
  ASSUME IInv, NEW c \in Calls, NEW d \in WaitsFor(c), WaitsFor(d) # {}
  PROVE  /\ d \in Calls /\ Head(call[c].todo) \in Lock /\ Head(call[d].todo) \in Lock
         /\ Rank(Head(call[c].todo)) < Rank(Head(call[d].todo))
<1>1. /\ call[c].at = "lock" /\ d \in Calls /\ Head(call[c].todo) \in call[d].held
      /\ call[d].at = "lock"
  BY DEF WaitsFor, Holders
<1>2. \A e \in {c, d} : /\ call[e].todo # <<>>
                       /\ Ordered(call[e].todo, Needed(call[e].job) \ call[e].held)
                       /\ Below(call[e].held, Needed(call[e].job) \ call[e].held)
  BY <1>1 DEF IInv, CallOK, Queued
<1>3. \A e \in {c, d} : Head(call[e].todo) \in Needed(call[e].job) \ call[e].held
  BY <1>2, TailOrdered
<1>4. Rank(Head(call[c].todo)) < Rank(Head(call[d].todo))
  BY <1>1, <1>2, <1>3 DEF Below
<1> QED
  BY <1>1, <1>3, <1>4 DEF Needed

\* No cycle: a set of calls that all wait for each other would climb for ever,
\* and no lock stands above the goals.
LEMMA InvNoLockCycle == IInv => NoLockCycle
<1> SUFFICES ASSUME IInv, NEW S \in (SUBSET Calls) \ {{}},
                    \A c \in S : WaitsFor(c) \intersect S # {}
             PROVE  FALSE
  BY DEF NoLockCycle
<1> DEFINE at(c) == Rank(Head(call[c].todo))
           Highest == Top + Top
           T == {Highest - at(c) : c \in S}
<1>1. ASSUME NEW c \in S PROVE \E d \in S : at(c) < at(d)
  <2>1. PICK d \in S : d \in WaitsFor(c)
    OBVIOUS
  <2>2. WaitsFor(d) # {}
    OBVIOUS
  <2> QED
    BY <2>1, <2>2, WaitClimbs
<1>2. ASSUME NEW c \in S PROVE at(c) \in Nat /\ at(c) <= Highest /\ Highest \in Nat
  <2>1. PICK d \in S : d \in WaitsFor(c)
    OBVIOUS
  <2>2. Head(call[c].todo) \in Lock
    BY <2>1, WaitClimbs
  <2>3. \A l \in Lock : Rank(l) \in Nat /\ Rank(l) <= Highest
    <3> SUFFICES ASSUME NEW l \in Lock PROVE Rank(l) \in Nat /\ Rank(l) <= Highest
      OBVIOUS
    <3>1. Top \in Nat /\ Programs \subseteq Nat /\ \A p \in Programs : p < Top
      BY TopBound, ProgramsNat
    <3>2. CASE l[1] \in {"row", "slot"}
      <4>1. l[2] \in Nat /\ l[2] < Top
        BY <3>1, <3>2 DEF Lock
      <4> QED
        BY <3>1, <3>2, <4>1 DEF Rank
    <3>3. CASE l[1] = "goal"
      BY <3>1, <3>3 DEF Rank
    <3> QED
      BY <3>2, <3>3 DEF Lock
  <2> QED
    BY <2>2, <2>3, TopBound
<1> HIDE DEF at, Highest
<1>3. T \subseteq Nat /\ T # {}
  BY <1>2
<1>4. PICK x \in T : \A y \in T : x <= y
  <2> HIDE DEF T
  <2> QED
    BY <1>3, LeastNat
<1>5. PICK c \in S : x = Highest - at(c)
  BY <1>4
<1>6. PICK d \in S : at(c) < at(d)
  BY <1>1
<1>7. Highest - at(d) \in T
  OBVIOUS
<1>8. x <= Highest - at(d)
  BY <1>4, <1>7
<1> QED
  BY <1>2, <1>5, <1>6, <1>8

\* Types, and no set of calls that waits for locks only its members hold.
THEOREM AccountsInv == Spec => []Inv
<1>1. IInv => Inv
  BY InvNoLockCycle DEF IInv, Inv
<1> QED
  BY <1>1, Invariance, PTL

\* Only three actions write rows.
LEMMA WritingSteps ==
  ASSUME IInv, [Next]_vars
  PROVE  \/ account' = account /\ goal' = goal
         \/ \E c \in Calls : CommitAccounts(c) \/ CommitGoal(c) \/ PurgeDelete(c)
BY DEF Next, vars, data, Tick, Begin, Fetch, Acquire, Abort, Judge, PurgeList, PurgeClock

\* A call that ends in Idle has changed.
LEMMA Leaves ==
  ASSUME IInv, NEW c \in Calls, call[c].at = "commit", call' = [call EXCEPT ![c] = Idle]
  PROVE  call'[c] # call[c]
BY DEF IInv, Typed, Idle

\* What a step does to an account.
LEMMA RowSteps ==
  ASSUME IInv, [Next]_vars, NEW p \in Programs
  PROVE  \/ account'[p] = account[p]
         \/ account'[p] = None
         \/ account[p] = None /\ \E n : Born(account'[p], n)
         \/ /\ account[p] # None
            /\ \E c \in Calls : /\ call[c].at = "commit" /\ call'[c] # call[c]
                              /\ Keeps(call[c].job.op, account[p], account'[p])
<1>1. ASSUME NEW c \in Calls, CommitAccounts(c)
      PROVE  \/ account'[p] = account[p]
             \/ account[p] = None /\ \E n : Born(account'[p], n)
             \/ /\ account[p] # None /\ call[c].at = "commit" /\ call'[c] # call[c]
                /\ Keeps(call[c].job.op, account[p], account'[p])
  <2>1. call[c].at = "commit" /\ call'[c] # call[c]
    BY <1>1, Leaves DEF CommitAccounts, End
  <2> QED
    BY <1>1, <2>1, CommitRow DEF Fresh, Kept
<1>2. ASSUME NEW c \in Calls, CommitGoal(c) PROVE account'[p] = account[p]
  BY <1>2 DEF CommitGoal
<1>3. ASSUME NEW c \in Calls, PurgeDelete(c) PROVE account'[p] = account[p] \/ account'[p] = None
  <2>1. \E q \in Programs : \A q2 \in Programs :
          account'[q2] = account[q2] \/ (q2 = q /\ account'[q2] = None)
    BY <1>3, PurgeEffect
  <2> QED
    BY <2>1
<1> QED
  BY <1>1, <1>2, <1>3, WritingSteps

\* What a step does to a goal.
LEMMA GoalSteps ==
  ASSUME IInv, [Next]_vars, NEW g \in Goals
  PROVE  \/ goal'[g] = goal[g]
         \/ goal'[g] = None
         \/ \E c \in Calls :
              /\ call[c].at = "commit" /\ call'[c] # call[c] /\ account' = account
              /\ \/ call[c].job.op = "rename" /\ goal[g] # None /\ goal'[g].on = goal[g].on
                 \/ /\ call[c].job.op = "goal"
                    /\ goal[g] # None => goal'[g].title = goal[g].title
                    /\ \A x \in goal'[g].on : Live(account[x[1]]) /\ account[x[1]].id = x[2]
         \/ \E c \in Calls :
              /\ call[c].at = "delete" /\ call'[c] # call[c] /\ call[c].job.op = "purge"
              /\ goal[g] # None /\ goal'[g].title = goal[g].title
              /\ goal'[g].on \subseteq goal[g].on
<1>1. ASSUME NEW c \in Calls, CommitGoal(c), goal'[g] # goal[g], goal'[g] # None
      PROVE  /\ call[c].at = "commit" /\ call'[c] # call[c] /\ account' = account
             /\ \/ call[c].job.op = "rename" /\ goal[g] # None /\ goal'[g].on = goal[g].on
                \/ /\ call[c].job.op = "goal"
                   /\ goal[g] # None => goal'[g].title = goal[g].title
                   /\ \A x \in goal'[g].on : Live(account[x[1]]) /\ account[x[1]].id = x[2]
  <2> DEFINE job == call[c].job
             named == {<<p, call[c].read[p].id>> : p \in job.on}
  <2>1. /\ job.op \in GoalOps /\ call[c].at = "commit" /\ call' = [call EXCEPT ![c] = Idle]
        /\ account' = account
        /\ \A h \in Goals : h # job.goal => goal'[h] = goal[h]
        /\ job.op = "drop" => goal'[job.goal] = None
        /\ job.op = "rename" => goal[job.goal] # None /\ goal'[job.goal].on = goal[job.goal].on
        /\ job.op = "goal" =>
             /\ goal'[job.goal].on = named
             /\ goal[job.goal] # None => goal'[job.goal].title = goal[job.goal].title
             /\ \A p \in job.on : Live(call[c].read[p]) /\ account[p] = call[c].read[p]
    BY <1>1, GoalEffect
  <2>2. call'[c] # call[c]
    BY <2>1, Leaves
  <2>3. g = job.goal
    BY <1>1, <2>1
  <2>4. job.op = "goal" => \A x \in named : Live(account[x[1]]) /\ account[x[1]].id = x[2]
    BY <2>1
  <2> HIDE DEF named
  <2> QED
    BY <1>1, <2>1, <2>2, <2>3, <2>4 DEF GoalOps
<1>2. ASSUME NEW c \in Calls, PurgeDelete(c), goal'[g] # goal[g]
      PROVE  /\ call[c].at = "delete" /\ call'[c] # call[c] /\ call[c].job.op = "purge"
             /\ goal[g] # None /\ goal'[g].title = goal[g].title
             /\ goal'[g].on \subseteq goal[g].on
  <2>1. PICK p \in Programs :
           /\ call[c].at = "delete" /\ call[c].job.op = "purge"
           /\ Trimmed(goal[g], goal'[g], <<p, call[c].read[p].id>>)
    BY <1>2, PurgeEffect
  <2>2. goal[g] # None /\ goal[g] \in GoalRow
        /\ goal'[g] = [goal[g] EXCEPT !.on = @ \ {<<p, call[c].read[p].id>>}]
    BY <1>2, <2>1 DEF Trimmed, IInv, Typed
  <2>3. goal'[g].title = goal[g].title /\ goal'[g].on \subseteq goal[g].on
    BY <2>2 DEF GoalRow
  <2>4. call'[c] # call[c]
    <3>1. PICK q \in Programs :
            /\ call[c].read[q] # None
            /\ End(c) \/ call' = [call EXCEPT ![c].read = [call[c].read EXCEPT ![q] = None]]
      BY <1>2 DEF PurgeDelete
    <3>2. call \in [Calls -> CallState] /\ call[c] \in CallState
      BY DEF IInv, Typed
    <3>3. CASE End(c)
      BY <2>1, <3>2, <3>3 DEF End, Idle
    <3>4. CASE call' = [call EXCEPT ![c].read = [call[c].read EXCEPT ![q] = None]]
      <4>1. call'[c].read[q] = None
        BY <3>2, <3>4 DEF CallState
      <4> QED
        BY <3>1, <4>1
    <3> QED
      BY <3>1, <3>3, <3>4
  <2> QED
    BY <2>1, <2>2, <2>3, <2>4
<1>3. ASSUME NEW c \in Calls, CommitAccounts(c) PROVE goal' = goal
  BY <1>3 DEF CommitAccounts
<1> QED
  BY <1>1, <1>2, <1>3, WritingSteps

\* A reading enters the history of the membership it was taken from.
THEOREM AccountsSameMembership == Spec => SameMembership
<1> DEFINE Step == \A p \in Programs : account'[p] # None =>
       \A r \in account'[p].readings \ (IF Same(p) THEN account[p].readings ELSE {}) :
         r.of = <<account'[p].id, account'[p].member>>
<1>1. IInv /\ [Next]_vars => Step
  <2> SUFFICES ASSUME IInv, [Next]_vars, NEW p \in Programs, account'[p] # None,
                      NEW r \in account'[p].readings \ (IF Same(p) THEN account[p].readings ELSE {})
               PROVE  r.of = <<account'[p].id, account'[p].member>>
    OBVIOUS
  <2> QED
    BY RowSteps DEF Same, Born, Keeps
<1> QED
  BY <1>1, Invariance, PTL DEF Spec, SameMembership

\* The expiry of an account never goes back.
THEOREM AccountsExpiryKeepsUp == Spec => ExpiryKeepsUp
<1> DEFINE Step == \A p \in Programs : Same(p) /\ account'[p].expiry # account[p].expiry =>
       /\ account'[p].expiry.at >= account[p].expiry.at
       /\ account'[p].expiry.by = "activity" =>
            \A r \in account'[p].readings : r.captured <= account'[p].expiry.at
<1>1. IInv /\ [Next]_vars => Step
  <2> SUFFICES ASSUME IInv, [Next]_vars, NEW p \in Programs, Same(p),
                      account'[p].expiry # account[p].expiry
               PROVE  /\ account'[p].expiry.at >= account[p].expiry.at
                      /\ account'[p].expiry.by = "activity" =>
                           \A r \in account'[p].readings : r.captured <= account'[p].expiry.at
    OBVIOUS
  <2> QED
    BY RowSteps DEF Same, Keeps, Renews
<1> QED
  BY <1>1, Invariance, PTL DEF Spec, ExpiryKeepsUp

\* A write changes what its job is about and nothing that was committed since it began.
THEOREM AccountsNoLostUpdate == Spec => NoLostUpdate
<1> DEFINE Step ==
      /\ \A p \in Programs : Same(p) =>
          /\ account[p].member # account'[p].member => Committing({"edit"})
          /\ account[p].deleted # account'[p].deleted => Committing({"unlink", "restore"})
          /\ account[p].readings \subseteq account'[p].readings
      /\ \A g \in Goals : goal[g] # None /\ goal'[g] # None =>
          /\ goal[g].title # goal'[g].title => Committing({"rename"})
          /\ goal[g].on # goal'[g].on => Committing({"goal", "purge"})
<1>1. ASSUME IInv, [Next]_vars, NEW p \in Programs, Same(p)
      PROVE  /\ account[p].member # account'[p].member => Committing({"edit"})
             /\ account[p].deleted # account'[p].deleted => Committing({"unlink", "restore"})
             /\ account[p].readings \subseteq account'[p].readings
  BY <1>1, RowSteps DEF Same, Keeps, Committing
<1>2. ASSUME IInv, [Next]_vars, NEW g \in Goals, goal[g] # None, goal'[g] # None
      PROVE  /\ goal[g].title # goal'[g].title => Committing({"rename"})
             /\ goal[g].on # goal'[g].on => Committing({"goal", "purge"})
  BY <1>2, GoalSteps DEF Committing
<1>3. IInv /\ [Next]_vars => Step
  BY <1>1, <1>2
<1> QED
  BY <1>3, Invariance, PTL DEF Spec, NoLostUpdate

\* What a goal newly names is an account that is linked when the goal is written.
THEOREM AccountsGoalsNameLinked == Spec => GoalsNameLinked
<1> DEFINE Step == \A g \in Goals : goal'[g] # None =>
       \A x \in goal'[g].on \ (IF goal[g] = None THEN {} ELSE goal[g].on) :
         Live(account[x[1]]) /\ account[x[1]].id = x[2]
<1>1. IInv /\ [Next]_vars => Step
  <2> SUFFICES ASSUME IInv, [Next]_vars, NEW g \in Goals, goal'[g] # None,
                      NEW x \in goal'[g].on \ (IF goal[g] = None THEN {} ELSE goal[g].on)
               PROVE  Live(account[x[1]]) /\ account[x[1]].id = x[2]
    OBVIOUS
  <2> QED
    BY GoalSteps
<1> QED
  BY <1>1, Invariance, PTL DEF Spec, GoalsNameLinked
=================================================================================

----------------------------- MODULE ReportsProofs -----------------------------
(* Proofs about Reports, the optimizer and the transfer arithmetic, for every   *)
(* catalog, every balance and every bonus: what the operators return, and what  *)
(* every answer of every report therefore promises.                             *)
EXTENDS Reports, FiniteSetTheorems, FunctionTheorems, WellFoundedInduction, TLAPS

--------------------------------------------------------------------------------
(* The arithmetic: a ceiling inverts a floor, and two ceilings two floors.      *)

LEMMA CeilDivLeast ==
  ASSUME NEW n \in Nat, NEW d \in Nat \ {0}
  PROVE  /\ CeilDiv(n, d) \in Nat
         /\ \A k \in Nat : k * d >= n <=> k >= CeilDiv(n, d)
<1>1. CeilDiv(n, d) \in Nat /\ CeilDiv(n, d) * d >= n
  BY DEF CeilDiv
<1>2. ASSUME NEW k \in Nat, k * d >= n PROVE k >= CeilDiv(n, d)
  BY <1>2 DEF CeilDiv
<1>3. ASSUME NEW k \in Nat, k >= CeilDiv(n, d) PROVE k * d >= n
  <2> DEFINE c == CeilDiv(n, d)
  <2>1. c \in Nat /\ c * d >= n /\ k >= c
    BY <1>1, <1>3
  <2> HIDE DEF c
  <2>2. k * d >= c * d
    BY <2>1
  <2>3. k * d \in Nat /\ c * d \in Nat
    BY <2>1
  <2>. QED  BY <2>1, <2>2, <2>3
<1>. QED  BY <1>1, <1>2, <1>3

LEMMA FloorDivGreatest ==
  ASSUME NEW n \in Nat, NEW d \in Nat \ {0}
  PROVE  /\ n \div d \in Nat
         /\ \A k \in Nat : n \div d >= k <=> n >= k * d
OBVIOUS

(* What a source yields covers the need exactly from the amount on that the     *)
(* inversion names: no block below it does, and every one above it.             *)
LEMMA ConvertInverts ==
  ASSUME NEW e, e.num \in Nat \ {0}, e.den \in Nat \ {0},
         NEW missing \in Nat, NEW permille \in Nat \ {0}
  PROVE  /\ SourceNeeded(e, missing, permille) \in Nat
         /\ \A x \in Nat :
              /\ ConvertPoints(e, x, permille) \in Nat
              /\ ConvertPoints(e, x, permille) >= missing
                   <=> x >= SourceNeeded(e, missing, permille)
<1> DEFINE base == CeilDiv(missing * 1000, permille)
           needed == CeilDiv(base * e.den, e.num)
<1>1. /\ base \in Nat
      /\ \A k \in Nat : k * permille >= missing * 1000 <=> k >= base
  <2>1. missing * 1000 \in Nat
    OBVIOUS
  <2>. QED  BY <2>1, CeilDivLeast
<1> HIDE DEF base
<1>2. /\ needed \in Nat
      /\ \A k \in Nat : k * e.num >= base * e.den <=> k >= needed
  <2>1. base * e.den \in Nat
    BY <1>1
  <2>. QED  BY <2>1, CeilDivLeast
<1>3. SourceNeeded(e, missing, permille) = needed
  BY DEF SourceNeeded, base
<1> HIDE DEF needed
<1>4. ASSUME NEW x \in Nat
      PROVE  /\ ConvertPoints(e, x, permille) \in Nat
             /\ ConvertPoints(e, x, permille) >= missing <=> x >= needed
  <2> DEFINE whole == (x * e.num) \div e.den
  <2>1. x * e.num \in Nat
    OBVIOUS
  <2>2. whole \in Nat /\ (whole >= base <=> x * e.num >= base * e.den)
    BY <1>1, <2>1, FloorDivGreatest
  <2>3. ConvertPoints(e, x, permille) = (whole * permille) \div 1000
    BY DEF ConvertPoints
  <2> HIDE DEF whole
  <2>4. whole * permille \in Nat
    BY <2>2
  <2>5. /\ (whole * permille) \div 1000 \in Nat
        /\ (whole * permille) \div 1000 >= missing <=> whole * permille >= missing * 1000
    BY <2>4, FloorDivGreatest
  <2>. QED  BY <1>1, <1>2, <2>2, <2>3, <2>5
<1>. QED  BY <1>2, <1>3, <1>4

LEMMA MaxOfTwo ==
  ASSUME NEW a \in Nat, NEW b \in Nat
  PROVE  /\ Max({a, b}) \in Nat
         /\ \A k \in Nat : k >= Max({a, b}) <=> k >= a /\ k >= b
<1>1. \E x \in {a, b} : \A y \in {a, b} : x >= y
  BY a >= b \/ b >= a
<1>2. Max({a, b}) \in {a, b} /\ \A y \in {a, b} : Max({a, b}) >= y
  BY <1>1 DEF Max
<1>. QED  BY <1>2

LEMMA MaxOfThree ==
  ASSUME NEW a \in Nat, NEW b \in Nat, NEW c \in Nat
  PROVE  /\ Max({a, b, c}) \in Nat
         /\ \A k \in Nat : k >= Max({a, b, c}) <=> k >= a /\ k >= b /\ k >= c
<1>1. \E x \in {a, b, c} : \A y \in {a, b, c} : x >= y
  <2>1. CASE a >= b /\ a >= c
    BY <2>1
  <2>2. CASE b >= a /\ b >= c
    BY <2>2
  <2>3. CASE c >= a /\ c >= b
    BY <2>3
  <2>. QED  BY <2>1, <2>2, <2>3
<1>2. Max({a, b, c}) \in {a, b, c} /\ \A y \in {a, b, c} : Max({a, b, c}) >= y
  BY <1>1 DEF Max
<1>. QED  BY <1>2

LEMMA WholeBlocks ==
  ASSUME NEW x \in Nat, NEW inc \in Nat \ {0}
  PROVE  /\ x % inc = 0 => \E k \in Nat : x = k * inc
         /\ (x * inc) % inc = 0
OBVIOUS

(* The least block that is enough: r increments, when exactly the multiples     *)
(* from r on reach the minimum and the need.                                    *)
LEMMA LeastBlock ==
  ASSUME NEW inc \in Nat \ {0}, NEW min, NEW need, NEW r \in Nat \ {0},
         \A k \in Nat : k >= r <=> k * inc >= min /\ k * inc >= need
  PROVE  /\ r * inc \in Nat /\ Block(r * inc, min, inc) /\ r * inc >= need
         /\ \A y \in Nat : Block(y, min, inc) /\ y >= need => y >= r * inc
<1>1. r * inc \in Nat /\ r * inc > 0
  OBVIOUS
<1>2. Block(r * inc, min, inc) /\ r * inc >= need
  BY <1>1, WholeBlocks DEF Block
<1>3. ASSUME NEW y \in Nat, Block(y, min, inc), y >= need PROVE y >= r * inc
  <2>1. PICK k \in Nat : y = k * inc
    BY <1>3, WholeBlocks DEF Block
  <2>2. k >= r
    BY <1>3, <2>1 DEF Block
  <2>. QED  BY <2>1, <2>2
<1>. QED  BY <1>1, <1>2, <1>3

(* Something is needed to cover what is missing. *)
LEMMA NeededIsPositive ==
  ASSUME NEW e, e.num \in Nat \ {0}, e.den \in Nat \ {0},
         NEW missing \in Nat \ {0}, NEW permille \in Nat \ {0}
  PROVE  SourceNeeded(e, missing, permille) \in Nat \ {0}
<1>1. ConvertPoints(e, 0, permille) = 0
  <2>1. (0 * e.num) \div e.den = 0
    OBVIOUS
  <2>. QED  BY <2>1 DEF ConvertPoints
<1> DEFINE needed == SourceNeeded(e, missing, permille)
<1>2. /\ needed \in Nat
      /\ \A x \in Nat : ConvertPoints(e, x, permille) >= missing <=> x >= needed
  BY ConvertInverts
<1> HIDE DEF needed
<1>3. ~(0 >= needed)
  BY <1>1, <1>2
<1>4. needed \in Nat \ {0}
  BY <1>2, <1>3
<1>. QED  BY <1>4 DEF needed

(* The amount a deal asks for is the least that the catalog allows and that     *)
(* covers what is missing after both floors (rankDeals).                        *)
LEMMA RequiredIsLeast ==
  ASSUME NEW e, e.num \in Nat \ {0}, e.den \in Nat \ {0},
         OrElse(e.min, 0) \in Nat, OrElse(e.inc, 1) \in Nat \ {0},
         NEW missing \in Nat \ {0}, NEW permille \in Nat \ {0}
  PROVE  LET required == RequiredForDeal(e, missing, permille)
             enough(x) == /\ Block(x, OrElse(e.min, 0), OrElse(e.inc, 1))
                          /\ ConvertPoints(e, x, permille) >= missing
         IN  /\ required \in Nat /\ enough(required)
             /\ \A y \in Nat : enough(y) => y >= required
<1> DEFINE inc == OrElse(e.inc, 1)
           min == OrElse(e.min, 0)
           need == SourceNeeded(e, missing, permille)
           most == Max({need, min})
           r == CeilDiv(most, inc)
<1>1. need \in Nat \ {0} /\ min \in Nat /\ inc \in Nat \ {0}
  BY NeededIsPositive
<1>2. \A x \in Nat : ConvertPoints(e, x, permille) >= missing <=> x >= need
  BY ConvertInverts
<1>3. RequiredForDeal(e, missing, permille) = r * inc
  BY DEF RequiredForDeal
<1> HIDE DEF need, min, inc
<1>4. most \in Nat /\ \A k \in Nat : k >= most <=> k >= need /\ k >= min
  BY <1>1, MaxOfTwo
<1> HIDE DEF most
<1>5. r \in Nat /\ \A k \in Nat : k * inc >= most <=> k >= r
  BY <1>1, <1>4, CeilDivLeast
<1> HIDE DEF r
<1>6. \A k \in Nat : k >= r <=> k * inc >= min /\ k * inc >= need
  <2>1. \A k \in Nat : k * inc \in Nat
    BY <1>1
  <2>. QED  BY <1>4, <1>5, <2>1
<1>7. r # 0
  <2>1. 0 * inc = 0
    BY <1>1
  <2>. QED  BY <1>1, <1>6, <2>1
<1>8. /\ r * inc \in Nat /\ Block(r * inc, min, inc) /\ r * inc >= need
      /\ \A y \in Nat : Block(y, min, inc) /\ y >= need => y >= r * inc
  BY <1>1, <1>5, <1>6, <1>7, LeastBlock
<1>. QED  BY <1>2, <1>3, <1>8 DEF min, inc

(* What a shortfall asks for is the least block that fills the gap, for every   *)
(* edge, minimum, increment and bonus (coverageFor).                            *)
THEOREM CoverageIsLeast ==
  ASSUME NEW e, e.num \in Nat \ {0}, e.den \in Nat \ {0},
         e.min \in Nat \union {None}, e.inc \in (Nat \ {0}) \union {None},
         NEW missing \in Nat \ {0}, NEW permille \in Nat \ {0}
  PROVE  LET inc == OrElse(e.inc, DefaultIncrement)
             needed == CoverageNeeded(e, missing, permille)
             enough(x) == /\ Block(x, OrElse(e.min, inc), inc)
                          /\ ConvertPoints(e, x, permille) >= missing
         IN  Least(needed, enough)
<1> DEFINE inc == OrElse(e.inc, DefaultIncrement)
           min == OrElse(e.min, inc)
           need == SourceNeeded(e, missing, permille)
           a == CeilDiv(min, inc)
           b == CeilDiv(need, inc)
           r == Max({1, a, b})
<1>1. need \in Nat \ {0} /\ min \in Nat /\ inc \in Nat \ {0}
  BY NeededIsPositive, TransfersAssumption DEF OrElse
<1>2. \A x \in Nat : ConvertPoints(e, x, permille) >= missing <=> x >= need
  BY ConvertInverts
<1>3. CoverageNeeded(e, missing, permille) = inc * r
  BY DEF CoverageNeeded
<1> HIDE DEF need, min, inc
<1>4. /\ a \in Nat /\ \A k \in Nat : k * inc >= min <=> k >= a
      /\ b \in Nat /\ \A k \in Nat : k * inc >= need <=> k >= b
  BY <1>1, CeilDivLeast
<1> HIDE DEF a, b
<1>5. r \in Nat /\ \A k \in Nat : k >= r <=> k >= 1 /\ k >= a /\ k >= b
  BY <1>4, MaxOfThree
<1> HIDE DEF r
<1>6. r \in Nat \ {0}
  BY <1>5
(* Any multiple that covers the need is positive, so the 1 changes nothing.     *)
<1>7. \A k \in Nat : k >= r <=> k * inc >= min /\ k * inc >= need
  <2>1. \A k \in Nat : k * inc >= need => k >= 1
    <3>1. 0 * inc = 0
      BY <1>1
    <3>2. \A k \in Nat : k * inc >= need => k # 0
      BY <1>1, <3>1
    <3>. QED  BY <3>2
  <2>. QED  BY <1>4, <1>5, <2>1
<1>8. /\ r * inc \in Nat /\ Block(r * inc, min, inc) /\ r * inc >= need
      /\ \A y \in Nat : Block(y, min, inc) /\ y >= need => y >= r * inc
  BY <1>1, <1>6, <1>7, LeastBlock
<1>9. inc * r = r * inc
  BY <1>1, <1>6
<1>10. \A y \in 0 .. inc * r - 1 : y \in Nat /\ ~(y >= inc * r)
  BY <1>8, <1>9
<1>. QED  BY <1>2, <1>3, <1>8, <1>9, <1>10 DEF Least, min, inc

--------------------------------------------------------------------------------
(* Edges and bonuses: what a valid bonus multiplies by, and which one is best.  *)

Priced(b) == b.id \in Nat /\ b.permille \in Nat /\ b.permille > 1000 /\ b.permille <= 3000

LEMMA EdgeNumbers ==
  ASSUME NEW e \in Edges
  PROVE  /\ Resolved(e).num \in Nat \ {0} /\ Resolved(e).den \in Nat \ {0}
         /\ Resolved(e).min = e.min /\ e.min \in Nat \union {None}
         /\ Resolved(e).inc = e.inc /\ e.inc \in (Nat \ {0}) \union {None}
         /\ e.from \in Programs /\ e.to \in Programs /\ e.to \in Nat
<1>1. e \in Edge /\ e.num > 0 /\ e.den > 0 /\ e.inc # 0 /\ Programs \subseteq Nat
  BY TransfersAssumption
<1>2. /\ e.num \in Nat \ {0} /\ e.den \in Nat \ {0}
      /\ e.min \in Nat \union {None} /\ e.inc \in (Nat \ {0}) \union {None}
      /\ e.from \in Programs /\ e.to \in Programs /\ e.to \in Nat
  <2>1. /\ e.num \in Nat /\ e.den \in Nat /\ e.from \in Programs /\ e.to \in Programs
        /\ e.min \in Nat \union {None} /\ e.inc \in Nat \union {None}
    BY <1>1 DEF Edge
  <2>2. e.num > 0 /\ e.den > 0 /\ e.inc # 0 /\ e.to \in Nat
    BY <1>1, <2>1
  <2>3. e.num \in Nat \ {0} /\ e.den \in Nat \ {0}
    BY <2>1, <2>2
  <2>4. e.inc \in (Nat \ {0}) \union {None}
    BY <2>1, <2>2
  <2>. QED  BY <2>1, <2>2, <2>3, <2>4
<1>3. CASE e.conditional
  <2>1. Resolved(e) = [e EXCEPT !.num = 3, !.den = 4]
    BY <1>3 DEF Resolved
  <2>2. /\ Resolved(e).num = 3 /\ Resolved(e).den = 4
        /\ Resolved(e).min = e.min /\ Resolved(e).inc = e.inc
    BY <1>1, <2>1 DEF Edge
  <2>. QED  BY <1>2, <2>2
<1>4. CASE ~e.conditional
  <2>1. Resolved(e) = e
    BY <1>4 DEF Resolved
  <2>. QED  BY <1>2, <2>1, Zenon
<1>. QED  BY <1>3, <1>4

LEMMA TheEdge ==
  ASSUME NEW e \in Edges
  PROVE  EdgesBetween(e.from, e.to) = {e} /\ (CHOOSE f \in EdgesBetween(e.from, e.to) : TRUE) = e
<1>1. EdgesBetween(e.from, e.to) = {e}
  BY TransfersAssumption DEF EdgesBetween
<1>. QED  BY <1>1

\* A set of naturals has a least element: induction, by a set and no predicate.
LEMMA LeastNumber ==
  ASSUME NEW T \in SUBSET Nat, T # {}
  PROVE  \E x \in T : \A y \in T : x <= y
<1> DEFINE R == {pair \in Nat \X Nat : pair[1] < pair[2]}
<1>1. IsWellFoundedOn(R, Nat)
  BY NatLessThanWellFounded, Zenon DEF OpToRel
<1>2. \A y, x \in Nat : <<y, x>> \in R <=> y < x
  OBVIOUS
<1> HIDE DEF R
<1>3. PICK x \in T : \A y \in T : ~(<<y, x>> \in R)
  BY <1>1, WFMin, Zenon
<1>4. \A y \in T : ~(y < x)
  BY <1>2, <1>3
<1>. QED  BY <1>4

(* There is a best bonus whenever one is on: the highest, since none is above   *)
(* 3000, and of those the one with the lowest id.                               *)
LEMMA BestBonusIsOn ==
  ASSUME NEW listed, \A b \in listed : Priced(b), NEW e, NEW now,
         BestBonus(listed, e, now) # None
  PROVE  LET b == BestBonus(listed, e, now)
         IN  b \in listed /\ IsBonusActive(b, now) /\ b.from = e.from /\ b.to = e.to
<1> DEFINE on == {b \in listed : IsBonusActive(b, now) /\ b.from = e.from /\ b.to = e.to}
           best(b) == \A c \in on :
                        b.permille > c.permille \/ (b.permille = c.permille /\ b.id <= c.id)
<1>1. on # {} /\ BestBonus(listed, e, now) = CHOOSE b \in on : best(b)
  BY DEF BestBonus
<1>2. \A b \in on : b.id \in Nat /\ b.permille \in Nat /\ b.permille <= 3000
  BY DEF Priced
<1> HIDE DEF on
<1>3. PICK m \in {3000 - b.permille : b \in on} :
        \A k \in {3000 - b.permille : b \in on} : m <= k
  <2> DEFINE T == {3000 - b.permille : b \in on}
  <2>1. T \in SUBSET Nat /\ T # {}
    BY <1>1, <1>2
  <2> HIDE DEF T
  <2>2. \E x \in T : \A y \in T : x <= y
    BY <2>1, LeastNumber
  <2>. QED  BY <2>2 DEF T
<1> DEFINE top == {b \in on : m = 3000 - b.permille}
<1>4. PICK i \in {b.id : b \in top} : \A j \in {b.id : b \in top} : i <= j
  <2> DEFINE T == {b.id : b \in top}
  <2>1. T \in SUBSET Nat /\ T # {}
    BY <1>2, <1>3
  <2> HIDE DEF T
  <2>2. \E x \in T : \A y \in T : x <= y
    BY <2>1, LeastNumber
  <2>. QED  BY <2>2 DEF T
<1>5. PICK b \in top : i = b.id
  BY <1>4
<1>6. best(b)
  <2> SUFFICES ASSUME NEW c \in on
               PROVE  b.permille > c.permille \/ (b.permille = c.permille /\ b.id <= c.id)
    OBVIOUS
  <2>1. /\ b \in on /\ m = 3000 - b.permille /\ m <= 3000 - c.permille
        /\ b.permille \in Nat /\ c.permille \in Nat
    BY <1>2, <1>3, <1>5
  <2>2. CASE m = 3000 - c.permille
    <3>1. c \in top
      BY <2>2
    <3>2. b.id <= c.id
      BY <1>4, <1>5, <3>1
    <3>. QED  BY <2>1, <2>2, <3>2
  <2>3. CASE m # 3000 - c.permille
    BY <2>1, <2>3
  <2>. QED  BY <2>2, <2>3
<1>7. (CHOOSE c \in on : best(c)) \in on
  <2>1. \E c \in on : best(c)
    BY <1>5, <1>6
  <2> HIDE DEF best
  <2>. QED  BY <2>1
<1>. QED  BY <1>1, <1>7 DEF on

LEMMA PermilleIsPositive ==
  ASSUME NEW listed, \A b \in listed : Priced(b), NEW e, NEW now
  PROVE  Permille(BestBonus(listed, e, now)) \in Nat \ {0}
<1>1. CASE BestBonus(listed, e, now) = None
  BY <1>1 DEF Permille
<1>2. CASE BestBonus(listed, e, now) # None
  <2>1. Priced(BestBonus(listed, e, now))
    BY <1>2, BestBonusIsOn
  <2>. QED  BY <1>2, <2>1 DEF Permille, Priced
<1>. QED  BY <1>1, <1>2

--------------------------------------------------------------------------------
(* Recursion: a recursive function is defined, and has the values of its steps. *)

LEMMA InductionTo ==
  ASSUME NEW N \in Nat, NEW Good, 0 \in Good,
         \A n \in 1 .. N : n - 1 \in Good => n \in Good
  PROVE  0 .. N \subseteq Good
<1> DEFINE Bad == {n \in 0 .. N : n \notin Good}
<1> SUFFICES ASSUME Bad # {} PROVE FALSE
  OBVIOUS
<1>1. Bad \in SUBSET Nat
  OBVIOUS
<1>2. PICK x \in Bad : \A y \in Bad : x <= y
  <2> HIDE DEF Bad
  <2>. QED  BY <1>1, LeastNumber
<1>3. x \in 1 .. N /\ x - 1 \in 0 .. N
  OBVIOUS
<1>4. x - 1 \notin Bad
  BY <1>2, <1>3
<1>. QED  BY <1>3, <1>4

\* A recursion over 0 .. N whose step stays in a set has a solution there.
Steps(N, Q) == [(1 .. N) \X Q -> Q]
Runs(N, Q, b, F) ==
  {f \in [0 .. N -> Q] : f[0] = b /\ \A n \in 1 .. N : f[n] = F[<<n, f[n - 1]>>]}

LEMMA RecursionDefined ==
  ASSUME NEW N \in Nat, NEW Q, NEW b \in Q, NEW F \in Steps(N, Q)
  PROVE  Runs(N, Q, b, F) # {}
<1> USE DEF Steps
<1> DEFINE Solves(f, n) == f[0] = b /\ \A k \in 1 .. n : f[k] = F[<<k, f[k - 1]>>]
           Good == {n \in 0 .. N : \E f \in [0 .. n -> Q] : Solves(f, n)}
<1>1. 0 \in Good
  <2> DEFINE f == [k \in 0 .. 0 |-> b]
  <2>1. f \in [0 .. 0 -> Q] /\ f[0] = b
    OBVIOUS
  <2> HIDE DEF f
  <2>2. \A k \in 1 .. 0 : f[k] = F[<<k, f[k - 1]>>]
    OBVIOUS
  <2>. QED  BY <2>1, <2>2
<1>2. ASSUME NEW n \in 1 .. N, n - 1 \in Good PROVE n \in Good
  <2>1. PICK f \in [0 .. n - 1 -> Q] : Solves(f, n - 1)
    BY <1>2
  <2> DEFINE g == [k \in 0 .. n |-> IF k = n THEN F[<<n, f[n - 1]>>] ELSE f[k]]
  <2>2. F[<<n, f[n - 1]>>] \in Q
    <3>1. n - 1 \in 0 .. n - 1
      OBVIOUS
    <3>2. f[n - 1] \in Q
      BY <3>1
    <3>3. <<n, f[n - 1]>> \in (1 .. N) \X Q
      BY <3>2
    <3>. QED  BY <3>3
  <2>3. g \in [0 .. n -> Q]
    BY <2>2
  <2>4. ASSUME NEW k \in 1 .. n PROVE g[k] = F[<<k, g[k - 1]>>]
    <3>1. k - 1 \in 0 .. n - 1 /\ g[k - 1] = f[k - 1]
      OBVIOUS
    <3>2. CASE k = n
      <4>1. g[k] = F[<<n, f[n - 1]>>]
        BY <3>2
      <4> HIDE DEF g
      <4>. QED  BY <3>1, <3>2, <4>1
    <3>3. CASE k # n
      <4>1. k \in 1 .. n - 1 /\ g[k] = f[k]
        BY <3>3
      <4>2. f[k] = F[<<k, f[k - 1]>>]
        BY <2>1, <4>1
      <4> HIDE DEF g
      <4>. QED  BY <3>1, <4>1, <4>2
    <3>. QED  BY <3>2, <3>3
  <2>5. g[0] = b
    BY <2>1
  <2> HIDE DEF g
  <2>. QED  BY <2>3, <2>4, <2>5
<1> HIDE DEF Good
<1>3. 0 .. N \subseteq Good
  BY <1>1, <1>2, InductionTo
<1>4. N \in Good
  BY <1>3
<1>. QED  BY <1>4 DEF Good, Runs

--------------------------------------------------------------------------------
(* Sums                                                                         *)

LEMMA TotalOf ==
  ASSUME NEW n \in Nat, NEW f, \A k \in 1 .. n : f[k] \in Int
  PROVE  \E u \in [0 .. n -> Int] :
           /\ u[0] = 0 /\ \A k \in 1 .. n : u[k] = u[k - 1] + f[k]
           /\ Total(f, n) = u[n]
<1> DEFINE IsSum(u) == u = [k \in 0 .. n |-> IF k = 0 THEN 0 ELSE u[k - 1] + f[k]]
           F == [x \in (1 .. n) \X Int |-> x[2] + f[x[1]]]
<1>1. F \in Steps(n, Int)
  <2>1. \A x \in (1 .. n) \X Int : x[2] + f[x[1]] \in Int
    OBVIOUS
  <2>. QED  BY <2>1 DEF Steps
<1>2. \A k \in 1 .. n, i \in Int : F[<<k, i>>] = i + f[k]
  <2> SUFFICES ASSUME NEW k \in 1 .. n, NEW i \in Int PROVE F[<<k, i>>] = i + f[k]
    OBVIOUS
  <2>1. <<k, i>> \in (1 .. n) \X Int
    OBVIOUS
  <2>. QED  BY <2>1
<1> HIDE DEF F
<1>3. PICK g \in [0 .. n -> Int] : g[0] = 0 /\ \A k \in 1 .. n : g[k] = F[<<k, g[k - 1]>>]
  <2>1. Runs(n, Int, 0, F) # {}
    BY <1>1, RecursionDefined
  <2>. QED  BY <2>1 DEF Runs
<1>4. ASSUME NEW k \in 1 .. n
      PROVE  k - 1 \in 0 .. n /\ g[k - 1] \in Int /\ g[k] = g[k - 1] + f[k]
  <2>1. k - 1 \in 0 .. n
    OBVIOUS
  <2>2. g[k - 1] \in Int
    BY <1>3, <2>1
  <2>. QED  BY <1>2, <1>3, <2>1, <2>2
<1>5. IsSum(g)
  <2> DEFINE h == [k \in 0 .. n |-> IF k = 0 THEN 0 ELSE g[k - 1] + f[k]]
  <2>1. \A k \in 0 .. n : g[k] = h[k]
    BY <1>3, <1>4
  <2>2. h = [k \in 0 .. n |-> h[k]] /\ g = [k \in 0 .. n |-> g[k]]
    OBVIOUS
  <2>. QED  BY <2>1, <2>2
<1> DEFINE u == CHOOSE v : IsSum(v)
<1>6. IsSum(u) /\ Total(f, n) = u[n]
  BY <1>5 DEF Total
<1> HIDE DEF u
<1>7. u[0] = 0 /\ \A k \in 1 .. n : u[k] = u[k - 1] + f[k]
  BY <1>6
<1>8. \A k \in 0 .. n : u[k] \in Int
  <2> DEFINE Good == {k \in 0 .. n : u[k] \in Int}
  <2>1. 0 \in Good
    BY <1>7
  <2>2. ASSUME NEW k \in 1 .. n, k - 1 \in Good PROVE k \in Good
    <3>1. u[k - 1] \in Int /\ f[k] \in Int /\ u[k] = u[k - 1] + f[k]
      BY <1>7, <2>2
    <3>. QED  BY <3>1
  <2> HIDE DEF Good
  <2>3. 0 .. n \subseteq Good
    BY <2>1, <2>2, InductionTo
  <2>. QED  BY <2>3 DEF Good
<1>9. u \in [0 .. n -> Int]
  <2>1. u = [k \in 0 .. n |-> u[k]]
    BY <1>6
  <2>. QED  BY <1>8, <2>1
<1>. QED  BY <1>6, <1>7, <1>9

LEMMA TotalAgrees ==
  ASSUME NEW n \in Nat, NEW f, NEW g, \A k \in 1 .. n : f[k] \in Int /\ f[k] = g[k]
  PROVE  Total(f, n) = Total(g, n)
<1>1. PICK u \in [0 .. n -> Int] :
        u[0] = 0 /\ (\A k \in 1 .. n : u[k] = u[k - 1] + f[k]) /\ Total(f, n) = u[n]
  BY TotalOf
<1>2. PICK v \in [0 .. n -> Int] :
        v[0] = 0 /\ (\A k \in 1 .. n : v[k] = v[k - 1] + g[k]) /\ Total(g, n) = v[n]
  BY TotalOf
<1> DEFINE Good == {k \in 0 .. n : u[k] = v[k]}
<1>3. 0 \in Good /\ \A k \in 1 .. n : k - 1 \in Good => k \in Good
  BY <1>1, <1>2
<1> HIDE DEF Good
<1>4. 0 .. n \subseteq Good
  BY <1>3, InductionTo
<1>. QED  BY <1>1, <1>2, <1>4 DEF Good

\* A sum is the sum before and its last term.
LEMMA TotalStep ==
  ASSUME NEW n \in Nat, NEW f, \A k \in 1 .. n : f[k] \in Int
  PROVE  /\ Total(f, 0) = 0 /\ Total(f, n) \in Int
         /\ \A k \in 1 .. n : /\ Total(f, k - 1) \in Int
                              /\ Total(f, k) = Total(f, k - 1) + f[k]
<1> DEFINE Sums(u, k) == /\ u[0] = 0 /\ \A i \in 1 .. k : u[i] = u[i - 1] + f[i]
                         /\ Total(f, k) = u[k]
<1>0. \A k \in 0 .. n : \E u \in [0 .. k -> Int] : Sums(u, k)
  <2> SUFFICES ASSUME NEW k \in 0 .. n PROVE \E u \in [0 .. k -> Int] : Sums(u, k)
    OBVIOUS
  <2>1. k \in Nat /\ \A i \in 1 .. k : f[i] \in Int
    OBVIOUS
  <2>. QED  BY <2>1, TotalOf
<1>1. \A k \in 0 .. n : Total(f, k) \in Int
  <2> SUFFICES ASSUME NEW k \in 0 .. n PROVE Total(f, k) \in Int
    OBVIOUS
  <2>1. PICK u \in [0 .. k -> Int] : Sums(u, k)
    BY <1>0
  <2>2. k \in 0 .. k
    OBVIOUS
  <2>. QED  BY <2>1, <2>2
<1>2. Total(f, 0) = 0
  BY <1>0
<1>3. ASSUME NEW k \in 1 .. n PROVE Total(f, k) = Total(f, k - 1) + f[k]
  <2>1. PICK u \in [0 .. k -> Int] :
          u[0] = 0 /\ (\A i \in 1 .. k : u[i] = u[i - 1] + f[i]) /\ Total(f, k) = u[k]
    <3>1. k \in 0 .. n
      OBVIOUS
    <3>. QED  BY <1>0, <3>1
  <2>2. PICK v \in [0 .. k - 1 -> Int] :
          v[0] = 0 /\ (\A i \in 1 .. k - 1 : v[i] = v[i - 1] + f[i]) /\ Total(f, k - 1) = v[k - 1]
    <3>1. k - 1 \in 0 .. n
      OBVIOUS
    <3>. QED  BY <1>0, <3>1
  <2> DEFINE Good == {i \in 0 .. k - 1 : u[i] = v[i]}
  <2>3. 0 \in Good
    <3>1. u[0] = v[0]
      BY <2>1, <2>2, Zenon
    <3>2. 0 \in 0 .. k - 1
      OBVIOUS
    <3>. QED  BY <3>1, <3>2
  <2>4. ASSUME NEW i \in 1 .. k - 1, i - 1 \in Good PROVE i \in Good
    <3>1. u[i - 1] = v[i - 1] /\ i \in 1 .. k
      BY <2>4
    <3>2. u[i] = u[i - 1] + f[i] /\ v[i] = v[i - 1] + f[i]
      BY <2>1, <2>2, <3>1
    <3>. QED  BY <3>1, <3>2
  <2> HIDE DEF Good
  <2>5. k - 1 \in Nat /\ k - 1 \in 0 .. k - 1
    OBVIOUS
  <2>6. 0 .. k - 1 \subseteq Good
    BY <2>3, <2>4, <2>5, InductionTo
  <2>7. u[k - 1] = v[k - 1]
    BY <2>5, <2>6 DEF Good
  <2>. QED  BY <2>1, <2>2, <2>7
<1>. QED  BY <1>1, <1>2, <1>3

LEMMA TotalLeq ==
  ASSUME NEW n \in Nat, NEW f, NEW g,
         \A k \in 1 .. n : f[k] \in Int /\ g[k] \in Int /\ f[k] <= g[k]
  PROVE  Total(f, n) <= Total(g, n)
<1> DEFINE Good == {k \in 0 .. n : Total(f, k) <= Total(g, k)}
<1>1. Total(f, 0) = 0 /\ Total(g, 0) = 0
  BY TotalStep
<1>2. \A k \in 1 .. n : /\ Total(f, k - 1) \in Int /\ Total(f, k) = Total(f, k - 1) + f[k]
                        /\ Total(g, k - 1) \in Int /\ Total(g, k) = Total(g, k - 1) + g[k]
  BY TotalStep
<1>3. 0 \in Good
  BY <1>1
<1>4. \A k \in 1 .. n : k - 1 \in Good => k \in Good
  BY <1>2
<1> HIDE DEF Good
<1>5. 0 .. n \subseteq Good
  BY <1>3, <1>4, InductionTo
<1>. QED  BY <1>5 DEF Good

\* A sum of naturals is one, and at least each of its terms and its parts.
LEMMA TotalBounds ==
  ASSUME NEW n \in Nat, NEW f, \A k \in 1 .. n : f[k] \in Nat
  PROVE  /\ \A k \in 0 .. n : Total(f, k) \in Nat /\ Total(f, k) <= Total(f, n)
         /\ \A k \in 1 .. n : f[k] <= Total(f, n)
<1>1. /\ Total(f, 0) = 0
      /\ \A k \in 1 .. n : Total(f, k - 1) \in Int /\ Total(f, k) = Total(f, k - 1) + f[k]
  BY TotalStep
<1> DEFINE Good == {k \in 0 .. n : /\ Total(f, k) \in Nat
                                   /\ \A j \in 0 .. k : Total(f, j) <= Total(f, k)
                                   /\ \A j \in 1 .. k : f[j] <= Total(f, k)}
<1>2. 0 \in Good
  BY <1>1
<1>3. ASSUME NEW k \in 1 .. n, k - 1 \in Good PROVE k \in Good
  <2>1. /\ Total(f, k - 1) \in Nat /\ f[k] \in Nat /\ Total(f, k) = Total(f, k - 1) + f[k]
        /\ \A j \in 0 .. k - 1 : Total(f, j) <= Total(f, k - 1)
        /\ \A j \in 1 .. k - 1 : f[j] <= Total(f, k - 1)
    BY <1>1, <1>3
  <2>2. Total(f, k) \in Nat /\ Total(f, k - 1) <= Total(f, k) /\ f[k] <= Total(f, k)
    BY <2>1
  <2>3. ASSUME NEW j \in 0 .. k PROVE Total(f, j) <= Total(f, k)
    <3>1. CASE j = k
      BY <2>2, <3>1
    <3>2. CASE j # k
      <4>1. j \in 0 .. k - 1 
        BY <3>2
      <4>2. Total(f, j) <= Total(f, k - 1) /\ Total(f, j) \in Int
        BY <2>1, <4>1, TotalStep
      <4>. QED  BY <2>1, <2>2, <4>2
    <3>. QED  BY <3>1, <3>2
  <2>4. ASSUME NEW j \in 1 .. k PROVE f[j] <= Total(f, k)
    <3>1. j = k \/ f[j] <= Total(f, k - 1)
      BY <2>1
    <3>2. f[j] \in Nat
      OBVIOUS
    <3>. QED  BY <2>1, <2>2, <3>1, <3>2
  <2>. QED  BY <2>2, <2>3, <2>4
<1> HIDE DEF Good
<1>4. 0 .. n \subseteq Good
  BY <1>2, <1>3, InductionTo
<1>. QED  BY <1>4 DEF Good

\* Appending a term adds it.
LEMMA TotalAppended ==
  ASSUME NEW f, NEW g, NEW n \in Nat, \A k \in 1 .. n : f[k] \in Int /\ g[k] = f[k],
         g[n + 1] \in Int
  PROVE  Total(g, n + 1) = Total(f, n) + g[n + 1]
<1>1. \A k \in 1 .. n + 1 : g[k] \in Int
  OBVIOUS
<1>2. Total(g, n + 1) = Total(g, n) + g[n + 1]
  <2> DEFINE m == n + 1
  <2>1. m \in Nat /\ m \in 1 .. m /\ m - 1 = n
    OBVIOUS
  <2>2. Total(g, m) = Total(g, m - 1) + g[m]
    <3> HIDE DEF m
    <3>1. \A k \in 1 .. m : g[k] \in Int
      BY <1>1 DEF m
    <3>. QED  BY <2>1, <3>1, TotalStep
  <2>. QED  BY <2>1, <2>2
<1>3. Total(f, n) = Total(g, n)
  BY TotalAgrees
<1>. QED  BY <1>2, <1>3

--------------------------------------------------------------------------------
(* Sorting: a strict order of a finite set, total on it, gives each member a    *)
(* place of its own, so that the list shows all of them, in that order.         *)

ByRank(S, before) ==
  [i \in 1 .. Cardinality(S) |-> CHOOSE o \in S : before[o] = i - 1]
Rank(S, R) == [o \in S |-> Cardinality({q \in S : <<q, o>> \in R})]

Orders(R, S) ==
  /\ \A o \in S : <<o, o>> \notin R
  /\ \A o, p, q \in S : <<o, p>> \in R /\ <<p, q>> \in R => <<o, q>> \in R
  /\ \A o, q \in S : o = q \/ <<o, q>> \in R \/ <<q, o>> \in R

Sorts(list, S, R) ==
  /\ Cardinality(S) \in Nat /\ list \in [1 .. Cardinality(S) -> S] /\ ToSet(list) = S
  /\ \A i, j \in 1 .. Cardinality(S) : i < j => <<list[i], list[j]>> \in R

LEMMA RankSorts ==
  ASSUME NEW S, IsFiniteSet(S), NEW R, Orders(R, S)
  PROVE  Sorts(ByRank(S, Rank(S, R)), S, R)
<1> DEFINE better(o) == {q \in S : <<q, o>> \in R}
           n == Cardinality(S)
           place == [o \in S |-> Cardinality(better(o))]
<1>1. n \in Nat
  BY FS_CardinalityType
<1>2. ASSUME NEW o \in S
      PROVE  /\ IsFiniteSet(better(o)) /\ Cardinality(better(o)) \in 0 .. n - 1
  <2>1. o \notin better(o)
    BY DEF Orders
  <2>2. better(o) \in SUBSET (S \ {o})
    BY <2>1
  <2> HIDE DEF better
  <2>3. IsFiniteSet(S \ {o}) /\ Cardinality(S \ {o}) = n - 1
    BY FS_RemoveElement
  <2>4. IsFiniteSet(better(o)) /\ Cardinality(better(o)) <= Cardinality(S \ {o})
    BY <2>2, <2>3, FS_Subset
  <2>5. Cardinality(better(o)) \in Nat
    BY <2>4, FS_CardinalityType
  <2> HIDE DEF n
  <2>. QED  BY <1>1, <2>3, <2>4, <2>5
<1>3. ASSUME NEW o \in S, NEW q \in S, <<o, q>> \in R
      PROVE  Cardinality(better(o)) < Cardinality(better(q))
  <2>1. /\ better(o) \subseteq better(q) /\ o \in better(q) /\ o \notin better(o)
    BY <1>3 DEF Orders
  <2> HIDE DEF better
  <2>2. IsFiniteSet(better(q)) /\ better(o) \in SUBSET (better(q) \ {o})
    BY <1>2, <2>1
  <2>3. /\ IsFiniteSet(better(q) \ {o})
        /\ Cardinality(better(q) \ {o}) = Cardinality(better(q)) - 1
    BY <2>1, <2>2, FS_RemoveElement
  <2>4. Cardinality(better(o)) <= Cardinality(better(q) \ {o})
    BY <2>2, <2>3, FS_Subset
  <2>5. Cardinality(better(o)) \in Nat /\ Cardinality(better(q)) \in Nat
    BY <1>1, <1>2
  <2>. QED  BY <2>3, <2>4, <2>5
<1> HIDE DEF better, n
<1>4. ASSUME NEW o \in S, NEW q \in S, Cardinality(better(o)) = Cardinality(better(q))
      PROVE  o = q
  <2>1. <<o, q>> \in R \/ <<q, o>> \in R \/ o = q
    BY DEF Orders
  <2>2. Cardinality(better(o)) \in Nat
    BY <1>1, <1>2
  <2>. QED  BY <1>3, <1>4, <2>1, <2>2
<1>5. place \in Injection(S, 0 .. n - 1)
  BY <1>2, <1>4 DEF Injection, IsInjective
<1>6. IsFiniteSet(0 .. n - 1) /\ Cardinality(0 .. n - 1) = n
  <2>1. /\ IsFiniteSet(0 .. n - 1)
        /\ Cardinality(0 .. n - 1) = IF 0 > n - 1 THEN 0 ELSE (n - 1) - 0 + 1
    BY <1>1, FS_Interval
  <2>. QED  BY <1>1, <2>1
<1>7. place \in Surjection(S, 0 .. n - 1)
  <2> HIDE DEF place
  <2>. QED  BY <1>5, <1>6, FS_Injection, Zenon DEF n
<1>8. \A i \in 1 .. n : \E o \in S : Cardinality(better(o)) = i - 1
  <2>1. \A j \in 0 .. n - 1 : \E o \in S : place[o] = j
    <3> HIDE DEF place
    <3>. QED  BY <1>7 DEF Surjection
  <2>2. \A i \in 1 .. n : i - 1 \in 0 .. n - 1
    BY <1>1
  <2>. QED  BY <2>1, <2>2
<1> DEFINE list == ByRank(S, place)
<1>9. /\ list = [i \in 1 .. n |-> list[i]]
      /\ \A i \in 1 .. n : list[i] = CHOOSE o \in S : place[o] = i - 1
  <2>1. list = [i \in 1 .. n |-> CHOOSE o \in S : place[o] = i - 1]
    BY Zenon DEF ByRank, n
  <2> HIDE DEF list
  <2>. QED  BY <2>1
<1> HIDE DEF list
<1>10. ASSUME NEW i \in 1 .. n
       PROVE  list[i] \in S /\ Cardinality(better(list[i])) = i - 1
  <2>1. \E o \in S : place[o] = i - 1
    BY <1>8
  <2>2. list[i] \in S /\ place[list[i]] = i - 1
    <3> HIDE DEF place
    <3>. QED  BY <1>9, <2>1
  <2>. QED  BY <2>2
<1>11. list \in [1 .. n -> S]
  BY <1>9, <1>10
<1>12. ASSUME NEW o \in S PROVE \E i \in 1 .. n : list[i] = o
  <2>1. Cardinality(better(o)) + 1 \in 1 .. n
    BY <1>1, <1>2
  <2>. PICK i \in 1 .. n : i = Cardinality(better(o)) + 1
    BY <2>1
  <2>2. Cardinality(better(o)) = i - 1
    BY <1>1, <1>2
  <2>. QED  BY <1>4, <1>10, <2>2
<1>13. ToSet(list) = S
  <2>1. DOMAIN list = 1 .. n
    BY <1>11
  <2>. QED  BY <1>10, <1>12, <2>1 DEF ToSet
<1>14. ASSUME NEW i \in 1 .. n, NEW j \in 1 .. n, i < j PROVE <<list[i], list[j]>> \in R
  <2>1. /\ list[i] \in S /\ Cardinality(better(list[i])) = i - 1
        /\ list[j] \in S /\ Cardinality(better(list[j])) = j - 1
    BY <1>10
  <2>2. list[i] # list[j]
    BY <1>1, <1>14, <2>1
  <2>3. ~(Cardinality(better(list[j])) < Cardinality(better(list[i])))
    BY <1>1, <1>14, <2>1
  <2>4. <<list[j], list[i]>> \notin R
    BY <1>3, <2>1, <2>3
  <2>. QED  BY <2>1, <2>2, <2>4 DEF Orders
<1>15. Rank(S, R) = place
  BY Zenon DEF Rank, better
<1>. QED  BY <1>1, <1>11, <1>13, <1>14, <1>15 DEF Sorts, list, n

\* The three lists that are sorted.
ByWorth(S) == InOrder(S, WorthMore)
ByCost(S) == InOrder(S, CostsLess)
ByRanking(S) == InOrder(S, RanksBefore)

LEMMA WorthMoreSorts ==
  ASSUME NEW S, IsFiniteSet(S),
         \A o \in S : o.milli \in Nat /\ o.to \in Nat,
         \A o, q \in S : o.to = q.to => o = q
  PROVE  ToSet(ByWorth(S)) = S
<1> DEFINE R == {pair \in S \X S : WorthMore(pair[1], pair[2])}
<1>1. \A o, q \in S : <<o, q>> \in R <=> WorthMore(o, q)
  OBVIOUS
<1> HIDE DEF R
<1>2. Orders(R, S)
  <2>1. \A o \in S : <<o, o>> \notin R
    BY <1>1 DEF WorthMore
  <2>2. \A o, p, q \in S : <<o, p>> \in R /\ <<p, q>> \in R => <<o, q>> \in R
    BY <1>1 DEF WorthMore
  <2>3. ASSUME NEW o \in S, NEW q \in S PROVE o = q \/ <<o, q>> \in R \/ <<q, o>> \in R
    <3> DEFINE a == o.milli  b == q.milli  c == o.to  d == q.to
    <3>1. a \in Nat /\ b \in Nat /\ c \in Nat /\ d \in Nat
      OBVIOUS
    <3> HIDE DEF a, b, c, d
    <3>2. (a > b \/ (a = b /\ c < d)) \/ (b > a \/ (b = a /\ d < c)) \/ c = d
      BY <3>1
    <3>3. WorthMore(o, q) \/ WorthMore(q, o) \/ o.to = q.to
      BY <3>2, Zenon DEF WorthMore, a, b, c, d
    <3>. QED  BY <1>1, <3>3
  <2>. QED  BY <2>1, <2>2, <2>3 DEF Orders
<1>3. ByWorth(S) = ByRank(S, Rank(S, R))
  <2> DEFINE before == [o \in S |-> Cardinality({q \in S : WorthMore(q, o)})]
  <2>1. \A o \in S : {q \in S : WorthMore(q, o)} = {q \in S : <<q, o>> \in R}
    BY <1>1
  <2>2. before = Rank(S, R)
    BY <2>1, Zenon DEF Rank
  <2>3. ByWorth(S) = ByRank(S, before)
    BY Zenon DEF ByWorth, InOrder, ByRank
  <2>. QED  BY <2>2, <2>3, Zenon
<1>4. ToSet(ByRank(S, Rank(S, R))) = S
  BY <1>2, RankSorts DEF Sorts
<1>. QED  BY <1>3, <1>4, Zenon

--------------------------------------------------------------------------------
(* Sources: what a balance can give, in the order of its cost.                  *)

IsPortfolio(h) == DOMAIN h = Programs /\ \A p \in Programs : IsHolding(h[p])

IsSource(s) ==
  /\ s.from \in Nat /\ s.min \in Nat /\ s.inc \in Nat \ {0} /\ s.weight \in Nat
  /\ s.usable \in Nat \ {0} /\ s.usable % s.inc = 0 /\ s.min <= s.usable
  /\ s.maxDest \in Nat \ {0} /\ s.maxDest = Yield(s, s.usable)
  /\ s.edge # None => s.edge.num \in Nat \ {0} /\ s.edge.den \in Nat \ {0}
  /\ Permille(s.bonus) \in Nat \ {0}

LEMMA ConvertGrows ==
  ASSUME NEW e, e.num \in Nat \ {0}, e.den \in Nat \ {0}, NEW permille \in Nat \ {0},
         NEW x \in Nat, NEW y \in Nat, x <= y
  PROVE  /\ ConvertPoints(e, x, permille) \in Nat /\ ConvertPoints(e, y, permille) \in Nat
         /\ ConvertPoints(e, x, permille) <= ConvertPoints(e, y, permille)
<1> DEFINE a == ConvertPoints(e, x, permille)
           b == ConvertPoints(e, y, permille)
<1>1. a \in Nat /\ b \in Nat
  <2>1. 0 \in Nat
    OBVIOUS
  <2>. QED  BY <2>1, ConvertInverts
<1> DEFINE needed == SourceNeeded(e, a, permille)
<1>2. needed \in Nat /\ (a >= a <=> x >= needed) /\ (b >= a <=> y >= needed)
  <2> HIDE DEF a
  <2>1. /\ SourceNeeded(e, a, permille) \in Nat
        /\ \A z \in Nat : ConvertPoints(e, z, permille) >= a <=> z >= SourceNeeded(e, a, permille)
    BY <1>1, ConvertInverts
  <2>. QED  BY <2>1 DEF a
<1> HIDE DEF a, b, needed
<1>3. a <= b
  BY <1>1, <1>2
<1>. QED  BY <1>1, <1>3 DEF a, b

LEMMA YieldGrows ==
  ASSUME NEW s, s.edge # None => s.edge.num \in Nat \ {0} /\ s.edge.den \in Nat \ {0},
         Permille(s.bonus) \in Nat \ {0}
  PROVE  /\ Yield(s, 0) = 0
         /\ \A x \in Nat : Yield(s, x) \in Nat
         /\ \A x, y \in Nat : x <= y => Yield(s, x) <= Yield(s, y)
<1>1. Yield(s, 0) = 0
  BY DEF Yield
<1>2. ASSUME NEW x \in Nat, NEW y \in Nat, x <= y
      PROVE  Yield(s, x) \in Nat /\ Yield(s, y) \in Nat /\ Yield(s, x) <= Yield(s, y)
  <2>1. CASE s.edge = None
    BY <1>2, <2>1 DEF Yield
  <2>2. CASE s.edge # None
    <3> DEFINE a == ConvertPoints(s.edge, x, Permille(s.bonus))
               b == ConvertPoints(s.edge, y, Permille(s.bonus))
    <3>1. a \in Nat /\ b \in Nat /\ a <= b
      BY <1>2, <2>2, ConvertGrows
    <3>2. /\ Yield(s, x) = IF x <= 0 THEN 0 ELSE a
          /\ Yield(s, y) = IF y <= 0 THEN 0 ELSE b
      BY <2>2 DEF Yield
    <3> HIDE DEF a, b
    <3>. QED  BY <1>2, <3>1, <3>2
  <2>. QED  BY <2>1, <2>2
<1>. QED  BY <1>1, <1>2

LEMMA CrossOrder ==
  ASSUME NEW a \in Nat, NEW b \in Nat, NEW c \in Nat,
         NEW p \in Nat \ {0}, NEW q \in Nat \ {0}, NEW r \in Nat \ {0},
         a * q <= b * p, b * r <= c * q
  PROVE  /\ a * r <= c * p
         /\ a * r = c * p => a * q = b * p /\ b * r = c * q
<1>1. ASSUME NEW x \in Nat, NEW y \in Nat, NEW z \in Nat \ {0}
      PROVE  x * z <= y * z <=> x <= y
  OBVIOUS
<1> DEFINE aq == a * q  bp == b * p  br == b * r  cq == c * q  ar == a * r  cp == c * p
<1>2. aq \in Nat /\ bp \in Nat /\ br \in Nat /\ cq \in Nat /\ ar \in Nat /\ cp \in Nat
  OBVIOUS
<1>3. aq * r = ar * q /\ bp * r = br * p /\ cq * p = cp * q
  OBVIOUS
<1>4. aq <= bp /\ br <= cq
  OBVIOUS
<1> HIDE DEF aq, bp, br, cq, ar, cp
<1>5. aq * r <= bp * r /\ br * p <= cq * p
  BY <1>1, <1>2, <1>4
<1>6. /\ aq * r \in Nat /\ bp * r \in Nat /\ cp * q \in Nat /\ ar * q \in Nat
      /\ br * p \in Nat /\ cq * p \in Nat
  BY <1>2
<1>7. ar * q <= cp * q
  BY <1>3, <1>5, <1>6
<1>8. ar <= cp
  BY <1>1, <1>2, <1>7
<1>9. ASSUME ar = cp PROVE aq = bp /\ br = cq
  <2>1. bp * r <= aq * r /\ cq * p <= br * p
    BY <1>3, <1>5, <1>6, <1>9
  <2>2. bp <= aq /\ cq <= br
    BY <1>1, <1>2, <2>1
  <2>. QED  BY <1>2, <1>4, <2>2
<1>. QED  BY <1>8, <1>9 DEF aq, bp, br, cq, ar, cp

\* A program is a source of an award once, as its own balance or over one edge.
Rival(a, b) == (a.edge = None) = (b.edge = None) /\ a.from = b.from

LEMMA CostSorts ==
  ASSUME NEW S, IsFiniteSet(S), \A s \in S : IsSource(s),
         \A s, t \in S : Rival(s, t) => s = t
  PROVE  /\ Cardinality(S) \in Nat
         /\ ByCost(S) \in [1 .. Cardinality(S) -> S] /\ ToSet(ByCost(S)) = S
         /\ \A i, j \in 1 .. Cardinality(S) : i < j => CostsLess(ByCost(S)[i], ByCost(S)[j])
         /\ \A s, t \in S : CostsLess(s, t) => s # t
<1> DEFINE R == {pair \in S \X S : CostsLess(pair[1], pair[2])}
           price(s) == s.weight * s.usable
           below(s, t) == price(s) * t.maxDest < price(t) * s.maxDest
           level(s, t) == price(s) * t.maxDest = price(t) * s.maxDest
<1>1. \A s, t \in S : <<s, t>> \in R <=> CostsLess(s, t)
  OBVIOUS
<1> HIDE DEF R
<1>2. \A s \in S : s.maxDest \in Nat \ {0} /\ price(s) \in Nat /\ s.from \in Nat
  BY DEF IsSource
<1>3. \A s, t \in S : CostsLess(s, t) <=>
        \/ below(s, t)
        \/ level(s, t) /\ s.edge = None /\ t.edge # None
        \/ level(s, t) /\ (s.edge = None) = (t.edge = None) /\ s.from < t.from
  BY DEF CostsLess
<1> HIDE DEF price
<1>4. \A s, t \in S : /\ price(s) * t.maxDest \in Nat
                      /\ below(s, t) => ~below(t, s) /\ ~level(s, t)
                      /\ level(s, t) <=> level(t, s)
                      /\ below(s, t) \/ level(s, t) \/ below(t, s)
  BY <1>2
<1>5. ASSUME NEW s \in S, NEW t \in S, NEW u \in S
      PROVE  /\ level(s, t) /\ level(t, u) => level(s, u)
             /\ \/ below(s, t) /\ below(t, u)
                \/ below(s, t) /\ level(t, u)
                \/ level(s, t) /\ below(t, u)
                => below(s, u)
  <2> DEFINE st == price(s) * t.maxDest  ts == price(t) * s.maxDest
             tu == price(t) * u.maxDest  ut == price(u) * t.maxDest
             su == price(s) * u.maxDest  us == price(u) * s.maxDest
  <2>1. /\ st \in Nat /\ ts \in Nat /\ tu \in Nat /\ ut \in Nat /\ su \in Nat /\ us \in Nat
    BY <1>4
  <2> DEFINE a == price(s)  b == price(t)  c == price(u)
             p == s.maxDest  q == t.maxDest  r == u.maxDest
  <2>2. /\ st <= ts /\ tu <= ut => su <= us /\ (su = us => st = ts /\ tu = ut)
        /\ ts <= st /\ ut <= tu => us <= su
    <3>1. /\ a \in Nat /\ b \in Nat /\ c \in Nat
          /\ p \in Nat \ {0} /\ q \in Nat \ {0} /\ r \in Nat \ {0}
      BY <1>2
    <3> HIDE DEF a, b, c, p, q, r
    <3>2. a * q <= b * p /\ b * r <= c * q =>
            a * r <= c * p /\ (a * r = c * p => a * q = b * p /\ b * r = c * q)
      BY <3>1, CrossOrder
    <3>3. c * q <= b * r /\ b * p <= a * q => c * p <= a * r
      BY <3>1, CrossOrder
    <3>. QED  BY <3>2, <3>3 DEF a, b, c, p, q, r
  <2> HIDE DEF st, ts, tu, ut, su, us
  <2>4. /\ st = ts /\ tu = ut => su = us
        /\ \/ st < ts /\ tu < ut
           \/ st < ts /\ tu = ut
           \/ st = ts /\ tu < ut
           => su < us
    BY <2>1, <2>2
  <2>5. /\ level(s, t) <=> st = ts
        /\ level(t, u) <=> tu = ut
        /\ level(s, u) <=> su = us
        /\ below(s, t) <=> st < ts
        /\ below(t, u) <=> tu < ut
        /\ below(s, u) <=> su < us
    BY DEF st, ts, tu, ut, su, us
  <2> HIDE DEF level, below
  <2>. QED  BY <2>4, <2>5
<1> HIDE DEF below, level
<1>6. Orders(R, S)
  <2>1. \A s \in S : ~CostsLess(s, s)
    BY <1>2, <1>3, <1>4
  <2>2. ASSUME NEW s \in S, NEW t \in S, NEW u \in S, CostsLess(s, t), CostsLess(t, u)
        PROVE  CostsLess(s, u)
    <3>1. s.from \in Nat /\ t.from \in Nat /\ u.from \in Nat
      BY <1>2
    <3>2. CASE below(s, t) \/ below(t, u)
      BY <1>3, <1>5, <2>2, <3>2
    <3>3. CASE level(s, t) /\ level(t, u) /\ ~below(s, t) /\ ~below(t, u)
      <4>1. level(s, u)
        BY <1>5, <3>3
      <4>2. /\ \/ s.edge = None /\ t.edge # None
               \/ (s.edge = None) = (t.edge = None) /\ s.from < t.from
            /\ \/ t.edge = None /\ u.edge # None
               \/ (t.edge = None) = (u.edge = None) /\ t.from < u.from
        BY <1>3, <2>2, <3>3
      <4>3. \/ s.edge = None /\ u.edge # None
            \/ (s.edge = None) = (u.edge = None) /\ s.from < u.from
        BY <3>1, <4>2
      <4>. QED  BY <1>3, <4>1, <4>3
    <3>. QED  BY <1>3, <1>4, <2>2, <3>2, <3>3
  <2>3. ASSUME NEW s \in S, NEW t \in S, s # t PROVE CostsLess(s, t) \/ CostsLess(t, s)
    <3>1. CASE below(s, t) \/ below(t, s)
      BY <1>3, <3>1
    <3>2. CASE level(s, t) /\ level(t, s)
      <4>1. CASE (s.edge = None) # (t.edge = None)
        BY <1>3, <3>2, <4>1
      <4>2. CASE (s.edge = None) = (t.edge = None)
        <5>1. s.from \in Nat /\ t.from \in Nat /\ s.from # t.from
          BY <1>2, <2>3, <4>2 DEF Rival
        <5>2. s.from < t.from \/ t.from < s.from
          BY <5>1
        <5>. QED  BY <1>3, <3>2, <4>2, <5>2
      <4>. QED  BY <4>1, <4>2
    <3>. QED  BY <1>4, <3>1, <3>2
  <2>. QED  BY <1>1, <2>1, <2>2, <2>3 DEF Orders
<1>7. ByCost(S) = ByRank(S, Rank(S, R))
  <2> DEFINE before == [o \in S |-> Cardinality({q \in S : CostsLess(q, o)})]
  <2>1. \A o \in S : {q \in S : CostsLess(q, o)} = {q \in S : <<q, o>> \in R}
    BY <1>1
  <2>2. before = Rank(S, R)
    BY <2>1, Zenon DEF Rank
  <2>3. ByCost(S) = ByRank(S, before)
    BY Zenon DEF ByCost, InOrder, ByRank
  <2>. QED  BY <2>2, <2>3, Zenon
<1>8. Sorts(ByCost(S), S, R)
  <2>1. Sorts(ByRank(S, Rank(S, R)), S, R)
    BY <1>6, RankSorts
  <2>. QED  BY <1>7, <2>1, Zenon
<1>9. /\ Cardinality(S) \in Nat
      /\ ByCost(S) \in [1 .. Cardinality(S) -> S] /\ ToSet(ByCost(S)) = S
      /\ \A i, j \in 1 .. Cardinality(S) : i < j => <<ByCost(S)[i], ByCost(S)[j]>> \in R
  BY <1>8, Zenon DEF Sorts
<1>10. \A i, j \in 1 .. Cardinality(S) : i < j => CostsLess(ByCost(S)[i], ByCost(S)[j])
  <2> DEFINE list == ByCost(S)
  <2>1. list \in [1 .. Cardinality(S) -> S]
        /\ \A i, j \in 1 .. Cardinality(S) : i < j => <<list[i], list[j]>> \in R
    BY <1>9
  <2> HIDE DEF list
  <2>2. \A i, j \in 1 .. Cardinality(S) : i < j => CostsLess(list[i], list[j])
    BY <1>1, <2>1
  <2>. QED  BY <2>2 DEF list
<1>11. \A s, t \in S : CostsLess(s, t) => s # t
  BY <1>1, <1>6 DEF Orders
<1>. QED  BY <1>9, <1>10, <1>11

--------------------------------------------------------------------------------
(* What BuildSources lists: the own balance and what moves over an open edge.   *)

\* A source is backed by a balance, and by a bonus that is on if by any.
Backed(s, held, listed, now) ==
  /\ s.from \in Programs /\ held[s.from] # None
  /\ s.bonus # None => s.bonus \in listed /\ IsBonusActive(s.bonus, now)

LEMMA DirectIsSource ==
  ASSUME NEW program \in Programs, NEW held, IsPortfolio(held), NEW listed, NEW now,
         held[program] # None, held[program].points > 0
  PROVE  LET s == Direct(program, held[program])
         IN  /\ IsSource(s) /\ Backed(s, held, listed, now)
             /\ s.edge = None /\ s.from = program
<1> DEFINE h == held[program]
           s == Direct(program, h)
<1>1. h # None /\ h.points \in Nat \ {0} /\ h.rate \in Nat
  BY DEF IsPortfolio, IsHolding
<1>2. Quarters(h.days) \in Nat
  BY DEF Quarters
<1> HIDE DEF h
<1>3. /\ s.from = program /\ s.edge = None /\ s.bonus = None /\ s.min = 0 /\ s.inc = 1
      /\ s.usable = h.points /\ s.maxDest = h.points /\ s.weight = Quarters(h.days) * h.rate
  BY DEF Direct
<1>4. program \in Nat
  BY TransfersAssumption
<1> HIDE DEF s
<1>5. h.points % 1 = 0
  BY <1>1
<1>6. IsSource(s)
  BY <1>1, <1>2, <1>3, <1>4, <1>5 DEF IsSource, Yield, Permille
<1>. QED  BY <1>1, <1>3, <1>6 DEF Backed, s, h

LEMMA ResolvedIsEdge ==
  ASSUME NEW e \in Edges
  PROVE  Resolved(e) \in Edge /\ Resolved(e) # None
<1>1. e \in Edge
  BY TransfersAssumption
<1>2. Resolved(e) \in Edge
  <2>1. CASE e.conditional
    <3>1. [e EXCEPT !.num = 3, !.den = 4] \in Edge
      BY <1>1 DEF Edge
    <3>. QED  BY <2>1, <3>1 DEF Resolved
  <2>2. CASE ~e.conditional
    BY <1>1, <2>2 DEF Resolved
  <2>. QED  BY <2>1, <2>2
<1>. QED  BY <1>2, TransfersAssumption

\* What a transfer over an edge is made of, whether it is enough to be a source.
LEMMA TransferFields ==
  ASSUME NEW e \in Edges, NEW h, h.points \in Nat, NEW bonus, Permille(bonus) \in Nat \ {0}
  PROVE  LET s == Transfer(e, h, bonus)  inc == OrElse(e.inc, DefaultIncrement)
         IN  /\ s.from = e.from /\ s.edge = Resolved(e) /\ s.edge # None /\ s.bonus = bonus
             /\ s.inc = inc /\ inc \in Nat \ {0}
             /\ s.min = OrElse(e.min, inc) /\ s.min \in Nat
             /\ s.usable = (h.points \div inc) * inc /\ s.usable \in Nat
             /\ s.usable % inc = 0 /\ s.usable <= h.points /\ h.points < s.usable + inc
             /\ s.maxDest = Yield(s, s.usable) /\ s.maxDest \in Nat
             /\ s.weight = Quarters(h.days) * h.rate
<1> DEFINE s == Transfer(e, h, bonus)
           inc == OrElse(e.inc, DefaultIncrement)
           probe == [from |-> e.from, edge |-> Resolved(e), bonus |-> bonus,
                     min |-> OrElse(e.min, inc), inc |-> inc,
                     usable |-> (h.points \div inc) * inc,
                     maxDest |-> 0, weight |-> Quarters(h.days) * h.rate]
<1>1. s = [probe EXCEPT !.maxDest = Yield(probe, probe.usable)]
  BY DEF Transfer
<1>2. inc \in Nat \ {0} /\ OrElse(e.min, inc) \in Nat
  BY EdgeNumbers, TransfersAssumption DEF OrElse
<1> HIDE DEF inc
<1>3. /\ s.from = e.from /\ s.edge = Resolved(e) /\ s.bonus = bonus
      /\ s.min = OrElse(e.min, inc) /\ s.inc = inc /\ s.usable = (h.points \div inc) * inc
      /\ s.weight = Quarters(h.days) * h.rate /\ s.maxDest = Yield(probe, s.usable)
  BY <1>1
<1>4. Yield(probe, s.usable) = Yield(s, s.usable)
  <2>1. probe.edge = s.edge /\ probe.bonus = s.bonus
    BY <1>3
  <2> HIDE DEF s, probe
  <2>. QED  BY <2>1 DEF Yield
<1> HIDE DEF s
<1>5. s.edge # None
  BY <1>3, ResolvedIsEdge
<1>6. /\ s.usable \in Nat /\ s.usable % inc = 0
      /\ s.usable <= h.points /\ h.points < s.usable + inc
  <2> DEFINE k == h.points \div inc
  <2>1. k \in Nat /\ h.points >= k * inc /\ ~(h.points >= (k + 1) * inc)
    <3>1. k \in Nat /\ \A j \in Nat : k >= j <=> h.points >= j * inc
      BY <1>2, FloorDivGreatest
    <3> HIDE DEF k
    <3>2. k >= k /\ ~(k >= k + 1) /\ k + 1 \in Nat
      BY <3>1
    <3>. QED  BY <3>1, <3>2
  <2> HIDE DEF k
  <2>2. k * inc \in Nat /\ (k + 1) * inc = k * inc + inc /\ (k * inc) % inc = 0
    <3>1. k * inc \in Nat /\ (k + 1) * inc = k * inc + inc
      BY <1>2, <2>1
    <3>. QED  BY <1>2, <2>1, <3>1, WholeBlocks
  <2>3. s.usable = k * inc
    BY <1>3 DEF k
  <2>. QED  BY <1>2, <2>1, <2>2, <2>3
<1>7. Yield(s, s.usable) \in Nat
  <2>1. s.edge.num \in Nat \ {0} /\ s.edge.den \in Nat \ {0} /\ Permille(s.bonus) \in Nat \ {0}
    BY <1>3, EdgeNumbers
  <2>. QED  BY <1>6, <2>1, YieldGrows
<1>. QED  BY <1>2, <1>3, <1>4, <1>5, <1>6, <1>7 DEF s, inc

LEMMA TransferIsSource ==
  ASSUME NEW e \in Edges, NEW held, IsPortfolio(held), NEW now,
         NEW listed, \A b \in listed : Priced(b),
         held[e.from] # None, NEW s, s = Transfer(e, held[e.from], BestBonus(listed, e, now)),
         s.usable >= s.min, s.usable > 0, s.maxDest > 0
  PROVE  IsSource(s) /\ Backed(s, held, listed, now) /\ s.edge # None /\ s.from = e.from
<1> DEFINE h == held[e.from]
           bonus == BestBonus(listed, e, now)
<1>1. e.from \in Programs /\ e.from \in Nat
  BY EdgeNumbers, TransfersAssumption
<1>2. h.points \in Nat /\ h.rate \in Nat /\ Quarters(h.days) \in Nat
  BY <1>1 DEF IsPortfolio, IsHolding, Quarters
<1>3. Permille(bonus) \in Nat \ {0}
  BY PermilleIsPositive
<1>4. bonus # None => bonus \in listed /\ IsBonusActive(bonus, now)
  BY BestBonusIsOn
<1> HIDE DEF h, bonus
<1>5. /\ s.from = e.from /\ s.edge = Resolved(e) /\ s.edge # None /\ s.bonus = bonus
      /\ s.inc \in Nat \ {0} /\ s.min \in Nat /\ s.usable \in Nat
      /\ s.usable % s.inc = 0 /\ s.maxDest = Yield(s, s.usable) /\ s.maxDest \in Nat
      /\ s.weight = Quarters(h.days) * h.rate
  <2>1. s = Transfer(e, h, bonus)
    BY DEF h, bonus
  <2>. QED  BY <1>2, <1>3, <2>1, TransferFields
<1>6. s.weight \in Nat
  BY <1>2, <1>5
<1>7. s.edge.num \in Nat \ {0} /\ s.edge.den \in Nat \ {0}
  BY <1>5, EdgeNumbers
<1>8. IsSource(s)
  BY <1>1, <1>3, <1>5, <1>6, <1>7 DEF IsSource
<1>. QED  BY <1>1, <1>4, <1>5, <1>8 DEF Backed

\* What BuildSources sorts.
Moved(program, held, listed, now) ==
  {Transfer(e, held[e.from], BestBonus(listed, e, now)) :
     e \in {f \in OpenEdges(program, held, now) :
              f.from \in {p \in Programs : held[p] # None /\ held[p].points > 0}}}
Own(program, held) ==
  {Direct(program, held[p]) :
     p \in {q \in Programs : held[q] # None /\ held[q].points > 0} \intersect {program}}
SourceSet(program, held, listed, now) ==
  Own(program, held) \union
    {s \in Moved(program, held, listed, now) : s.usable >= s.min /\ s.usable > 0 /\ s.maxDest > 0}

LEMMA BuildSorts ==
  ASSUME NEW program, NEW held, NEW listed, NEW now
  PROVE  BuildSources(program, held, listed, now) = ByCost(SourceSet(program, held, listed, now))
<1> DEFINE owners == {p \in Programs : held[p] # None /\ held[p].points > 0}
           direct == {Direct(program, held[p]) : p \in owners \intersect {program}}
           moved == {Transfer(e, held[e.from], BestBonus(listed, e, now)) :
                       e \in {f \in OpenEdges(program, held, now) : f.from \in owners}}
           S == direct \union {s \in moved : s.usable >= s.min /\ s.usable > 0 /\ s.maxDest > 0}
<1>1. S = SourceSet(program, held, listed, now)
  BY Zenon DEF SourceSet, Own, Moved
<1>2. BuildSources(program, held, listed, now) = ByCost(S)
  BY Zenon DEF BuildSources, ByCost, InOrder
<1>. QED  BY <1>1, <1>2, Zenon

LEMMA SourceSetIs ==
  ASSUME NEW program \in Programs, NEW held, IsPortfolio(held), NEW now,
         NEW listed, \A b \in listed : Priced(b)
  PROVE  LET S == SourceSet(program, held, listed, now)
         IN  /\ IsFiniteSet(S)
             /\ \A s \in S : IsSource(s) /\ Backed(s, held, listed, now)
             /\ \A s, t \in S : Rival(s, t) => s = t
<1> DEFINE S == SourceSet(program, held, listed, now)
           own == Own(program, held)
           moved == Moved(program, held, listed, now)
           move(e) == Transfer(e, held[e.from], BestBonus(listed, e, now))
           edges == {f \in OpenEdges(program, held, now) :
                       f.from \in {p \in Programs : held[p] # None /\ held[p].points > 0}}
<1>1. moved = {move(e) : e \in edges}
  BY Zenon DEF Moved
<1>2. S = own \union {s \in moved : s.usable >= s.min /\ s.usable > 0 /\ s.maxDest > 0}
  BY Zenon DEF SourceSet
<1>3. \A e \in edges : e \in Edges /\ e.to = program /\ held[e.from] # None
  BY DEF OpenEdges
<1>4. own \subseteq {Direct(program, held[program])}
      /\ (own # {} => held[program] # None /\ held[program].points > 0)
  BY DEF Own
<1> HIDE DEF edges, own, moved, move, S
<1>5. IsFiniteSet(S)
  <2>1. IsFiniteSet(own)
    BY <1>4, FS_Singleton, FS_Subset
  <2>2. IsFiniteSet(moved)
    <3> DEFINE f == [e \in edges |-> move(e)]
    <3>1. f \in Surjection(edges, moved)
      BY <1>1 DEF Surjection
    <3>2. edges \in SUBSET Edges
      BY <1>3
    <3>3. IsFiniteSet(edges)
      BY <3>2, TransfersAssumption, FS_Subset
    <3> HIDE DEF f
    <3>. QED  BY <3>1, <3>3, FS_Surjection
  <2>3. IsFiniteSet(own \union moved)
    BY <2>1, <2>2, FS_Union
  <2>4. S \in SUBSET (own \union moved)
    BY <1>2
  <2>. QED  BY <2>3, <2>4, FS_Subset
<1>6. ASSUME NEW s \in own
      PROVE  /\ IsSource(s) /\ Backed(s, held, listed, now)
             /\ s.edge = None /\ s = Direct(program, held[program])
  <2>1. s = Direct(program, held[program]) /\ held[program] # None /\ held[program].points > 0
    BY <1>4
  <2>. QED  BY <2>1, DirectIsSource
<1>7. ASSUME NEW s \in S, s \notin own
      PROVE  /\ IsSource(s) /\ Backed(s, held, listed, now) /\ s.edge # None
             /\ \E e \in edges : s = move(e) /\ s.from = e.from
  <2>1. s \in moved /\ s.usable >= s.min /\ s.usable > 0 /\ s.maxDest > 0
    BY <1>2, <1>7
  <2>2. PICK e \in edges : s = move(e)
    BY <1>1, <2>1
  <2>3. e \in Edges /\ held[e.from] # None
    BY <1>3
  <2>4. s = Transfer(e, held[e.from], BestBonus(listed, e, now))
    BY <2>2 DEF move
  <2>5. IsSource(s) /\ Backed(s, held, listed, now) /\ s.edge # None /\ s.from = e.from
    BY <2>1, <2>3, <2>4, TransferIsSource
  <2>. QED  BY <2>2, <2>5
<1>8. ASSUME NEW s \in S, NEW t \in S, Rival(s, t) PROVE s = t
  <2>1. CASE s \in own /\ t \in own
    BY <1>6, <2>1
  <2>2. CASE s \notin own /\ t \notin own
    <3>1. PICK e \in edges : s = move(e) /\ s.from = e.from
      BY <1>7, <2>2
    <3>2. PICK f \in edges : t = move(f) /\ t.from = f.from
      BY <1>7, <2>2
    <3>3. s.from = t.from
      BY <1>8 DEF Rival
    <3>4. e = f
      BY <1>3, <3>1, <3>2, <3>3, TransfersAssumption
    <3>. QED  BY <3>1, <3>2, <3>4
  <2>3. CASE (s \in own) # (t \in own)
    BY <1>6, <1>7, <1>8, <2>3 DEF Rival
  <2>. QED  BY <2>1, <2>2, <2>3
<1>. QED  BY <1>5, <1>6, <1>7, <1>8 DEF S

\* What the optimizer funds an award from: sources, each once, the cheapest first.
AreSources(list) ==
  /\ Len(list) \in Nat /\ DOMAIN list = 1 .. Len(list)
  /\ \A i \in 1 .. Len(list) : IsSource(list[i])
  /\ \A i, j \in 1 .. Len(list) : i < j => CostsLess(list[i], list[j]) /\ list[i] # list[j]

LEMMA SourcesAreSorted ==
  ASSUME NEW program \in Programs, NEW held, IsPortfolio(held), NEW now,
         NEW listed, \A b \in listed : Priced(b)
  PROVE  LET sources == BuildSources(program, held, listed, now)
         IN  /\ AreSources(sources)
             /\ ToSet(sources) = SourceSet(program, held, listed, now)
             /\ \A s \in ToSet(sources) : Backed(s, held, listed, now)
<1> DEFINE S == SourceSet(program, held, listed, now)
           sources == BuildSources(program, held, listed, now)
           n == Cardinality(S)
<1>1. /\ IsFiniteSet(S)
      /\ \A s \in S : IsSource(s) /\ Backed(s, held, listed, now)
      /\ \A s, t \in S : Rival(s, t) => s = t
  BY SourceSetIs
<1>2. sources = ByCost(S)
  BY BuildSorts
<1> HIDE DEF S, sources
<1>3. /\ n \in Nat /\ ByCost(S) \in [1 .. n -> S] /\ ToSet(ByCost(S)) = S
      /\ \A i, j \in 1 .. n : i < j => CostsLess(ByCost(S)[i], ByCost(S)[j])
      /\ \A s, t \in S : CostsLess(s, t) => s # t
  BY <1>1, CostSorts
<1>4. /\ n \in Nat /\ sources \in [1 .. n -> S] /\ ToSet(sources) = S
      /\ \A i, j \in 1 .. n : i < j => CostsLess(sources[i], sources[j])
      /\ \A s, t \in S : CostsLess(s, t) => s # t
  BY <1>2, <1>3, Zenon
<1> HIDE DEF n
<1>5. Len(sources) = n /\ DOMAIN sources = 1 .. n
  <2>1. sources \in Seq(S)
    BY <1>4
  <2>. QED  BY <1>4, <2>1
<1>6. AreSources(sources)
  BY <1>1, <1>4, <1>5 DEF AreSources
<1>. QED  BY <1>1, <1>4, <1>6 DEF S, sources

--------------------------------------------------------------------------------
(* The smallest amount of one source: bisection finds the first block that      *)
(* covers the need, since what a source yields grows with the amount.           *)

\* What obeys a recursion whose step stays in a set stays in it.
LEMMA RecursionTyped ==
  ASSUME NEW N \in Nat, NEW Q, NEW b \in Q, NEW F \in Steps(N, Q), NEW f,
         f[0] = b, \A n \in 1 .. N : f[n - 1] \in Q => f[n] = F[<<n, f[n - 1]>>]
  PROVE  /\ \A n \in 0 .. N : f[n] \in Q
         /\ \A n \in 1 .. N : f[n - 1] \in Q
<1> DEFINE Good == {n \in 0 .. N : f[n] \in Q}
<1>1. 0 \in Good
  OBVIOUS
<1>2. ASSUME NEW n \in 1 .. N, n - 1 \in Good PROVE n \in Good
  <2>1. f[n - 1] \in Q
    BY <1>2
  <2>2. <<n, f[n - 1]>> \in (1 .. N) \X Q
    BY <2>1
  <2>3. F[<<n, f[n - 1]>>] \in Q
    BY <2>2 DEF Steps
  <2>. QED  BY <2>1, <2>3
<1> HIDE DEF Good
<1>3. 0 .. N \subseteq Good
  BY <1>1, <1>2, InductionTo
<1>4. \A n \in 0 .. N : f[n] \in Q
  BY <1>3 DEF Good
<1>5. \A n \in 1 .. N : n - 1 \in 0 .. N
  OBVIOUS
<1>. QED  BY <1>4, <1>5

Ranges == [lo : Nat, hi : Nat]

\* A pass of the loop keeps the half of the range that the middle points to.
Halves(s, need, range, mid, t) ==
  /\ t \in Ranges
  /\ range.lo < range.hi =>
       /\ mid \in Nat /\ range.lo <= mid /\ mid < range.hi
       /\ t = IF Yield(s, mid * s.inc) >= need THEN [lo |-> range.lo, hi |-> mid]
              ELSE [lo |-> mid + 1, hi |-> range.hi]
  /\ range.lo >= range.hi => t = range

LEMMA HalvedIsRange ==
  ASSUME NEW s, NEW need, NEW range \in Ranges
  PROVE  Halves(s, need, range, range.lo + (range.hi - range.lo) \div 2, Halved(s, need, range))
<1> DEFINE mid == range.lo + (range.hi - range.lo) \div 2
<1>1. range.lo \in Nat /\ range.hi \in Nat
  BY DEF Ranges
<1>2. range.lo < range.hi => mid \in Nat /\ range.lo <= mid /\ mid < range.hi
  BY <1>1
<1>3. Halved(s, need, range) =
        IF range.lo >= range.hi THEN range
        ELSE IF Yield(s, mid * s.inc) >= need THEN [lo |-> range.lo, hi |-> mid]
        ELSE [lo |-> mid + 1, hi |-> range.hi]
  BY Zenon DEF Halved
<1> HIDE DEF mid
<1>4. Halved(s, need, range) \in Ranges
  BY <1>1, <1>2, <1>3 DEF Ranges
<1>5. range.lo < range.hi => ~(range.lo >= range.hi)
  BY <1>1
<1>6. Halves(s, need, range, mid, Halved(s, need, range))
  BY <1>2, <1>3, <1>4, <1>5 DEF Halves
<1>. QED  BY <1>6 DEF mid

Bisections(s, need, lo, hi) ==
  {range \in [0 .. hi -> Ranges] :
     /\ range[0] = [lo |-> lo, hi |-> hi]
     /\ \A n \in 1 .. hi : range[n - 1] \in Ranges /\ range[n] = Halved(s, need, range[n - 1])
     /\ Bisect(s, need, lo, hi) = range[hi].lo}

LEMMA BisectRuns ==
  ASSUME NEW s, NEW need, NEW lo \in Nat, NEW hi \in Nat
  PROVE  Bisections(s, need, lo, hi) # {}
<1> DEFINE b == [lo |-> lo, hi |-> hi]
           F == [x \in (1 .. hi) \X Ranges |-> Halved(s, need, x[2])]
           IsRun(g) == g = [n \in 0 .. hi |-> IF n = 0 THEN b ELSE Halved(s, need, g[n - 1])]
           f == CHOOSE g : IsRun(g)
<1>1. b \in Ranges
  BY DEF Ranges
<1>2. F \in Steps(hi, Ranges)
  BY HalvedIsRange DEF Steps, Halves
<1>3. \A n \in 1 .. hi, r \in Ranges : F[<<n, r>>] = Halved(s, need, r)
  OBVIOUS
<1>4. Bisect(s, need, lo, hi) = f[hi].lo
  BY Zenon DEF Bisect
<1> HIDE DEF F, b
<1>5. IsRun(f)
  <2>1. PICK g \in [0 .. hi -> Ranges] :
          g[0] = b /\ \A n \in 1 .. hi : g[n] = F[<<n, g[n - 1]>>]
    <3>1. Runs(hi, Ranges, b, F) # {}
      BY <1>1, <1>2, RecursionDefined
    <3>. QED  BY <3>1 DEF Runs
  <2>2. ASSUME NEW n \in 1 .. hi PROVE g[n] = Halved(s, need, g[n - 1])
    <3>1. n - 1 \in 0 .. hi
      OBVIOUS
    <3>2. g[n - 1] \in Ranges
      BY <3>1
    <3>. QED  BY <1>3, <2>1, <3>2
  <2> DEFINE h == [n \in 0 .. hi |-> IF n = 0 THEN b ELSE Halved(s, need, g[n - 1])]
  <2>3. \A n \in 0 .. hi : g[n] = h[n]
    BY <2>1, <2>2
  <2>4. h = [n \in 0 .. hi |-> h[n]] /\ g = [n \in 0 .. hi |-> g[n]]
    BY <2>1
  <2>5. IsRun(g)
    BY <2>3, <2>4
  <2>. QED  BY <2>5
<1> HIDE DEF f
<1>6. f[0] = b /\ \A n \in 1 .. hi : f[n] = Halved(s, need, f[n - 1])
  BY <1>5
<1>7. /\ \A n \in 0 .. hi : f[n] \in Ranges
      /\ \A n \in 1 .. hi : f[n - 1] \in Ranges
  BY <1>1, <1>2, <1>3, <1>6, RecursionTyped
<1>8. f \in [0 .. hi -> Ranges]
  <2>1. f = [n \in 0 .. hi |-> f[n]]
    BY <1>5
  <2>. QED  BY <1>7, <2>1
<1>9. f \in Bisections(s, need, lo, hi)
  BY <1>4, <1>6, <1>7, <1>8 DEF b, Bisections
<1>. QED  BY <1>9

LEMMA BisectFinds ==
  ASSUME NEW s, IsSource(s), NEW need \in Nat, NEW lo \in Nat \ {0}, NEW hi \in Nat, lo <= hi,
         Yield(s, hi * s.inc) >= need
  PROVE  LET k == Bisect(s, need, lo, hi)
         IN  /\ k \in lo .. hi /\ Yield(s, k * s.inc) >= need
             /\ \A j \in lo .. k - 1 : Yield(s, j * s.inc) < need
<1> DEFINE enough(k) == Yield(s, k * s.inc) >= need
<1>1. \A j, k \in Nat : j <= k /\ enough(j) => enough(k)
  <2> SUFFICES ASSUME NEW j \in Nat, NEW k \in Nat, j <= k, enough(j) PROVE enough(k)
    OBVIOUS
  <2>1. j * s.inc \in Nat /\ k * s.inc \in Nat /\ j * s.inc <= k * s.inc
    BY DEF IsSource
  <2> DEFINE a == j * s.inc  b == k * s.inc
  <2> HIDE DEF a, b
  <2>2. a \in Nat /\ b \in Nat /\ a <= b
    BY <2>1 DEF a, b
  <2>3. Yield(s, a) \in Nat /\ Yield(s, b) \in Nat /\ Yield(s, a) <= Yield(s, b)
    BY <2>2, YieldGrows DEF IsSource
  <2>4. Yield(s, a) >= need
    BY DEF a
  <2>5. Yield(s, b) >= need
    BY <2>3, <2>4
  <2>. QED  BY <2>5 DEF b
<1>2. \A k \in Nat : Yield(s, k * s.inc) \in Nat
  <2>1. \A k \in Nat : k * s.inc \in Nat
    BY DEF IsSource
  <2>. QED  BY <2>1, YieldGrows DEF IsSource
<1>3. PICK range \in [0 .. hi -> Ranges] :
        /\ range[0] = [lo |-> lo, hi |-> hi]
        /\ \A n \in 1 .. hi : range[n - 1] \in Ranges /\ range[n] = Halved(s, need, range[n - 1])
        /\ Bisect(s, need, lo, hi) = range[hi].lo
  <2>1. lo \in Nat
    OBVIOUS
  <2>2. Bisections(s, need, lo, hi) # {}
    BY <2>1, BisectRuns
  <2>. QED  BY <2>2 DEF Bisections
<1>4. enough(hi)
  OBVIOUS
<1> HIDE DEF enough
<1> DEFINE Narrow(r, n) ==
             /\ lo <= r.lo /\ r.lo <= r.hi /\ r.hi <= hi /\ enough(r.hi)
             /\ \A j \in lo .. r.lo - 1 : ~enough(j)
             /\ r.lo = r.hi \/ r.hi - r.lo + n <= hi - lo
           Good == {n \in 0 .. hi : Narrow(range[n], n)}
<1>5. 0 \in Good
  <2>1. range[0].lo = lo /\ range[0].hi = hi
    BY <1>3
  <2>. QED  BY <1>4, <2>1
<1>6. ASSUME NEW n \in 1 .. hi, n - 1 \in Good PROVE n \in Good
  <2> DEFINE r == range[n - 1]
             t == range[n]
             mid == r.lo + (r.hi - r.lo) \div 2
  <2>1. /\ r \in Ranges /\ t = Halved(s, need, r) /\ Narrow(r, n - 1)
        /\ r.lo \in Nat /\ r.hi \in Nat
    BY <1>3, <1>6 DEF Ranges
  <2>2. /\ r.lo < r.hi =>
             /\ mid \in Nat /\ r.lo <= mid /\ mid < r.hi
             /\ t = IF enough(mid) THEN [lo |-> r.lo, hi |-> mid]
                    ELSE [lo |-> mid + 1, hi |-> r.hi]
        /\ r.lo >= r.hi => t = r
    <3> HIDE DEF r, t
    <3>1. Halves(s, need, r, r.lo + (r.hi - r.lo) \div 2, Halved(s, need, r))
      BY <2>1, HalvedIsRange, Zenon
    <3>2. Halves(s, need, r, mid, t)
      BY <2>1, <3>1, Zenon
    <3> HIDE DEF mid
    <3>. QED  BY <3>2, Zenon DEF Halves, enough
  <2> HIDE DEF r, t, mid
  <2>3. Narrow(t, n)
    <3>0. r.lo \in Nat /\ r.hi \in Nat /\ (r.lo = r.hi \/ r.hi - r.lo + (n - 1) <= hi - lo)
      BY <2>1
    <3>1. CASE r.lo >= r.hi
      BY <2>1, <2>2, <3>1
    <3>2. CASE r.lo < r.hi /\ enough(mid)
      <4>1. t.lo = r.lo /\ t.hi = mid
        BY <2>2, <3>2
      <4>2. lo <= t.lo /\ t.lo <= t.hi /\ t.hi <= hi /\ enough(t.hi)
        BY <2>1, <2>2, <3>2, <4>1
      <4>3. \A j \in lo .. t.lo - 1 : ~enough(j)
        BY <2>1, <4>1
      <4>4. t.hi - t.lo + n <= hi - lo
        <5>1. mid \in Nat /\ r.lo <= mid /\ mid < r.hi
          BY <2>2, <3>2
        <5>. QED  BY <3>0, <3>2, <4>1, <5>1
      <4>. QED  BY <4>2, <4>3, <4>4
    <3>3. CASE r.lo < r.hi /\ ~enough(mid)
      <4>1. t.lo = mid + 1 /\ t.hi = r.hi
        BY <2>2, <3>3
      <4>2. \A j \in lo .. mid : ~enough(j)
        BY <1>1, <2>2, <3>3
      <4>3. lo <= t.lo /\ t.lo <= t.hi /\ t.hi <= hi /\ enough(t.hi)
        BY <2>1, <2>2, <3>3, <4>1
      <4>4. \A j \in lo .. t.lo - 1 : ~enough(j)
        BY <2>2, <3>3, <4>1, <4>2
      <4>5. t.hi - t.lo + n <= hi - lo
        <5>1. mid \in Nat /\ r.lo <= mid /\ mid < r.hi
          BY <2>2, <3>3
        <5>. QED  BY <3>0, <3>3, <4>1, <5>1
      <4>. QED  BY <4>3, <4>4, <4>5
    <3>. QED  BY <2>1, <3>1, <3>2, <3>3
  <2>. QED  BY <2>3 DEF t
<1> HIDE DEF Good
<1>7. 0 .. hi \subseteq Good
  BY <1>5, <1>6, InductionTo
<1>8. Narrow(range[hi], hi) /\ range[hi] \in Ranges
  BY <1>7 DEF Good
<1> DEFINE k == Bisect(s, need, lo, hi)
           top == range[hi].hi
<1>9. /\ k = range[hi].lo /\ k \in Nat /\ top \in Nat
      /\ lo <= k /\ k <= top /\ top <= hi /\ enough(top)
      /\ \A j \in lo .. k - 1 : ~enough(j)
      /\ k = top \/ top - k + hi <= hi - lo
  BY <1>3, <1>8 DEF Ranges
<1> HIDE DEF k, top
<1>10. k = top
  BY <1>9
<1>11. k \in lo .. hi /\ enough(k) /\ \A j \in lo .. k - 1 : ~enough(j)
  BY <1>9, <1>10
<1>12. \A j \in lo .. k - 1 : Yield(s, j * s.inc) < need
  <2> SUFFICES ASSUME NEW j \in lo .. k - 1 PROVE Yield(s, j * s.inc) < need
    OBVIOUS
  <2>1. j \in Nat /\ ~enough(j)
    BY <1>9, <1>11
  <2> DEFINE y == Yield(s, j * s.inc)
  <2>2. y \in Nat /\ ~(y >= need)
    BY <1>2, <2>1 DEF enough
  <2> HIDE DEF y
  <2>3. y < need
    BY <2>2
  <2>. QED  BY <2>3 DEF y
<1>. QED  BY <1>11, <1>12 DEF enough, k

(* What minAmountFor returns is the least legal amount of a source that covers  *)
(* the need; it gives up only when all of the source would not.                 *)
THEOREM MinAmountIsLeast ==
  ASSUME NEW s, IsSource(s), NEW need \in Nat \ {0}
  PROVE  LET x == MinAmountFor(s, need)
         IN  IF s.maxDest < need THEN x = None
             ELSE /\ x \in Legal(s) /\ x \in Nat /\ x # None /\ Yield(s, x) >= need
                  /\ \A y \in Legal(s) : Yield(s, y) >= need => x <= y
<1> DEFINE inc == s.inc
           least == CeilDiv(s.min, inc)
           lo == Max({1, least})
           hi == s.usable \div inc
           k == Bisect(s, need, lo, hi)
           x == k * inc
<1>1. MinAmountFor(s, need) =
        IF need <= 0 THEN 0
        ELSE IF s.maxDest < need \/ hi < lo THEN None
        ELSE IF Yield(s, x) >= need THEN x ELSE None
  BY DEF MinAmountFor
<1>2. /\ inc \in Nat \ {0} /\ s.min \in Nat /\ s.usable \in Nat \ {0} /\ s.usable % inc = 0
      /\ s.min <= s.usable /\ s.maxDest \in Nat /\ s.maxDest = Yield(s, s.usable)
  BY DEF IsSource
<1> HIDE DEF inc
<1>3. PICK blocks \in Nat : s.usable = blocks * inc
  BY <1>2, WholeBlocks
<1>4. blocks # 0 /\ hi = blocks
  <2>1. blocks # 0
    BY <1>2, <1>3
  <2>2. hi \in Nat /\ \A j \in Nat : hi >= j <=> s.usable >= j * inc
    BY <1>2, FloorDivGreatest
  <2> HIDE DEF hi
  <2>3. hi >= blocks
    BY <1>2, <1>3, <2>2
  <2>4. ~(hi >= blocks + 1)
    <3>1. (blocks + 1) * inc = blocks * inc + inc
      BY <1>2
    <3>2. blocks * inc \in Nat /\ ~(blocks * inc >= (blocks + 1) * inc)
      BY <1>2, <3>1
    <3>. QED  BY <1>3, <2>2, <3>2
  <2>. QED  BY <2>1, <2>2, <2>3, <2>4
<1> HIDE DEF hi
<1>5. least \in Nat /\ \A j \in Nat : j * inc >= s.min <=> j >= least
  BY <1>2, CeilDivLeast
<1> HIDE DEF least
<1>6. lo \in Nat /\ \A j \in Nat : j >= lo <=> j >= 1 /\ j >= least
  BY <1>5, MaxOfTwo
<1> HIDE DEF lo
<1>7. lo \in Nat \ {0} /\ lo <= hi
  BY <1>2, <1>3, <1>4, <1>5, <1>6
<1>8. CASE s.maxDest < need
  BY <1>1, <1>8
<1>9. CASE ~(s.maxDest < need)
  <2>1. Yield(s, hi * s.inc) >= need
    BY <1>2, <1>3, <1>4, <1>9 DEF inc
  <2>2. /\ k \in lo .. hi /\ Yield(s, x) >= need
        /\ \A j \in lo .. k - 1 : Yield(s, j * inc) < need
    BY <1>4, <1>7, <2>1, BisectFinds DEF inc
  <2> HIDE DEF k
  <2>3. k \in Nat /\ k >= 1 /\ k >= least /\ k <= blocks
    BY <1>4, <1>6, <1>7, <2>2
  <2>4. x \in Nat /\ x > 0 /\ x % inc = 0 /\ x >= s.min
    <3>1. x \in Nat /\ x > 0
      BY <1>2, <2>3
    <3>2. x % inc = 0
      BY <1>2, <2>3, WholeBlocks
    <3>3. x >= s.min
      BY <1>5, <2>3
    <3>. QED  BY <3>1, <3>2, <3>3
  <2>5. x <= s.usable
    BY <1>2, <1>3, <2>3
  <2>6. x \in Legal(s)
    BY <1>2, <2>4, <2>5 DEF Legal, Block, inc
  <2>7. MinAmountFor(s, need) = x /\ x # None
    <3>1. ~(need <= 0) /\ ~(hi < lo)
      BY <1>4, <1>7
    <3>. QED  BY <1>1, <1>9, <2>2, <2>4, <3>1, TransfersAssumption
  <2>8. ASSUME NEW y \in Legal(s), Yield(s, y) >= need PROVE x <= y
    <3>1. y \in Nat
      BY <1>2 DEF Legal
    <3>2. y # 0
      <4>1. Yield(s, 0) = 0
        BY YieldGrows DEF IsSource
      <4>. QED  BY <2>8, <4>1
    <3>3. y % inc = 0 /\ y >= s.min
      BY <3>2 DEF Legal, Block, inc
    <3>4. PICK j \in Nat : y = j * inc
      BY <1>2, <3>1, <3>3, WholeBlocks
    <3>5. j >= lo
      <4>1. j # 0
        BY <1>2, <3>2, <3>4
      <4>. QED  BY <1>5, <1>6, <3>3, <3>4, <4>1
    <3>6. ~(j \in lo .. k - 1)
      <4> SUFFICES ASSUME j \in lo .. k - 1 PROVE FALSE
        OBVIOUS
      <4>1. Yield(s, y) < need
        BY <2>2, <3>4
      <4>2. Yield(s, y) \in Nat
        BY <3>1, YieldGrows DEF IsSource
      <4>. QED  BY <2>8, <4>1, <4>2
    <3>7. k <= j
      BY <1>7, <2>3, <3>5, <3>6
    <3>. QED  BY <1>2, <2>3, <3>4, <3>7
  <2>. QED  BY <1>9, <2>2, <2>4, <2>6, <2>7, <2>8
<1>. QED  BY <1>8, <1>9

--------------------------------------------------------------------------------
(* Fills: what has been picked covers what is no longer left of the need.       *)

Picks(S) == [source : S, amount : Nat]
Fills(S) == [picks : Seq(Picks(S)), left : Int]

LEMMA PickSums ==
  ASSUME NEW S, \A s \in S : IsSource(s), NEW picks \in Seq(Picks(S))
  PROVE  /\ PickYield(picks) \in Nat /\ PickCost(picks) \in Nat /\ PickAmount(picks) \in Nat
         /\ PickYield(<<>>) = 0 /\ PickCost(<<>>) = 0
<1> DEFINE n == Len(picks)
           y == [i \in DOMAIN picks |-> Yield(picks[i].source, picks[i].amount)]
           c == [i \in DOMAIN picks |-> picks[i].source.weight * picks[i].amount]
           a == [i \in DOMAIN picks |-> picks[i].amount]
<1>1. n \in Nat /\ DOMAIN picks = 1 .. n /\ n \in 0 .. n
  OBVIOUS
<1>2. \A i \in 1 .. n : picks[i].source \in S /\ picks[i].amount \in Nat
  <2>1. \A i \in 1 .. n : picks[i] \in Picks(S)
    OBVIOUS
  <2> HIDE DEF n
  <2>. QED  BY <2>1 DEF Picks
<1> HIDE DEF n
<1>3. ASSUME NEW i \in 1 .. n PROVE y[i] \in Nat /\ c[i] \in Nat /\ a[i] \in Nat
  <2> DEFINE s == picks[i].source  x == picks[i].amount
  <2>1. IsSource(s) /\ x \in Nat
    BY <1>2
  <2>2. y[i] = Yield(s, x) /\ c[i] = s.weight * x /\ a[i] = x
    BY <1>1
  <2> HIDE DEF s, x
  <2>3. Yield(s, x) \in Nat
    BY <2>1, YieldGrows DEF IsSource
  <2>4. s.weight * x \in Nat
    BY <2>1 DEF IsSource
  <2>. QED  BY <2>1, <2>2, <2>3, <2>4
<1>4. PickYield(picks) = Total(y, n) /\ PickCost(picks) = Total(c, n) /\ PickAmount(picks) = Total(a, n)
  BY Zenon DEF PickYield, PickCost, PickAmount, n
<1> HIDE DEF y, c, a
<1>5. Total(y, n) \in Nat /\ Total(c, n) \in Nat /\ Total(a, n) \in Nat
  BY <1>1, <1>3, TotalBounds
<1>6. PickYield(<<>>) = 0 /\ PickCost(<<>>) = 0
  <2> DEFINE none == <<>>
             yn == [i \in DOMAIN none |-> Yield(none[i].source, none[i].amount)]
             cn == [i \in DOMAIN none |-> none[i].source.weight * none[i].amount]
  <2>1. PickYield(none) = Total(yn, Len(none)) /\ PickCost(none) = Total(cn, Len(none))
    BY Zenon DEF PickYield, PickCost
  <2>2. Len(none) = 0
    OBVIOUS
  <2> HIDE DEF yn, cn, none
  <2>3. Total(yn, 0) = 0 /\ Total(cn, 0) = 0
    BY TotalStep
  <2>4. PickYield(none) = 0 /\ PickCost(none) = 0
    BY <2>1, <2>2, <2>3
  <2>. QED  BY <2>4 DEF none
<1>. QED  BY <1>4, <1>5, <1>6

LEMMA PickAppended ==
  ASSUME NEW S, \A s \in S : IsSource(s), NEW picks \in Seq(Picks(S)), NEW s \in S, NEW x \in Nat
  PROVE  LET more == Append(picks, Pick(s, x))
         IN  /\ more \in Seq(Picks(S))
             /\ PickYield(more) = PickYield(picks) + Yield(s, x)
             /\ PickCost(more) = PickCost(picks) + s.weight * x
<1> DEFINE n == Len(picks)
           more == Append(picks, Pick(s, x))
           y(p) == [i \in DOMAIN p |-> Yield(p[i].source, p[i].amount)]
           c(p) == [i \in DOMAIN p |-> p[i].source.weight * p[i].amount]
<1>1. Pick(s, x) \in Picks(S) /\ Pick(s, x).source = s /\ Pick(s, x).amount = x
  BY DEF Pick, Picks
<1>2. /\ more \in Seq(Picks(S)) /\ n \in Nat /\ Len(more) = n + 1
      /\ DOMAIN picks = 1 .. n /\ DOMAIN more = 1 .. n + 1
      /\ more[n + 1] = Pick(s, x) /\ \A i \in 1 .. n : more[i] = picks[i]
      /\ \A i \in 1 .. n : picks[i].source \in S /\ picks[i].amount \in Nat
  <2>1. /\ more \in Seq(Picks(S)) /\ n \in Nat /\ Len(more) = n + 1
        /\ DOMAIN picks = 1 .. n /\ DOMAIN more = 1 .. n + 1
        /\ more[n + 1] = Pick(s, x) /\ \A i \in 1 .. n : more[i] = picks[i]
    BY <1>1
  <2>2. \A i \in 1 .. n : picks[i] \in Picks(S)
    OBVIOUS
  <2> HIDE DEF n, more
  <2>. QED  BY <2>1, <2>2 DEF Picks
<1>3. /\ PickYield(picks) = Total(y(picks), n) /\ PickYield(more) = Total(y(more), Len(more))
      /\ PickCost(picks) = Total(c(picks), n) /\ PickCost(more) = Total(c(more), Len(more))
  BY Zenon DEF PickYield, PickCost
<1> HIDE DEF n, more
<1>4. ASSUME NEW i \in 1 .. n
      PROVE  /\ y(picks)[i] \in Int /\ y(more)[i] = y(picks)[i]
             /\ c(picks)[i] \in Int /\ c(more)[i] = c(picks)[i]
  <2> DEFINE t == picks[i].source  z == picks[i].amount
  <2>1. IsSource(t) /\ z \in Nat /\ more[i] = picks[i]
    BY <1>2
  <2>2. i \in DOMAIN picks /\ i \in DOMAIN more
    BY <1>2
  <2>3. y(picks)[i] = Yield(t, z) /\ y(more)[i] = Yield(t, z)
    BY <2>1, <2>2
  <2>4. c(picks)[i] = t.weight * z /\ c(more)[i] = t.weight * z
    BY <2>1, <2>2
  <2> HIDE DEF t, z, y, c
  <2>5. Yield(t, z) \in Int /\ t.weight * z \in Int
    <3>1. Yield(t, z) \in Nat
      BY <2>1, YieldGrows DEF IsSource
    <3>2. t.weight * z \in Nat
      BY <2>1 DEF IsSource
    <3>. QED  BY <3>1, <3>2
  <2>. QED  BY <2>3, <2>4, <2>5
<1>5. y(more)[n + 1] = Yield(s, x) /\ c(more)[n + 1] = s.weight * x
  <2>1. n + 1 \in DOMAIN more
    BY <1>2
  <2>. QED  BY <1>1, <1>2, <2>1
<1>6. Yield(s, x) \in Int /\ s.weight * x \in Int
  <2>1. Yield(s, x) \in Nat
    BY YieldGrows DEF IsSource
  <2>2. s.weight * x \in Nat
    BY DEF IsSource
  <2>. QED  BY <2>1, <2>2
<1> HIDE DEF y, c
<1>7. Total(y(more), n + 1) = Total(y(picks), n) + y(more)[n + 1]
  BY <1>2, <1>4, <1>5, <1>6, TotalAppended
<1>8. Total(c(more), n + 1) = Total(c(picks), n) + c(more)[n + 1]
  BY <1>2, <1>4, <1>5, <1>6, TotalAppended
<1>. QED  BY <1>2, <1>3, <1>5, <1>7, <1>8 DEF more

(* A fill is sound when it spends legal amounts of sources in U, of each once,  *)
(* and has covered no less than it says and no more than cap.                   *)
Sound(fill, S, U, need, cap) ==
  /\ fill \in Fills(S)
  /\ \A i \in 1 .. Len(fill.picks) :
       fill.picks[i].source \in U /\ fill.picks[i].amount \in Legal(fill.picks[i].source)
  /\ \A i, j \in 1 .. Len(fill.picks) : fill.picks[i].source = fill.picks[j].source => i = j
  /\ PickYield(fill.picks) >= need - fill.left
  /\ need - fill.left <= cap

LEMMA UnfilledIsSound ==
  ASSUME NEW S, \A s \in S : IsSource(s), NEW need \in Nat
  PROVE  Sound(Unfilled(need), S, {}, need, 0) /\ Unfilled(need).left = need
<1>1. /\ Unfilled(need).picks = <<>> /\ Unfilled(need).left = need
      /\ Unfilled(need) \in Fills(S)
  <2>1. <<>> \in Seq(Picks(S))
    OBVIOUS
  <2>. QED  BY <2>1 DEF Unfilled, Fills
<1>2. PickYield(<<>>) = 0
  <2>1. <<>> \in Seq(Picks(S))
    OBVIOUS
  <2>. QED  BY <2>1, PickSums
<1>3. Len(<<>>) = 0
  OBVIOUS
<1>. QED  BY <1>1, <1>2, <1>3 DEF Sound

LEMMA StaysSound ==
  ASSUME NEW fill, NEW S, NEW U, NEW V, U \subseteq V, NEW need \in Nat,
         NEW cap \in Int, NEW more \in Int, cap <= more, Sound(fill, S, U, need, cap)
  PROVE  Sound(fill, S, V, need, more)
<1>1. fill.left \in Int
  BY DEF Sound, Fills
<1>2. need - fill.left <= more
  BY <1>1 DEF Sound
<1>. QED  BY <1>2 DEF Sound

LEMMA TakenIsSound ==
  ASSUME NEW S, \A s \in S : IsSource(s), NEW U \in SUBSET S, NEW need \in Nat, NEW cap \in Int,
         NEW fill, Sound(fill, S, U, need, cap),
         NEW s \in S, s \notin U, NEW x \in Legal(s), x \in Nat,
         NEW covers \in Int, Yield(s, x) >= covers, covers <= s.maxDest
  PROVE  LET taken == Taken(fill, s, x, covers)
         IN  /\ Sound(taken, S, U \union {s}, need, cap + s.maxDest)
             /\ PickCost(taken.picks) = PickCost(fill.picks) + s.weight * x
<1> DEFINE taken == Taken(fill, s, x, covers)
           picks == fill.picks
           n == Len(picks)
<1>1. picks \in Seq(Picks(S)) /\ fill.left \in Int
  BY DEF Sound, Fills
<1>2. taken.picks = Append(picks, Pick(s, x)) /\ taken.left = fill.left - covers
  BY DEF Taken
<1>3. /\ taken.picks \in Seq(Picks(S))
      /\ PickYield(taken.picks) = PickYield(picks) + Yield(s, x)
      /\ PickCost(taken.picks) = PickCost(picks) + s.weight * x
  BY <1>1, <1>2, PickAppended
<1>4. taken \in Fills(S)
  <2>1. taken = [picks |-> Append(picks, Pick(s, x)), left |-> fill.left - covers]
    BY DEF Taken
  <2>. QED  BY <1>1, <1>2, <1>3, <2>1 DEF Fills
<1>5. /\ n \in Nat /\ Len(taken.picks) = n + 1
      /\ taken.picks[n + 1].source = s /\ taken.picks[n + 1].amount = x
      /\ \A i \in 1 .. n : taken.picks[i] = picks[i]
  <2>1. Pick(s, x).source = s /\ Pick(s, x).amount = x
    BY DEF Pick
  <2>. QED  BY <1>1, <1>2, <2>1
<1>6. /\ \A i \in 1 .. n : picks[i].source \in U /\ picks[i].amount \in Legal(picks[i].source)
      /\ \A i, j \in 1 .. n : picks[i].source = picks[j].source => i = j
      /\ PickYield(picks) >= need - fill.left
      /\ need - fill.left <= cap
  BY DEF Sound
<1> HIDE DEF taken, picks, n
<1>7. \A i \in 1 .. n + 1 : i \in 1 .. n \/ i = n + 1
  BY <1>5
<1>8. \A i \in 1 .. n + 1 : /\ taken.picks[i].source \in U \union {s}
                            /\ taken.picks[i].amount \in Legal(taken.picks[i].source)
  BY <1>5, <1>6, <1>7
<1>9. ASSUME NEW i \in 1 .. n + 1, NEW j \in 1 .. n + 1,
             taken.picks[i].source = taken.picks[j].source
      PROVE  i = j
  BY <1>5, <1>6, <1>7, <1>9
<1>10. /\ PickYield(taken.picks) >= need - taken.left
       /\ need - taken.left <= cap + s.maxDest
  <2>1. PickYield(picks) \in Nat /\ Yield(s, x) \in Nat /\ s.maxDest \in Nat
    <3>1. PickYield(picks) \in Nat
      BY <1>1, PickSums
    <3>2. Yield(s, x) \in Nat
      BY YieldGrows DEF IsSource
    <3>. QED  BY <3>1, <3>2 DEF IsSource
  <2> DEFINE a == PickYield(picks)  b == Yield(s, x)  l == fill.left  m == s.maxDest
  <2>2. a \in Nat /\ b \in Nat /\ l \in Int /\ m \in Nat /\ b >= covers /\ covers <= m
        /\ a >= need - l /\ need - l <= cap
    BY <1>1, <1>6, <2>1
  <2>3. taken.left = l - covers /\ PickYield(taken.picks) = a + b
    BY <1>2, <1>3
  <2> HIDE DEF a, b, l, m
  <2>4. PickYield(taken.picks) >= need - taken.left /\ need - taken.left <= cap + m
    BY <2>2, <2>3
  <2>. QED  BY <2>4 DEF m
<1>11. Sound(taken, S, U \union {s}, need, cap + s.maxDest)
  BY <1>4, <1>5, <1>8, <1>9, <1>10 DEF Sound
<1>. QED  BY <1>2, <1>3, <1>11 DEF taken, picks

--------------------------------------------------------------------------------
(* The greedy fill: a step takes all of a source, or the rest of the need.      *)

LEMMA TakenIsFill ==
  ASSUME NEW S, NEW fill \in Fills(S), NEW s \in S, NEW x \in Nat, NEW covers \in Int
  PROVE  Taken(fill, s, x, covers) \in Fills(S)
<1>1. fill.picks \in Seq(Picks(S)) /\ fill.left \in Int
  BY DEF Fills
<1>2. Pick(s, x) \in Picks(S)
  BY DEF Pick, Picks
<1>3. Append(fill.picks, Pick(s, x)) \in Seq(Picks(S)) /\ fill.left - covers \in Int
  BY <1>1, <1>2
<1>. QED  BY <1>3 DEF Taken, Fills

\* All of a source is a legal amount of it.
LEMMA FullIsLegal ==
  ASSUME NEW s, IsSource(s)
  PROVE  s.usable \in Legal(s) /\ s.usable \in Nat /\ s.maxDest \in Nat
         /\ Yield(s, s.usable) = s.maxDest
BY DEF IsSource, Legal, Block

\* What one step of the greedy fill does, by what is left and what the source gives.
LEMMA GreedyStepIs ==
  ASSUME NEW s, IsSource(s), NEW fill, fill.left \in Int
  PROVE  LET x == MinAmountFor(s, fill.left)
         IN  /\ GreedyStep(fill, s) =
                  IF fill.left <= 0 THEN fill
                  ELSE IF s.maxDest <= fill.left THEN Taken(fill, s, s.usable, s.maxDest)
                  ELSE Taken(fill, s, x, fill.left)
             /\ ~(fill.left <= 0) /\ ~(s.maxDest <= fill.left)
                  => /\ x \in Legal(s) /\ x \in Nat /\ Yield(s, x) >= fill.left
                     /\ \A y \in Legal(s) : Yield(s, y) >= fill.left => x <= y
<1> DEFINE x == MinAmountFor(s, fill.left)
<1>1. GreedyStep(fill, s) =
        IF fill.left <= 0 THEN fill
        ELSE IF s.maxDest <= fill.left THEN Taken(fill, s, s.usable, s.maxDest)
        ELSE IF x = None THEN fill ELSE Taken(fill, s, x, fill.left)
  BY Zenon DEF GreedyStep
<1> HIDE DEF x
<1>2. ASSUME ~(fill.left <= 0), ~(s.maxDest <= fill.left)
      PROVE  /\ x \in Legal(s) /\ x \in Nat /\ x # None /\ Yield(s, x) >= fill.left
             /\ \A y \in Legal(s) : Yield(s, y) >= fill.left => x <= y
  <2>1. fill.left \in Nat \ {0} /\ ~(s.maxDest < fill.left)
    BY <1>2 DEF IsSource
  <2>. QED  BY <2>1, MinAmountIsLeast DEF x
<1>. QED  BY <1>1, <1>2 DEF x

LEMMA GreedyStepSound ==
  ASSUME NEW S, \A s \in S : IsSource(s), NEW U \in SUBSET S, NEW need \in Nat, NEW cap \in Int,
         NEW fill, Sound(fill, S, U, need, cap), NEW s \in S, s \notin U
  PROVE  Sound(GreedyStep(fill, s), S, U \union {s}, need, cap + s.maxDest)
<1> DEFINE next == GreedyStep(fill, s)
           x == MinAmountFor(s, fill.left)
<1>1. fill.left \in Int /\ IsSource(s)
  BY DEF Sound, Fills
<1>2. /\ s.usable \in Legal(s) /\ s.usable \in Nat /\ s.maxDest \in Nat
      /\ Yield(s, s.usable) = s.maxDest
  BY <1>1, FullIsLegal
<1>3. /\ next = IF fill.left <= 0 THEN fill
                ELSE IF s.maxDest <= fill.left THEN Taken(fill, s, s.usable, s.maxDest)
                ELSE Taken(fill, s, x, fill.left)
      /\ (~(fill.left <= 0) /\ ~(s.maxDest <= fill.left)
            => x \in Legal(s) /\ x \in Nat /\ Yield(s, x) >= fill.left)
  BY <1>1, GreedyStepIs
<1> HIDE DEF next, x
<1>4. CASE fill.left <= 0
  <2>1. U \subseteq U \union {s} /\ cap + s.maxDest \in Int /\ cap <= cap + s.maxDest
    BY <1>2
  <2>2. Sound(fill, S, U \union {s}, need, cap + s.maxDest)
    BY <2>1, StaysSound
  <2>. QED  BY <1>3, <1>4, <2>2 DEF next
<1>5. CASE ~(fill.left <= 0) /\ s.maxDest <= fill.left
  <2>1. s.maxDest \in Int /\ Yield(s, s.usable) >= s.maxDest /\ s.maxDest <= s.maxDest
    BY <1>2
  <2>2. Sound(Taken(fill, s, s.usable, s.maxDest), S, U \union {s}, need, cap + s.maxDest)
    BY <1>2, <2>1, TakenIsSound
  <2>. QED  BY <1>3, <1>5, <2>2 DEF next
<1>6. CASE ~(fill.left <= 0) /\ ~(s.maxDest <= fill.left)
  <2>1. x \in Legal(s) /\ x \in Nat /\ Yield(s, x) >= fill.left /\ fill.left <= s.maxDest
    BY <1>1, <1>2, <1>3, <1>6
  <2>2. Sound(Taken(fill, s, x, fill.left), S, U \union {s}, need, cap + s.maxDest)
    BY <1>1, <2>1, TakenIsSound
  <2>. QED  BY <1>3, <1>6, <2>2 DEF next
<1>. QED  BY <1>4, <1>5, <1>6

--------------------------------------------------------------------------------
Dests(sources) == [i \in DOMAIN sources |-> sources[i].maxDest]
Cap(sources, n) == Total(Dests(sources), n)

LEMMA CapSteps ==
  ASSUME NEW sources, AreSources(sources)
  PROVE  LET N == Len(sources)
         IN  /\ Cap(sources, 0) = 0 /\ \A n \in 0 .. N : Cap(sources, n) \in Nat
             /\ \A n \in 1 .. N : /\ Cap(sources, n) = Cap(sources, n - 1) + sources[n].maxDest
                                  /\ Cap(sources, n - 1) \in Nat
             /\ \A n \in 0 .. N : Cap(sources, n) <= Cap(sources, N)
<1> DEFINE N == Len(sources)  f == Dests(sources)
<1>1. N \in Nat /\ \A i \in 1 .. N : f[i] = sources[i].maxDest /\ f[i] \in Nat
  BY DEF AreSources, IsSource, Dests
<1> HIDE DEF N, f
<1>2. /\ Total(f, 0) = 0
      /\ \A n \in 1 .. N : Total(f, n) = Total(f, n - 1) + f[n]
  BY <1>1, TotalStep
<1>3. \A n \in 0 .. N : Total(f, n) \in Nat /\ Total(f, n) <= Total(f, N)
  BY <1>1, TotalBounds
<1>4. \A n \in 1 .. N : n - 1 \in 0 .. N
  BY <1>1
<1>. QED  BY <1>1, <1>2, <1>3, <1>4, Zenon DEF Cap, f, N

\* The first sources of a list, and the one that comes next.
FirstOf(sources, n) == {sources[i] : i \in 1 .. n}

LEMMA FirstSources ==
  ASSUME NEW sources, AreSources(sources)
  PROVE  LET N == Len(sources)  S == ToSet(sources)
         IN  /\ N \in Nat /\ \A s \in S : IsSource(s)
             /\ FirstOf(sources, 0) = {} /\ FirstOf(sources, N) = S
             /\ \A n \in 1 .. N : /\ FirstOf(sources, n - 1) \in SUBSET S
                                  /\ sources[n] \in S /\ sources[n] \notin FirstOf(sources, n - 1)
                                  /\ FirstOf(sources, n) = FirstOf(sources, n - 1) \union {sources[n]}
<1> DEFINE N == Len(sources)  S == ToSet(sources)
<1>1. /\ N \in Nat /\ S = FirstOf(sources, N) /\ \A i \in 1 .. N : sources[i] \in S
      /\ \A i \in 1 .. N : IsSource(sources[i])
      /\ \A i, j \in 1 .. N : i < j => sources[i] # sources[j]
  BY DEF AreSources, ToSet, FirstOf
<1> HIDE DEF N, S
<1>2. \A s \in S : IsSource(s)
  BY <1>1 DEF FirstOf
<1>3. FirstOf(sources, 0) = {}
  BY DEF FirstOf
<1>4. ASSUME NEW n \in 1 .. N
      PROVE  /\ FirstOf(sources, n - 1) \in SUBSET S
             /\ sources[n] \in S /\ sources[n] \notin FirstOf(sources, n - 1)
             /\ FirstOf(sources, n) = FirstOf(sources, n - 1) \union {sources[n]}
  <2>1. /\ \A i \in 1 .. n - 1 : i \in 1 .. N /\ i < n /\ i \in 1 .. n
        /\ \A i \in 1 .. n : i \in 1 .. n - 1 \/ i = n
        /\ n \in 1 .. n
    BY <1>1
  <2>. QED  BY <1>1, <2>1 DEF FirstOf
<1>. QED  BY <1>1, <1>2, <1>3, <1>4 DEF N, S

--------------------------------------------------------------------------------
(* The greedy fill fails only when all sources together do not cover the need.  *)

Greedies(sources, need) ==
  LET N == Len(sources)  Q == Fills(ToSet(sources)) IN
  {fill \in [0 .. N -> Q] :
     /\ fill[0] = Unfilled(need)
     /\ \A n \in 1 .. N : fill[n - 1] \in Q /\ fill[n] = GreedyStep(fill[n - 1], sources[n])
     /\ Greedy(sources, need) = fill[N]}

LEMMA UnfilledIsFill ==
  ASSUME NEW S, NEW need \in Int
  PROVE  Unfilled(need) \in Fills(S)
<1>1. <<>> \in Seq(Picks(S))
  OBVIOUS
<1>. QED  BY <1>1 DEF Unfilled, Fills

LEMMA GreedyStepIsFill ==
  ASSUME NEW S, \A s \in S : IsSource(s), NEW fill \in Fills(S), NEW s \in S
  PROVE  GreedyStep(fill, s) \in Fills(S)
<1>1. fill.left \in Int /\ IsSource(s)
  BY DEF Fills
<1>2. s.usable \in Nat /\ s.maxDest \in Int
  BY <1>1, FullIsLegal
<1> DEFINE x == MinAmountFor(s, fill.left)
<1>3. /\ GreedyStep(fill, s) =
           IF fill.left <= 0 THEN fill
           ELSE IF s.maxDest <= fill.left THEN Taken(fill, s, s.usable, s.maxDest)
           ELSE Taken(fill, s, x, fill.left)
      /\ ~(fill.left <= 0) /\ ~(s.maxDest <= fill.left) => x \in Nat
  BY <1>1, GreedyStepIs
<1> HIDE DEF x
<1>4. Taken(fill, s, s.usable, s.maxDest) \in Fills(S)
  BY <1>2, TakenIsFill
<1>5. x \in Nat => Taken(fill, s, x, fill.left) \in Fills(S)
  BY <1>1, TakenIsFill
<1>. QED  BY <1>3, <1>4, <1>5

LEMMA GreedyRuns ==
  ASSUME NEW sources, AreSources(sources), NEW need \in Nat
  PROVE  Greedies(sources, need) # {}
<1> DEFINE N == Len(sources)
           Q == Fills(ToSet(sources))
           b == Unfilled(need)
           F == [x \in (1 .. N) \X Q |-> GreedyStep(x[2], sources[x[1]])]
           IsRun(g) == g = [n \in 0 .. N |-> IF n = 0 THEN b ELSE GreedyStep(g[n - 1], sources[n])]
           f == CHOOSE g : IsRun(g)
<1>1. b \in Q
  BY UnfilledIsFill
<1>2. N \in Nat /\ \A n \in 1 .. N, q \in Q : GreedyStep(q, sources[n]) \in Q
  BY FirstSources, GreedyStepIsFill
<1>3. Greedy(sources, need) = f[N]
  BY Zenon DEF Greedy
<1> HIDE DEF N, Q, b
<1>4. F \in Steps(N, Q)
  BY <1>2 DEF Steps
<1>5. \A n \in 1 .. N, q \in Q : F[<<n, q>>] = GreedyStep(q, sources[n])
  OBVIOUS
<1> HIDE DEF F
<1>6. IsRun(f)
  <2>1. PICK g \in [0 .. N -> Q] : g[0] = b /\ \A n \in 1 .. N : g[n] = F[<<n, g[n - 1]>>]
    <3>1. Runs(N, Q, b, F) # {}
      BY <1>1, <1>2, <1>4, RecursionDefined
    <3>. QED  BY <3>1 DEF Runs
  <2>2. ASSUME NEW n \in 1 .. N PROVE g[n] = GreedyStep(g[n - 1], sources[n])
    <3>1. n - 1 \in 0 .. N
      BY <1>2
    <3>2. g[n - 1] \in Q
      BY <3>1
    <3>. QED  BY <1>5, <2>1, <3>2
  <2> DEFINE h == [n \in 0 .. N |-> IF n = 0 THEN b ELSE GreedyStep(g[n - 1], sources[n])]
  <2>3. \A n \in 0 .. N : g[n] = h[n]
    BY <1>2, <2>1, <2>2
  <2>4. h = [n \in 0 .. N |-> h[n]] /\ g = [n \in 0 .. N |-> g[n]]
    BY <2>1
  <2>5. IsRun(g)
    BY <2>3, <2>4
  <2>. QED  BY <2>5
<1> HIDE DEF f
<1>7. f[0] = b /\ \A n \in 1 .. N : f[n] = GreedyStep(f[n - 1], sources[n])
  BY <1>2, <1>6
<1>8. /\ \A n \in 0 .. N : f[n] \in Q
      /\ \A n \in 1 .. N : f[n - 1] \in Q
  <2>1. f[0] = b /\ \A n \in 1 .. N : f[n - 1] \in Q => f[n] = F[<<n, f[n - 1]>>]
    BY <1>5, <1>7
  <2>. QED  BY <1>1, <1>2, <1>4, <2>1, RecursionTyped
<1>9. f \in [0 .. N -> Q]
  <2>1. f = [n \in 0 .. N |-> f[n]]
    BY <1>6
  <2>. QED  BY <1>8, <2>1
<1>10. f \in Greedies(sources, need)
  BY <1>3, <1>7, <1>8, <1>9 DEF b, N, Q, Greedies
<1>. QED  BY <1>10

LEMMA GreedySound ==
  ASSUME NEW sources, AreSources(sources), NEW need \in Nat
  PROVE  LET S == ToSet(sources)  N == Len(sources)  fill == Greedy(sources, need)
         IN  /\ Sound(fill, S, S, need, Cap(sources, N))
             /\ fill.left > 0 => fill.left = need - Cap(sources, N)
<1> DEFINE S == ToSet(sources)  N == Len(sources)
<1>1. PICK fill \in Greedies(sources, need) : TRUE
  BY GreedyRuns
<1>2. /\ fill[0] = Unfilled(need)
      /\ \A n \in 1 .. N : fill[n] = GreedyStep(fill[n - 1], sources[n])
      /\ Greedy(sources, need) = fill[N]
  BY DEF Greedies
<1>3. /\ N \in Nat /\ \A s \in S : IsSource(s)
      /\ FirstOf(sources, 0) = {} /\ FirstOf(sources, N) = S
      /\ \A n \in 1 .. N : /\ FirstOf(sources, n - 1) \in SUBSET S
                           /\ sources[n] \in S /\ sources[n] \notin FirstOf(sources, n - 1)
                           /\ FirstOf(sources, n) = FirstOf(sources, n - 1) \union {sources[n]}
  BY FirstSources
<1>4. /\ Cap(sources, 0) = 0 /\ Cap(sources, N) \in Nat
      /\ \A n \in 1 .. N : /\ Cap(sources, n) = Cap(sources, n - 1) + sources[n].maxDest
                           /\ Cap(sources, n - 1) \in Nat
  <2>1. N \in 0 .. N
    BY <1>3
  <2>. QED  BY <2>1, CapSteps
<1> HIDE DEF S, N
<1> DEFINE Fine(g, n) == /\ Sound(g, S, FirstOf(sources, n), need, Cap(sources, n))
                         /\ g.left > 0 => g.left = need - Cap(sources, n)
           Good == {n \in 0 .. N : Fine(fill[n], n)}
<1>5. 0 \in Good
  <2>1. Sound(Unfilled(need), S, {}, need, 0) /\ Unfilled(need).left = need
    BY <1>3, UnfilledIsSound
  <2>. QED  BY <1>2, <1>3, <1>4, <2>1
<1>6. ASSUME NEW n \in 1 .. N, n - 1 \in Good PROVE n \in Good
  <2> DEFINE U == FirstOf(sources, n - 1)  cap == Cap(sources, n - 1)
             s == sources[n]  g == fill[n - 1]  next == fill[n]
  <2>1. /\ U \in SUBSET S /\ s \in S /\ s \notin U /\ FirstOf(sources, n) = U \union {s}
        /\ cap \in Nat /\ cap \in Int /\ Cap(sources, n) = cap + s.maxDest
        /\ next = GreedyStep(g, s) /\ Fine(g, n - 1)
    BY <1>2, <1>3, <1>4, <1>6
  <2>2. Sound(g, S, U, need, cap) /\ (g.left > 0 => g.left = need - cap)
    BY <2>1
  <2> HIDE DEF U, cap, s, g, next
  <2> DEFINE step == GreedyStep(g, s)
  <2>7. s.maxDest \in Int /\ g.left \in Int
    BY <1>3, <2>1, <2>2 DEF IsSource, Sound, Fills
  <2>3. Sound(step, S, U \union {s}, need, cap + s.maxDest)
    BY <1>3, <2>1, <2>2, GreedyStepSound
  <2>8. step.left > 0 => g.left > 0 /\ step.left = g.left - s.maxDest
    <3>1. step = IF g.left <= 0 THEN g
                 ELSE IF s.maxDest <= g.left THEN Taken(g, s, s.usable, s.maxDest)
                 ELSE Taken(g, s, MinAmountFor(s, g.left), g.left)
      BY <1>3, <2>1, <2>7, GreedyStepIs
    <3>2. \A x, c : Taken(g, s, x, c).left = g.left - c
      BY DEF Taken
    <3> HIDE DEF step
    <3>. QED  BY <2>7, <3>1, <3>2
  <2> HIDE DEF step
  <2>4. s.maxDest \in Nat
    BY <1>3, <2>1 DEF IsSource
  <2>5. step.left > 0 => step.left = need - (cap + s.maxDest)
    BY <2>1, <2>2, <2>4, <2>8
  <2>6. Fine(next, n)
    BY <2>1, <2>3, <2>5 DEF step
  <2>. QED  BY <2>6 DEF next
<1> HIDE DEF Good
<1>7. 0 .. N \subseteq Good
  BY <1>3, <1>5, <1>6, InductionTo
<1>8. Fine(fill[N], N)
  BY <1>3, <1>7 DEF Good
<1>. QED  BY <1>2, <1>3, <1>8 DEF S, N

--------------------------------------------------------------------------------
(* The fill that leaves the rest to one source, and what it costs when that     *)
(* source suffices alone.                                                       *)

Skip(sources, m, so, n) ==
  LET s == sources[n] IN
  IF n = m \/ so.left <= 0 \/ sources[m].maxDest >= so.left THEN so
  ELSE Taken(so, s, s.usable, s.maxDest)

Finished(s, others) ==
  LET x == MinAmountFor(s, others.left) IN
  IF others.left <= 0 \/ x = None THEN others ELSE Taken(others, s, x, others.left)

Marginals(sources, need, m) ==
  LET N == Len(sources)  Q == Fills(ToSet(sources)) IN
  {fill \in [0 .. N -> Q] :
     /\ fill[0] = Unfilled(need)
     /\ \A n \in 1 .. N : fill[n - 1] \in Q /\ fill[n] = Skip(sources, m, fill[n - 1], n)
     /\ Marginal(sources, need, m) = Finished(sources[m], fill[N])}

LEMMA MarginalRuns ==
  ASSUME NEW sources, AreSources(sources), NEW need \in Nat, NEW m
  PROVE  Marginals(sources, need, m) # {}
<1> DEFINE N == Len(sources)
           Q == Fills(ToSet(sources))
           b == Unfilled(need)
           F == [x \in (1 .. N) \X Q |-> Skip(sources, m, x[2], x[1])]
           IsRun(g) == g = [n \in 0 .. N |-> IF n = 0 THEN b ELSE Skip(sources, m, g[n - 1], n)]
           f == CHOOSE g : IsRun(g)
<1>1. b \in Q
  BY UnfilledIsFill
<1>2. N \in Nat /\ \A n \in 1 .. N, q \in Q : Skip(sources, m, q, n) \in Q
  <2>1. N \in Nat
    BY FirstSources
  <2> SUFFICES ASSUME NEW n \in 1 .. N, NEW q \in Q PROVE Skip(sources, m, q, n) \in Q
    BY <2>1
  <2>2. sources[n] \in ToSet(sources) /\ IsSource(sources[n])
    BY FirstSources
  <2>3. sources[n].usable \in Nat /\ sources[n].maxDest \in Int
    BY <2>2, FullIsLegal
  <2>4. Taken(q, sources[n], sources[n].usable, sources[n].maxDest) \in Q
    BY <2>2, <2>3, TakenIsFill
  <2> HIDE DEF Q
  <2>. QED  BY <2>4 DEF Skip
<1>3. Marginal(sources, need, m) = Finished(sources[m], f[N])
  BY Zenon DEF Marginal, Skip, Finished
<1> HIDE DEF N, Q, b
<1>4. F \in Steps(N, Q)
  BY <1>2 DEF Steps
<1>5. \A n \in 1 .. N, q \in Q : F[<<n, q>>] = Skip(sources, m, q, n)
  OBVIOUS
<1> HIDE DEF F
<1>6. IsRun(f)
  <2>1. PICK g \in [0 .. N -> Q] : g[0] = b /\ \A n \in 1 .. N : g[n] = F[<<n, g[n - 1]>>]
    <3>1. Runs(N, Q, b, F) # {}
      BY <1>1, <1>2, <1>4, RecursionDefined
    <3>. QED  BY <3>1 DEF Runs
  <2>2. ASSUME NEW n \in 1 .. N PROVE g[n] = Skip(sources, m, g[n - 1], n)
    <3>1. n - 1 \in 0 .. N
      BY <1>2
    <3>2. g[n - 1] \in Q
      BY <3>1
    <3>. QED  BY <1>5, <2>1, <3>2
  <2> DEFINE h == [n \in 0 .. N |-> IF n = 0 THEN b ELSE Skip(sources, m, g[n - 1], n)]
  <2>3. \A n \in 0 .. N : g[n] = h[n]
    BY <1>2, <2>1, <2>2
  <2>4. h = [n \in 0 .. N |-> h[n]] /\ g = [n \in 0 .. N |-> g[n]]
    BY <2>1
  <2>5. IsRun(g)
    BY <2>3, <2>4
  <2>. QED  BY <2>5
<1> HIDE DEF f
<1>7. f[0] = b /\ \A n \in 1 .. N : f[n] = Skip(sources, m, f[n - 1], n)
  BY <1>2, <1>6
<1>8. /\ \A n \in 0 .. N : f[n] \in Q
      /\ \A n \in 1 .. N : f[n - 1] \in Q
  <2>1. f[0] = b /\ \A n \in 1 .. N : f[n - 1] \in Q => f[n] = F[<<n, f[n - 1]>>]
    BY <1>5, <1>7
  <2>. QED  BY <1>1, <1>2, <1>4, <2>1, RecursionTyped
<1>9. f \in [0 .. N -> Q]
  <2>1. f = [n \in 0 .. N |-> f[n]]
    BY <1>6
  <2>. QED  BY <1>8, <2>1
<1>10. f \in Marginals(sources, need, m)
  BY <1>3, <1>7, <1>8, <1>9 DEF b, N, Q, Marginals
<1>. QED  BY <1>10

LEMMA MarginalSound ==
  ASSUME NEW sources, AreSources(sources), NEW need \in Nat, NEW m \in 1 .. Len(sources)
  PROVE  LET S == ToSet(sources)  N == Len(sources)
         IN  Sound(Marginal(sources, need, m), S, S, need, Cap(sources, N))
<1> DEFINE S == ToSet(sources)  N == Len(sources)  s == sources[m]  most == s.maxDest
<1>1. PICK fill \in Marginals(sources, need, m) : TRUE
  BY MarginalRuns
<1>2. /\ fill[0] = Unfilled(need)
      /\ \A n \in 1 .. N : fill[n] = Skip(sources, m, fill[n - 1], n)
      /\ Marginal(sources, need, m) = Finished(sources[m], fill[N])
  BY DEF Marginals
<1>3. /\ N \in Nat /\ \A t \in S : IsSource(t)
      /\ FirstOf(sources, 0) = {} /\ FirstOf(sources, N) = S
      /\ \A n \in 1 .. N : /\ FirstOf(sources, n - 1) \in SUBSET S
                           /\ sources[n] \in S /\ sources[n] \notin FirstOf(sources, n - 1)
                           /\ FirstOf(sources, n) = FirstOf(sources, n - 1) \union {sources[n]}
  BY FirstSources
<1>4. /\ Cap(sources, 0) = 0 /\ Cap(sources, N) \in Nat
      /\ \A n \in 1 .. N : /\ Cap(sources, n) = Cap(sources, n - 1) + sources[n].maxDest
                           /\ Cap(sources, n - 1) \in Nat
  <2>1. N \in 0 .. N
    BY <1>3
  <2>. QED  BY <2>1, CapSteps
<1>5. \A i, j \in 1 .. N : i < j => sources[i] # sources[j]
  BY DEF AreSources
<1>6. m \in 1 .. N /\ s \in S /\ most \in Nat /\ IsSource(s)
  BY <1>3 DEF IsSource
<1> HIDE DEF S, N, s, most
<1> DEFINE CapBut(n) == Cap(sources, n) - (IF n >= m THEN most ELSE 0)
           Others(n) == FirstOf(sources, n) \ {s}
           Good == {n \in 0 .. N : Sound(fill[n], S, Others(n), need, CapBut(n))}
<1>7. 0 \in Good
  <2>1. Sound(Unfilled(need), S, {}, need, 0)
    BY <1>3, UnfilledIsSound
  <2>2. Others(0) = {}
    BY <1>3
  <2>3. CapBut(0) = 0
    BY <1>4, <1>6
  <2> HIDE DEF CapBut, Others
  <2>4. Sound(fill[0], S, Others(0), need, CapBut(0))
    BY <1>2, <2>1, <2>2, <2>3, Zenon
  <2>. QED  BY <1>3, <2>4
<1>8. ASSUME NEW n \in 1 .. N, n - 1 \in Good PROVE n \in Good
  <2> DEFINE U == Others(n - 1)  cap == CapBut(n - 1)  t == sources[n]  so == fill[n - 1]
  <2>1. Sound(so, S, U, need, cap) /\ t \in S /\ IsSource(t) /\ U \in SUBSET S
    BY <1>3, <1>8
  <2>2. t.maxDest \in Nat /\ t.usable \in Legal(t) /\ t.usable \in Nat
        /\ Yield(t, t.usable) = t.maxDest
    BY <2>1, FullIsLegal
  <2>3. fill[n] = IF n = m \/ so.left <= 0 \/ most >= so.left THEN so
                  ELSE Taken(so, t, t.usable, t.maxDest)
    BY <1>2 DEF Skip, s, most
  <2>4. CASE n = m
    <3>1. Others(n) = U
      BY <1>3, <1>6, <2>4 DEF s
    <3>2. CapBut(n) = cap
      BY <1>4, <1>6, <2>4 DEF s, most
    <3> HIDE DEF U, cap, t, so, CapBut, Others
    <3>3. Sound(fill[n], S, Others(n), need, CapBut(n))
      BY <2>1, <2>3, <2>4, <3>1, <3>2
    <3>. QED  BY <3>3
  <2>5. CASE n # m
    <3>1. t # s
      BY <1>5, <1>6, <2>5 DEF s
    <3>2. Others(n) = U \union {t} /\ t \notin U
      BY <1>3, <3>1
    <3>3. cap \in Int /\ CapBut(n) = cap + t.maxDest
      <4>1. n >= m <=> n - 1 >= m
        BY <1>6, <2>5
      <4> DEFINE d == Cap(sources, n - 1)  md == t.maxDest
      <4>2. d \in Nat /\ md \in Nat /\ Cap(sources, n) = d + md
        BY <1>4, <2>2
      <4> HIDE DEF d, md
      <4>3. CASE n >= m
        <5>1. cap = d - most /\ CapBut(n) = (d + md) - most
          BY <4>1, <4>2, <4>3 DEF d
        <5> HIDE DEF cap, CapBut
        <5>. QED  BY <1>6, <4>2, <5>1 DEF md
      <4>4. CASE ~(n >= m)
        <5>1. cap = d - 0 /\ CapBut(n) = (d + md) - 0
          BY <4>1, <4>2, <4>4 DEF d
        <5> HIDE DEF cap, CapBut
        <5>. QED  BY <4>2, <5>1 DEF md
      <4>. QED  BY <4>3, <4>4
    <3> HIDE DEF U, cap, t, so, CapBut, Others
    <3>4. Sound(so, S, U \union {t}, need, cap + t.maxDest)
      <4>1. U \subseteq U \union {t} /\ cap + t.maxDest \in Int /\ cap <= cap + t.maxDest
        BY <2>2, <3>3
      <4>. QED  BY <2>1, <3>3, <4>1, StaysSound
    <3>5. Sound(Taken(so, t, t.usable, t.maxDest), S, U \union {t}, need, cap + t.maxDest)
      <4>1. t.maxDest \in Int /\ Yield(t, t.usable) >= t.maxDest /\ t.maxDest <= t.maxDest
        BY <2>2
      <4>. QED  BY <1>3, <2>1, <2>2, <3>2, <3>3, <4>1, TakenIsSound
    <3>6. Sound(fill[n], S, Others(n), need, CapBut(n))
      BY <2>3, <3>2, <3>3, <3>4, <3>5
    <3>. QED  BY <3>6
  <2>. QED  BY <2>4, <2>5
<1> HIDE DEF Good
<1>9. 0 .. N \subseteq Good
  BY <1>3, <1>7, <1>8, InductionTo
<1> DEFINE cap == Cap(sources, N) - most
           U == S \ {s}
           others == fill[N]
           x == MinAmountFor(s, others.left)
<1>10. Sound(others, S, U, need, cap) /\ cap \in Int /\ cap + most = Cap(sources, N)
  <2>1. N \in Good /\ N >= m
    BY <1>3, <1>6, <1>9
  <2>2. CapBut(N) = cap /\ Others(N) = U
    BY <1>3, <2>1
  <2>3. cap \in Int /\ cap + most = Cap(sources, N)
    BY <1>4, <1>6
  <2>. QED  BY <2>1, <2>2, <2>3 DEF Good
<1>11. Marginal(sources, need, m) =
         IF others.left <= 0 \/ x = None THEN others ELSE Taken(others, s, x, others.left)
  BY <1>2, Zenon DEF Finished, s
<1>12. U \in SUBSET S /\ s \notin U /\ U \union {s} = S
  BY <1>6
<1> HIDE DEF cap, U, others, x
<1>13. Sound(others, S, U \union {s}, need, cap + most)
  <2>1. U \subseteq U \union {s} /\ cap + most \in Int /\ cap <= cap + most
    BY <1>6, <1>10
  <2>. QED  BY <1>10, <2>1, StaysSound
<1>14. ASSUME ~(others.left <= 0), x # None
       PROVE  Sound(Taken(others, s, x, others.left), S, U \union {s}, need, cap + most)
  <2>1. others.left \in Int /\ others.left \in Nat \ {0}
    BY <1>10, <1>14 DEF Sound, Fills
  <2>2. /\ ~(s.maxDest < others.left)
        /\ x \in Legal(s) /\ x \in Nat /\ Yield(s, x) >= others.left
    BY <1>6, <1>14, <2>1, MinAmountIsLeast DEF x
  <2>3. others.left <= s.maxDest
    BY <1>6, <2>1, <2>2 DEF most
  <2>. QED  BY <1>3, <1>6, <1>10, <1>12, <2>1, <2>2, <2>3, TakenIsSound DEF most
<1>15. Sound(Marginal(sources, need, m), S, S, need, Cap(sources, N))
  BY <1>10, <1>11, <1>12, <1>13, <1>14
<1>. QED  BY <1>15 DEF S, N

\* A source that suffices alone is left to do so, with the least that it can.
LEMMA MarginalAlone ==
  ASSUME NEW sources, AreSources(sources), NEW need \in Nat \ {0}, NEW m \in 1 .. Len(sources),
         sources[m].maxDest >= need
  PROVE  LET x == MinAmountFor(sources[m], need)
         IN  Marginal(sources, need, m) = Taken(Unfilled(need), sources[m], x, need)
<1> DEFINE N == Len(sources)  s == sources[m]
<1>1. PICK fill \in Marginals(sources, need, m) : TRUE
  BY MarginalRuns
<1>2. /\ fill[0] = Unfilled(need)
      /\ \A n \in 1 .. N : fill[n] = Skip(sources, m, fill[n - 1], n)
      /\ Marginal(sources, need, m) = Finished(s, fill[N])
  BY DEF Marginals
<1>3. N \in Nat /\ IsSource(s) /\ s.maxDest >= need
  BY DEF AreSources
<1> DEFINE Good == {n \in 0 .. N : fill[n] = Unfilled(need)}
<1>4. 0 \in Good
  BY <1>2, <1>3
<1>5. Unfilled(need).left = need
  BY DEF Unfilled
<1>6. ASSUME NEW n \in 1 .. N, n - 1 \in Good PROVE n \in Good
  <2>1. fill[n - 1] = Unfilled(need) /\ fill[n] = Skip(sources, m, fill[n - 1], n)
    BY <1>2, <1>6
  <2>. QED  BY <1>3, <1>5, <2>1 DEF Skip
<1> HIDE DEF Good, N
<1>7. 0 .. N \subseteq Good
  BY <1>3, <1>4, <1>6, InductionTo
<1>8. fill[N] = Unfilled(need)
  BY <1>3, <1>7 DEF Good
<1>9. MinAmountFor(s, need) # None
  <2>1. ~(s.maxDest < need)
    BY <1>3 DEF IsSource
  <2> HIDE DEF s
  <2>. QED  BY <1>3, <2>1, MinAmountIsLeast
<1> HIDE DEF s
<1>10. Marginal(sources, need, m) = Taken(Unfilled(need), s, MinAmountFor(s, need), need)
  BY <1>2, <1>5, <1>8, <1>9 DEF Finished
<1>. QED  BY <1>10 DEF s

--------------------------------------------------------------------------------
(* The fill that is chosen: sound, none cheaper was tried, and found exactly    *)
(* when all sources together cover the need.                                    *)

Tried(sources, need, n) ==
  IF n = 1 THEN Greedy(sources, need) ELSE Marginal(sources, need, n - 1)

Better(tried, so, need) ==
  IF /\ tried.left <= 0 /\ PickYield(tried.picks) >= need
     /\ so.left > 0 \/ Cheaper(tried.picks, so.picks)
  THEN tried ELSE so

Funds(sources, need) ==
  LET N == Len(sources) + 1  Q == Fills(ToSet(sources)) IN
  {best \in [0 .. N -> Q] :
     /\ best[0] = Unfilled(need)
     /\ \A n \in 1 .. N : /\ best[n - 1] \in Q
                          /\ best[n] = Better(Tried(sources, need, n), best[n - 1], need)
     /\ Fund(sources, need) = best[N]}

LEMMA TriedSound ==
  ASSUME NEW sources, AreSources(sources), NEW need \in Nat, NEW n \in 1 .. Len(sources) + 1
  PROVE  LET S == ToSet(sources)
         IN  Sound(Tried(sources, need, n), S, S, need, Cap(sources, Len(sources)))
<1>1. CASE n = 1
  BY <1>1, GreedySound DEF Tried
<1>2. CASE n # 1
  <2>1. n - 1 \in 1 .. Len(sources)
    BY <1>2, FirstSources
  <2>. QED  BY <1>2, <2>1, MarginalSound DEF Tried
<1>. QED  BY <1>1, <1>2

LEMMA FundRuns ==
  ASSUME NEW sources, AreSources(sources), NEW need \in Nat
  PROVE  Funds(sources, need) # {}
<1> DEFINE N == Len(sources) + 1
           Q == Fills(ToSet(sources))
           b == Unfilled(need)
           try(n) == Tried(sources, need, n)
           F == [x \in (1 .. N) \X Q |-> Better(try(x[1]), x[2], need)]
           IsRun(g) == g = [n \in 0 .. N |-> IF n = 0 THEN b ELSE Better(try(n), g[n - 1], need)]
           f == CHOOSE g : IsRun(g)
<1>1. b \in Q
  BY UnfilledIsFill
<1>2. N \in Nat /\ \A n \in 1 .. N, q \in Q : Better(try(n), q, need) \in Q
  <2>1. N \in Nat
    BY FirstSources
  <2>2. \A n \in 1 .. N : try(n) \in Q
    BY TriedSound DEF Sound
  <2> HIDE DEF N, Q, try
  <2>. QED  BY <2>1, <2>2 DEF Better
<1>3. Fund(sources, need) = f[N]
  BY Zenon DEF Fund, Tried, Better
<1> HIDE DEF N, Q, b, try
<1>4. F \in Steps(N, Q)
  BY <1>2 DEF Steps
<1>5. \A n \in 1 .. N, q \in Q : F[<<n, q>>] = Better(try(n), q, need)
  OBVIOUS
<1> HIDE DEF F
<1>6. IsRun(f)
  <2>1. PICK g \in [0 .. N -> Q] : g[0] = b /\ \A n \in 1 .. N : g[n] = F[<<n, g[n - 1]>>]
    <3>1. Runs(N, Q, b, F) # {}
      BY <1>1, <1>2, <1>4, RecursionDefined
    <3>. QED  BY <3>1 DEF Runs
  <2>2. ASSUME NEW n \in 1 .. N PROVE g[n] = Better(try(n), g[n - 1], need)
    <3>1. n - 1 \in 0 .. N
      BY <1>2
    <3>2. g[n - 1] \in Q
      BY <3>1
    <3>. QED  BY <1>5, <2>1, <3>2
  <2> DEFINE h == [n \in 0 .. N |-> IF n = 0 THEN b ELSE Better(try(n), g[n - 1], need)]
  <2>3. \A n \in 0 .. N : g[n] = h[n]
    BY <1>2, <2>1, <2>2
  <2>4. h = [n \in 0 .. N |-> h[n]] /\ g = [n \in 0 .. N |-> g[n]]
    BY <2>1
  <2>5. IsRun(g)
    BY <2>3, <2>4
  <2>. QED  BY <2>5
<1> HIDE DEF f
<1>7. f[0] = b /\ \A n \in 1 .. N : f[n] = Better(try(n), f[n - 1], need)
  BY <1>2, <1>6
<1>8. /\ \A n \in 0 .. N : f[n] \in Q
      /\ \A n \in 1 .. N : f[n - 1] \in Q
  <2>1. f[0] = b /\ \A n \in 1 .. N : f[n - 1] \in Q => f[n] = F[<<n, f[n - 1]>>]
    BY <1>5, <1>7
  <2>. QED  BY <1>1, <1>2, <1>4, <2>1, RecursionTyped
<1>9. f \in [0 .. N -> Q]
  <2>1. f = [n \in 0 .. N |-> f[n]]
    BY <1>6
  <2>. QED  BY <1>8, <2>1
<1>10. f \in Funds(sources, need)
  BY <1>3, <1>7, <1>8, <1>9 DEF b, N, Q, try, Funds
<1>. QED  BY <1>10

LEMMA FundSound ==
  ASSUME NEW sources, AreSources(sources), NEW need \in Nat \ {0}
  PROVE  LET S == ToSet(sources)  N == Len(sources)  fund == Fund(sources, need)
         IN  /\ Sound(fund, S, S, need, Cap(sources, N))
             /\ fund.left <= 0 <=> need <= Cap(sources, N)
             /\ fund.left <= 0 =>
                  /\ PickYield(fund.picks) >= need
                  /\ \A n \in 1 .. N + 1 :
                       Tried(sources, need, n).left <= 0
                         => PickCost(fund.picks) <= PickCost(Tried(sources, need, n).picks)
<1> DEFINE S == ToSet(sources)  N == Len(sources) + 1  cap == Cap(sources, Len(sources))
           try(n) == Tried(sources, need, n)
           Fine(g) == Sound(g, S, S, need, cap)
<1>1. PICK best \in Funds(sources, need) : TRUE
  BY FundRuns
<1>2. /\ best[0] = Unfilled(need)
      /\ \A n \in 1 .. N : best[n] = Better(try(n), best[n - 1], need)
      /\ Fund(sources, need) = best[N]
  BY DEF Funds
<1>3. N \in Nat \ {0} /\ \A s \in S : IsSource(s)
  BY FirstSources
<1>4. cap \in Nat
  <2>1. Len(sources) \in 0 .. Len(sources)
    BY FirstSources
  <2>. QED  BY <2>1, CapSteps
<1>5. \A n \in 1 .. N : Fine(try(n))
  BY TriedSound
<1>6. try(1).left > 0 => try(1).left = need - cap
  BY GreedySound DEF Tried
<1> HIDE DEF S, N, cap, try
<1>7. ASSUME NEW g, Fine(g)
      PROVE  /\ g.left \in Int /\ PickYield(g.picks) \in Nat /\ PickCost(g.picks) \in Nat
             /\ PickYield(g.picks) >= need - g.left /\ need - g.left <= cap
  <2>1. g.left \in Int /\ g.picks \in Seq(Picks(S))
    BY <1>7 DEF Sound, Fills
  <2>2. PickYield(g.picks) \in Nat /\ PickCost(g.picks) \in Nat
    BY <1>3, <2>1, PickSums
  <2>. QED  BY <1>7, <2>1, <2>2 DEF Sound
<1> DEFINE Cheapest(g, n) == \A k \in 1 .. n : try(k).left <= 0 =>
                               g.left <= 0 /\ PickCost(g.picks) <= PickCost(try(k).picks)
           Good == {n \in 0 .. N : Fine(best[n]) /\ Cheapest(best[n], n)}
<1>8. 0 \in Good
  <2>1. Sound(Unfilled(need), S, {}, need, 0)
    BY <1>3, UnfilledIsSound
  <2>2. Fine(Unfilled(need))
    BY <1>4, <2>1, StaysSound
  <2>. QED  BY <1>2, <1>3, <2>2
<1>9. ASSUME NEW n \in 1 .. N, n - 1 \in Good PROVE n \in Good
  <2> DEFINE so == best[n - 1]  tried == try(n)  next == best[n]
  <2>1. Fine(so) /\ Cheapest(so, n - 1) /\ Fine(tried) /\ next = Better(tried, so, need)
    BY <1>2, <1>5, <1>9
  <2>2. /\ tried.left \in Int /\ so.left \in Int
        /\ PickCost(tried.picks) \in Nat /\ PickCost(so.picks) \in Nat
        /\ tried.left <= 0 => PickYield(tried.picks) >= need
    <3>1. /\ tried.left \in Int /\ PickYield(tried.picks) \in Nat /\ PickCost(tried.picks) \in Nat
          /\ PickYield(tried.picks) >= need - tried.left
      BY <1>7, <2>1
    <3>2. so.left \in Int /\ PickCost(so.picks) \in Nat
      BY <1>7, <2>1
    <3>. QED  BY <3>1, <3>2
  <2>3. \A k \in 1 .. n : k \in 1 .. n - 1 \/ k = n
    BY <1>3
  <2> HIDE DEF so, next, Fine
  <2>4. CASE tried.left <= 0 /\ (so.left > 0 \/ Cheaper(tried.picks, so.picks))
    <3>1. next = tried
      BY <2>1, <2>2, <2>4 DEF Better
    <3>2. so.left <= 0 => PickCost(tried.picks) <= PickCost(so.picks)
      BY <2>2, <2>4 DEF Cheaper
    <3>3. ASSUME NEW k \in 1 .. n - 1, try(k).left <= 0
          PROVE  PickCost(tried.picks) <= PickCost(try(k).picks)
      <4>1. so.left <= 0 /\ PickCost(so.picks) <= PickCost(try(k).picks)
        BY <2>1, <3>3
      <4>2. PickCost(try(k).picks) \in Nat
        <5>1. k \in 1 .. N
          BY <1>3
        <5>. QED  BY <1>5, <1>7, <5>1
      <4>. QED  BY <2>2, <3>2, <4>1, <4>2
    <3>4. Cheapest(tried, n)
      BY <2>2, <2>3, <2>4, <3>3
    <3>. QED  BY <2>1, <3>1, <3>4 DEF next
  <2>5. CASE ~(tried.left <= 0 /\ (so.left > 0 \/ Cheaper(tried.picks, so.picks)))
    <3>1. next = so
      BY <2>1, <2>5 DEF Better
    <3>2. tried.left <= 0 => so.left <= 0 /\ PickCost(so.picks) <= PickCost(tried.picks)
      BY <2>2, <2>5 DEF Cheaper
    <3>3. Cheapest(so, n)
      BY <2>1, <2>3, <3>2
    <3>. QED  BY <2>1, <3>1, <3>3 DEF next
  <2>. QED  BY <2>4, <2>5
<1> HIDE DEF Good
<1>10. 0 .. N \subseteq Good
  BY <1>3, <1>8, <1>9, InductionTo
<1> DEFINE fund == Fund(sources, need)
<1>11. Fine(fund) /\ Cheapest(fund, N)
  BY <1>2, <1>3, <1>10 DEF Good
<1>12. /\ fund.left \in Int /\ PickYield(fund.picks) \in Nat
       /\ PickYield(fund.picks) >= need - fund.left /\ need - fund.left <= cap
  BY <1>7, <1>11
<1>13. try(1).left \in Int /\ 1 \in 1 .. N
  BY <1>3, <1>5, <1>7
<1> HIDE DEF fund
<1>14. fund.left <= 0 => need <= cap /\ PickYield(fund.picks) >= need
  BY <1>4, <1>12
<1>15. need <= cap => fund.left <= 0
  <2>1. need <= cap => try(1).left <= 0
    BY <1>4, <1>6, <1>13
  <2>. QED  BY <1>11, <1>13, <2>1
<1>. QED  BY <1>11, <1>14, <1>15 DEF S, N, cap, try, fund

--------------------------------------------------------------------------------
(* All the ways to spend the sources.                                           *)

Amounts(sources) ==
  {w \in [DOMAIN sources -> UNION {Legal(s) : s \in ToSet(sources)}] :
     \A i \in DOMAIN sources : w[i] \in Legal(sources[i])}
Way(sources, w) == [i \in DOMAIN sources |-> Pick(sources[i], w[i])]
Yields(sources, w) == [i \in DOMAIN sources |-> Yield(sources[i], w[i])]
Costs(sources, w) == [i \in DOMAIN sources |-> sources[i].weight * w[i]]

LEMMA WaySums ==
  ASSUME NEW sources, AreSources(sources), NEW w \in Amounts(sources)
  PROVE  LET N == Len(sources)
         IN  /\ \A i \in 1 .. N : /\ w[i] \in 0 .. sources[i].usable
                                  /\ Yields(sources, w)[i] = Yield(sources[i], w[i])
                                  /\ Yields(sources, w)[i] \in Nat
                                  /\ Yields(sources, w)[i] <= sources[i].maxDest
                                  /\ Costs(sources, w)[i] = sources[i].weight * w[i]
                                  /\ Costs(sources, w)[i] \in Nat
             /\ PickYield(Way(sources, w)) = Total(Yields(sources, w), N)
             /\ PickCost(Way(sources, w)) = Total(Costs(sources, w), N)
             /\ PickYield(Way(sources, w)) \in Nat /\ PickCost(Way(sources, w)) \in Nat
             /\ PickYield(Way(sources, w)) <= Cap(sources, N)
<1> DEFINE N == Len(sources)  way == Way(sources, w)
           y == Yields(sources, w)  c == Costs(sources, w)
<1>1. N \in Nat /\ DOMAIN sources = 1 .. N /\ \A i \in 1 .. N : IsSource(sources[i])
  BY DEF AreSources
<1>2. DOMAIN way = 1 .. N /\ Len(way) = N
  <2>1. DOMAIN way = 1 .. N /\ way = [i \in 1 .. N |-> way[i]]
    BY <1>1 DEF Way
  <2> HIDE DEF way, N
  <2>2. way \in Seq({way[i] : i \in 1 .. N})
    BY <1>1, <2>1
  <2>. QED  BY <1>1, <2>1, <2>2
<1>3. \A i \in 1 .. N : way[i].source = sources[i] /\ way[i].amount = w[i]
  BY <1>1 DEF Way, Pick
<1>4. /\ PickYield(way) = Total([i \in DOMAIN way |-> Yield(way[i].source, way[i].amount)], Len(way))
      /\ PickCost(way) = Total([i \in DOMAIN way |-> way[i].source.weight * way[i].amount], Len(way))
  BY Zenon DEF PickYield, PickCost
<1> HIDE DEF N, way
<1>5. [i \in DOMAIN way |-> Yield(way[i].source, way[i].amount)] = y
  BY <1>1, <1>2, <1>3 DEF Yields
<1>6. [i \in DOMAIN way |-> way[i].source.weight * way[i].amount] = c
  BY <1>1, <1>2, <1>3 DEF Costs
<1>7. PickYield(way) = Total(y, N) /\ PickCost(way) = Total(c, N)
  BY <1>2, <1>4, <1>5, <1>6, Zenon
<1>8. ASSUME NEW i \in 1 .. N
      PROVE  /\ w[i] \in 0 .. sources[i].usable
             /\ y[i] = Yield(sources[i], w[i]) /\ y[i] \in Nat /\ y[i] <= sources[i].maxDest
             /\ c[i] = sources[i].weight * w[i] /\ c[i] \in Nat
  <2> DEFINE s == sources[i]  x == w[i]
  <2>1. IsSource(s) /\ x \in Legal(s)
    BY <1>1 DEF Amounts
  <2>2. y[i] = Yield(s, x) /\ c[i] = s.weight * x
    BY <1>1 DEF Yields, Costs
  <2> HIDE DEF s, x, y, c
  <2>3. /\ x \in 0 .. s.usable /\ s.usable \in Nat /\ s.maxDest = Yield(s, s.usable)
        /\ s.weight \in Nat /\ x \in Nat
    BY <2>1 DEF IsSource, Legal
  <2>4. Yield(s, x) \in Nat /\ Yield(s, x) <= Yield(s, s.usable)
    <3>1. x <= s.usable
      BY <2>3
    <3>. QED  BY <2>1, <2>3, <3>1, YieldGrows DEF IsSource
  <2>5. s.weight * x \in Nat
    BY <2>3
  <2>6. x \in 0 .. s.usable /\ y[i] \in Nat /\ y[i] <= s.maxDest /\ c[i] \in Nat
    BY <2>2, <2>3, <2>4, <2>5
  <2>. QED  BY <2>2, <2>6 DEF s, x
<1> HIDE DEF y, c
<1>9. Total(y, N) \in Nat /\ Total(c, N) \in Nat
  <2>1. N \in 0 .. N
    BY <1>1
  <2>2. (\A i \in 1 .. N : y[i] \in Nat) /\ (\A i \in 1 .. N : c[i] \in Nat)
    BY <1>8
  <2>. QED  BY <1>1, <2>1, <2>2, TotalBounds
<1>10. Total(y, N) <= Cap(sources, N)
  <2> DEFINE d == Dests(sources)
  <2>1. \A i \in 1 .. N : y[i] \in Int /\ d[i] \in Int /\ y[i] <= d[i]
    BY <1>1, <1>8 DEF Dests, IsSource
  <2> HIDE DEF d
  <2>2. Total(y, N) <= Total(d, N)
    BY <1>1, <2>1, TotalLeq
  <2>. QED  BY <2>2 DEF d, Cap
<1>. QED  BY <1>7, <1>8, <1>9, <1>10 DEF N, way, y, c

\* Some way covers the need exactly when everything together does.
LEMMA SomeWayCovers ==
  ASSUME NEW sources, AreSources(sources), NEW need \in Nat
  PROVE  {way \in Fundings(sources) : PickYield(way) >= need} # {}
           <=> need <= Cap(sources, Len(sources))
<1> DEFINE N == Len(sources)  full == [i \in DOMAIN sources |-> sources[i].usable]
<1>1. Fundings(sources) = {Way(sources, w) : w \in Amounts(sources)}
  BY Zenon DEF Fundings, Way, Amounts
<1>2. Cap(sources, N) \in Nat
  <2>1. N \in 0 .. N
    BY DEF AreSources
  <2>. QED  BY <2>1, CapSteps
<1>3. ASSUME NEW way \in Fundings(sources), PickYield(way) >= need
      PROVE  need <= Cap(sources, N)
  <2>1. PICK w \in Amounts(sources) : way = Way(sources, w)
    BY <1>1
  <2>2. PickYield(way) \in Nat /\ PickYield(way) <= Cap(sources, N)
    BY <2>1, WaySums
  <2>. QED  BY <1>2, <1>3, <2>2
<1>4. N \in Nat /\ DOMAIN sources = 1 .. N /\ \A i \in 1 .. N : IsSource(sources[i])
  BY DEF AreSources
<1>5. full \in Amounts(sources)
  <2>1. \A i \in DOMAIN sources : /\ full[i] \in Legal(sources[i])
                                  /\ sources[i] \in ToSet(sources)
    BY <1>4, FullIsLegal DEF ToSet
  <2>. QED  BY <2>1 DEF Amounts
<1>6. PickYield(Way(sources, full)) = Cap(sources, N)
  <2> DEFINE y == Yields(sources, full)  d == Dests(sources)
  <2>1. PickYield(Way(sources, full)) = Total(y, N)
    BY <1>5, WaySums
  <2>2. \A i \in 1 .. N : y[i] \in Int /\ y[i] = d[i]
    BY <1>4, FullIsLegal DEF Yields, Dests
  <2> HIDE DEF y, d, N
  <2>3. Total(y, N) = Total(d, N)
    BY <1>4, <2>2, TotalAgrees
  <2>. QED  BY <2>1, <2>3 DEF Cap, d
<1>7. need <= Cap(sources, N)
        => Way(sources, full) \in {way \in Fundings(sources) : PickYield(way) >= need}
  BY <1>1, <1>2, <1>5, <1>6
<1>. QED  BY <1>3, <1>7

--------------------------------------------------------------------------------
(* No source that suffices alone would cost less.                               *)

LEMMA NoSourceIsCheaper ==
  ASSUME NEW sources, AreSources(sources), NEW need \in Nat \ {0},
         NEW s \in ToSet(sources), NEW x \in Legal(s), Yield(s, x) >= need
  PROVE  PickCost(Fund(sources, need).picks) <= s.weight * x
<1> DEFINE fund == Fund(sources, need)  S == ToSet(sources)
<1>1. PICK m \in 1 .. Len(sources) : s = sources[m]
  BY DEF ToSet, AreSources
<1>2. IsSource(s) /\ x \in Nat /\ x <= s.usable /\ s.weight \in Nat /\ s.maxDest \in Nat
  <2>1. IsSource(s)
    BY <1>1 DEF AreSources
  <2>. QED  BY <2>1 DEF IsSource, Legal
<1>3. s.maxDest >= need
  <2>1. Yield(s, x) \in Nat /\ Yield(s, x) <= s.maxDest
    BY <1>2, YieldGrows DEF IsSource
  <2>. QED  BY <1>2, <2>1
<1> DEFINE least == MinAmountFor(s, need)
           alone == Taken(Unfilled(need), s, least, need)
<1>4. least \in Nat /\ least <= x
  <2>1. ~(s.maxDest < need)
    BY <1>2, <1>3
  <2>. QED  BY <1>2, <2>1, MinAmountIsLeast
<1> HIDE DEF least
<1>5. Tried(sources, need, m + 1) = alone /\ m + 1 \in 1 .. Len(sources) + 1
  <2>1. m + 1 # 1 /\ (m + 1) - 1 = m /\ m + 1 \in 1 .. Len(sources) + 1
    BY FirstSources
  <2>2. Marginal(sources, need, m) = alone
    BY <1>1, <1>3, MarginalAlone DEF least
  <2> HIDE DEF alone
  <2>. QED  BY <2>1, <2>2 DEF Tried
<1>6. alone.left <= 0
  BY DEF Taken, Unfilled
<1>7. PickCost(alone.picks) = s.weight * least
  <2> DEFINE none == Unfilled(need).picks
  <2>1. alone.picks = Append(none, Pick(s, least)) /\ none = <<>>
    BY DEF Taken, Unfilled
  <2>2. (\A t \in S : IsSource(t)) /\ s \in S
    BY FirstSources
  <2>3. none \in Seq(Picks(S))
    BY <2>1
  <2>4. PickCost(none) = 0
    <3>1. PickCost(<<>>) = 0
      BY <2>2, <2>3, PickSums
    <3>. QED  BY <2>1, <3>1, Zenon
  <2> HIDE DEF none, S, alone
  <2>5. PickCost(Append(none, Pick(s, least))) = PickCost(none) + s.weight * least
    BY <1>4, <2>2, <2>3, PickAppended
  <2>6. s.weight * least \in Nat
    BY <1>2, <1>4
  <2>. QED  BY <2>1, <2>4, <2>5, <2>6
<1>8. need <= Cap(sources, Len(sources))
  <2>1. Cap(sources, m) = Cap(sources, m - 1) + s.maxDest /\ Cap(sources, m - 1) \in Nat
    BY <1>1, CapSteps
  <2>2. m \in 0 .. Len(sources) /\ Len(sources) \in 0 .. Len(sources)
    BY FirstSources
  <2>3. /\ Cap(sources, m) \in Nat /\ Cap(sources, Len(sources)) \in Nat
        /\ Cap(sources, m) <= Cap(sources, Len(sources))
    BY <2>2, CapSteps
  <2>. QED  BY <1>2, <1>3, <2>1, <2>3
<1> HIDE DEF alone
<1>9. PickCost(fund.picks) <= s.weight * least
  BY <1>5, <1>6, <1>7, <1>8, FundSound
<1>10. PickCost(fund.picks) \in Nat
  <2>1. fund.picks \in Seq(Picks(S))
    BY FundSound DEF Sound, Fills
  <2>. QED  BY <2>1, FirstSources, PickSums
<1>11. s.weight * least <= s.weight * x /\ s.weight * least \in Nat /\ s.weight * x \in Nat
  BY <1>2, <1>4
<1>. QED  BY <1>9, <1>10, <1>11

--------------------------------------------------------------------------------
(* Where every point can move alone, the cheapest source first is the cheapest. *)

\* What the cheapest sources take is worth exchanging for nothing dearer.
LEMMA Exchange ==
  ASSUME NEW t \in Nat, NEW u \in Nat, t <= u, NEW d \in Int, NEW e \in Int, e >= t * d,
         NEW w \in Nat, NEW g \in Nat
  PROVE  /\ d <= 0 => e + u * w - u * g >= u * (d + w - g)
         /\ g = 0 => e + u * w - u * g >= t * (d + w - g)
<1>1. ASSUME d <= 0  PROVE  t * d >= u * d
  <2>1. PICK r \in Nat : d = 0 - r
    <3>1. 0 - d \in Nat /\ d = 0 - (0 - d)
      BY <1>1
    <3>. QED  BY <3>1
  <2>2. PICK v \in Nat : u = t + v
    <3>1. u - t \in Nat /\ u = t + (u - t)
      OBVIOUS
    <3>. QED  BY <3>1
  <2>3. (t + v) * r = t * r + v * r /\ v * r >= 0
    OBVIOUS
  <2>4. t * (0 - r) = 0 - t * r /\ u * (0 - r) = 0 - u * r
    OBVIOUS
  <2>. QED  BY <2>1, <2>2, <2>3, <2>4
<1>2. u * (d + w - g) = u * d + u * w - u * g
  OBVIOUS
<1>3. t * (d + w - 0) = t * d + t * w
  OBVIOUS
<1>4. u * w >= t * w
  <2>1. PICK v \in Nat : u = t + v
    <3>1. u - t \in Nat /\ u = t + (u - t)
      OBVIOUS
    <3>. QED  BY <3>1
  <2>2. (t + v) * w = t * w + v * w /\ v * w >= 0
    OBVIOUS
  <2>. QED  BY <2>1, <2>2
<1>5. u * w \in Int /\ u * g \in Int /\ u * d \in Int /\ t * d \in Int /\ t * w \in Int
  OBVIOUS
<1>6. ASSUME d <= 0  PROVE  e + u * w - u * g >= u * (d + w - g)
  BY <1>1, <1>2, <1>5, <1>6
<1>7. ASSUME g = 0  PROVE  e + u * w - u * g >= t * (d + w - g)
  <2>1. u * g = 0 /\ t * (d + w - g) = t * d + t * w
    BY <1>3, <1>7
  <2>. QED  BY <1>4, <1>5, <2>1
<1>. QED  BY <1>6, <1>7

LEMMA LinearIs ==
  ASSUME NEW sources, AreSources(sources), Linear(sources)
  PROVE  LET N == Len(sources)
         IN  /\ \A i \in 1 .. N :
                  /\ sources[i].maxDest = sources[i].usable
                  /\ \A x \in 0 .. sources[i].usable : Yield(sources[i], x) = x
                  /\ \A x \in 0 .. sources[i].usable : x \in Legal(sources[i])
             /\ \A i, j \in 1 .. N : i < j => sources[i].weight <= sources[j].weight
<1> DEFINE N == Len(sources)
<1>1. \A i \in 1 .. N : IsSource(sources[i]) /\ sources[i] \in ToSet(sources)
  BY DEF AreSources, ToSet
<1>2. ASSUME NEW i \in 1 .. N
      PROVE  /\ sources[i].maxDest = sources[i].usable
             /\ \A x \in 0 .. sources[i].usable : Yield(sources[i], x) = x
             /\ \A x \in 0 .. sources[i].usable : x \in Legal(sources[i])
  <2> DEFINE s == sources[i]
  <2>1. IsSource(s) /\ s.inc = 1 /\ s.min <= 1 /\ \A x \in 0 .. s.usable : Yield(s, x) = x
    BY <1>1 DEF Linear
  <2> HIDE DEF s
  <2>2. s.usable \in Nat /\ s.min \in Nat /\ s.maxDest = Yield(s, s.usable)
    BY <2>1 DEF IsSource
  <2>3. \A x \in 0 .. s.usable : x \in Legal(s)
    BY <2>1, <2>2 DEF Legal, Block
  <2>4. s.maxDest = s.usable
    BY <2>1, <2>2
  <2>. QED  BY <2>1, <2>3, <2>4 DEF s
<1>3. ASSUME NEW i \in 1 .. N, NEW j \in 1 .. N, i < j
      PROVE  sources[i].weight <= sources[j].weight
  <2> DEFINE s == sources[i]  t == sources[j]
             a == s.weight  b == t.weight  p == s.usable  q == t.usable
  <2>1. CostsLess(s, t) /\ IsSource(s) /\ IsSource(t)
    BY <1>3 DEF AreSources
  <2>2. a \in Nat /\ b \in Nat /\ p \in Nat \ {0} /\ q \in Nat \ {0}
    BY <2>1 DEF IsSource
  <2>3. s.maxDest = p /\ t.maxDest = q
    BY <1>2
  <2>4. a * p * q <= b * q * p
    <3>1. s.weight * s.usable * t.maxDest <= t.weight * t.usable * s.maxDest
      <4>1. /\ s.weight * s.usable * t.maxDest \in Int /\ t.weight * t.usable * s.maxDest \in Int
        <5>1. a * p * q \in Int /\ b * q * p \in Int
          <6> HIDE DEF a, b, p, q
          <6>. QED  BY <2>2
        <5>. QED  BY <2>3, <5>1
      <4>2. \/ s.weight * s.usable * t.maxDest < t.weight * t.usable * s.maxDest
            \/ s.weight * s.usable * t.maxDest = t.weight * t.usable * s.maxDest
        BY <2>1 DEF CostsLess
      <4>. QED  BY <4>1, <4>2
    <3>. QED  BY <2>3, <3>1
  <2> HIDE DEF a, b, p, q
  <2>5. a <= b
    <3> SUFFICES ASSUME ~(a <= b)  PROVE FALSE
      OBVIOUS
    <3>1. PICK v \in Nat : a = b + 1 + v
      <4>1. a - b - 1 \in Nat /\ a = b + 1 + (a - b - 1)
        BY <2>2
      <4>. QED  BY <4>1
    <3> DEFINE pq == p * q
    <3>2. pq \in Nat /\ pq > 0
      BY <2>2
    <3>3. a * p * q = a * pq /\ b * q * p = b * pq
      BY <2>2
    <3> HIDE DEF pq
    <3>4. (b + 1 + v) * pq = b * pq + pq + v * pq /\ v * pq >= 0 /\ b * pq \in Int /\ v * pq \in Int
      BY <2>2, <3>2
    <3>. QED  BY <2>2, <2>4, <3>1, <3>2, <3>3, <3>4
  <2>. QED  BY <2>5 DEF a, b
<1>. QED  BY <1>2, <1>3

\* What a step of the greedy fill takes of s.
Gains(s, fill, next) ==
  {g \in Nat : /\ next.left = fill.left - g /\ next.left >= 0
               /\ PickCost(next.picks) = PickCost(fill.picks) + s.weight * g
               /\ fill.left = 0 => g = 0
               /\ next.left > 0 => g = s.usable}

LEMMA LinearStep ==
  ASSUME NEW sources, AreSources(sources), Linear(sources), NEW i \in 1 .. Len(sources),
         NEW fill \in Fills(ToSet(sources)), fill.left >= 0
  PROVE  Gains(sources[i], fill, GreedyStep(fill, sources[i])) # {}
<1> DEFINE s == sources[i]  next == GreedyStep(fill, s)  S == ToSet(sources)
           left == fill.left  picks == fill.picks  x == MinAmountFor(s, left)
<1>1. IsSource(s) /\ s \in S /\ \A t \in S : IsSource(t)
  BY FirstSources
<1>2. /\ s.maxDest = s.usable
      /\ \A y \in 0 .. s.usable : Yield(s, y) = y /\ y \in Legal(s)
  BY LinearIs
<1>3. s.usable \in Nat /\ s.weight \in Nat /\ left \in Nat /\ picks \in Seq(Picks(S))
  BY <1>1 DEF IsSource, Fills
<1>4. PickCost(picks) \in Nat
  BY <1>1, <1>3, PickSums
<1>5. \A y \in Nat : PickCost(Append(picks, Pick(s, y))) = PickCost(picks) + s.weight * y
  <2> HIDE DEF s, picks, S
  <2>. QED  BY <1>1, <1>3, PickAppended
<1>6. \A y, c : Taken(fill, s, y, c).left = left - c /\ Taken(fill, s, y, c).picks = Append(picks, Pick(s, y))
  BY DEF Taken
<1>7. /\ next = IF left <= 0 THEN fill
                ELSE IF s.maxDest <= left THEN Taken(fill, s, s.usable, s.maxDest)
                ELSE Taken(fill, s, x, left)
      /\ ~(left <= 0) /\ ~(s.maxDest <= left)
           => /\ x \in Legal(s) /\ x \in Nat /\ Yield(s, x) >= left
              /\ \A y \in Legal(s) : Yield(s, y) >= left => x <= y
  <2>1. left \in Int
    BY <1>3
  <2>. QED  BY <1>1, <2>1, GreedyStepIs
<1> HIDE DEF next, S, x
<1>8. CASE left = 0
  <2>1. next = fill /\ s.weight * 0 = 0
    BY <1>3, <1>7, <1>8
  <2>2. next.left = left - 0 /\ PickCost(next.picks) = PickCost(picks) + s.weight * 0
    BY <1>3, <1>4, <2>1
  <2>3. 0 \in Gains(s, fill, next)
    BY <1>3, <1>8, <2>1, <2>2 DEF Gains
  <2>. QED  BY <2>3 DEF next
<1>9. CASE left > 0 /\ s.usable <= left
  <2>1. next = Taken(fill, s, s.usable, s.usable)
    BY <1>2, <1>3, <1>7, <1>9
  <2>2. next.left = left - s.usable /\ PickCost(next.picks) = PickCost(picks) + s.weight * s.usable
    BY <1>3, <1>5, <1>6, <2>1
  <2>3. s.usable \in Gains(s, fill, next)
    BY <1>3, <1>9, <2>2 DEF Gains
  <2>. QED  BY <2>3 DEF next
<1>10. CASE left > 0 /\ ~(s.usable <= left)
  <2>1. /\ next = Taken(fill, s, x, left)
        /\ x \in Legal(s) /\ x \in Nat /\ Yield(s, x) >= left
        /\ \A y \in Legal(s) : Yield(s, y) >= left => x <= y
    BY <1>2, <1>3, <1>7, <1>10
  <2>2. left \in 0 .. s.usable /\ x \in 0 .. s.usable
    BY <1>3, <1>10, <2>1 DEF Legal
  <2>3. Yield(s, left) = left /\ left \in Legal(s) /\ Yield(s, x) = x
    BY <1>2, <2>2
  <2>4. x = left
    BY <1>3, <2>1, <2>3
  <2>5. next.left = left - left /\ PickCost(next.picks) = PickCost(picks) + s.weight * left
    BY <1>3, <1>5, <1>6, <2>1, <2>4
  <2>6. left \in Gains(s, fill, next)
    BY <1>3, <1>10, <2>5 DEF Gains
  <2>. QED  BY <2>6 DEF next
<1>. QED  BY <1>3, <1>8, <1>9, <1>10

\* What is spent of the first n sources, and what it costs more than `way`.
LEMMA GreedyIsCheapest ==
  ASSUME NEW sources, AreSources(sources), Linear(sources), NEW need \in Nat \ {0},
         need <= Cap(sources, Len(sources)), NEW way \in Fundings(sources), PickYield(way) >= need
  PROVE  /\ Greedy(sources, need).left <= 0
         /\ PickCost(Greedy(sources, need).picks) <= PickCost(way)
<1> DEFINE N == Len(sources)  S == ToSet(sources)
<1>1. PICK w \in Amounts(sources) : way = Way(sources, w)
  <2>1. Fundings(sources) = {Way(sources, w) : w \in Amounts(sources)}
    BY Zenon DEF Fundings, Way, Amounts
  <2>. QED  BY <2>1
<1>2. PICK fill \in Greedies(sources, need) : TRUE
  BY GreedyRuns
<1> DEFINE c == Costs(sources, w)
           left == [n \in 0 .. N |-> fill[n].left]
           cost == [n \in 0 .. N |-> PickCost(fill[n].picks)]
           more(n) == Total(w, n) - (need - left[n])
           dearer(n) == Total(c, n) - cost[n]
<1>3. /\ N \in Nat /\ fill[0] = Unfilled(need) /\ Greedy(sources, need) = fill[N]
      /\ \A n \in 0 .. N : fill[n] \in Fills(S)
      /\ \A n \in 1 .. N : fill[n] = GreedyStep(fill[n - 1], sources[n])
  BY <1>2, FirstSources DEF Greedies
<1>4. /\ \A i \in 1 .. N : /\ w[i] \in 0 .. sources[i].usable
                            /\ Yields(sources, w)[i] = Yield(sources[i], w[i])
                            /\ c[i] = sources[i].weight * w[i] /\ c[i] \in Nat
      /\ PickYield(way) = Total(Yields(sources, w), N) /\ PickCost(way) = Total(c, N)
  BY <1>1, WaySums
<1>5. \A i \in 1 .. N : w[i] \in Nat /\ sources[i].weight \in Nat /\ sources[i].usable \in Nat
  <2>1. \A i \in 1 .. N : IsSource(sources[i])
    BY DEF AreSources
  <2>. QED  BY <1>4, <2>1 DEF IsSource
<1>6. PickYield(way) = Total(w, N)
  <2> DEFINE y == Yields(sources, w)
  <2>1. \A i \in 1 .. N : y[i] = w[i] /\ y[i] \in Int
    BY <1>4, <1>5, LinearIs
  <2> HIDE DEF y, N
  <2>2. Total(y, N) = Total(w, N)
    BY <1>3, <2>1, TotalAgrees
  <2>. QED  BY <1>4, <2>2 DEF y
<1>7. /\ Total(w, 0) = 0 /\ Total(c, 0) = 0
      /\ Total(w, N) \in Int /\ Total(c, N) \in Int
      /\ \A n \in 1 .. N : /\ Total(w, n - 1) \in Int /\ Total(c, n - 1) \in Int
                            /\ Total(w, n) = Total(w, n - 1) + w[n]
                            /\ Total(c, n) = Total(c, n - 1) + sources[n].weight * w[n]
  <2> HIDE DEF c, N
  <2>1. \A i \in 1 .. N : w[i] \in Int /\ c[i] \in Int
    BY <1>4, <1>5
  <2>2. /\ Total(w, 0) = 0 /\ Total(w, N) \in Int
        /\ \A n \in 1 .. N : Total(w, n - 1) \in Int /\ Total(w, n) = Total(w, n - 1) + w[n]
    BY <1>3, <2>1, TotalStep
  <2>3. /\ Total(c, 0) = 0 /\ Total(c, N) \in Int
        /\ \A n \in 1 .. N : Total(c, n - 1) \in Int /\ Total(c, n) = Total(c, n - 1) + c[n]
    BY <1>3, <2>1, TotalStep
  <2>. QED  BY <1>4, <2>2, <2>3
<1>8. \A n \in 0 .. N : left[n] \in Int /\ cost[n] \in Nat
  <2>1. ASSUME NEW n \in 0 .. N  PROVE left[n] \in Int /\ cost[n] \in Nat
    <3>1. fill[n].left \in Int /\ fill[n].picks \in Seq(Picks(S))
      BY <1>3 DEF Fills
    <3>2. PickCost(fill[n].picks) \in Nat
      BY <3>1, FirstSources, PickSums
    <3>. QED  BY <3>1, <3>2
  <2>. QED  BY <2>1
<1>9. left[0] = need /\ cost[0] = 0
  <2>1. fill[0].left = need /\ fill[0].picks = <<>>
    BY <1>3 DEF Unfilled
  <2>2. PickCost(<<>>) = 0
    <3>1. <<>> \in Seq(Picks(S)) /\ \A t \in S : IsSource(t)
      BY FirstSources
    <3>. QED  BY <3>1, PickSums
  <2>3. PickCost(fill[0].picks) = 0
    BY <2>1, <2>2, Zenon
  <2>. QED  BY <1>3, <2>1, <2>3
<1>10. ASSUME NEW n \in 1 .. N, left[n - 1] >= 0
       PROVE  \E g \in Nat :
                /\ left[n] = left[n - 1] - g /\ left[n] >= 0
                /\ cost[n] = cost[n - 1] + sources[n].weight * g
                /\ left[n - 1] = 0 => g = 0
                /\ left[n] > 0 => g = sources[n].usable
  <2>1. n - 1 \in 0 .. N /\ n \in 0 .. N
    BY <1>3
  <2>2. fill[n - 1] \in Fills(S) /\ fill[n - 1].left >= 0
    BY <1>3, <1>10, <2>1
  <2>3. PICK g \in Nat :
          /\ fill[n].left = fill[n - 1].left - g /\ fill[n].left >= 0
          /\ PickCost(fill[n].picks) = PickCost(fill[n - 1].picks) + sources[n].weight * g
          /\ fill[n - 1].left = 0 => g = 0
          /\ fill[n].left > 0 => g = sources[n].usable
    <3> DEFINE f == fill[n - 1]
    <3>1. Gains(sources[n], f, GreedyStep(f, sources[n])) # {}
      BY <2>2, LinearStep
    <3>2. fill[n] = GreedyStep(f, sources[n])
      BY <1>3
    <3> HIDE DEF f
    <3>3. PICK g \in Nat : g \in Gains(sources[n], f, fill[n])
      BY <3>1, <3>2 DEF Gains
    <3>. QED  BY <3>3 DEF Gains, f
  <2>. QED  BY <2>1, <2>3
<1> DEFINE Good == {n \in 0 .. N :
              /\ left[n] >= 0
              /\ left[n] > 0 => more(n) <= 0
              /\ \E t \in Nat : /\ \A m \in n + 1 .. N : t <= sources[m].weight
                               /\ dearer(n) >= t * more(n)}
<1> HIDE DEF c, left, cost, N, S
<1>11. 0 \in Good
  <2>1. 0 \in 0 .. N /\ more(0) = 0 /\ dearer(0) = 0
    BY <1>3, <1>7, <1>9
  <2>2. \A m \in 0 + 1 .. N : 0 <= sources[m].weight
    BY <1>5
  <2>3. 0 \in Nat /\ dearer(0) >= 0 * more(0)
    BY <2>1
  <2>. QED  BY <1>9, <2>1, <2>2, <2>3
<1>12. ASSUME NEW n \in 1 .. N, n - 1 \in Good  PROVE n \in Good
  <2> DEFINE u == sources[n].weight  a == w[n]  d == more(n - 1)  e == dearer(n - 1)
  <2>1. /\ n \in 0 .. N /\ n - 1 \in 0 .. N /\ left[n - 1] >= 0
        /\ left[n - 1] > 0 => d <= 0
    BY <1>3, <1>12
  <2>2. PICK t \in Nat : (\A m \in (n - 1) + 1 .. N : t <= sources[m].weight) /\ e >= t * d
    BY <1>12
  <2>3. PICK g \in Nat :
          /\ left[n] = left[n - 1] - g /\ left[n] >= 0
          /\ cost[n] = cost[n - 1] + u * g
          /\ left[n - 1] = 0 => g = 0
          /\ left[n] > 0 => g = sources[n].usable
    BY <1>10, <2>1
  <2>4. u \in Nat /\ a \in Nat /\ a <= sources[n].usable /\ sources[n].usable \in Nat
    BY <1>4, <1>5
  <2>5. t <= u /\ (\A m \in n + 1 .. N : t <= sources[m].weight)
    <3>1. n \in (n - 1) + 1 .. N /\ \A m \in n + 1 .. N : m \in (n - 1) + 1 .. N
      BY <1>3
    <3>. QED  BY <2>2, <3>1
  <2>6. \A m \in n + 1 .. N : u <= sources[m].weight
    <3>1. \A m \in n + 1 .. N : m \in 1 .. N /\ n < m
      BY <1>3
    <3>. QED  BY <3>1, LinearIs DEF N
  <2>7. d \in Int /\ e \in Int /\ left[n - 1] \in Int /\ left[n] \in Int
    BY <1>7, <1>8, <2>1
  <2>8. more(n) = d + a - g
    <3> DEFINE so == Total(w, n - 1)  l == left[n - 1]
    <3>1. so \in Int /\ l \in Int /\ Total(w, n) = so + a /\ left[n] = l - g
      BY <1>7, <2>3, <2>7
    <3>2. d = so - (need - l) /\ more(n) = Total(w, n) - (need - left[n])
      OBVIOUS
    <3> HIDE DEF so, l, d, a, more
    <3>. QED  BY <2>4, <3>1, <3>2
  <2>9. dearer(n) = e + u * a - u * g
    <3> DEFINE so == Total(c, n - 1)  l == cost[n - 1]  ua == u * a  ug == u * g
    <3>1. ua \in Int /\ ug \in Int
      BY <2>4
    <3>2. so \in Int /\ l \in Int /\ Total(c, n) = so + ua /\ cost[n] = l + ug
      BY <1>7, <1>8, <2>1, <2>3
    <3>3. e = so - l /\ dearer(n) = Total(c, n) - cost[n]
      OBVIOUS
    <3> HIDE DEF so, l, ua, ug, e, dearer
    <3>4. dearer(n) = e + ua - ug
      BY <3>1, <3>2, <3>3
    <3>. QED  BY <3>4 DEF ua, ug
  <2> HIDE DEF u, a, d, e
  <2>10. /\ d <= 0 => e + u * a - u * g >= u * (d + a - g)
         /\ g = 0 => e + u * a - u * g >= t * (d + a - g)
    BY <2>2, <2>4, <2>5, <2>7, Exchange
  <2>11. d <= 0 \/ g = 0
    BY <2>1, <2>3, <2>7
  <2>12. left[n] > 0 => more(n) <= 0
    <3>1. left[n] > 0 => d <= 0 /\ g = sources[n].usable
      BY <2>1, <2>3, <2>7
    <3>. QED  BY <2>4, <2>7, <2>8, <3>1
  <2> HIDE DEF more, dearer
  <2>13. \E v \in Nat : (\A m \in n + 1 .. N : v <= sources[m].weight) /\ dearer(n) >= v * more(n)
    <3>1. u \in Nat /\ \A m \in n + 1 .. N : u <= sources[m].weight
      BY <2>4, <2>6
    <3>2. d <= 0 => dearer(n) >= u * more(n)
      BY <2>8, <2>9, <2>10
    <3>3. g = 0 => dearer(n) >= t * more(n)
      BY <2>8, <2>9, <2>10
    <3>. QED  BY <2>5, <2>11, <3>1, <3>2, <3>3
  <2>. QED  BY <2>1, <2>3, <2>12, <2>13
<1>13. N \in Good
  <2> HIDE DEF Good
  <2>1. 0 .. N \subseteq Good
    BY <1>3, <1>11, <1>12, InductionTo
  <2>. QED  BY <1>3, <2>1
<1>14. left[N] = 0
  <2>1. Greedy(sources, need).left > 0 => Greedy(sources, need).left = need - Cap(sources, N)
    BY GreedySound DEF N
  <2>2. Cap(sources, N) \in Nat
    <3>1. N \in 0 .. N
      BY <1>3
    <3>. QED  BY <3>1, CapSteps DEF N
  <2>3. left[N] = Greedy(sources, need).left /\ left[N] \in Int /\ left[N] >= 0
    BY <1>3, <1>8, <1>13 DEF left
  <2>4. need <= Cap(sources, N)
    BY DEF N
  <2>. QED  BY <2>1, <2>2, <2>3, <2>4
<1>15. more(N) >= 0 /\ more(N) \in Int
  BY <1>6, <1>7, <1>14
<1>16. dearer(N) >= 0
  <2>1. PICK t \in Nat : dearer(N) >= t * more(N)
    BY <1>13
  <2>2. dearer(N) \in Int
    <3>1. N \in 0 .. N
      BY <1>3
    <3>. QED  BY <1>7, <1>8, <3>1
  <2> HIDE DEF more, dearer
  <2>3. t * more(N) \in Nat
    BY <1>15
  <2>. QED  BY <2>1, <2>2, <2>3
<1>17. Greedy(sources, need).left = left[N] /\ PickCost(Greedy(sources, need).picks) = cost[N]
  <2>1. N \in 0 .. N
    BY <1>3
  <2>. QED  BY <1>3, <2>1 DEF left, cost
<1>18. PickCost(way) = Total(c, N) /\ cost[N] \in Nat
  <2>1. N \in 0 .. N
    BY <1>3
  <2>. QED  BY <1>4, <1>8, <2>1
<1>. QED  BY <1>7, <1>14, <1>16, <1>17, <1>18

(* No way of spending the sources that covers the need costs less than the one  *)
(* that fund picks, when they move point by point.                              *)
THEOREM FundIsCheapest ==
  ASSUME NEW sources, AreSources(sources), Linear(sources), NEW need \in Nat \ {0},
         need <= Cap(sources, Len(sources)), NEW way \in Fundings(sources), PickYield(way) >= need
  PROVE  PickCost(Fund(sources, need).picks) <= PickCost(way)
<1> DEFINE fund == Fund(sources, need)  greedy == Greedy(sources, need)  S == ToSet(sources)
<1>1. greedy.left <= 0 /\ PickCost(greedy.picks) <= PickCost(way)
  BY GreedyIsCheapest
<1>2. Tried(sources, need, 1) = greedy /\ 1 \in 1 .. Len(sources) + 1
  BY FirstSources DEF Tried
<1>3. PickCost(fund.picks) <= PickCost(greedy.picks)
  <2>1. Tried(sources, need, 1).left <= 0
         => PickCost(fund.picks) <= PickCost(Tried(sources, need, 1).picks)
    BY <1>2, FundSound
  <2> HIDE DEF fund, greedy
  <2>. QED  BY <1>1, <1>2, <2>1
<1>4. PickCost(fund.picks) \in Nat
  <2>1. fund.picks \in Seq(Picks(S))
    BY FundSound DEF Sound, Fills
  <2>. QED  BY <2>1, FirstSources, PickSums
<1>5. PickCost(greedy.picks) \in Nat
  <2>1. greedy.picks \in Seq(Picks(S))
    BY GreedySound DEF Sound, Fills
  <2>. QED  BY <2>1, FirstSources, PickSums
<1>6. PickCost(way) \in Nat
  <2>1. PICK w \in Amounts(sources) : way = Way(sources, w)
    <3>1. Fundings(sources) = {Way(sources, w) : w \in Amounts(sources)}
      BY Zenon DEF Fundings, Way, Amounts
    <3>. QED  BY <3>1
  <2>. QED  BY <2>1, WaySums
<1> HIDE DEF fund, greedy
<1>7. PickCost(fund.picks) <= PickCost(way)
  BY <1>1, <1>3, <1>4, <1>5, <1>6
<1>. QED  BY <1>7 DEF fund

--------------------------------------------------------------------------------
(* What a plan that cannot be funded spends: everything.                        *)

LEMMA AllInFull ==
  ASSUME NEW sources, AreSources(sources)
  PROVE  LET N == Len(sources)  picks == Unfunded(sources)
         IN  /\ picks \in Seq(Picks(ToSet(sources))) /\ Len(picks) = N /\ DOMAIN picks = 1 .. N
             /\ \A i \in 1 .. N : picks[i].source = sources[i] /\ picks[i].amount = sources[i].usable
             /\ PickYield(picks) = Cap(sources, N)
<1> DEFINE N == Len(sources)  picks == Unfunded(sources)  S == ToSet(sources)
<1>1. N \in Nat /\ DOMAIN sources = 1 .. N /\ \A i \in 1 .. N : IsSource(sources[i]) /\ sources[i] \in S
  BY DEF AreSources, ToSet
<1>2. /\ DOMAIN picks = 1 .. N
      /\ \A i \in 1 .. N : picks[i].source = sources[i] /\ picks[i].amount = sources[i].usable
  BY <1>1 DEF Unfunded, Pick
<1>3. \A i \in 1 .. N : picks[i] \in Picks(S)
  <2>1. \A i \in 1 .. N : picks[i] = [source |-> sources[i], amount |-> sources[i].usable]
    BY <1>1 DEF Unfunded, Pick
  <2>2. \A i \in 1 .. N : sources[i].usable \in Nat
    BY <1>1 DEF IsSource
  <2> HIDE DEF picks, N, S
  <2>3. \A i \in 1 .. N : [source |-> sources[i], amount |-> sources[i].usable] \in Picks(S)
    BY <1>1, <2>2 DEF Picks
  <2>. QED  BY <2>1, <2>3
<1>4. picks = [i \in 1 .. N |-> picks[i]]
  BY <1>1 DEF Unfunded
<1> HIDE DEF picks, N, S
<1>5. picks \in Seq(Picks(S)) /\ Len(picks) = N
  BY <1>1, <1>2, <1>3, <1>4
<1>6. PickYield(picks) = Cap(sources, N)
  <2> DEFINE y == [i \in DOMAIN picks |-> Yield(picks[i].source, picks[i].amount)]
             d == Dests(sources)
  <2>1. PickYield(picks) = Total(y, Len(picks))
    BY Zenon DEF PickYield
  <2>2. \A i \in 1 .. N : y[i] = d[i] /\ y[i] \in Int
    <3>1. ASSUME NEW i \in 1 .. N  PROVE y[i] = d[i] /\ y[i] \in Int
      <4>1. y[i] = Yield(sources[i], sources[i].usable) /\ d[i] = sources[i].maxDest
        BY <1>1, <1>2 DEF Dests
      <4>2. Yield(sources[i], sources[i].usable) = sources[i].maxDest /\ sources[i].maxDest \in Nat
        BY <1>1 DEF IsSource
      <4>. QED  BY <4>1, <4>2
    <3>. QED  BY <3>1
  <2> HIDE DEF y, d
  <2>3. Total(y, N) = Total(d, N)
    BY <1>1, <2>2, TotalAgrees
  <2>. QED  BY <1>5, <2>1, <2>3 DEF d, Cap
<1>. QED  BY <1>2, <1>5, <1>6 DEF picks, N, S

\* A plan that spends what was funded, or everything, spends well.
LEMMA FundedSpendsWell ==
  ASSUME NEW sources, AreSources(sources), NEW plan, plan.need \in Nat \ {0},
         plan.fundable \in BOOLEAN, plan.fundable <=> Fund(sources, plan.need).left <= 0,
         plan.sources = IF plan.fundable THEN Fund(sources, plan.need).picks ELSE Unfunded(sources),
         plan.provided = PickYield(plan.sources)
  PROVE  /\ SpendsWell(plan, sources)
         /\ plan.sources \in Seq(Picks(ToSet(sources)))
         /\ ~plan.fundable => plan.provided = Cap(sources, Len(sources)) /\ plan.provided < plan.need
<1> DEFINE N == Len(sources)  S == ToSet(sources)  need == plan.need  fund == Fund(sources, need)
           picks == plan.sources
           covering == {way \in Fundings(sources) : PickYield(way) >= need}
<1>1. /\ Sound(fund, S, S, need, Cap(sources, N))
      /\ fund.left <= 0 <=> need <= Cap(sources, N)
      /\ fund.left <= 0 => PickYield(fund.picks) >= need
  BY FundSound
<1>2. Cap(sources, N) \in Nat
  <2>1. N \in 0 .. N
    BY FirstSources
  <2>. QED  BY <2>1, CapSteps
<1>3. plan.fundable <=> need <= Cap(sources, N)
  BY <1>1
<1>4. plan.fundable <=> covering # {}
  BY <1>3, SomeWayCovers
<1>5. /\ picks \in Seq(Picks(S))
      /\ \A i \in 1 .. Len(picks) : picks[i].source \in S /\ picks[i].amount \in Legal(picks[i].source)
      /\ \A i, j \in 1 .. Len(picks) : picks[i].source = picks[j].source => i = j
  <2>1. CASE plan.fundable
    <3>1. picks = fund.picks
      BY <2>1
    <3>. QED  BY <1>1, <3>1 DEF Sound, Fills
  <2>2. CASE ~plan.fundable
    <3> DEFINE all == Unfunded(sources)
    <3>1. picks = all
      BY <2>2
    <3>2. /\ all \in Seq(Picks(S)) /\ Len(all) = N
          /\ \A i \in 1 .. N : all[i].source = sources[i] /\ all[i].amount = sources[i].usable
      BY AllInFull
    <3>3. /\ \A i \in 1 .. N : sources[i] \in S /\ sources[i].usable \in Legal(sources[i])
          /\ \A i, j \in 1 .. N : sources[i] = sources[j] => i = j
      <4>1. \A i \in 1 .. N : IsSource(sources[i]) /\ sources[i] \in S
        BY DEF AreSources, ToSet
      <4>2. \A i, j \in 1 .. N : i < j => sources[i] # sources[j]
        BY DEF AreSources
      <4>3. N \in Nat
        BY FirstSources
      <4> HIDE DEF N, S
      <4>4. \A i, j \in 1 .. N : sources[i] = sources[j] => i = j
        BY <4>2, <4>3
      <4>. QED  BY <4>1, <4>4, FullIsLegal
    <3> HIDE DEF all, N, S
    <3>. QED  BY <3>1, <3>2, <3>3
  <2>. QED  BY <2>1, <2>2
<1>6. ~plan.fundable => plan.provided = Cap(sources, N) /\ plan.provided < need
  <2>1. ~plan.fundable => plan.provided = Cap(sources, N)
    BY AllInFull
  <2>. QED  BY <1>2, <1>3, <2>1
<1>7. plan.fundable => plan.provided >= need /\ picks = fund.picks
  BY <1>1
<1>8. ASSUME plan.fundable, NEW s \in S, NEW x \in Legal(s), Yield(s, x) >= need
      PROVE  PickCost(picks) <= s.weight * x
  <2>1. PickCost(fund.picks) <= s.weight * x
    BY <1>8, NoSourceIsCheaper
  <2>. QED  BY <1>7, <1>8, <2>1
<1>9. ASSUME plan.fundable, Linear(sources), NEW way \in covering
      PROVE  PickCost(picks) <= PickCost(way)
  <2>1. PickCost(fund.picks) <= PickCost(way)
    BY <1>3, <1>9, FundIsCheapest
  <2>. QED  BY <1>7, <1>9, <2>1
<1>10. /\ DOMAIN picks = 1 .. Len(picks)
       /\ \A k \in ToSet(picks) : k.source \in S /\ k.amount \in Legal(k.source)
  <2> HIDE DEF picks
  <2>1. DOMAIN picks = 1 .. Len(picks)
    BY <1>5
  <2>. QED  BY <1>5, <2>1 DEF ToSet
<1> HIDE DEF S, N, need, fund, picks, covering
<1>11. \A i, j \in DOMAIN picks : picks[i].source = picks[j].source => i = j
  BY <1>5, <1>10
<1>12. SpendsWell(plan, sources)
  BY <1>4, <1>7, <1>8, <1>9, <1>10, <1>11 DEF SpendsWell, S, need, picks, covering
<1>. QED  BY <1>5, <1>6, <1>12 DEF S, N, need, picks

--------------------------------------------------------------------------------
(* The plan of a spot: its fields, and what its shortfall asks for.             *)

Used(chosen) ==
  [p \in Programs |->
     Total([i \in DOMAIN chosen |->
              IF chosen[i].source.from = p THEN chosen[i].amount ELSE 0], Len(chosen))]
Certain(chosen) == \A k \in ToSet(chosen) : k.source.bonus = None \/ k.source.bonus.verified

\* How the fields of a plan hang together.
IsPlan(p, spot, units, held, listed, now) ==
  /\ p.spot = spot /\ p.need = spot.cost * units /\ p.provided = PickYield(p.sources)
  /\ p.coverage = IF p.fundable THEN {}
                  ELSE CoverageFor(spot.program, p.need - p.provided, held, Used(p.sources),
                                   listed, now)
  /\ p.confidence = IF Certain(p.sources) THEN spot.confidence ELSE Min({spot.confidence, 1})
  /\ p.milli = IF p.fundable /\ PickAmount(p.sources) > 0
               THEN Round(p.need * spot.cpp * 1000, PickAmount(p.sources)) ELSE spot.cpp * 1000
  /\ p.score = IF p.fundable THEN Round(4 * (p.need * spot.cpp) - PickCost(p.sources), 4) ELSE 0

LEMMA PlanFields ==
  ASSUME NEW spot, NEW units, NEW chosen, NEW fundable \in BOOLEAN, NEW held, NEW listed,
         NEW now, NEW p, p = PlanOf(spot, units, chosen, fundable, held, listed, now)
  PROVE  /\ p.fundable = fundable /\ p.sources = chosen
         /\ IsPlan(p, spot, units, held, listed, now)
<1> DEFINE of == PlanOf(spot, units, chosen, fundable, held, listed, now)
           need == spot.cost * units
<1>0. /\ of.fundable = fundable /\ of.sources = chosen
      /\ of.spot = spot /\ of.need = need /\ of.provided = PickYield(chosen)
      /\ of.coverage = IF fundable THEN {}
                      ELSE CoverageFor(spot.program, need - PickYield(chosen), held,
                                       Used(chosen), listed, now)
      /\ of.confidence = IF Certain(chosen) THEN spot.confidence ELSE Min({spot.confidence, 1})
      /\ of.milli = IF fundable /\ PickAmount(chosen) > 0
                   THEN Round(need * spot.cpp * 1000, PickAmount(chosen)) ELSE spot.cpp * 1000
      /\ of.score = IF fundable THEN Round(4 * (need * spot.cpp) - PickCost(chosen), 4) ELSE 0
  BY Zenon DEF PlanOf, Used, Certain
<1> HIDE DEF of
<1>1. p = of
  BY DEF of
<1>2. IsPlan(of, spot, units, held, listed, now)
  BY <1>0 DEF IsPlan
<1>. QED  BY <1>0, <1>1, <1>2, Zenon

LEMMA MaxWithZero ==
  ASSUME NEW a \in Int
  PROVE  Max({0, a}) = IF a > 0 THEN a ELSE 0
<1>1. Max({0, a}) = CHOOSE x \in {0, a} : \A y \in {0, a} : x >= y
  BY DEF Max
<1>2. \E x \in {0, a} : \A y \in {0, a} : x >= y
  BY DEF Max
<1>. QED  BY <1>1, <1>2

\* Of a program, at least what each of its sources gives is used.
LEMMA UsedBounds ==
  ASSUME NEW sources, AreSources(sources)
  PROVE  /\ \A p \in Programs : Used(Unfunded(sources))[p] \in Nat
         /\ \A s \in ToSet(sources) : s.from \in Programs
              => Used(Unfunded(sources))[s.from] >= s.usable
<1> DEFINE N == Len(sources)  all == Unfunded(sources)
           of(p) == [i \in DOMAIN all |-> IF all[i].source.from = p THEN all[i].amount ELSE 0]
<1>1. /\ Len(all) = N /\ DOMAIN all = 1 .. N
      /\ \A i \in 1 .. N : all[i].source = sources[i] /\ all[i].amount = sources[i].usable
  BY AllInFull
<1>2. N \in Nat /\ \A i \in 1 .. N : sources[i].usable \in Nat
  <2>1. N \in Nat /\ \A i \in 1 .. N : IsSource(sources[i])
    BY DEF AreSources
  <2>. QED  BY <2>1 DEF IsSource
<1>3. \A p \in Programs : Used(all)[p] = Total(of(p), Len(all))
  BY Zenon DEF Used
<1> HIDE DEF all, N
<1>4. \A p : \A i \in 1 .. N :
        of(p)[i] = IF sources[i].from = p THEN sources[i].usable ELSE 0
  BY <1>1
<1> HIDE DEF of
<1>5. ASSUME NEW p \in Programs
      PROVE  /\ Used(all)[p] \in Nat
             /\ \A i \in 1 .. N : sources[i].from = p => Used(all)[p] >= sources[i].usable
  <2> DEFINE f == of(p)
  <2>1. \A i \in 1 .. N : f[i] \in Nat
    BY <1>2, <1>4
  <2>2. \A i \in 1 .. N : sources[i].from = p => f[i] = sources[i].usable
    BY <1>4
  <2>3. Used(all)[p] = Total(f, N)
    BY <1>1, <1>3
  <2> HIDE DEF f
  <2>4. Total(f, N) \in Nat /\ \A i \in 1 .. N : f[i] <= Total(f, N)
    <3>1. N \in 0 .. N
      BY <1>2
    <3>. QED  BY <1>2, <2>1, <3>1, TotalBounds
  <2>. QED  BY <1>2, <2>2, <2>3, <2>4
<1>6. \A s \in ToSet(sources) : \E i \in 1 .. N : s = sources[i]
  BY DEF ToSet, AreSources, N
<1>7. ASSUME NEW s \in ToSet(sources), s.from \in Programs
      PROVE  Used(all)[s.from] >= s.usable
  <2>1. PICK i \in 1 .. N : s = sources[i]
    BY <1>6
  <2>. QED  BY <1>5, <1>7, <2>1
<1>. QED  BY <1>5, <1>7 DEF all

\* What is left of a balance is less than a block, once all it may move is moved.
LEMMA RemainderIsSmall ==
  ASSUME NEW inc \in Nat \ {0}, NEW points \in Nat, NEW x \in Nat, x % inc = 0, x > 0,
         x <= points
  PROVE  x <= (points \div inc) * inc /\ inc <= x
<1>1. PICK k \in Nat : x = k * inc
  BY WholeBlocks
<1> DEFINE j == points \div inc
<1>2. j \in Nat /\ \A i \in Nat : j >= i <=> points >= i * inc
  BY FloorDivGreatest
<1> HIDE DEF j
<1>3. k <= j
  BY <1>1, <1>2
<1>4. k > 0
  <2>1. 0 * inc = 0
    OBVIOUS
  <2>. QED  BY <1>1, <2>1
<1>5. PICK v \in Nat : j = k + v
  <2>1. j - k \in Nat /\ j = k + (j - k)
    BY <1>2, <1>3
  <2>. QED  BY <2>1
<1>6. (k + v) * inc = k * inc + v * inc /\ v * inc \in Nat
  OBVIOUS
<1>7. PICK u \in Nat : k = u + 1
  <2>1. k - 1 \in Nat /\ k = (k - 1) + 1
    BY <1>4
  <2>. QED  BY <2>1
<1>8. (u + 1) * inc = u * inc + inc /\ u * inc \in Nat
  OBVIOUS
<1>. QED  BY <1>1, <1>5, <1>6, <1>7, <1>8 DEF j

(* What is missing once everything is spent no balance covers: a hint that says *)
(* a transfer would cover it now never contradicts the shortfall.               *)
THEOREM NothingIsLeft ==
  ASSUME NEW program \in Programs, NEW held, IsPortfolio(held), NEW now,
         NEW listed, \A b \in listed : Priced(b),
         NEW e \in OpenEdges(program, held, now), NEW missing \in Nat \ {0},
         NEW needed \in Nat, Block(needed, OrElse(e.min, OrElse(e.inc, DefaultIncrement)),
                                   OrElse(e.inc, DefaultIncrement)),
         ConvertPoints(Resolved(e), needed, Permille(BestBonus(listed, e, now))) >= missing
  PROVE  LET sources == BuildSources(program, held, listed, now)
         IN  ~(Max({0, Points(held, e.from) - Used(Unfunded(sources))[e.from]}) >= needed)
<1> DEFINE sources == BuildSources(program, held, listed, now)
           used == Used(Unfunded(sources))[e.from]
           points == Points(held, e.from)
           inc == OrElse(e.inc, DefaultIncrement)  min == OrElse(e.min, inc)
           bonus == BestBonus(listed, e, now)
<1>1. e \in Edges /\ e.to = program /\ e.from \in Programs
  BY EdgeNumbers DEF OpenEdges
<1>2. AreSources(sources) /\ ToSet(sources) = SourceSet(program, held, listed, now)
  BY SourcesAreSorted
<1>3. used \in Nat
  BY <1>1, <1>2, UsedBounds
<1>4. points \in Nat /\ (points > 0 => held[e.from] # None /\ held[e.from].points = points)
  BY <1>1 DEF Points, IsPortfolio, IsHolding
<1>5. inc \in Nat \ {0} /\ min \in Nat
  BY <1>1, EdgeNumbers, TransfersAssumption DEF OrElse
<1>6. needed > 0 /\ needed % inc = 0 /\ needed >= min
  BY DEF Block
<1>7. Permille(bonus) \in Nat \ {0}
  BY PermilleIsPositive
<1>8. ConvertPoints(Resolved(e), needed, Permille(bonus)) >= missing
  OBVIOUS
<1> HIDE DEF used, points, inc, min, bonus, sources
<1> SUFFICES ASSUME Max({0, points - used}) >= needed  PROVE FALSE
  BY DEF used, points, sources
<1>9. points - used >= needed /\ points >= needed /\ points > 0
  <2>1. points - used \in Int
    BY <1>3, <1>4
  <2>2. Max({0, points - used}) = IF points - used > 0 THEN points - used ELSE 0
    BY <2>1, MaxWithZero
  <2>. QED  BY <1>3, <1>4, <1>6, <2>2
<1> DEFINE h == held[e.from]  s == Transfer(e, h, bonus)
<1>10. h # None /\ h.points = points
  BY <1>4, <1>9
<1> HIDE DEF h
<1>11. /\ s.from = e.from /\ s.edge = Resolved(e) /\ s.edge # None /\ s.bonus = bonus
       /\ s.inc = inc /\ s.min = min
       /\ s.usable = (points \div inc) * inc /\ s.usable \in Nat /\ points < s.usable + inc
       /\ s.maxDest = Yield(s, s.usable) /\ s.maxDest \in Nat
  <2>1. h.points \in Nat
    BY <1>4, <1>10
  <2>. QED  BY <1>1, <1>7, <1>10, <2>1, TransferFields DEF inc, min
<1> HIDE DEF s
<1>12. needed <= s.usable /\ inc <= needed
  BY <1>4, <1>5, <1>6, <1>9, <1>11, RemainderIsSmall
<1>13. s.maxDest > 0
  <2>1. Yield(s, needed) = ConvertPoints(Resolved(e), needed, Permille(bonus))
    BY <1>6, <1>11 DEF Yield
  <2>2. s.edge.num \in Nat \ {0} /\ s.edge.den \in Nat \ {0}
    BY <1>1, <1>11, EdgeNumbers
  <2>3. Yield(s, needed) \in Nat /\ Yield(s, s.usable) \in Nat /\ Yield(s, needed) <= Yield(s, s.usable)
    <3>1. Permille(s.bonus) \in Nat \ {0}
      BY <1>7, <1>11
    <3>. QED  BY <1>11, <1>12, <2>2, <3>1, YieldGrows
  <2>. QED  BY <1>8, <1>11, <2>1, <2>3
<1>14. s \in SourceSet(program, held, listed, now)
  <2>1. e.from \in {p \in Programs : held[p] # None /\ held[p].points > 0}
    BY <1>1, <1>9, <1>10 DEF h
  <2>2. s \in Moved(program, held, listed, now)
    BY <2>1 DEF Moved, s, h, bonus
  <2>3. s.usable >= s.min /\ s.usable > 0 /\ s.maxDest > 0
    BY <1>5, <1>6, <1>11, <1>12, <1>13
  <2>. QED  BY <2>2, <2>3 DEF SourceSet
<1>15. used >= s.usable
  <2>1. s \in ToSet(sources) /\ s.from \in Programs
    BY <1>1, <1>2, <1>11, <1>14
  <2>2. Used(Unfunded(sources))[s.from] >= s.usable
    BY <1>2, <2>1, UsedBounds
  <2>. QED  BY <1>11, <2>2 DEF used
<1>. QED  BY <1>3, <1>4, <1>5, <1>9, <1>11, <1>12, <1>15

LEMMA ShortfallAsksForTheLeast ==
  ASSUME NEW program \in Programs, NEW held, IsPortfolio(held), NEW now,
         NEW listed, \A b \in listed : Priced(b),
         NEW plan, plan.spot.program = program, NEW missing \in Nat \ {0},
         missing = plan.need - plan.provided,
         plan.coverage = CoverageFor(program, missing, held,
                           Used(Unfunded(BuildSources(program, held, listed, now))), listed, now)
  PROVE  AsksForTheLeast(plan, listed, now)
<1> DEFINE sources == BuildSources(program, held, listed, now)
           used == Used(Unfunded(sources))
           permille(e) == Permille(BestBonus(listed, e, now))
           needed(e) == CoverageNeeded(Resolved(e), missing, permille(e))
           available(e) == Max({0, Points(held, e.from) - used[e.from]})
           ask(e) == [from |-> e.from, needed |-> needed(e), available |-> available(e),
                      coversNow |-> available(e) >= needed(e)]
<1>1. plan.coverage = {ask(e) : e \in OpenEdges(program, held, now)}
  BY Zenon DEF CoverageFor
<1>2. ASSUME NEW hint \in plan.coverage
      PROVE  LET e == CHOOSE f \in EdgesBetween(hint.from, plan.spot.program) : TRUE
                 inc == OrElse(e.inc, DefaultIncrement)
                 enough(x) == /\ Block(x, OrElse(e.min, inc), inc)
                              /\ ConvertPoints(Resolved(e), x, permille(e))
                                   >= plan.need - plan.provided
             IN  Least(hint.needed, enough) /\ ~hint.coversNow
  <2>1. PICK e \in OpenEdges(program, held, now) : hint = ask(e)
    BY <1>1
  <2>2. hint.from = e.from /\ hint.needed = needed(e) /\ hint.coversNow = (available(e) >= needed(e))
    BY <2>1
  <2>3. e \in Edges /\ e.to = program
    BY DEF OpenEdges
  <2>4. (CHOOSE f \in EdgesBetween(hint.from, plan.spot.program) : TRUE) = e
    BY <2>2, <2>3, TheEdge
  <2> DEFINE inc == OrElse(e.inc, DefaultIncrement)
             enough(x) == /\ Block(x, OrElse(e.min, inc), inc)
                          /\ ConvertPoints(Resolved(e), x, permille(e)) >= missing
  <2>5. Least(needed(e), enough)
    <3>1. permille(e) \in Nat \ {0}
      BY PermilleIsPositive
    <3> DEFINE r == Resolved(e)  m == permille(e)
    <3>2. /\ r.num \in Nat \ {0} /\ r.den \in Nat \ {0} /\ r.min = e.min /\ r.inc = e.inc
          /\ r.min \in Nat \union {None} /\ r.inc \in (Nat \ {0}) \union {None}
      BY <2>3, EdgeNumbers
    <3> HIDE DEF r, m
    <3>3. m \in Nat \ {0}
      BY <3>1 DEF m
    <3> DEFINE i == OrElse(r.inc, DefaultIncrement)
               n == CoverageNeeded(r, missing, m)
               suffices(x) == Block(x, OrElse(r.min, i), i) /\ ConvertPoints(r, x, m) >= missing
    <3>4. n \in Nat /\ suffices(n) /\ \A y \in 0 .. n - 1 : ~suffices(y)
      BY <3>2, <3>3, CoverageIsLeast DEF Least
    <3>. QED  BY <3>2, <3>4 DEF Least, r, m
  <2>6. ~(available(e) >= needed(e))
    <3>1. needed(e) \in Nat /\ enough(needed(e))
      BY <2>5 DEF Least
    <3>. QED  BY <3>1, NothingIsLeft
  <2> HIDE DEF needed, available, permille
  <2>. QED  BY <2>2, <2>4, <2>5, <2>6 DEF Least
<1>. QED  BY <1>2 DEF AsksForTheLeast

--------------------------------------------------------------------------------
(* Every plan is sound.                                                         *)

LEMMA MinOfTwo ==
  ASSUME NEW a \in Int, NEW b \in Int
  PROVE  Min({a, b}) = IF a <= b THEN a ELSE b
<1>1. Min({a, b}) = CHOOSE x \in {a, b} : \A y \in {a, b} : x <= y
  BY DEF Min
<1>2. \E x \in {a, b} : \A y \in {a, b} : x <= y
  BY DEF Min
<1>. QED  BY <1>1, <1>2

\* A plan is for at least one unit.
LEMMA UnitsArePositive ==
  ASSUME NEW spot \in Spots, NEW goal, goal.quantity \in (Nat \ {0}) \union {None},
         NEW capacity \in Nat
  PROVE  Units(spot, goal, capacity) \in Nat \ {0}
<1>1. spot.cost \in Nat \ {0} /\ spot.maxUnits \in Nat \ {0}
  BY RedemptionsAssumption
<1> DEFINE most == Max({1, capacity \div spot.cost})
           affordable == Min({spot.maxUnits, most})
<1>2. capacity \div spot.cost \in Nat
  BY <1>1, FloorDivGreatest
<1>3. most \in Nat \ {0}
  <2>1. 1 \in Nat
    OBVIOUS
  <2>2. most \in Nat /\ \A k \in Nat : k >= most <=> k >= 1 /\ k >= capacity \div spot.cost
    BY <1>2, <2>1, MaxOfTwo
  <2> HIDE DEF most
  <2>. QED  BY <2>2
<1> HIDE DEF most
<1>4. affordable \in Nat \ {0}
  <2>1. affordable = IF spot.maxUnits <= most THEN spot.maxUnits ELSE most
    BY <1>1, <1>3, MinOfTwo
  <2>. QED  BY <1>1, <1>3, <2>1
<1> HIDE DEF affordable
<1>5. Min({3, affordable}) \in Nat \ {0}
  <2>1. Min({3, affordable}) = IF 3 <= affordable THEN 3 ELSE affordable
    BY <1>4, MinOfTwo
  <2>. QED  BY <1>4, <2>1
<1>6. DefaultUnits(spot, capacity) \in Nat \ {0}
  BY <1>4, <1>5 DEF DefaultUnits, affordable, most
<1>. QED  BY <1>6 DEF Units, OrElse

\* What RanksBefore compares.
Rankable(plan) ==
  /\ plan.fundable \in BOOLEAN /\ plan.score \in Int /\ plan.milli \in Int
  /\ plan.provided \in Nat /\ plan.need \in Nat \ {0} /\ plan.spot \in Spots

LEMMA PlanIs ==
  ASSUME NEW spot \in Spots, NEW goal, NEW held, NEW listed, NEW now,
         EvaluateSpot(spot, goal, held, listed, now) # None
  PROVE  LET sources == BuildSources(spot.program, held, listed, now)
             units == Units(spot, goal, Cap(sources, Len(sources)))
             fund == Fund(sources, spot.cost * units)
         IN  EvaluateSpot(spot, goal, held, listed, now) =
               IF fund.left > 0
               THEN PlanOf(spot, units, Unfunded(sources), FALSE, held, listed, now)
               ELSE PlanOf(spot, units, fund.picks, TRUE, held, listed, now)
<1> DEFINE sources == BuildSources(spot.program, held, listed, now)
           units == Units(spot, goal, Cap(sources, Len(sources)))
           fund == Fund(sources, spot.cost * units)
<1>1. EvaluateSpot(spot, goal, held, listed, now) =
        PlanFrom(sources, Cap(sources, Len(sources)), units, fund, spot, goal, held, listed, now)
  BY Zenon DEF EvaluateSpot, Cap, Dests
<1> HIDE DEF sources, units, fund
<1>2. PlanFrom(sources, Cap(sources, Len(sources)), units, fund, spot, goal, held, listed, now) # None
       => PlanFrom(sources, Cap(sources, Len(sources)), units, fund, spot, goal, held, listed, now) =
            IF fund.left > 0
            THEN PlanOf(spot, units, Unfunded(sources), FALSE, held, listed, now)
            ELSE PlanOf(spot, units, fund.picks, TRUE, held, listed, now)
  BY Zenon DEF PlanFrom
<1>3. EvaluateSpot(spot, goal, held, listed, now) =
        IF fund.left > 0
        THEN PlanOf(spot, units, Unfunded(sources), FALSE, held, listed, now)
        ELSE PlanOf(spot, units, fund.picks, TRUE, held, listed, now)
  BY <1>1, <1>2, Zenon
<1>. QED  BY <1>3, Zenon DEF sources, units, fund

LEMMA PlanIsSound ==
  ASSUME NEW spot \in Spots, NEW goal, goal.quantity \in (Nat \ {0}) \union {None},
         NEW held, IsPortfolio(held), NEW now, NEW listed, \A b \in listed : Priced(b),
         NEW plan, plan = EvaluateSpot(spot, goal, held, listed, now), plan # None
  PROVE  LET sources == BuildSources(spot.program, held, listed, now)
         IN  /\ plan.spot = spot /\ Rankable(plan)
             /\ SpendsWell(plan, sources) /\ AsksForTheLeast(plan, listed, now)
             /\ (\E k \in ToSet(plan.sources) : k.source.bonus # None /\ ~k.source.bonus.verified)
                  => plan.confidence < 2
             /\ \A k \in ToSet(plan.sources) : Backed(k.source, held, listed, now)
<1> DEFINE program == spot.program
           sources == BuildSources(program, held, listed, now)
           cap == Cap(sources, Len(sources))
           units == Units(spot, goal, cap)
           need == spot.cost * units
           fund == Fund(sources, need)
<1>1. /\ program \in Programs /\ spot.cost \in Nat \ {0} /\ spot.cpp \in Nat
      /\ spot.confidence \in Nat
  BY RedemptionsAssumption
<1>2. /\ AreSources(sources) /\ \A s \in ToSet(sources) : Backed(s, held, listed, now)
  BY <1>1, SourcesAreSorted
<1>3. cap \in Nat
  <2>1. Len(sources) \in 0 .. Len(sources)
    BY <1>2, FirstSources
  <2>. QED  BY <1>2, <2>1, CapSteps
<1>4. units \in Nat \ {0}
  BY <1>3, UnitsArePositive
<1>5. need \in Nat \ {0}
  <2> HIDE DEF units
  <2>. QED  BY <1>1, <1>4
<1>6. fund.left \in Int
  BY <1>2, <1>5, FundSound DEF Sound, Fills
<1>7. /\ IsPlan(plan, spot, units, held, listed, now)
      /\ plan.fundable \in BOOLEAN
      /\ plan.fundable <=> fund.left <= 0
      /\ plan.sources = IF plan.fundable THEN fund.picks ELSE Unfunded(sources)
  <2>1. plan = IF fund.left > 0
               THEN PlanOf(spot, units, Unfunded(sources), FALSE, held, listed, now)
               ELSE PlanOf(spot, units, fund.picks, TRUE, held, listed, now)
    BY Zenon, PlanIs
  <2> HIDE DEF fund, units, sources
  <2>2. CASE fund.left > 0
    <3> DEFINE all == Unfunded(sources)
    <3>1. plan = PlanOf(spot, units, all, FALSE, held, listed, now)
      BY <2>1, <2>2
    <3> HIDE DEF all
    <3>2. /\ plan.fundable = FALSE /\ plan.sources = Unfunded(sources)
          /\ IsPlan(plan, spot, units, held, listed, now)
      <4>1. FALSE \in BOOLEAN
        OBVIOUS
      <4>2. /\ plan.fundable = FALSE /\ plan.sources = all
            /\ IsPlan(plan, spot, units, held, listed, now)
        BY <3>1, <4>1, PlanFields
      <4>. QED  BY <4>2 DEF all
    <3>3. ~(fund.left <= 0)
      BY <1>6, <2>2
    <3>. QED  BY <3>2, <3>3
  <2>3. CASE ~(fund.left > 0)
    <3> DEFINE picks == fund.picks  yes == TRUE
    <3>1. plan = PlanOf(spot, units, picks, yes, held, listed, now)
      BY <2>1, <2>3
    <3> HIDE DEF picks, yes
    <3>2. /\ plan.fundable = TRUE /\ plan.sources = fund.picks
          /\ IsPlan(plan, spot, units, held, listed, now)
      <4>1. yes \in BOOLEAN
        BY DEF yes
      <4>2. /\ plan.fundable = yes /\ plan.sources = picks
            /\ IsPlan(plan, spot, units, held, listed, now)
        BY <3>1, <4>1, PlanFields
      <4>. QED  BY <4>2 DEF picks, yes
    <3>3. fund.left <= 0
      BY <1>6, <2>3
    <3>. QED  BY <3>2, <3>3
  <2>. QED  BY <2>2, <2>3
<1> DEFINE fundable == plan.fundable  chosen == plan.sources
<1>8. /\ plan.spot = spot /\ plan.need = need /\ plan.provided = PickYield(chosen)
      /\ plan.coverage = IF fundable THEN {}
                         ELSE CoverageFor(program, need - plan.provided, held,
                                          Used(chosen), listed, now)
      /\ plan.confidence = IF Certain(chosen) THEN spot.confidence ELSE Min({spot.confidence, 1})
      /\ plan.milli = IF fundable /\ PickAmount(chosen) > 0
                      THEN Round(need * spot.cpp * 1000, PickAmount(chosen)) ELSE spot.cpp * 1000
      /\ plan.score = IF fundable THEN Round(4 * (need * spot.cpp) - PickCost(chosen), 4) ELSE 0
  <2> HIDE DEF units, sources
  <2>. QED  BY <1>7 DEF IsPlan
<1> HIDE DEF sources, units, need
<1>9. /\ SpendsWell(plan, sources) /\ chosen \in Seq(Picks(ToSet(sources)))
      /\ ~fundable => plan.provided = cap /\ plan.provided < need
  <2>1. Fund(sources, plan.need) = fund /\ plan.need \in Nat \ {0}
    BY <1>5, <1>8
  <2>2. plan.fundable <=> Fund(sources, plan.need).left <= 0
    BY <1>7, <2>1
  <2>3. plan.sources = IF plan.fundable THEN Fund(sources, plan.need).picks ELSE Unfunded(sources)
    BY <1>7, <2>1
  <2>4. plan.provided = PickYield(plan.sources)
    BY <1>8
  <2>5. /\ SpendsWell(plan, sources) /\ plan.sources \in Seq(Picks(ToSet(sources)))
        /\ ~plan.fundable => plan.provided = cap /\ plan.provided < plan.need
    BY <1>2, <1>7, <2>1, <2>2, <2>3, <2>4, FundedSpendsWell
  <2> HIDE DEF cap, fund
  <2>. QED  BY <1>8, <2>5
<1> HIDE DEF fund, cap
<1>10. PickYield(chosen) \in Nat /\ PickCost(chosen) \in Nat /\ PickAmount(chosen) \in Nat
  <2>1. \A s \in ToSet(sources) : IsSource(s)
    BY <1>2, FirstSources
  <2> HIDE DEF chosen
  <2>. QED  BY <1>9, <2>1, PickSums
<1>11. Rankable(plan)
  <2> DEFINE worth == need * spot.cpp  amount == PickAmount(chosen)  cost == PickCost(chosen)
  <2>1. worth \in Nat /\ amount \in Nat /\ cost \in Nat
    BY <1>1, <1>5, <1>10
  <2>2. /\ plan.milli = IF fundable /\ amount > 0 THEN Round(worth * 1000, amount) ELSE spot.cpp * 1000
        /\ plan.score = IF fundable THEN Round(4 * worth - cost, 4) ELSE 0
    BY <1>8
  <2> HIDE DEF worth, amount, cost, chosen, fundable
  <2>3. Round(4 * worth - cost, 4) \in Int /\ (amount > 0 => Round(worth * 1000, amount) \in Int)
    BY <2>1 DEF Round
  <2>4. plan.milli \in Int /\ plan.score \in Int
    BY <1>1, <2>2, <2>3
  <2>. QED  BY <1>5, <1>7, <1>8, <1>10, <2>4 DEF Rankable
<1>12. AsksForTheLeast(plan, listed, now)
  <2>1. CASE fundable
    <3>1. plan.coverage = {}
      BY <1>8, <2>1
    <3>. QED  BY <3>1 DEF AsksForTheLeast
  <2>2. CASE ~fundable
    <3> DEFINE missing == need - plan.provided
    <3>1. missing \in Nat \ {0}
      BY <1>5, <1>8, <1>9, <1>10, <2>2
    <3>2. plan.coverage = CoverageFor(program, missing, held, Used(Unfunded(sources)), listed, now)
      <4>1. chosen = Unfunded(sources)
        BY <1>7, <2>2
      <4>2. plan.coverage = CoverageFor(program, missing, held, Used(chosen), listed, now)
        BY <1>8, <2>2
      <4> HIDE DEF missing, chosen
      <4>. QED  BY <4>1, <4>2, Zenon
    <3>3. missing = plan.need - plan.provided /\ plan.spot.program = program
      BY <1>8
    <3> HIDE DEF missing, program
    <3>. QED  BY <1>1, <3>1, <3>2, <3>3, ShortfallAsksForTheLeast DEF sources
  <2>. QED  BY <2>1, <2>2
<1>13. ASSUME NEW k \in ToSet(plan.sources), k.source.bonus # None, ~k.source.bonus.verified
       PROVE  plan.confidence < 2
  <2>1. ~Certain(chosen)
    BY <1>8, <1>13 DEF Certain
  <2>2. plan.confidence = Min({spot.confidence, 1})
    BY <1>8, <2>1
  <2>3. Min({spot.confidence, 1}) = IF spot.confidence <= 1 THEN spot.confidence ELSE 1
    BY <1>1, MinOfTwo
  <2>. QED  BY <1>1, <2>2, <2>3
<1>14. ASSUME NEW k \in ToSet(plan.sources)  PROVE Backed(k.source, held, listed, now)
  <2>1. k.source \in ToSet(sources)
    BY <1>9 DEF SpendsWell
  <2>. QED  BY <1>2, <2>1
<1>. QED  BY <1>8, <1>9, <1>11, <1>12, <1>13, <1>14 DEF sources, program

--------------------------------------------------------------------------------
(* The ranking: the plans have a strict order, so that none is lost.            *)

\* The plans have a strict order: a spot gives at most one.
LEMMA RankingSorts ==
  ASSUME NEW S, IsFiniteSet(S), \A p \in S : Rankable(p),
         \A p, q \in S : p.spot = q.spot => p = q
  PROVE  /\ Cardinality(S) \in Nat
         /\ ByRanking(S) \in [1 .. Cardinality(S) -> S] /\ ToSet(ByRanking(S)) = S
<1> DEFINE R == {pair \in S \X S : RanksBefore(pair[1], pair[2])}
           id(p) == p.spot.id
           paid(p, q) == \/ p.score > q.score
                         \/ p.score = q.score /\ p.milli > q.milli
                         \/ p.score = q.score /\ p.milli = q.milli /\ id(p) < id(q)
           fuller(p, q) == p.provided * q.need > q.provided * p.need
           level(p, q) == p.provided * q.need = q.provided * p.need
           short(p, q) == fuller(p, q) \/ (level(p, q) /\ id(p) < id(q))
<1>1. \A p, q \in S : <<p, q>> \in R <=> RanksBefore(p, q)
  OBVIOUS
<1> HIDE DEF R
<1>2. /\ \A p \in S : /\ p.fundable \in BOOLEAN /\ p.score \in Int /\ p.milli \in Int
                      /\ p.provided \in Nat /\ p.need \in Nat \ {0} /\ id(p) \in Nat
      /\ \A p, q \in S : id(p) = id(q) => p = q
  BY RedemptionsAssumption DEF Rankable
<1>3. \A p, q \in S : RanksBefore(p, q) <=>
        \/ p.fundable /\ ~q.fundable
        \/ p.fundable /\ q.fundable /\ paid(p, q)
        \/ ~p.fundable /\ ~q.fundable /\ short(p, q)
  BY DEF RanksBefore
<1> HIDE DEF id
<1>4. /\ \A p \in S : ~paid(p, p)
      /\ \A p, q, r \in S : paid(p, q) /\ paid(q, r) => paid(p, r)
      /\ \A p, q \in S : p = q \/ paid(p, q) \/ paid(q, p)
  <2>1. \A p \in S : ~paid(p, p)
    BY <1>2
  <2>2. ASSUME NEW p \in S, NEW q \in S, NEW r \in S, paid(p, q), paid(q, r)
        PROVE  paid(p, r)
    BY <1>2, <2>2
  <2>3. ASSUME NEW p \in S, NEW q \in S  PROVE p = q \/ paid(p, q) \/ paid(q, p)
    BY <1>2
  <2>. QED  BY <2>1, <2>2, <2>3
<1>5. \A p, q \in S : /\ p.provided * q.need \in Nat
                      /\ fuller(p, q) => ~fuller(q, p) /\ ~level(p, q)
                      /\ level(p, q) <=> level(q, p)
                      /\ fuller(p, q) \/ level(p, q) \/ fuller(q, p)
  BY <1>2
<1>6. ASSUME NEW p \in S, NEW q \in S, NEW r \in S
      PROVE  /\ level(p, q) /\ level(q, r) => level(p, r)
             /\ \/ fuller(p, q) /\ fuller(q, r)
                \/ fuller(p, q) /\ level(q, r)
                \/ level(p, q) /\ fuller(q, r)
                => fuller(p, r)
  <2> DEFINE pq == p.provided * q.need  qp == q.provided * p.need
             qr == q.provided * r.need  rq == r.provided * q.need
             pr == p.provided * r.need  rp == r.provided * p.need
  <2>1. pq \in Nat /\ qp \in Nat /\ qr \in Nat /\ rq \in Nat /\ pr \in Nat /\ rp \in Nat
    BY <1>5
  <2> DEFINE a == p.provided  b == q.provided  c == r.provided
             x == p.need  y == q.need  z == r.need
  <2>2. /\ qp <= pq /\ rq <= qr => rp <= pr /\ (rp = pr => qp = pq /\ rq = qr)
        /\ pq <= qp /\ qr <= rq => pr <= rp
    <3>1. /\ a \in Nat /\ b \in Nat /\ c \in Nat
          /\ x \in Nat \ {0} /\ y \in Nat \ {0} /\ z \in Nat \ {0}
      BY <1>2
    <3> HIDE DEF a, b, c, x, y, z
    <3>2. c * y <= b * z /\ b * x <= a * y =>
            c * x <= a * z /\ (c * x = a * z => c * y = b * z /\ b * x = a * y)
      BY <3>1, CrossOrder
    <3>3. a * y <= b * x /\ b * z <= c * y => a * z <= c * x
      BY <3>1, CrossOrder
    <3>. QED  BY <3>2, <3>3 DEF a, b, c, x, y, z
  <2> HIDE DEF pq, qp, qr, rq, pr, rp
  <2>3. /\ pq = qp /\ qr = rq => pr = rp
        /\ \/ pq > qp /\ qr > rq
           \/ pq > qp /\ qr = rq
           \/ pq = qp /\ qr > rq
           => pr > rp
    BY <2>1, <2>2
  <2>4. /\ level(p, q) <=> pq = qp
        /\ level(q, r) <=> qr = rq
        /\ level(p, r) <=> pr = rp
        /\ fuller(p, q) <=> pq > qp
        /\ fuller(q, r) <=> qr > rq
        /\ fuller(p, r) <=> pr > rp
    BY DEF pq, qp, qr, rq, pr, rp
  <2> HIDE DEF level, fuller
  <2>. QED  BY <2>3, <2>4
<1> HIDE DEF fuller, level, paid
<1>7. /\ \A p \in S : ~short(p, p)
      /\ \A p, q, r \in S : short(p, q) /\ short(q, r) => short(p, r)
      /\ \A p, q \in S : p = q \/ short(p, q) \/ short(q, p)
  <2>1. \A p \in S : ~short(p, p)
    BY <1>2, <1>5
  <2>2. ASSUME NEW p \in S, NEW q \in S, NEW r \in S, short(p, q), short(q, r)
        PROVE  short(p, r)
    <3>1. id(p) \in Nat /\ id(q) \in Nat /\ id(r) \in Nat
      BY <1>2
    <3>2. id(p) < id(q) /\ id(q) < id(r) => id(p) < id(r)
      BY <3>1
    <3>. QED  BY <1>6, <2>2, <3>2
  <2>3. ASSUME NEW p \in S, NEW q \in S  PROVE p = q \/ short(p, q) \/ short(q, p)
    <3>1. id(p) \in Nat /\ id(q) \in Nat
      BY <1>2
    <3>2. id(p) = id(q) \/ id(p) < id(q) \/ id(q) < id(p)
      BY <3>1
    <3>. QED  BY <1>2, <1>5, <3>2
  <2>. QED  BY <2>1, <2>2, <2>3
<1> HIDE DEF short
<1>8. Orders(R, S)
  <2>1. \A p \in S : ~RanksBefore(p, p)
    BY <1>3, <1>4, <1>7
  <2>2. \A p, q, r \in S : RanksBefore(p, q) /\ RanksBefore(q, r) => RanksBefore(p, r)
    BY <1>3, <1>4, <1>7
  <2>3. \A p, q \in S : p = q \/ RanksBefore(p, q) \/ RanksBefore(q, p)
    BY <1>2, <1>3, <1>4, <1>7
  <2>. QED  BY <1>1, <2>1, <2>2, <2>3 DEF Orders
<1>9. ByRanking(S) = ByRank(S, Rank(S, R))
  <2> DEFINE before == [o \in S |-> Cardinality({q \in S : RanksBefore(q, o)})]
  <2>1. \A o \in S : {q \in S : RanksBefore(q, o)} = {q \in S : <<q, o>> \in R}
    BY <1>1
  <2>2. before = Rank(S, R)
    BY <2>1, Zenon DEF Rank
  <2>3. ByRanking(S) = ByRank(S, before)
    BY Zenon DEF ByRanking, InOrder, ByRank
  <2>. QED  BY <2>2, <2>3, Zenon
<1>10. Sorts(ByRanking(S), S, R)
  <2>1. Sorts(ByRank(S, Rank(S, R)), S, R)
    BY <1>8, RankSorts
  <2>. QED  BY <1>9, <2>1, Zenon
<1>. QED  BY <1>10, Zenon DEF Sorts

--------------------------------------------------------------------------------
(* The lists of plans hold plans.                                               *)

Keep(so, p, limit) ==
  IF \/ Len(so) >= limit
     \/ Cardinality({i \in DOMAIN so : so[i].spot.program = p.spot.program}) >= 2
  THEN so ELSE Append(so, p)

LEMMA DiversifiedKeeps ==
  ASSUME NEW S, NEW list \in Seq(S), NEW limit
  PROVE  Diversified(list, limit) \in Seq(S)
<1> DEFINE N == Len(list)
           Q == Seq(S)
           b == <<>>
           F == [x \in (1 .. N) \X Q |-> Keep(x[2], list[x[1]], limit)]
           IsRun(g) == g = [n \in 0 .. N |-> IF n = 0 THEN b ELSE Keep(g[n - 1], list[n], limit)]
           f == CHOOSE g : IsRun(g)
<1>1. b \in Q
  OBVIOUS
<1>2. N \in Nat /\ \A n \in 1 .. N, q \in Q : Keep(q, list[n], limit) \in Q
  <2>1. N \in Nat /\ \A n \in 1 .. N : list[n] \in S
    OBVIOUS
  <2>2. \A q \in Seq(S), p \in S : Append(q, p) \in Seq(S)
    OBVIOUS
  <2> HIDE DEF N
  <2>. QED  BY <2>1, <2>2 DEF Keep
<1>3. Diversified(list, limit) = f[N]
  BY Zenon DEF Diversified, Keep
<1> HIDE DEF N, Q, b
<1>4. F \in Steps(N, Q)
  BY <1>2 DEF Steps
<1>5. \A n \in 1 .. N, q \in Q : F[<<n, q>>] = Keep(q, list[n], limit)
  OBVIOUS
<1> HIDE DEF F
<1>6. IsRun(f)
  <2>1. PICK g \in [0 .. N -> Q] : g[0] = b /\ \A n \in 1 .. N : g[n] = F[<<n, g[n - 1]>>]
    <3>1. Runs(N, Q, b, F) # {}
      BY <1>1, <1>2, <1>4, RecursionDefined
    <3>. QED  BY <3>1 DEF Runs
  <2>2. ASSUME NEW n \in 1 .. N PROVE g[n] = Keep(g[n - 1], list[n], limit)
    <3>1. n - 1 \in 0 .. N
      BY <1>2
    <3>2. g[n - 1] \in Q
      BY <3>1
    <3>. QED  BY <1>5, <2>1, <3>2
  <2> DEFINE h == [n \in 0 .. N |-> IF n = 0 THEN b ELSE Keep(g[n - 1], list[n], limit)]
  <2>3. \A n \in 0 .. N : g[n] = h[n]
    BY <1>2, <2>1, <2>2
  <2>4. h = [n \in 0 .. N |-> h[n]] /\ g = [n \in 0 .. N |-> g[n]]
    BY <2>1
  <2>5. IsRun(g)
    BY <2>3, <2>4
  <2>. QED  BY <2>5
<1> HIDE DEF f
<1>7. f[0] = b /\ \A n \in 1 .. N : f[n - 1] \in Q => f[n] = F[<<n, f[n - 1]>>]
  BY <1>2, <1>5, <1>6
<1>8. \A n \in 0 .. N : f[n] \in Q
  <2>1. N \in Nat
    BY <1>2
  <2>. QED  BY <1>1, <1>4, <1>7, <2>1, RecursionTyped
<1>9. N \in 0 .. N
  BY <1>2
<1>. QED  BY <1>3, <1>8, <1>9 DEF Q

HeldOnly(accounts) ==
  [p \in Programs |-> IF accounts[p] # None /\ accounts[p].points > 0 THEN accounts[p] ELSE None]
PlansOf(goal, held, listed, now) ==
  {EvaluateSpot(s, goal, held, listed, now) : s \in {t \in Spots : Matches(t, goal)}} \ {None}

LEMMA OptimizeLists ==
  ASSUME NEW goal, goal.quantity \in (Nat \ {0}) \union {None},
         NEW accounts, IsPortfolio(accounts), NEW now,
         NEW listed, \A b \in listed : Priced(b), NEW maxPlans \in Nat
  PROVE  OptimizeRedemptions(goal, accounts, listed, now, maxPlans)
           \in Seq(PlansOf(goal, HeldOnly(accounts), listed, now))
<1> DEFINE held == HeldOnly(accounts)
           evaluated == {EvaluateSpot(s, goal, held, listed, now) :
                           s \in {t \in Spots : Matches(t, goal)}}
           plans == PlansOf(goal, held, listed, now)
           worth == {p \in plans : goal.minMilli # None => p.milli >= goal.minMilli}
           ranked == ByRanking(worth)
           k == Min({maxPlans, Len(ranked)})
<1>1. OptimizeRedemptions(goal, accounts, listed, now, maxPlans) = SubSeq(ranked, 1, k)
  BY Zenon DEF OptimizeRedemptions, PlansOf, HeldOnly, ByRanking
<1>2. IsPortfolio(held)
  BY DEF IsPortfolio, IsHolding, HeldOnly
<1> HIDE DEF held
<1>3. \A p \in worth : \E s \in Spots : p = EvaluateSpot(s, goal, held, listed, now) /\ p # None
  BY DEF PlansOf
<1>4. IsFiniteSet(worth)
  <2> DEFINE matching == {t \in Spots : Matches(t, goal)}
  <2>1. IsFiniteSet(matching)
    BY RedemptionsAssumption, FS_Subset
  <2> HIDE DEF matching
  <2>2. IsFiniteSet({EvaluateSpot(s, goal, held, listed, now) : s \in matching})
    <3> DEFINE value(s) == EvaluateSpot(s, goal, held, listed, now)
               f == [s \in matching |-> value(s)]
    <3> HIDE DEF value
    <3>1. f \in Surjection(matching, {value(s) : s \in matching})
      BY DEF Surjection
    <3>2. IsFiniteSet({value(s) : s \in matching})
      BY <2>1, <3>1, FS_Surjection
    <3>. QED  BY <3>2 DEF value
  <2>3. worth \subseteq {EvaluateSpot(s, goal, held, listed, now) : s \in matching}
    BY DEF PlansOf, matching
  <2> HIDE DEF worth
  <2>. QED  BY <2>2, <2>3, FS_Subset
<1> HIDE DEF worth
<1>5. ASSUME NEW p \in worth
      PROVE  /\ Rankable(p) /\ p.spot \in Spots
             /\ p = EvaluateSpot(p.spot, goal, held, listed, now)
  <2>1. PICK s \in Spots : p = EvaluateSpot(s, goal, held, listed, now) /\ p # None
    BY <1>3
  <2>2. p.spot = s /\ Rankable(p)
    BY <1>2, <2>1, PlanIsSound
  <2>. QED  BY <2>1, <2>2
<1>6. \A p, q \in worth : p.spot = q.spot => p = q
  <2>1. ASSUME NEW p \in worth, NEW q \in worth, p.spot = q.spot  PROVE p = q
    <3>1. EvaluateSpot(p.spot, goal, held, listed, now) = EvaluateSpot(q.spot, goal, held, listed, now)
      BY <2>1
    <3>. QED  BY <1>5, <3>1
  <2>. QED  BY <2>1
<1>7. Cardinality(worth) \in Nat /\ ranked \in [1 .. Cardinality(worth) -> worth]
  BY <1>4, <1>5, <1>6, RankingSorts
<1> HIDE DEF ranked
<1>8. ranked \in Seq(worth)
  BY <1>7
<1>9. k \in Int /\ k <= Len(ranked)
  <2>1. Len(ranked) \in Int
    BY <1>8
  <2>2. k = IF maxPlans <= Len(ranked) THEN maxPlans ELSE Len(ranked)
    BY <2>1, MinOfTwo
  <2>. QED  BY <2>1, <2>2
<1> HIDE DEF k
<1>10. SubSeq(ranked, 1, k) \in Seq(worth)
  BY <1>8, <1>9
<1>11. worth \subseteq plans
  BY DEF worth
<1> HIDE DEF plans
<1>12. SubSeq(ranked, 1, k) \in Seq(plans)
  BY <1>10, <1>11
<1>. QED  BY <1>1, <1>12 DEF plans, held

--------------------------------------------------------------------------------
(* What a report filters out before it evaluates changes nothing it may use.    *)

ActiveAt(listed, now) == {b \in listed : IsBonusActive(b, now)}

LEMMA FilteredBonus ==
  ASSUME NEW listed, NEW now, NEW e
  PROVE  BestBonus(ActiveAt(listed, now), e, now) = BestBonus(listed, e, now)
<1> DEFINE on(S) == {b \in S : IsBonusActive(b, now) /\ b.from = e.from /\ b.to = e.to}
           best(S) == IF S = {} THEN None
                      ELSE CHOOSE b \in S : \A c \in S :
                             b.permille > c.permille \/ (b.permille = c.permille /\ b.id <= c.id)
<1>1. on(ActiveAt(listed, now)) = on(listed)
  BY DEF ActiveAt
<1>2. /\ BestBonus(ActiveAt(listed, now), e, now) = best(on(ActiveAt(listed, now)))
      /\ BestBonus(listed, e, now) = best(on(listed))
  BY Zenon DEF BestBonus
<1> HIDE DEF on, best
<1>. QED  BY <1>1, <1>2, Zenon

LEMMA FilteredSources ==
  ASSUME NEW program, NEW accounts, IsPortfolio(accounts), NEW listed, NEW now
  PROVE  BuildSources(program, HeldOnly(accounts), ActiveAt(listed, now), now) =
           BuildSources(program, accounts, listed, now)
<1> DEFINE held == HeldOnly(accounts)  active == ActiveAt(listed, now)
           owners == {p \in Programs : accounts[p] # None /\ accounts[p].points > 0}
<1>1. \A p \in Programs :
        held[p] = IF accounts[p] # None /\ accounts[p].points > 0 THEN accounts[p] ELSE None
  BY DEF HeldOnly
<1>2. {p \in Programs : held[p] # None /\ held[p].points > 0} = owners
  BY <1>1
<1>3. \A p \in owners : held[p] = accounts[p]
  BY <1>1
<1> HIDE DEF held
<1>4. Own(program, held) = Own(program, accounts)
  BY <1>2, <1>3 DEF Own
<1>5. Moved(program, held, active, now) = Moved(program, accounts, listed, now)
  <2> DEFINE open(h) == {f \in OpenEdges(program, h, now) : f.from \in owners}
  <2>1. open(held) = open(accounts)
    <3>1. \A f \in Edges : f.from \in owners =>
            (IF held[f.from] = None THEN None ELSE held[f.from].card) =
              (IF accounts[f.from] = None THEN None ELSE accounts[f.from].card)
      BY <1>3
    <3>2. \A f \in Edges : f.from \in owners =>
            Refusal(f, IF held[f.from] = None THEN None ELSE held[f.from].card, now) =
              Refusal(f, IF accounts[f.from] = None THEN None ELSE accounts[f.from].card, now)
      BY <3>1, Zenon
    <3>. QED  BY <3>2 DEF OpenEdges
  <2>2. \A e \in open(held) : Transfer(e, held[e.from], BestBonus(active, e, now)) =
                                Transfer(e, accounts[e.from], BestBonus(listed, e, now))
    <3>1. ASSUME NEW e \in open(held)
          PROVE  Transfer(e, held[e.from], BestBonus(active, e, now)) =
                   Transfer(e, accounts[e.from], BestBonus(listed, e, now))
      <4>1. held[e.from] = accounts[e.from]
        BY <1>3
      <4>2. BestBonus(active, e, now) = BestBonus(listed, e, now)
        BY FilteredBonus
      <4>. QED  BY <4>1, <4>2, Zenon
    <3>. QED  BY <3>1
  <2>3. Moved(program, held, active, now) =
          {Transfer(e, held[e.from], BestBonus(active, e, now)) : e \in open(held)}
    BY <1>2, Zenon DEF Moved
  <2>4. Moved(program, accounts, listed, now) =
          {Transfer(e, accounts[e.from], BestBonus(listed, e, now)) : e \in open(accounts)}
    BY Zenon DEF Moved
  <2> HIDE DEF open
  <2>. QED  BY <2>1, <2>2, <2>3, <2>4
<1>6. SourceSet(program, held, active, now) = SourceSet(program, accounts, listed, now)
  BY <1>4, <1>5, Zenon DEF SourceSet
<1>7. /\ BuildSources(program, held, active, now) = ByCost(SourceSet(program, held, active, now))
      /\ BuildSources(program, accounts, listed, now) = ByCost(SourceSet(program, accounts, listed, now))
  BY BuildSorts
<1>. QED  BY <1>6, <1>7, Zenon DEF held

\* What a report promises of a plan, in terms of what it read.
Fair(plan, accounts, listed, now) ==
  /\ SpendsWell(plan, BuildSources(plan.spot.program, accounts, listed, now))
  /\ AsksForTheLeast(plan, listed, now)
  /\ (\E k \in ToSet(plan.sources) : k.source.bonus # None /\ ~k.source.bonus.verified)
       => plan.confidence < 2
  /\ \A k \in ToSet(plan.sources) :
       k.source.bonus # None => k.source.bonus \in listed /\ IsBonusActive(k.source.bonus, now)

LEMMA PlansAreFair ==
  ASSUME NEW goal, goal.quantity \in (Nat \ {0}) \union {None},
         NEW accounts, IsPortfolio(accounts), NEW now, NEW listed, \A b \in listed : Priced(b),
         NEW plan \in PlansOf(goal, HeldOnly(accounts), ActiveAt(listed, now), now)
  PROVE  Fair(plan, accounts, listed, now)
<1> DEFINE held == HeldOnly(accounts)  active == ActiveAt(listed, now)
<1>1. PICK spot \in Spots : plan = EvaluateSpot(spot, goal, held, active, now) /\ plan # None
  BY DEF PlansOf
<1>2. IsPortfolio(held)
  BY DEF IsPortfolio, IsHolding, HeldOnly
<1>3. \A b \in active : b \in listed /\ Priced(b)
  BY DEF ActiveAt
<1> DEFINE sources == BuildSources(spot.program, held, active, now)
<1>4. sources = BuildSources(spot.program, accounts, listed, now)
  BY FilteredSources
<1> HIDE DEF held, active
<1>5. /\ plan.spot = spot
      /\ SpendsWell(plan, sources) /\ AsksForTheLeast(plan, active, now)
      /\ (\E k \in ToSet(plan.sources) : k.source.bonus # None /\ ~k.source.bonus.verified)
           => plan.confidence < 2
      /\ \A k \in ToSet(plan.sources) : Backed(k.source, held, active, now)
  BY <1>1, <1>2, <1>3, PlanIsSound
<1> HIDE DEF sources
<1>6. SpendsWell(plan, BuildSources(plan.spot.program, accounts, listed, now))
  BY <1>4, <1>5
<1>7. AsksForTheLeast(plan, listed, now)
  <2>1. \A e : BestBonus(active, e, now) = BestBonus(listed, e, now)
    BY FilteredBonus DEF active
  <2>. QED  BY <1>5, <2>1 DEF AsksForTheLeast, Least
<1>8. \A k \in ToSet(plan.sources) :
        k.source.bonus # None => k.source.bonus \in listed /\ IsBonusActive(k.source.bonus, now)
  BY <1>3, <1>5 DEF Backed
<1>. QED  BY <1>5, <1>6, <1>7, <1>8 DEF Fair

--------------------------------------------------------------------------------
(* The advice shows every open route, and none is lost or doubled by the sort.  *)

\* What RankTransfers says of one route, and the routes it ranks.
Option(e, points, listed, now) ==
  LET bonus == BestBonus(listed, e, now)
      gives == ConvertPoints(Resolved(e), points, Permille(bonus)) IN
  [to |-> e.to, gives |-> gives, bonus |-> bonus,
   milli |-> (2 * gives * Cpp[e.to] * 1000 + points) \div (2 * points)]

OpenRoutes(from, card, now) == {e \in Edges : e.from = from /\ Refusal(e, card, now) = None}

LEMMA RankTransfersShows ==
  ASSUME NEW from, NEW points \in Nat \ {0}, NEW card, NEW now,
         NEW listed, \A b \in listed : Priced(b)
  PROVE  ToSet(RankTransfers(from, points, card, listed, now)) =
           {Option(e, points, listed, now) : e \in OpenRoutes(from, card, now)}
<1> DEFINE routes == OpenRoutes(from, card, now)
           option(e) == Option(e, points, listed, now)
           S == {option(e) : e \in routes}
<1>1. RankTransfers(from, points, card, listed, now) = ByWorth(S)
  <2>1. points # 0
    OBVIOUS
  <2>. QED  BY <2>1, Zenon DEF RankTransfers, Option, OpenRoutes, ByWorth
<1>2. routes \in SUBSET Edges /\ \A e \in routes : e.from = from
  BY DEF OpenRoutes
<1> HIDE DEF routes
<1>3. IsFiniteSet(S)
  <2> DEFINE f == [e \in routes |-> option(e)]
  <2>1. f \in Surjection(routes, S)
    BY DEF Surjection
  <2>2. IsFiniteSet(routes)
    BY <1>2, TransfersAssumption, FS_Subset
  <2> HIDE DEF f, S
  <2>. QED  BY <2>1, <2>2, FS_Surjection
<1>4. ASSUME NEW e \in routes PROVE option(e).milli \in Nat /\ option(e).to = e.to /\ e.to \in Nat
  <2> DEFINE gives == ConvertPoints(Resolved(e), points, Permille(BestBonus(listed, e, now)))
  <2>1. e \in Edges /\ e.to \in Programs /\ e.to \in Nat
    BY <1>2, EdgeNumbers
  <2>2. gives \in Nat
    <3>1. Permille(BestBonus(listed, e, now)) \in Nat \ {0}
      BY PermilleIsPositive
    <3>. QED  BY <2>1, <3>1, EdgeNumbers, ConvertInverts
  <2>3. option(e).milli = (2 * gives * Cpp[e.to] * 1000 + points) \div (2 * points)
        /\ option(e).to = e.to
    BY DEF Option
  <2> HIDE DEF gives, option
  <2>4. Cpp[e.to] \in Nat
    BY <2>1, TransfersAssumption
  <2>5. 2 * gives * Cpp[e.to] * 1000 + points \in Nat /\ 2 * points \in Nat \ {0}
    BY <2>2, <2>4
  <2>6. option(e).milli \in Nat
    BY <2>3, <2>5, FloorDivGreatest
  <2>. QED  BY <2>1, <2>3, <2>6
<1> HIDE DEF option
<1>5. \A e, f \in routes : e.to = f.to => e = f
  BY <1>2, TransfersAssumption
<1>6. /\ \A o \in S : o.milli \in Nat /\ o.to \in Nat
      /\ \A o, q \in S : o.to = q.to => o = q
  BY <1>4, <1>5
<1> HIDE DEF S
<1>7. ToSet(ByWorth(S)) = S
  BY <1>3, <1>6, WorthMoreSorts
<1>. QED  BY <1>1, <1>7 DEF S, option, routes

--------------------------------------------------------------------------------
(* The advice on a route is its estimate, and the price of a deal is least.     *)

LEMMA AdviceIsEstimate ==
  ASSUME NEW e \in Edges, NEW h, h # None, h.points \in Nat \ {0}, NEW now,
         NEW listed, \A b \in listed : Priced(b)
  PROVE  {EstimateTransfer(e.from, e.to, h.points, h, listed, now).gives} \ {None} =
           {o.gives : o \in {q \in ToSet(RankTransfers(e.from, h.points, h.card, listed, now)) :
                               q.to = e.to}}
<1> DEFINE shown == ToSet(RankTransfers(e.from, h.points, h.card, listed, now))
           option(f) == Option(f, h.points, listed, now)
           open == OpenRoutes(e.from, h.card, now)
           gives == ConvertPoints(Resolved(e), h.points, Permille(BestBonus(listed, e, now)))
           estimate == EstimateTransfer(e.from, e.to, h.points, h, listed, now)
<1>1. shown = {option(f) : f \in open}
  BY RankTransfersShows
<1>2. \A f \in open : f \in Edges /\ f.from = e.from
  BY DEF OpenRoutes
<1>3. e \in open <=> Refusal(e, h.card, now) = None
  BY DEF OpenRoutes
<1>4. option(e).gives = gives /\ \A f : option(f).to = f.to
  BY DEF Option
<1>5. gives \in Nat /\ gives # None
  <2>1. Permille(BestBonus(listed, e, now)) \in Nat \ {0}
    BY PermilleIsPositive
  <2>2. gives \in Nat
    BY <2>1, EdgeNumbers, ConvertInverts
  <2>. QED  BY <2>2, TransfersAssumption
<1>6. estimate.gives = IF Refusal(e, h.card, now) # None THEN None ELSE gives
  BY TheEdge DEF EstimateTransfer
<1> HIDE DEF gives, estimate, open, option, shown
<1>7. {q \in shown : q.to = e.to} = {option(f) : f \in open \intersect {e}}
  <2>1. \A f \in open : f.to = e.to => f = e
    BY <1>2, TransfersAssumption
  <2>. QED  BY <1>1, <1>4, <2>1
<1>8. CASE e \in open
  <2>1. {o.gives : o \in {q \in shown : q.to = e.to}} = {gives}
    BY <1>4, <1>7, <1>8
  <2>2. {estimate.gives} \ {None} = {gives}
    BY <1>3, <1>5, <1>6, <1>8
  <2>. QED  BY <2>1, <2>2 DEF shown, estimate
<1>9. CASE e \notin open
  <2>1. {o.gives : o \in {q \in shown : q.to = e.to}} = {}
    BY <1>7, <1>9
  <2>2. {estimate.gives} \ {None} = {}
    BY <1>3, <1>6, <1>9
  <2>. QED  BY <2>1, <2>2 DEF shown, estimate
<1>. QED  BY <1>8, <1>9

LEMMA DealAsksForTheLeast ==
  ASSUME NEW d \in Deals, NEW held, IsPortfolio(held), NEW now,
         NEW listed, \A b \in listed : Priced(b),
         RankDeal(d, held, listed, now).reason = None,
         d.cost - Points(held, d.program) > 0
  PROVE  LET quote == RankDeal(d, held, listed, now)
             e == CHOOSE f \in EdgesBetween(d.from, d.program) : TRUE
             enough(x) == /\ Block(x, OrElse(e.min, 0), OrElse(e.inc, 1))
                          /\ ConvertPoints(Resolved(e), x, Permille(BestBonus(listed, e, now)))
                               >= d.cost - Points(held, d.program)
         IN  /\ Least(quote.required, enough)
             /\ quote.affordable <=> \E x \in 0 .. held[d.from].points : enough(x)
<1> DEFINE quote == RankDeal(d, held, listed, now)
           missing == d.cost - Points(held, d.program)
           edges == EdgesBetween(d.from, d.program)
           e == CHOOSE f \in edges : TRUE
           permille == Permille(BestBonus(listed, e, now))
           min == OrElse(e.min, 0)
           inc == OrElse(e.inc, 1)
           required == RequiredForDeal(Resolved(e), missing, permille)
           produced == ConvertPoints(Resolved(e), required, permille)
           enough(x) == Block(x, min, inc) /\ ConvertPoints(Resolved(e), x, permille) >= missing
<1>1. d.cost \in Nat /\ d.program \in Programs /\ d.from \in Programs
  BY ReportsAssumption
<1>2. Points(held, d.program) \in Nat
  BY <1>1 DEF Points, IsPortfolio, IsHolding
<1>3. missing \in Nat \ {0} /\ ~(Points(held, d.program) >= d.cost)
  BY <1>1, <1>2
<1>4. /\ edges # {} /\ held[d.from] # None
      /\ quote.required = required
      /\ quote.affordable = (Points(held, d.from) >= required /\ produced >= missing)
  <2>1. None \notin Reasons
    BY TransfersAssumption
  <2>. QED  BY <1>3, <2>1 DEF RankDeal, Reasons
<1>5. e \in Edges /\ e = CHOOSE f \in EdgesBetween(d.from, d.program) : TRUE
  <2>1. e \in edges
    BY <1>4
  <2>. QED  BY <2>1 DEF EdgesBetween
<1>6. permille \in Nat \ {0}
  BY PermilleIsPositive
<1> HIDE DEF missing, e, permille, quote
<1>7. /\ Resolved(e).num \in Nat \ {0} /\ Resolved(e).den \in Nat \ {0}
      /\ Resolved(e).min = e.min /\ Resolved(e).inc = e.inc
      /\ min \in Nat /\ inc \in Nat \ {0}
  BY <1>5, EdgeNumbers DEF OrElse
<1>8. /\ required \in Nat /\ enough(required)
      /\ \A y \in Nat : enough(y) => y >= required
  BY <1>3, <1>6, <1>7, RequiredIsLeast
<1>9. Points(held, d.from) = held[d.from].points /\ held[d.from].points \in Nat
  BY <1>1, <1>4 DEF Points, IsPortfolio, IsHolding
<1>10. produced >= missing
  BY <1>8
<1> HIDE DEF required, enough, produced
<1>11. Least(required, enough)
  <2>1. \A y \in 0 .. required - 1 : y \in Nat /\ ~(y >= required)
    BY <1>8
  <2>. QED  BY <1>8, <2>1 DEF Least
<1>12. quote.affordable <=> \E x \in 0 .. held[d.from].points : enough(x)
  <2>1. quote.affordable <=> held[d.from].points >= required
    BY <1>4, <1>9, <1>10
  <2>2. ASSUME held[d.from].points >= required
        PROVE  \E x \in 0 .. held[d.from].points : enough(x)
    BY <1>8, <1>9, <2>2
  <2>3. ASSUME NEW x \in 0 .. held[d.from].points, enough(x)
        PROVE  held[d.from].points >= required
    BY <1>8, <1>9, <2>3
  <2>. QED  BY <2>1, <2>2, <2>3
<1>. QED  BY <1>4, <1>11, <1>12 DEF enough, missing, e, permille, quote

--------------------------------------------------------------------------------
(* The invariant: a report works on portfolios that were held and on bonuses    *)
(* that were recorded and are the viewer's to see, and its answer is what the   *)
(* evaluation makes of exactly what it says it read.                            *)

Seen == {b \in bonuses : IsBonusVisibleTo(b, Viewer)}

Recorded ==
  /\ IsPortfolio(holdings)
  /\ bonuses \subseteq {b \in Bonuses : ValidBonus(b)}

Asked ==
  /\ DOMAIN call = DOMAIN Idle
  /\ call.accounts # None => IsPortfolio(call.accounts)
  /\ call.listed # None => call.listed \subseteq Seen
  /\ call.kind \in {"plan", "best"} => call.asked.quantity \in (Nat \ {0}) \union {None}

\* The plans of an answer, by its kind.
Optimized(limit) ==
  OptimizeRedemptions(answer.asked, answer.accounts, ActiveAt(answer.listed, answer.now),
                      answer.now, limit)

Answered ==
  /\ answer.kind \in {"plan", "best", "estimate", "advice"} => answer.listed \subseteq Seen
  /\ answer.kind \in {"plan", "best", "advice"} => IsPortfolio(answer.accounts)
  /\ answer.kind \in {"plan", "best"} =>
       /\ answer.asked.quantity \in (Nat \ {0}) \union {None}
       /\ answer.result = IF answer.kind = "plan" THEN Optimized(10)
                          ELSE Diversified(Optimized(50), 5)
  /\ answer.kind = "estimate" =>
       LET route == answer.asked IN
       answer.result = EstimateTransfer(route.from, route.to, route.points,
                                        answer.accounts[route.from], answer.listed, answer.now)
  /\ answer.kind = "advice" =>
       answer.result = Advice(answer.accounts, answer.listed, answer.now)

IInv == Recorded /\ Asked /\ Answered

LEMMA SeenIsPriced ==
  ASSUME Recorded
  PROVE  \A b \in Seen : Priced(b)
BY ReportsAssumption DEF Recorded, Seen, ValidBonus, Priced

LEMMA InitIInv == Init => IInv
<1> SUFFICES ASSUME Init PROVE IInv
  OBVIOUS
<1>1. Recorded
  BY ReportsAssumption DEF Init, Recorded, IsPortfolio
<1>2. Asked
  BY ReportsAssumption DEF Init, Idle, Asked, Kinds
<1>3. Answered
  <2>1. answer.kind = None /\ None \notin Kinds
    BY ReportsAssumption DEF Init, NoAnswer
  <2>. QED  BY <2>1 DEF Answered, Kinds
<1>. QED  BY <1>1, <1>2, <1>3 DEF IInv

LEMMA RecordedStep ==
  ASSUME IInv, [Next]_vars
  PROVE  Recorded' /\ Seen \subseteq Seen'
<1>1. CASE UNCHANGED <<holdings, bonuses>>
  BY <1>1 DEF IInv, Recorded, Seen, IsPortfolio
<1>2. ASSUME NEW e \in Edits, EditHolding(e) PROVE Recorded' /\ Seen \subseteq Seen'
  <2>1. /\ holdings' = [holdings EXCEPT ![e.program] = e.holding] /\ bonuses' = bonuses
        /\ e.program \in Programs /\ IsHolding(e.holding)
    BY <1>2, ReportsAssumption DEF EditHolding
  <2>2. IsPortfolio(holdings')
    BY <2>1 DEF IInv, Recorded, IsPortfolio
  <2>. QED  BY <2>1, <2>2 DEF IInv, Recorded, Seen
<1>3. ASSUME NEW b \in Bonuses, RecordTransferBonus(b) PROVE Recorded' /\ Seen \subseteq Seen'
  BY <1>3 DEF RecordTransferBonus, IInv, Recorded, Seen
<1>4. ASSUME NEW s, CreatePortfolioShare(s) \/ RevokePortfolioShare(s) \/ OpenShare(s)
      PROVE  UNCHANGED <<holdings, bonuses>>
  BY <1>4 DEF CreatePortfolioShare, RevokePortfolioShare, OpenShare, Ask, world
<1>5. ASSUME NEW x, AskPlan(x) \/ AskEstimate(x) PROVE UNCHANGED <<holdings, bonuses>>
  BY <1>5 DEF AskPlan, AskEstimate, Ask, world
<1>6. CASE Tick \/ AskBest \/ AskAdvice \/ Searched \/ ReadAccounts \/ ReadBonuses
  BY <1>1, <1>6 DEF Tick, AskBest, AskAdvice, Ask, Searched, ReadAccounts, ReadBonuses, world
<1>7. CASE EvaluatePlan \/ EvaluateBest \/ EvaluateEstimate \/ EvaluateAdvice \/ AnswerShare
  BY <1>1, <1>7
  DEF EvaluatePlan, EvaluateBest, EvaluateEstimate, EvaluateAdvice, AnswerShare, Answer,
      Withdrawn, world
<1>8. CASE UNCHANGED vars
  BY <1>1, <1>8 DEF vars, world
<1>. QED  BY <1>1, <1>2, <1>3, <1>4, <1>5, <1>6, <1>7, <1>8 DEF Next

LEMMA AskedStep ==
  ASSUME IInv, [Next]_vars
  PROVE  Asked'
<1>0. Seen \subseteq Seen' /\ Asked /\ Recorded
  BY RecordedStep DEF IInv
<1>1. CASE UNCHANGED call
  BY <1>0, <1>1 DEF Asked
<1>2. CASE call' = Idle
  BY <1>2, ReportsAssumption DEF Asked, Idle, Kinds
<1>3. ASSUME NEW kind, NEW asked, NEW at, Ask(kind, asked, at),
             kind \in {"plan", "best"} => asked.quantity \in (Nat \ {0}) \union {None}
      PROVE  Asked'
  <2>1. call' = [Idle EXCEPT !.kind = kind, !.asked = asked, !.at = at]
    BY <1>3 DEF Ask
  <2>2. /\ DOMAIN call' = DOMAIN Idle /\ call'.accounts = None /\ call'.listed = None
        /\ call'.kind = kind /\ call'.asked = asked
    BY <2>1 DEF Idle
  <2>. QED  BY <1>3, <2>2 DEF Asked
<1>4. CASE Searched
  <2>1. /\ call' = [call EXCEPT !.at = "reading"]
        /\ DOMAIN call = DOMAIN Idle
    BY <1>0, <1>4 DEF Searched, Asked
  <2>2. /\ DOMAIN call' = DOMAIN Idle
        /\ call'.accounts = call.accounts /\ call'.listed = call.listed
        /\ call'.kind = call.kind /\ call'.asked = call.asked
    BY <2>1 DEF Idle
  <2>. QED  BY <1>0, <2>2 DEF Asked
<1>5. CASE ReadAccounts
  <2>1. call' = [call EXCEPT !.accounts = holdings] /\ DOMAIN call = DOMAIN Idle
    BY <1>0, <1>5 DEF ReadAccounts, Asked
  <2>2. /\ DOMAIN call' = DOMAIN Idle
        /\ call'.accounts = holdings /\ call'.listed = call.listed
        /\ call'.kind = call.kind /\ call'.asked = call.asked
    BY <2>1 DEF Idle
  <2>. QED  BY <1>0, <2>2 DEF Asked, Recorded
<1>6. CASE ReadBonuses
  <2> DEFINE now == {b \in bonuses : IsBonusActive(b, time) /\ IsBonusVisibleTo(b, Viewer)}
  <2>1. call' = [call EXCEPT !.listed = now] /\ DOMAIN call = DOMAIN Idle
    BY <1>0, <1>6 DEF ReadBonuses, Asked
  <2>2. now \subseteq Seen
    BY DEF Seen
  <2> HIDE DEF now
  <2>3. /\ DOMAIN call' = DOMAIN Idle
        /\ call'.accounts = call.accounts /\ call'.listed = now
        /\ call'.kind = call.kind /\ call'.asked = call.asked
    BY <2>1 DEF Idle
  <2>. QED  BY <1>0, <2>2, <2>3 DEF Asked
<1>7. ASSUME NEW s, CreatePortfolioShare(s) \/ RevokePortfolioShare(s) PROVE UNCHANGED call
  BY <1>7 DEF CreatePortfolioShare, RevokePortfolioShare
<1>8. ASSUME NEW e, EditHolding(e) \/ RecordTransferBonus(e) PROVE UNCHANGED call
  BY <1>8 DEF EditHolding, RecordTransferBonus
<1>9. ASSUME NEW x, OpenShare(x) \/ AskEstimate(x) PROVE Asked'
  BY <1>3, <1>9 DEF OpenShare, AskEstimate
<1>10. ASSUME NEW goal \in Goals, AskPlan(goal) PROVE Asked'
  BY <1>3, <1>10, ReportsAssumption DEF AskPlan
<1>13. CASE AskBest \/ AskAdvice
  BY <1>3, <1>13 DEF AskBest, AskAdvice
<1>11. CASE EvaluatePlan \/ EvaluateBest \/ EvaluateEstimate \/ EvaluateAdvice \/ AnswerShare
  BY <1>2, <1>11
  DEF EvaluatePlan, EvaluateBest, EvaluateEstimate, EvaluateAdvice, AnswerShare, Answer,
      Withdrawn
<1>12. CASE Tick \/ UNCHANGED vars
  BY <1>1, <1>12 DEF Tick, vars
<1>. QED
  BY <1>1, <1>4, <1>5, <1>6, <1>7, <1>8, <1>9, <1>10, <1>11, <1>12, <1>13
  DEF Next

\* The answer changes in an evaluation only, and bears the kind that was asked.
LEMMA AnswerStep ==
  ASSUME [Next]_vars
  PROVE  \/ UNCHANGED answer
         \/ EvaluatePlan /\ answer'.kind = "plan"
         \/ EvaluateBest /\ answer'.kind = "best"
         \/ EvaluateEstimate /\ answer'.kind = "estimate"
         \/ EvaluateAdvice /\ answer'.kind = "advice"
         \/ /\ AnswerShare /\ StillActive(shares[call.asked], time)
            /\ answer'.kind = "share" /\ answer'.asked = call.asked /\ answer'.now = time
            /\ UNCHANGED shares
<1>1. CASE EvaluatePlan \/ EvaluateBest
  BY <1>1 DEF EvaluatePlan, EvaluateBest, Answer, Ready
<1>2. CASE EvaluateEstimate
  BY <1>2 DEF EvaluateEstimate, Answer, Ready
<1>3. CASE EvaluateAdvice
  BY <1>3 DEF EvaluateAdvice, Answer, Ready
<1>4. CASE AnswerShare
  BY <1>4 DEF AnswerShare, Answer, Withdrawn, world
<1>5. ASSUME NEW x, \/ EditHolding(x) \/ RecordTransferBonus(x) \/ CreatePortfolioShare(x)
                    \/ RevokePortfolioShare(x) \/ OpenShare(x) \/ AskPlan(x) \/ AskEstimate(x)
      PROVE  UNCHANGED answer
  BY <1>5 DEF EditHolding, RecordTransferBonus, CreatePortfolioShare, RevokePortfolioShare,
              OpenShare, AskPlan, AskEstimate, Ask
<1>6. CASE Tick \/ AskBest \/ AskAdvice \/ Searched \/ ReadAccounts \/ ReadBonuses
  BY <1>6 DEF Tick, AskBest, AskAdvice, Ask, Searched, ReadAccounts, ReadBonuses
<1>7. CASE UNCHANGED vars
  BY <1>7 DEF vars
<1>. QED  BY <1>1, <1>2, <1>3, <1>4, <1>5, <1>6, <1>7 DEF Next

LEMMA AnsweredStep ==
  ASSUME IInv, [Next]_vars
  PROVE  Answered'
<1>0. Seen \subseteq Seen' /\ Asked /\ Answered
  BY RecordedStep DEF IInv
<1>1. CASE UNCHANGED answer
  <2>1. answer.kind \in {"plan", "best", "estimate", "advice"} => answer'.listed \subseteq Seen'
    BY <1>0, <1>1 DEF Answered
  <2>. QED  BY <1>0, <1>1, <2>1 DEF Answered, Optimized
<1>2. CASE answer'.kind = "share"
  BY <1>2 DEF Answered
<1>3. CASE EvaluateEstimate /\ answer'.kind = "estimate"
  <2>1. /\ answer'.listed \subseteq Seen
        /\ answer'.result =
             EstimateTransfer(answer'.asked.from, answer'.asked.to, answer'.asked.points,
                              answer'.accounts[answer'.asked.from], answer'.listed, answer'.now)
    BY <1>0, <1>3 DEF EvaluateEstimate, Ready, Answer, Asked
  <2>. QED  BY <1>0, <1>3, <2>1 DEF Answered
<1>4. CASE EvaluateAdvice /\ answer'.kind = "advice"
  <2>1. /\ answer'.listed \subseteq Seen /\ IsPortfolio(answer'.accounts)
        /\ answer'.result = Advice(answer'.accounts, answer'.listed, answer'.now)
    BY <1>0, <1>4 DEF EvaluateAdvice, Ready, Answer, Asked
  <2>. QED  BY <1>0, <1>4, <2>1 DEF Answered
<1>5. ASSUME NEW limit, Answer(Plans(limit)) PROVE answer'.result = Optimized(limit)'
  BY <1>5 DEF Answer, Plans, Optimized, ActiveAt
<1>6. CASE EvaluatePlan /\ answer'.kind = "plan"
  <2>1. /\ answer'.listed \subseteq Seen /\ IsPortfolio(answer'.accounts)
        /\ answer'.asked.quantity \in (Nat \ {0}) \union {None}
    BY <1>0, <1>6 DEF EvaluatePlan, Ready, Answer, Asked
  <2>2. answer'.result = Optimized(10)'
    BY <1>5, <1>6 DEF EvaluatePlan
  <2>. QED  BY <1>0, <1>6, <2>1, <2>2 DEF Answered
<1>7. CASE EvaluateBest /\ answer'.kind = "best"
  <2>1. /\ answer'.listed \subseteq Seen /\ IsPortfolio(answer'.accounts)
        /\ answer'.asked.quantity \in (Nat \ {0}) \union {None}
    BY <1>0, <1>7 DEF EvaluateBest, Ready, Answer, Asked
  <2>2. answer'.result = Diversified(Optimized(50)', 5)
    BY <1>7 DEF EvaluateBest, Answer, Plans, Optimized, ActiveAt
  <2>. QED  BY <1>0, <1>7, <2>1, <2>2 DEF Answered
<1>. QED  BY <1>1, <1>2, <1>3, <1>4, <1>6, <1>7, AnswerStep

LEMMA Invariance == Spec => []IInv
<1>1. IInv /\ [Next]_vars => IInv'
  BY RecordedStep, AskedStep, AnsweredStep DEF IInv
<1>. QED  BY InitIInv, <1>1, PTL DEF Spec

(* Three pieces of code quote the same transfer, and they agree: an option is   *)
(* advised exactly when the estimate of its route is available, with the same   *)
(* points, and a deal asks for the least amount the catalog allows.             *)
THEOREM QuotesAlwaysAgree == Spec => []QuotesAgree
<1>1. IInv => QuotesAgree
  <2> SUFFICES ASSUME IInv, answer.kind = "advice" PROVE QuotesAgree
    BY DEF QuotesAgree
  <2> DEFINE held == answer.accounts
             listed == answer.listed
             now == answer.now
  <2>1. /\ IsPortfolio(held) /\ answer.result = Advice(held, listed, now)
        /\ \A b \in listed : Priced(b)
    BY SeenIsPriced DEF IInv, Answered
  <2> HIDE DEF held, listed, now
  <2>2. ASSUME NEW e \in Edges, held[e.from] # None, held[e.from].points > 0
        PROVE  {EstimateTransfer(e.from, e.to, held[e.from].points, held[e.from],
                                 listed, now).gives} \ {None} =
                 {o.gives : o \in {q \in ToSet(answer.result.transfers[e.from]) : q.to = e.to}}
    <3>1. e.from \in Programs
      BY EdgeNumbers
    <3>2. held[e.from].points \in Nat \ {0}
      BY <2>1, <2>2, <3>1 DEF IsPortfolio, IsHolding
    <3>3. answer.result.transfers[e.from] =
            RankTransfers(e.from, held[e.from].points, held[e.from].card, listed, now)
      BY <2>1, <2>2, <3>1 DEF Advice
    <3> DEFINE h == held[e.from]
    <3>4. h # None /\ h.points \in Nat \ {0}
      BY <2>2, <3>2
    <3> HIDE DEF h
    <3>5. {EstimateTransfer(e.from, e.to, h.points, h, listed, now).gives} \ {None} =
            {o.gives : o \in {q \in ToSet(RankTransfers(e.from, h.points, h.card, listed, now)) :
                                q.to = e.to}}
      BY <2>1, <3>4, AdviceIsEstimate
    <3>. QED  BY <3>3, <3>5, Zenon DEF h
  <2>3. ASSUME NEW d \in Deals, NEW quote, quote = RankDeal(d, held, listed, now),
               quote.reason = None, d.cost - Points(held, d.program) > 0
        PROVE  LET e == CHOOSE f \in EdgesBetween(d.from, d.program) : TRUE
                   enough(x) ==
                     /\ Block(x, OrElse(e.min, 0), OrElse(e.inc, 1))
                     /\ ConvertPoints(Resolved(e), x, Permille(BestBonus(listed, e, now)))
                          >= d.cost - Points(held, d.program)
               IN  /\ Least(quote.required, enough)
                   /\ quote.affordable <=> \E x \in 0 .. held[d.from].points : enough(x)
    BY <2>1, <2>3, DealAsksForTheLeast DEF Least
  <2>4. \A d \in Deals : answer.result.deals[d] = RankDeal(d, held, listed, now)
    BY <2>1 DEF Advice
  <2>. QED  BY <2>2, <2>3, <2>4 DEF QuotesAgree, Least, held, listed, now
<1>. QED  BY <1>1, Invariance, PTL

\* Every plan that is shown is a plan of some spot, and fair.
LEMMA ShownPlansAreListed ==
  ASSUME IInv, answer.kind \in {"plan", "best"}
  PROVE  /\ answer.result \in Seq(PlansOf(answer.asked, HeldOnly(answer.accounts),
                                         ActiveAt(answer.listed, answer.now), answer.now))
         /\ DOMAIN answer.result = 1 .. Len(answer.result)
<1> DEFINE goal == answer.asked  accounts == answer.accounts  listed == answer.listed
           now == answer.now
           S == PlansOf(goal, HeldOnly(accounts), ActiveAt(listed, now), now)
<1>1. /\ goal.quantity \in (Nat \ {0}) \union {None} /\ IsPortfolio(accounts)
      /\ \A b \in listed : Priced(b)
      /\ answer.result = IF answer.kind = "plan" THEN Optimized(10) ELSE Diversified(Optimized(50), 5)
  BY SeenIsPriced DEF IInv, Answered
<1>2. \A limit \in Nat : Optimized(limit) \in Seq(S)
  <2>1. \A b \in ActiveAt(listed, now) : Priced(b)
    BY <1>1 DEF ActiveAt
  <2>2. \A limit : Optimized(limit) =
                     OptimizeRedemptions(goal, accounts, ActiveAt(listed, now), now, limit)
    BY Zenon DEF Optimized
  <2> HIDE DEF goal, accounts, listed, now
  <2>3. ASSUME NEW limit \in Nat  PROVE Optimized(limit) \in Seq(S)
    <3> DEFINE active == ActiveAt(listed, now)
    <3>1. Optimized(limit) = OptimizeRedemptions(goal, accounts, active, now, limit)
      BY <2>2
    <3>2. \A b \in active : Priced(b)
      BY <2>1
    <3> HIDE DEF active
    <3>3. OptimizeRedemptions(goal, accounts, active, now, limit)
            \in Seq(PlansOf(goal, HeldOnly(accounts), active, now))
      BY <1>1, <3>2, OptimizeLists
    <3>. QED  BY <3>1, <3>3 DEF active
  <2>. QED  BY <2>3
<1> HIDE DEF S
<1>3. Diversified(Optimized(50), 5) \in Seq(S)
  <2>1. Optimized(50) \in Seq(S)
    BY <1>2
  <2>. QED  BY <2>1, DiversifiedKeeps
<1>4. answer.result \in Seq(S)
  <2>1. Optimized(10) \in Seq(S)
    BY <1>2
  <2>. QED  BY <1>1, <1>3, <2>1
<1>. QED  BY <1>4 DEF S

LEMMA ShownPlansAreFair ==
  ASSUME IInv, answer.kind \in {"plan", "best"}, NEW i \in 1 .. Len(answer.result)
  PROVE  Fair(answer.result[i], answer.accounts, answer.listed, answer.now)
<1> DEFINE goal == answer.asked  accounts == answer.accounts  listed == answer.listed
           now == answer.now
           S == PlansOf(goal, HeldOnly(accounts), ActiveAt(listed, now), now)
<1>1. /\ goal.quantity \in (Nat \ {0}) \union {None} /\ IsPortfolio(accounts)
      /\ \A b \in listed : Priced(b)
  BY SeenIsPriced DEF IInv, Answered
<1>2. answer.result \in Seq(S)
  BY ShownPlansAreListed
<1> HIDE DEF S
<1>3. answer.result[i] \in S
  BY <1>2
<1> HIDE DEF goal, accounts, listed, now
<1>4. Fair(answer.result[i], accounts, listed, now)
  BY <1>1, <1>3, PlansAreFair DEF S
<1>. QED  BY <1>4 DEF accounts, listed, now

(* Every plan of every answer spends legal blocks of what is held, is called    *)
(* fundable exactly when some way to spend it covers the need, costs no more    *)
(* than one source alone would, nor, where points move one by one, than any way *)
(* at all, asks for the least legal transfer when it falls short, and has high  *)
(* confidence only when every bonus it counts on is verified.                   *)
THEOREM PlansAreAlwaysSound == Spec => []PlansAreSound
<1>1. IInv => PlansAreSound
  <2> SUFFICES ASSUME IInv, answer.kind \in {"plan", "best"}, NEW i \in 1 .. Len(answer.result)
               PROVE  LET plan == answer.result[i]
                          sources == BuildSources(plan.spot.program, answer.accounts,
                                                  answer.listed, answer.now)
                      IN  /\ SpendsWell(plan, sources)
                          /\ AsksForTheLeast(plan, answer.listed, answer.now)
                          /\ (\E k \in ToSet(plan.sources) :
                                 k.source.bonus # None /\ ~k.source.bonus.verified)
                               => plan.confidence < 2
    BY Zenon DEF PlansAreSound
  <2>1. Fair(answer.result[i], answer.accounts, answer.listed, answer.now)
    BY ShownPlansAreFair
  <2>. QED  BY <2>1, Zenon DEF Fair
<1>. QED  BY <1>1, Invariance, PTL

(* However long it took, no answer counts on a bonus that was not recorded,     *)
(* whose window is not open at the time it bears, or that another user reported *)
(* and nobody verified.                                                         *)
THEOREM BonusesAreAlwaysLive == Spec => []BonusesLive
<1>1. IInv => BonusesLive
  <2> SUFFICES ASSUME IInv, NEW b \in BonusesUsed \ {None}
               PROVE  /\ b \in bonuses
                      /\ b.starts <= answer.now /\ answer.now <= b.ends
                      /\ b.source = "user" /\ ~b.verified => b.by = Viewer
    BY DEF BonusesLive
  <2>1. answer.kind \in {"plan", "best", "estimate", "advice"}
    BY DEF BonusesUsed
  <2>2. answer.listed \subseteq Seen /\ \A c \in answer.listed : Priced(c)
    BY <2>1, SeenIsPriced DEF IInv, Answered
  <2>3. b \in answer.listed /\ IsBonusActive(b, answer.now)
    <3>1. CASE answer.kind \in {"plan", "best"}
      <4>1. PICK plan \in ToSet(answer.result) : \E k \in ToSet(plan.sources) : b = k.source.bonus
        BY <3>1 DEF BonusesUsed
      <4>2. PICK i \in 1 .. Len(answer.result) : plan = answer.result[i]
        BY <4>1, <3>1, ShownPlansAreListed DEF ToSet
      <4>3. Fair(plan, answer.accounts, answer.listed, answer.now)
        BY <3>1, <4>2, ShownPlansAreFair
      <4>. QED  BY <4>1, <4>3 DEF Fair
    <3>2. CASE answer.kind = "estimate"
      <4>1. b = answer.result.bonus
        BY <3>2 DEF BonusesUsed
      <4>2. \E e : b = BestBonus(answer.listed, e, answer.now)
        BY <3>2, <4>1 DEF IInv, Answered, EstimateTransfer
      <4>. QED  BY <2>2, <4>2, BestBonusIsOn
    <3>3. CASE answer.kind = "advice"
      <4> DEFINE held == answer.accounts
      <4>1. PICK p \in Programs : \E o \in ToSet(answer.result.transfers[p]) : b = o.bonus
        BY <3>3 DEF BonusesUsed
      <4>2. PICK o \in ToSet(answer.result.transfers[p]) : b = o.bonus
        BY <4>1
      <4>3. /\ IsPortfolio(held)
            /\ answer.result.transfers[p] =
                 IF held[p] = None THEN <<>>
                 ELSE RankTransfers(p, held[p].points, held[p].card, answer.listed, answer.now)
        BY <3>3 DEF IInv, Answered, Advice
      <4>4. answer.result.transfers[p] # <<>>
        BY <4>2 DEF ToSet
      <4>5. held[p] # None /\ held[p].points \in Nat \ {0}
        BY <4>3, <4>4 DEF RankTransfers, IsPortfolio, IsHolding
      <4>6. PICK e : o = Option(e, held[p].points, answer.listed, answer.now)
        BY <2>2, <4>2, <4>3, <4>5, RankTransfersShows
      <4>7. b = BestBonus(answer.listed, e, answer.now)
        BY <4>2, <4>6 DEF Option
      <4>. QED  BY <2>2, <4>7, BestBonusIsOn
    <3>. QED  BY <2>1, <3>1, <3>2, <3>3
  <2>. QED  BY <2>2, <2>3 DEF Seen, IsBonusActive, IsBonusVisibleTo
<1>. QED  BY <1>1, Invariance, PTL

(* Nothing is shown of a share that was revoked or ran out while its snapshot   *)
(* was read.                                                                    *)
THEOREM RevokedStaysHidden == Spec => RevokedIsHidden
<1>1. [Next]_vars =>
        [answer' # answer /\ answer'.kind = "share" =>
           /\ shares[answer'.asked].revoked = None
           /\ shares[answer'.asked].expires # None
                => answer'.now < shares[answer'.asked].expires]_vars
  BY AnswerStep DEF StillActive, IsShareActive
<1>. QED  BY <1>1, PTL DEF Spec, RevokedIsHidden
================================================================================

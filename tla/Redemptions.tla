------------------------------- MODULE Redemptions -------------------------------
(* The redemption optimizer: which balances and transfers pay for an award at   *)
(* the smallest opportunity cost, and how the plans rank. Rates are whole cents *)
(* per point, so that a cost in quarter cents is exact (a balance about to      *)
(* expire is worth a half or a quarter).                                       *)
EXTENDS Transfers

CONSTANT Spots  \* the catalog: [id, program, kind, unit, cost, cpp, maxUnits, confidence]

ASSUME RedemptionsAssumption ==
  /\ IsFiniteSet(Spots)
  /\ \A s \in Spots : /\ s.id \in Nat /\ s.program \in Programs
                      /\ {s.cost, s.maxUnits} \subseteq Nat \ {0} /\ {s.cpp, s.confidence} \subseteq Nat
  /\ \A s, t \in Spots : s.id = t.id => s = t

\* reduce: the sum of the first n of f.
Total(f, n) ==
  LET upTo[k \in 0 .. n] == IF k = 0 THEN 0 ELSE upTo[k - 1] + f[k] IN upTo[n]

\* A holding is [points, rate, days, card]; `days` to its projected expiry.
Quarters(days) == IF days = None THEN 4 ELSE IF days <= 30 THEN 1 ELSE IF days <= 90 THEN 2 ELSE 4
Urgency(days) == IF days = None THEN 0 ELSE IF days <= 30 THEN 2 ELSE IF days <= 90 THEN 1 ELSE 0

--------------------------------------------------------------------------------
Yield(s, x) == IF x <= 0 THEN 0 ELSE IF s.edge = None THEN x
               ELSE ConvertPoints(s.edge, x, Permille(s.bonus))

Direct(program, h) ==
  [from |-> program, edge |-> None, bonus |-> None, min |-> 0, inc |-> 1,
   usable |-> h.points, maxDest |-> h.points, weight |-> Quarters(h.days) * h.rate]

Transfer(e, h, bonus) ==
  LET inc == OrElse(e.inc, DefaultIncrement)
      probe == [from |-> e.from, edge |-> Resolved(e), bonus |-> bonus,
                min |-> OrElse(e.min, inc), inc |-> inc, usable |-> (h.points \div inc) * inc,
                maxDest |-> 0, weight |-> Quarters(h.days) * h.rate]
  IN [probe EXCEPT !.maxDest = Yield(probe, probe.usable)]

\* The cost of a destination point is weight * usable / maxDest.
CostsLess(a, b) ==
  LET x == a.weight * a.usable * b.maxDest  y == b.weight * b.usable * a.maxDest IN
  \/ x < y
  \/ x = y /\ a.edge = None /\ b.edge # None
  \/ x = y /\ (a.edge = None) = (b.edge = None) /\ a.from < b.from

OpenEdges(program, holdings, now) ==
  {e \in Edges : /\ e.to = program
                 /\ Refusal(e, IF holdings[e.from] = None THEN None ELSE holdings[e.from].card,
                            now) = None}

\* What can fund an award of a program, the cheapest first.
BuildSources(program, holdings, bonuses, now) ==
  LET held == {p \in Programs : holdings[p] # None /\ holdings[p].points > 0}
      direct == {Direct(program, holdings[p]) : p \in held \intersect {program}}
      moved == {Transfer(e, holdings[e.from], BestBonus(bonuses, e, now)) :
                  e \in {f \in OpenEdges(program, holdings, now) : f.from \in held}}
  IN InOrder(direct \union {s \in moved : s.usable >= s.min /\ s.usable > 0 /\ s.maxDest > 0},
             CostsLess)

\* The first of the blocks lo .. hi whose yield covers the need, by bisection: a
\* pass of the loop shrinks the range, so that hi passes end it.
Halved(s, need, range) ==
  LET mid == range.lo + (range.hi - range.lo) \div 2 IN
  IF range.lo >= range.hi THEN range
  ELSE IF Yield(s, mid * s.inc) >= need THEN [lo |-> range.lo, hi |-> mid]
  ELSE [lo |-> mid + 1, hi |-> range.hi]

Bisect(s, need, lo, hi) ==
  LET range[n \in 0 .. hi] ==
        IF n = 0 THEN [lo |-> lo, hi |-> hi] ELSE Halved(s, need, range[n - 1])
  IN range[hi].lo

\* The smallest transferable amount whose yield covers the need.
MinAmountFor(s, need) ==
  LET lo == Max({1, CeilDiv(s.min, s.inc)})  hi == s.usable \div s.inc
      x == Bisect(s, need, lo, hi) * s.inc
  IN IF need <= 0 THEN 0
     ELSE IF s.maxDest < need \/ hi < lo THEN None
     ELSE IF Yield(s, x) >= need THEN x ELSE None

--------------------------------------------------------------------------------
\* A pick spends `amount` of a source.
Pick(s, amount) == [source |-> s, amount |-> amount]
PickYield(picks) == Total([i \in DOMAIN picks |-> Yield(picks[i].source, picks[i].amount)], Len(picks))
PickCost(picks) == Total([i \in DOMAIN picks |-> picks[i].source.weight * picks[i].amount], Len(picks))
PickAmount(picks) == Total([i \in DOMAIN picks |-> picks[i].amount], Len(picks))

\* A fill is what is picked so far and what is left of the need.
Unfilled(need) == [picks |-> <<>>, left |-> need]
Taken(fill, s, x, covers) == [picks |-> Append(fill.picks, Pick(s, x)), left |-> fill.left - covers]

\* Every source in full until one covers the rest.
GreedyStep(fill, s) ==
  IF fill.left <= 0 THEN fill
  ELSE IF s.maxDest <= fill.left THEN Taken(fill, s, s.usable, s.maxDest)
  ELSE LET x == MinAmountFor(s, fill.left) IN
       IF x = None THEN fill ELSE Taken(fill, s, x, fill.left)

Greedy(sources, need) ==
  LET fill[n \in 0 .. Len(sources)] ==
        IF n = 0 THEN Unfilled(need) ELSE GreedyStep(fill[n - 1], sources[n])
  IN fill[Len(sources)]

\* The cheaper others in full until source `m` alone can finish.
Marginal(sources, need, m) ==
  LET fill[n \in 0 .. Len(sources)] ==
        IF n = 0 THEN Unfilled(need)
        ELSE LET so == fill[n - 1]  s == sources[n] IN
             IF n = m \/ so.left <= 0 \/ sources[m].maxDest >= so.left THEN so
             ELSE Taken(so, s, s.usable, s.maxDest)
      others == fill[Len(sources)]
      x == MinAmountFor(sources[m], others.left)
  IN IF others.left <= 0 \/ x = None THEN others
     ELSE Taken(others, sources[m], x, others.left)

Before(s, t) ==
  \E k \in 0 .. Len(s) : /\ k < Len(t) /\ \A i \in 1 .. k : s[i] = t[i]
                         /\ k = Len(s) \/ s[k + 1] < t[k + 1]

Names(picks) == SortSeq(SetToSeq({p.source.from : p \in ToSet(picks)}), <)

Cheaper(a, b) ==
  \/ PickCost(a) < PickCost(b)
  \/ PickCost(a) = PickCost(b) /\ \/ PickAmount(a) < PickAmount(b)
                                  \/ PickAmount(a) = PickAmount(b) /\ Before(Names(a), Names(b))

\* The cheapest of the candidates that cover the need, the first among equals;
\* if none does, nothing is filled. The bug tries the greedy fill only.
FundGreedily(sources, need) == Greedy(sources, need)
Fund(sources, need) ==
  LET best[n \in 0 .. Len(sources) + 1] ==
        IF n = 0 THEN Unfilled(need)
        ELSE LET tried == IF n = 1 THEN Greedy(sources, need) ELSE Marginal(sources, need, n - 1)
                 so == best[n - 1] IN
             IF /\ tried.left <= 0 /\ PickYield(tried.picks) >= need
                /\ so.left > 0 \/ Cheaper(tried.picks, so.picks)
             THEN tried ELSE so
  IN best[Len(sources) + 1]

--------------------------------------------------------------------------------
\* What a transfer over each open edge would take to cover what is missing.
CoverageNeeded(e, missing, permille) ==
  LET inc == OrElse(e.inc, DefaultIncrement) IN
  inc * Max({1, CeilDiv(OrElse(e.min, inc), inc), CeilDiv(SourceNeeded(e, missing, permille), inc)})

CoverageFor(program, missing, holdings, used, bonuses, now) ==
  LET hint(e) ==
        LET needed == CoverageNeeded(Resolved(e), missing, Permille(BestBonus(bonuses, e, now)))
            available == Max({0, Points(holdings, e.from) - used[e.from]})
        IN [from |-> e.from, needed |-> needed, available |-> available,
            coversNow |-> available >= needed]
  IN {hint(e) : e \in OpenEdges(program, holdings, now)}

DefaultUnits(spot, capacity) ==
  LET affordable == Min({spot.maxUnits, Max({1, capacity \div spot.cost})}) IN
  CASE spot.unit = "night" -> Min({3, affordable})
    [] spot.unit = "redemption" -> affordable
    [] OTHER -> 1

Round(n, d) == (2 * n + d) \div (2 * d)

\* The plan that spends `chosen`, which covers the need or is all there is.
PlanOf(spot, units, chosen, fundable, holdings, bonuses, now) ==
  LET need == spot.cost * units
      provided == PickYield(chosen)
      amount == PickAmount(chosen)
      value == need * spot.cpp
      used == [p \in Programs |->
                 Total([i \in DOMAIN chosen |->
                          IF chosen[i].source.from = p THEN chosen[i].amount ELSE 0], Len(chosen))]
      opportunity == Total([i \in DOMAIN chosen |->
                              chosen[i].amount * holdings[chosen[i].source.from].rate], Len(chosen))
  IN [spot |-> spot, units |-> units, fundable |-> fundable, sources |-> chosen,
      need |-> need, provided |-> provided, surplus |-> Max({0, provided - need}),
      milli |-> IF fundable /\ amount > 0 THEN Round(value * 1000, amount) ELSE spot.cpp * 1000,
      net |-> IF fundable THEN value - opportunity ELSE 0,
      score |-> IF fundable THEN Round(4 * value - PickCost(chosen), 4) ELSE 0,
      coverage |-> IF fundable THEN {}
                   ELSE CoverageFor(spot.program, need - provided, holdings, used, bonuses, now),
      urgency |-> Max({0} \union {Urgency(holdings[k.source.from].days) : k \in ToSet(chosen)}),
      confidence |-> IF \A k \in ToSet(chosen) : k.source.bonus = None \/ k.source.bonus.verified
                     THEN spot.confidence ELSE Min({spot.confidence, 1})]

Unfunded(sources) == [i \in DOMAIN sources |-> Pick(sources[i], sources[i].usable)]

Units(spot, goal, capacity) == OrElse(goal.quantity, DefaultUnits(spot, capacity))

\* A goal is [kind, target, minMilli, quantity]; without a target a plan that the
\* balances cover by less than a quarter is not shown.
PlanFrom(sources, capacity, units, funded, spot, goal, holdings, bonuses, now) ==
  IF /\ goal.target = None
     /\ sources = <<>> \/ (funded.left > 0 /\ capacity * 4 < spot.cost * units)
  THEN None
  ELSE IF funded.left > 0
  THEN PlanOf(spot, units, Unfunded(sources), FALSE, holdings, bonuses, now)
  ELSE PlanOf(spot, units, funded.picks, TRUE, holdings, bonuses, now)

EvaluateSpot(spot, goal, holdings, bonuses, now) ==
  LET sources == BuildSources(spot.program, holdings, bonuses, now)
      capacity == Total([i \in DOMAIN sources |-> sources[i].maxDest], Len(sources))
      units == Units(spot, goal, capacity)
  IN PlanFrom(sources, capacity, units, Fund(sources, spot.cost * units),
              spot, goal, holdings, bonuses, now)

Matches(spot, goal) ==
  /\ goal.target # None => spot.program = goal.target
  /\ goal.kind \in {"any", spot.kind}

RanksBefore(a, b) ==
  \/ a.fundable /\ ~b.fundable
  \/ /\ a.fundable /\ b.fundable
     /\ \/ a.score > b.score
        \/ a.score = b.score /\ a.milli > b.milli
        \/ a.score = b.score /\ a.milli = b.milli /\ a.spot.id < b.spot.id
  \/ /\ ~a.fundable /\ ~b.fundable
     /\ \/ a.provided * b.need > b.provided * a.need
        \/ a.provided * b.need = b.provided * a.need /\ a.spot.id < b.spot.id

OptimizeRedemptions(goal, holdings, bonuses, now, maxPlans) ==
  LET held == [p \in Programs |->
                 IF holdings[p] # None /\ holdings[p].points > 0
                 THEN holdings[p] ELSE None]
      plans == {EvaluateSpot(s, goal, held, bonuses, now) :
                  s \in {t \in Spots : Matches(t, goal)}} \ {None}
      worth == {p \in plans : goal.minMilli # None => p.milli >= goal.minMilli}
      ranked == InOrder(worth, RanksBefore)
  IN SubSeq(ranked, 1, Min({maxPlans, Len(ranked)}))

\* At most two plans of a program, so that it cannot crowd out the others.
Diversified(plans, limit) ==
  LET kept[n \in 0 .. Len(plans)] ==
        IF n = 0 THEN <<>>
        ELSE LET p == plans[n]  so == kept[n - 1] IN
             IF \/ Len(so) >= limit
                \/ Cardinality({i \in DOMAIN so : so[i].spot.program = p.spot.program}) >= 2
             THEN so ELSE Append(so, p)
  IN kept[Len(plans)]
================================================================================

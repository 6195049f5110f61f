-------------------------------- MODULE MCReports --------------------------------
(* Two award programs (1, 2) and two currencies (3, 4). Program 1 is reached    *)
(* point by point; program 2 in blocks, with a minimum, or under a condition.   *)
EXTENDS Reports

CONSTANTS me, other, s1, plus, gold

E(from, to, num, den, min, inc, conditional) ==
  [from |-> from, to |-> to, num |-> num, den |-> den, min |-> min, inc |-> inc,
   conditional |-> conditional]
MCEdges == {E(3, 1, 1, 1, 1, 1, FALSE), E(4, 1, 1, 1, None, 1, FALSE),
            E(3, 2, 2, 3, 5, 2, FALSE), E(4, 2, 4, 3, None, None, TRUE)}

MCCpp == [p \in 1 .. 4 |-> IF p = 2 THEN 2 ELSE 1]

Spot(id, program, kind, unit, cost, cpp, maxUnits, confidence) ==
  [id |-> id, program |-> program, kind |-> kind, unit |-> unit, cost |-> cost, cpp |-> cpp,
   maxUnits |-> maxUnits, confidence |-> confidence]
MCSpots == {Spot(1, 1, "flight", "one_way", 6, 2, 1, 2), Spot(2, 2, "hotel", "night", 3, 1, 4, 2),
            Spot(3, 2, "hotel", "redemption", 4, 2, 2, 1)}

H(points, rate, days, c) == [points |-> points, rate |-> rate, days |-> days, card |-> c]
MCPortfolios ==
  {<<a, b, c, d>> :
     a \in {None, H(2, 3, None, None), H(7, 1, 60, None)}, b \in {None, H(1, 1, 20, None)},
     c \in {None, H(5, 1, None, None), H(8, 2, 60, None)},
     d \in {None, H(3, 2, 20, plus), H(8, 1, None, plus), H(7, 2, None, None)}}
MCEdits == {[program |-> 4, holding |-> H(6, 1, None, gold)], [program |-> 1, holding |-> H(0, 1, None, None)]}

B(id, from, to, permille, starts, ends, source, verified, by) ==
  [id |-> id, from |-> from, to |-> to, permille |-> permille, starts |-> starts, ends |-> ends,
   source |-> source, verified |-> verified, by |-> by]
MCBonuses == {B(1, 3, 2, 1300, 0, 1, "manual", TRUE, None), B(2, 3, 2, 2000, 0, 2, "user", FALSE, other),
              B(3, 4, 2, 1500, 1, 2, "user", FALSE, me), B(4, 3, 2, 1000, 0, 2, "manual", TRUE, None)}

Goal(kind, target, min, quantity) ==
  [kind |-> kind, target |-> target, minMilli |-> min, quantity |-> quantity]
MCGoals == {Goal("any", None, None, None), Goal("hotel", 2, 1500, 2)}
MCRoutes == {[from |-> 3, to |-> 2, points |-> 5], [from |-> 4, to |-> 2, points |-> 4],
             [from |-> 3, to |-> 4, points |-> 5]}
MCDeals == {[program |-> 2, cost |-> 3, from |-> 3], [program |-> 2, cost |-> 5, from |-> 4],
            [program |-> 1, cost |-> 3, from |-> 2]}
=================================================================================

-------------------------------- MODULE Transfers --------------------------------
(* Points moved between programs: the transfer graph and its conditional edge, *)
(* time-boxed bonuses, the two-stage conversion and its inverse, and the deals  *)
(* priced with them. Programs and ids are numbers in the order names compare.  *)
EXTENDS Integers, Sequences, FiniteSets, FiniteSetsExt, SequencesExt

CONSTANTS
  Programs,
  Edges,         \* transfer edges, at most one from one program to another
  EligibleCards, \* cards the conditional edge is verified for
  EffectiveFrom, \* when its rule takes effect
  Cpp,           \* what a point of each program is worth, in cents
  DefaultIncrement, \* block size of an edge that states none
  None

Edge == [from : Programs, to : Programs, num : Nat, den : Nat,
         min : Nat \union {None}, inc : Nat \union {None}, conditional : BOOLEAN]

\* Why a transfer is not on offer.
Reasons == {"CARD_PRODUCT_REQUIRED", "CARD_PRODUCT_UNVERIFIED", "TRANSFER_RULE_NOT_EFFECTIVE",
            "NO_TRANSFER_ROUTE", "SOURCE_ACCOUNT_REQUIRED"}

ASSUME TransfersAssumption ==
  /\ Programs \subseteq Nat /\ Edges \subseteq Edge /\ IsFiniteSet(Edges)
  /\ \A e \in Edges : e.num > 0 /\ e.den > 0 /\ e.inc # 0 /\ e.from # e.to
  /\ \A e, f \in Edges : e.from = f.from /\ e.to = f.to => e = f
  /\ Cpp \in [Programs -> Nat \ {0}]
  /\ DefaultIncrement \in Nat \ {0} /\ EffectiveFrom \in Nat
  /\ None \notin Nat \union Reasons \union Edge

OrElse(value, default) == IF value = None THEN default ELSE value
CeilDiv(n, d) == (n + d - 1) \div d

--------------------------------------------------------------------------------
\* The conditional edge asks for a verified card and its effective date; what is
\* not refused is resolved, the conditional edge at 4:3.
Refusal(edge, card, now) ==
  IF ~edge.conditional THEN None
  ELSE IF card = None THEN "CARD_PRODUCT_REQUIRED"
  ELSE IF card \notin EligibleCards THEN "CARD_PRODUCT_UNVERIFIED"
  ELSE IF now < EffectiveFrom THEN "TRANSFER_RULE_NOT_EFFECTIVE"
  ELSE None

Resolved(edge) == IF edge.conditional THEN [edge EXCEPT !.num = 3, !.den = 4] ELSE edge

EdgesBetween(from, to) == {e \in Edges : e.from = from /\ e.to = to}

\* Floor of the base conversion, then floor of the bonus.
ConvertPoints(edge, points, permille) ==
  (((points * edge.num) \div edge.den) * permille) \div 1000

\* The inverse of the two floors: the bonus first, then the ratio.
SourceNeeded(edge, missing, permille) ==
  CeilDiv(CeilDiv(missing * 1000, permille) * edge.den, edge.num)

--------------------------------------------------------------------------------
\* `by` reported a bonus of source "user"; `verified` is set by a trusted party.
ValidBonus(b) ==
  /\ EdgesBetween(b.from, b.to) # {}
  /\ b.permille > 1000 /\ b.permille <= 3000
  /\ b.ends > b.starts

\* The window is closed at both ends; the bug forgets the end.
IsBonusActiveOnceStarted(b, at) == b.starts <= at
IsBonusActive(b, at) == b.starts <= at /\ b.ends >= at

IsBonusVisibleTo(b, viewer) == b.source # "user" \/ b.verified \/ b.by = viewer

\* The best active bonus of an edge: the highest, the lowest id among equals.
BestBonus(bonuses, edge, at) ==
  LET on == {b \in bonuses : IsBonusActive(b, at) /\ b.from = edge.from /\ b.to = edge.to} IN
  IF on = {} THEN None
  ELSE CHOOSE b \in on : \A c \in on :
         b.permille > c.permille \/ (b.permille = c.permille /\ b.id <= c.id)

Permille(bonus) == IF bonus = None THEN 1000 ELSE bonus.permille

--------------------------------------------------------------------------------
\* One route of one account, of an amount the user names.
EstimateTransfer(from, to, points, holding, bonuses, now) ==
  LET edges == EdgesBetween(from, to)
      card == IF holding = None THEN None ELSE holding.card
      refused(code) == [status |-> "unavailable", reason |-> code, gives |-> None, bonus |-> None]
  IN IF edges = {} THEN refused("NO_TRANSFER_ROUTE")
     ELSE LET edge == CHOOSE e \in edges : TRUE
              bonus == BestBonus(bonuses, edge, now) IN
          IF Refusal(edge, card, now) # None THEN refused(Refusal(edge, card, now))
          ELSE [status |-> "estimated", reason |-> None, bonus |-> bonus,
                gives |-> ConvertPoints(Resolved(edge), points, Permille(bonus))]

\* sort: a set in the order Less; the i-th has i - 1 before it.
InOrder(S, Less(_, _)) ==
  LET before == [o \in S |-> Cardinality({q \in S : Less(q, o)})] IN
  [i \in 1 .. Cardinality(S) |-> CHOOSE o \in S : before[o] = i - 1]

\* By value per source point in thousandths of a cent; of equal ones, in the
\* order of the table.
WorthMore(a, b) == a.milli > b.milli \/ (a.milli = b.milli /\ a.to < b.to)

\* Where a balance is worth moving: the routes open to it.
RankTransfers(from, points, card, bonuses, now) ==
  LET option(e) ==
        LET bonus == BestBonus(bonuses, e, now)
            gives == ConvertPoints(Resolved(e), points, Permille(bonus)) IN
        [to |-> e.to, gives |-> gives, bonus |-> bonus,
         milli |-> (2 * gives * Cpp[e.to] * 1000 + points) \div (2 * points)]
      routes == {e \in Edges : e.from = from /\ Refusal(e, card, now) = None}
  IN IF points = 0 THEN <<>>
     ELSE InOrder({option(e) : e \in routes}, WorthMore)

\* The source points a deal needs to be topped up; limits that the catalog does
\* not state are not invented. The bug rounds before it applies the minimum.
RequiredForDealRoundedFirst(edge, missing, permille) ==
  LET inc == OrElse(edge.inc, 1) IN
  Max({CeilDiv(SourceNeeded(edge, missing, permille), inc) * inc, OrElse(edge.min, 0)})
RequiredForDeal(edge, missing, permille) ==
  LET inc == OrElse(edge.inc, 1) IN
  CeilDiv(Max({SourceNeeded(edge, missing, permille), OrElse(edge.min, 0)}), inc) * inc

Points(holdings, p) == IF holdings[p] = None THEN 0 ELSE holdings[p].points

\* Is a deal within reach, from the saved balance or one transfer?
RankDeal(deal, holdings, bonuses, now) ==
  LET direct == Points(holdings, deal.program)
      missing == deal.cost - direct
      answer(reason, affordable, required, produced) ==
        [reason |-> reason, affordable |-> affordable, required |-> required,
         produced |-> produced]
      edges == EdgesBetween(deal.from, deal.program)
  IN IF direct >= deal.cost THEN answer(None, TRUE, 0, 0)
     ELSE IF edges = {} THEN answer("NO_TRANSFER_ROUTE", FALSE, None, None)
     ELSE IF holdings[deal.from] = None THEN answer("SOURCE_ACCOUNT_REQUIRED", FALSE, None, None)
     ELSE LET edge == CHOOSE e \in edges : TRUE
              refusal == Refusal(edge, holdings[deal.from].card, now)
              resolved == Resolved(edge)
              permille == Permille(BestBonus(bonuses, edge, now))
              required == RequiredForDeal(resolved, missing, permille)
              produced == ConvertPoints(resolved, required, permille)
          IN IF refusal # None THEN answer(refusal, FALSE, None, None)
             ELSE answer(None, Points(holdings, deal.from) >= required /\ produced >= missing,
                         required, produced)
================================================================================

--------------------------------- MODULE Reports ---------------------------------
(* The reports a user asks for while the data under them moves: redemption     *)
(* plans (after an award search that may take minutes), a transfer estimate,   *)
(* value advice, and the public snapshot behind a share link. A report reads    *)
(* the accounts, the bonuses and the share in separate queries, then reads the *)
(* clock and evaluates what it has. Reports write nothing, so one is enough.   *)
EXTENDS Redemptions

CONSTANTS
  Viewer,        \* the user who asks; other users report bonuses too
  Portfolios,    \* the balances the viewer may have
  Edits,         \* bound: the changes of a balance or a card, [program, holding]
  Bonuses,       \* the bonuses that may be recorded
  Goals, Routes, Deals, \* what may be asked: goals, [from, to, points], deals
  Shares, Lifetimes, \* share ids, and the days they may be good for
  MaxTime, MaxChanges \* bounds: the clock, the changes made to the data

Kinds == {"plan", "best", "estimate", "advice", "share"}
IsHolding(h) == h # None => h.points \in Nat /\ h.rate \in Nat

ASSUME ReportsAssumption ==
  /\ MaxTime \in Nat /\ MaxChanges \in Nat
  /\ Lifetimes \subseteq Nat \union {None}
  /\ \A portfolio \in Portfolios :
       DOMAIN portfolio = Programs /\ \A p \in Programs : IsHolding(portfolio[p])
  /\ \A e \in Edits : e.program \in Programs /\ IsHolding(e.holding)
  /\ \A b \in Bonuses : b.id \in Nat /\ b.permille \in Nat
  /\ \A g \in Goals : g.quantity \in (Nat \ {0}) \union {None}
  /\ Deals \subseteq [program : Programs, cost : Nat, from : Programs]
  /\ None \notin Kinds

VARIABLES time, holdings, bonuses, shares, call, answer, changes

world == <<holdings, bonuses, shares, changes>>
vars == <<time, world, call, answer>>

Idle == [kind |-> None, at |-> "idle", asked |-> None, accounts |-> None, listed |-> None]
NoAnswer == [kind |-> None]

Init ==
  /\ time = 0
  /\ holdings \in Portfolios
  /\ bonuses = {}
  /\ shares = [s \in Shares |-> None]
  /\ call = Idle /\ answer = NoAnswer
  /\ changes = 0

--------------------------------------------------------------------------------
\* Bound: nothing matters after the one report is answered.
Open == answer = NoAnswer

Changing == Open /\ changes < MaxChanges /\ changes' = changes + 1

Tick == Open /\ time < MaxTime /\ time' = time + 1 /\ UNCHANGED <<world, call, answer>>

EditHolding(e) ==
  /\ Changing
  /\ holdings' = [holdings EXCEPT ![e.program] = e.holding]
  /\ UNCHANGED <<time, bonuses, shares, call, answer>>

\* An invalid bonus is rejected.
RecordTransferBonus(b) ==
  /\ ValidBonus(b) /\ b \notin bonuses /\ Changing
  /\ bonuses' = bonuses \union {b}
  /\ UNCHANGED <<time, holdings, shares, call, answer>>

CreatePortfolioShare(s) ==
  /\ shares[s] = None /\ Changing
  /\ \E life \in Lifetimes :
       shares' = [shares EXCEPT ![s] =
                    [expires |-> IF life = None THEN None ELSE time + life, revoked |-> None]]
  /\ UNCHANGED <<time, holdings, bonuses, call, answer>>

\* Revoking again moves the date.
RevokePortfolioShare(s) ==
  /\ shares[s] # None /\ Changing
  /\ shares' = [shares EXCEPT ![s].revoked = time]
  /\ UNCHANGED <<time, holdings, bonuses, call, answer>>

IsShareActive(share, now) ==
  /\ share # None
  /\ share.revoked = None
  /\ share.expires # None => share.expires > now

\* The second look at the share, before the snapshot leaves; the bug trusts the first.
StillActiveAlways(share, now) == TRUE
StillActive(share, now) == IsShareActive(share, now)

--------------------------------------------------------------------------------
Ask(kind, asked, at) ==
  /\ call = Idle /\ Open
  /\ call' = [Idle EXCEPT !.kind = kind, !.asked = asked, !.at = at]
  /\ UNCHANGED <<time, world, answer>>

AskPlan(goal) == Ask("plan", goal, "searching") \/ Ask("plan", goal, "reading")
AskBest == Ask("best", [kind |-> "any", target |-> None, minMilli |-> None, quantity |-> None],
               "reading")
AskEstimate(route) == Ask("estimate", route, "reading")
AskAdvice == Ask("advice", None, "reading")

\* A link that is unknown, expired or revoked is not found.
OpenShare(s) == IsShareActive(shares[s], time) /\ Ask("share", s, "reading")

\* The external search answers, fails or is not configured: what it returns is
\* attached to the plans and changes none of them.
Searched ==
  /\ call.at = "searching"
  /\ call' = [call EXCEPT !.at = "reading"]
  /\ UNCHANGED <<time, world, answer>>

ReadAccounts ==
  /\ call.at = "reading" /\ call.accounts = None
  /\ call' = [call EXCEPT !.accounts = holdings]
  /\ UNCHANGED <<time, world, answer>>

\* The accounts and the bonuses are read side by side, but an estimate has its
\* account first. A user's unverified report is listed to that user alone.
ReadBonuses ==
  /\ call.at = "reading" /\ call.listed = None /\ call.kind # "share"
  /\ call.kind = "estimate" => call.accounts # None
  /\ call' = [call EXCEPT !.listed =
                {b \in bonuses : IsBonusActive(b, time) /\ IsBonusVisibleTo(b, Viewer)}]
  /\ UNCHANGED <<time, world, answer>>

Answer(result) ==
  /\ answer' = [kind |-> call.kind, asked |-> call.asked, now |-> time, accounts |-> call.accounts,
                listed |-> call.listed, result |-> result]
  /\ call' = Idle
  /\ UNCHANGED <<time, world>>

Ready(kind) == call.kind = kind /\ call.accounts # None /\ call.listed # None

Advice(accounts, listed, now) ==
  [transfers |-> [p \in Programs |->
     IF accounts[p] = None THEN <<>>
     ELSE RankTransfers(p, accounts[p].points, accounts[p].card, listed, now)],
   deals |-> [d \in Deals |-> RankDeal(d, accounts, listed, now)]]

Plans(limit) ==
  OptimizeRedemptions(call.asked, call.accounts,
                      {b \in call.listed : IsBonusActive(b, time)}, time, limit)

EvaluatePlan == Ready("plan") /\ Answer(Plans(10))
EvaluateBest == Ready("best") /\ Answer(Diversified(Plans(50), 5))

EvaluateEstimate ==
  /\ Ready("estimate")
  /\ LET route == call.asked IN
     Answer(EstimateTransfer(route.from, route.to, route.points, call.accounts[route.from],
                             call.listed, time))

EvaluateAdvice == Ready("advice") /\ Answer(Advice(call.accounts, call.listed, time))

Withdrawn == call' = Idle /\ UNCHANGED <<time, world, answer>>

AnswerShare ==
  /\ call.kind = "share" /\ call.accounts # None
  /\ \/ StillActive(shares[call.asked], time)
        /\ Answer({p \in Programs : call.accounts[p] # None})
     \/ ~StillActive(shares[call.asked], time) /\ Withdrawn

Next ==
  \/ Tick
  \/ \E e \in Edits : EditHolding(e)
  \/ \E b \in Bonuses : RecordTransferBonus(b)
  \/ \E s \in Shares : CreatePortfolioShare(s) \/ RevokePortfolioShare(s) \/ OpenShare(s)
  \/ \E goal \in Goals : AskPlan(goal)
  \/ \E route \in Routes : AskEstimate(route)
  \/ AskBest \/ AskAdvice
  \/ Searched \/ ReadAccounts \/ ReadBonuses
  \/ EvaluatePlan \/ EvaluateBest \/ EvaluateEstimate \/ EvaluateAdvice \/ AnswerShare

Spec == Init /\ [][Next]_vars

--------------------------------------------------------------------------------
Least(x, Enough(_)) == x \in Nat /\ Enough(x) /\ \A y \in 0 .. x - 1 : ~Enough(y)

\* What a legal transfer may move, of any amount or of a balance.
Block(x, min, inc) == x > 0 /\ x % inc = 0 /\ x >= min
Legal(s) == {x \in 0 .. s.usable : x = 0 \/ Block(x, s.min, s.inc)}

\* Every legal way to spend the sources.
Fundings(sources) ==
  LET amounts == {w \in [DOMAIN sources -> UNION {Legal(s) : s \in ToSet(sources)}] :
                    \A i \in DOMAIN sources : w[i] \in Legal(sources[i])}
  IN {[i \in DOMAIN sources |-> Pick(sources[i], w[i])] : w \in amounts}

Linear(sources) ==
  \A s \in ToSet(sources) : s.inc = 1 /\ s.min <= 1 /\ \A x \in 0 .. s.usable : Yield(s, x) = x

\* A plan spends legal blocks of what is held. It is called fundable exactly when
\* some way to spend the sources covers the need; it then covers it, at no more
\* than any one source would cost that suffices alone, and at the least cost of
\* all when the sources move point by point.
SpendsWell(plan, sources) ==
  LET covering == {way \in Fundings(sources) : PickYield(way) >= plan.need} IN
  /\ \A k \in ToSet(plan.sources) : k.source \in ToSet(sources) /\ k.amount \in Legal(k.source)
  /\ \A i, j \in DOMAIN plan.sources : plan.sources[i].source = plan.sources[j].source => i = j
  /\ plan.fundable <=> covering # {}
  /\ plan.fundable =>
       /\ plan.provided >= plan.need
       /\ \A s \in ToSet(sources) : \A x \in Legal(s) :
            Yield(s, x) >= plan.need => PickCost(plan.sources) <= s.weight * x
       /\ Linear(sources) =>
            \A way \in covering : PickCost(plan.sources) <= PickCost(way)

\* What a shortfall asks for is the smallest legal transfer that fills the gap,
\* and never one that the balance left over could make.
AsksForTheLeast(plan, listed, now) ==
  \A hint \in plan.coverage :
    LET e == CHOOSE f \in EdgesBetween(hint.from, plan.spot.program) : TRUE
        inc == OrElse(e.inc, DefaultIncrement)
        enough(x) == /\ Block(x, OrElse(e.min, inc), inc)
                     /\ ConvertPoints(Resolved(e), x, Permille(BestBonus(listed, e, now)))
                          >= plan.need - plan.provided IN
    Least(hint.needed, enough) /\ ~hint.coversNow

\* Plans are sound for every portfolio, and one that counts on an unverified bonus
\* is never given high confidence (evaluateSpot, fund, minAmountFor, coverageFor).
PlansAreSound ==
  answer.kind \in {"plan", "best"} =>
    \A i \in 1 .. Len(answer.result) :
      LET plan == answer.result[i]
          sources == BuildSources(plan.spot.program, answer.accounts, answer.listed, answer.now) IN
      /\ SpendsWell(plan, sources)
      /\ AsksForTheLeast(plan, answer.listed, answer.now)
      /\ (\E k \in ToSet(plan.sources) : k.source.bonus # None /\ ~k.source.bonus.verified)
           => plan.confidence < 2

\* Three pieces of code quote the same transfer, and they agree: an option is
\* advised exactly when the estimate of its route is available, with the same
\* points; and a deal asks for the smallest amount the catalog allows, which it
\* calls affordable exactly when the balance has it (rankTransferAdvice,
\* EstimateTransfer, rankDeals).
QuotesAgree ==
  answer.kind = "advice" =>
    LET held == answer.accounts
        estimate(e) == EstimateTransfer(e.from, e.to, held[e.from].points, held[e.from],
                                        answer.listed, answer.now) IN
    /\ \A e \in {f \in Edges : held[f.from] # None /\ held[f.from].points > 0} :
         {estimate(e).gives} \ {None} =
           {o.gives : o \in {q \in ToSet(answer.result.transfers[e.from]) : q.to = e.to}}
    /\ \A d \in Deals :
         LET quote == answer.result.deals[d]  missing == d.cost - Points(held, d.program) IN
         quote.reason = None /\ missing > 0 =>
           LET e == CHOOSE f \in EdgesBetween(d.from, d.program) : TRUE
               enough(x) == /\ Block(x, OrElse(e.min, 0), OrElse(e.inc, 1))
                            /\ ConvertPoints(Resolved(e), x,
                                             Permille(BestBonus(answer.listed, e, answer.now)))
                                 >= missing
           IN /\ Least(quote.required, enough)
              /\ quote.affordable <=> \E x \in 0 .. held[d.from].points : enough(x)

BonusesUsed ==
  CASE answer.kind \in {"plan", "best"} ->
         {k.source.bonus : k \in UNION {ToSet(plan.sources) : plan \in ToSet(answer.result)}}
    [] answer.kind = "estimate" -> {answer.result.bonus}
    [] answer.kind = "advice" ->
         {o.bonus : o \in UNION {ToSet(answer.result.transfers[p]) : p \in Programs}}
    [] OTHER -> {}

\* However long a report took, it counts only on bonuses whose window is open at
\* the time it bears, and never on what another user reported and nobody verified
\* (PlanRedemption, EstimateTransfer, ListActiveTransferBonuses).
BonusesLive ==
  \A b \in BonusesUsed \ {None} :
    /\ b \in bonuses
    /\ b.starts <= answer.now /\ answer.now <= b.ends
    /\ b.source = "user" /\ ~b.verified => b.by = Viewer

\* Nothing is shown of a share that was revoked or ran out while its snapshot was
\* read (GetPublicPortfolioSnapshot.execute).
RevokedIsHidden ==
  [][answer' # answer /\ answer'.kind = "share" =>
       /\ shares[answer'.asked].revoked = None
       /\ shares[answer'.asked].expires # None => answer'.now < shares[answer'.asked].expires]_vars
================================================================================

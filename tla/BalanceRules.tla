----------------------------- MODULE BalanceRules -----------------------------
(* The rules a balance reading passes: core/domain/agent/observation.ts and   *)
(* the order of the balance history in core/infrastructure/repositories.      *)
EXTENDS Integers, Sequences

\* IMPLAUSIBLE_RATIO, and the ceiling of a first non-zero reading after zero.
ImplausibleRatio == 10
ZeroCeiling == 5000000

ExceedsSanityCap(points, maxPoints) == points > maxPoints

IsImplausibleJump(previous, next) ==
  IF previous = 0 THEN next > ZeroCeiling
  ELSE \/ next = 0
       \/ next >= ImplausibleRatio * previous
       \/ previous >= ImplausibleRatio * next

\* A history is kept oldest first, as `order by captured_at desc, id desc`
\* reads it backwards. Ids are random: a reading lands anywhere among those
\* captured at the same instant.
Slots(history, captured) ==
  {i \in 0..Len(history) :
     /\ i > 0 => history[i].captured <= captured
     /\ i < Len(history) => captured <= history[i + 1].captured}

InsertedAt(history, i, reading) ==
  SubSeq(history, 1, i) \o <<reading>> \o SubSeq(history, i + 1, Len(history))

\* findLatestByAccountIds; the empty sequence when there is no reading.
Latest(history) == IF history = <<>> THEN <<>> ELSE <<history[Len(history)]>>
===============================================================================

------------------------------ MODULE MCOutbox ------------------------------
(* Instances of Outbox for TLC. *)
EXTENDS Outbox, TLC

(* Workers differ in nothing but their name. *)
WorkerSymmetry == Permutations(Workers)

(* outboxBackoffMs: base * 2^(n-1), capped, in ticks. *)
OutboxBackoff(base, cap) ==
  [n \in 1..MaxAttempts |->
     IF base * 2^(n - 1) < cap THEN base * 2^(n - 1) ELSE cap]

Backoff1 == OutboxBackoff(1, 2)
Backoff2 == OutboxBackoff(2, 3)

(* No handler throws, no worker dies, every statement answers, and no row  *)
(* is locked by another.                                                   *)
CalmNext ==
  \/ \E e \in Events : Publish(e)
  \/ \E w \in Workers :
       \/ Sweep(w) \/ ClaimSkipping(w, {}) \/ RunHandler(w)
       \/ MarkProcessed(w) /\ worker'[w].pc # "failing"
  \/ Tick

CalmSpec == Init /\ [][CalmNext]_vars
=============================================================================

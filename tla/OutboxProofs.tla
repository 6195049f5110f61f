---------------------------- MODULE OutboxProofs ----------------------------
(* Proofs about Outbox, for every value of its constants. *)
EXTENDS Outbox, FiniteSetTheorems, TLAPS

-----------------------------------------------------------------------------
(* What the two helpers on a worker's batch leave behind. *)

(* After Proceed(w, h), w holds exactly h, and works on a claim of h. *)
LEMMA ProceedHolds ==
  ASSUME TypeOK, NEW w \in Workers, NEW h \in [Events -> Claim], Proceed(w, h)
  PROVE  /\ held' = [held EXCEPT ![w] = h]
         /\ held' \in [Workers -> [Events -> Claim]]
         /\ worker' \in [Workers -> Control]
         /\ \A v \in Workers : v # w => worker'[v] = worker[v]
         /\ worker'[w].pc \in {"idle", "handling"}
         /\ worker'[w].done = 0
         /\ worker'[w].pc = "handling" =>
              worker'[w].event \in Events /\ h[worker'[w].event] # NoClaim
<1>1. held' = [held EXCEPT ![w] = h] /\ held' \in [Workers -> [Events -> Claim]]
  BY DEF Proceed, TypeOK
<1>2. CASE \A e \in Events : h[e] = NoClaim
  <2>1. worker' = [worker EXCEPT ![w] = Idle]
    BY <1>2 DEF Proceed
  <2>2. Idle \in Control
    BY OutboxAssumption DEF Idle, Control
  <2>3. worker' \in [Workers -> Control]
    BY <2>1, <2>2 DEF TypeOK
  <2>4. worker'[w] = Idle /\ \A v \in Workers : v # w => worker'[v] = worker[v]
    BY <2>1 DEF TypeOK
  <2>5. worker'[w].pc = "idle" /\ worker'[w].done = 0
    BY <2>4 DEF Idle
  <2>. QED  BY <1>1, <2>3, <2>4, <2>5
<1>3. CASE ~ \A e \in Events : h[e] = NoClaim
  <2>1. PICK e \in Events :
          /\ h[e] # NoClaim
          /\ worker' = [worker EXCEPT ![w] =
                          [pc |-> "handling", event |-> e, done |-> 0]]
    BY <1>3 DEF Proceed
  <2> DEFINE c == [pc |-> "handling", event |-> e, done |-> 0]
  <2>2. c \in Control
    BY OutboxAssumption DEF Control
  <2>3. worker' \in [Workers -> Control]
    BY <2>1, <2>2 DEF TypeOK
  <2>4. worker'[w] = c /\ \A v \in Workers : v # w => worker'[v] = worker[v]
    BY <2>1 DEF TypeOK
  <2>. QED  BY <1>1, <2>1, <2>3, <2>4
<1>. QED  BY <1>2, <1>3

(* After NextItem(w), w has given up the claim it worked on and no other. *)
LEMMA NextItemHolds ==
  ASSUME TypeOK, NEW w \in Workers, worker[w].event \in Events, NextItem(w)
  PROVE  /\ held' \in [Workers -> [Events -> Claim]]
         /\ worker' \in [Workers -> Control]
         /\ \A v \in Workers, e \in Events :
              held'[v][e] = IF v = w /\ e = worker[w].event THEN NoClaim
                                                            ELSE held[v][e]
         /\ \A v \in Workers : v # w => worker'[v] = worker[v]
         /\ worker'[w].pc \in {"idle", "handling"}
         /\ worker'[w].done = 0
         /\ worker'[w].pc = "handling" =>
              /\ worker'[w].event \in Events
              /\ held'[w][worker'[w].event] # NoClaim
<1> DEFINE h == [held[w] EXCEPT ![worker[w].event] = NoClaim]
<1>1. h \in [Events -> Claim]
  BY DEF TypeOK, NoClaim, Claim
<1>2. Proceed(w, h)
  BY DEF NextItem
<1> HIDE DEF h
<1>3. /\ held' = [held EXCEPT ![w] = h]
      /\ held' \in [Workers -> [Events -> Claim]]
      /\ worker' \in [Workers -> Control]
      /\ \A v \in Workers : v # w => worker'[v] = worker[v]
      /\ worker'[w].pc \in {"idle", "handling"}
      /\ worker'[w].done = 0
      /\ worker'[w].pc = "handling" =>
           worker'[w].event \in Events /\ h[worker'[w].event] # NoClaim
  BY <1>1, <1>2, ProceedHolds
<1>4. held'[w] = h /\ \A v \in Workers : v # w => held'[v] = held[v]
  BY <1>3 DEF TypeOK
<1>5. \A e \in Events : h[e] = IF e = worker[w].event THEN NoClaim ELSE held[w][e]
  BY DEF h, TypeOK
<1>. QED  BY <1>3, <1>4, <1>5

-----------------------------------------------------------------------------
(* The invariant: initially, and across every action. *)

LEMMA ClaimInvInit == Init => ClaimInv
<1> SUFFICES ASSUME Init PROVE ClaimInv
  OBVIOUS
<1>1. TypeOK
  BY OutboxAssumption
  DEF Init, TypeOK, Row, Statuses, Claim, NoClaim, Control, Idle
<1>2. \A w \in Workers, e \in Events : ~ Holds(w, e)
  BY DEF Init, Holds
<1>3. BusyHoldsClaim
  BY DEF Init, Idle, BusyHoldsClaim
<1>. QED
  BY <1>1, <1>2, <1>3
  DEF ClaimInv, ClaimIsNumbered, OwnerIsCurrent, OthersAreLate

LEMMA PublishInv ==
  ASSUME ClaimInv, NEW e \in Events, Publish(e)
  PROVE  ClaimInv'
<1>1. PICK now \in Observed :
        row' = [row EXCEPT ![e] = [status |-> "pending", attempts |-> 0,
                  available |-> now, occurred |-> now, settled |-> 0]]
  BY DEF Publish
<1>2. now \in Nat
  BY DEF Observed, ClaimInv, TypeOK
<1>3. UNCHANGED <<clock, worker, held, requeues, deliveries, owner>>
  BY DEF Publish
<1>4. \A d \in Events : row'[d] = IF d = e
        THEN [status |-> "pending", attempts |-> 0, available |-> now,
              occurred |-> now, settled |-> 0]
        ELSE row[d]
  BY <1>1 DEF ClaimInv, TypeOK
<1>5. row[e].status = "absent" /\ \A w \in Workers : ~ Holds(w, e)
  BY DEF Publish, ClaimInv, ClaimIsNumbered
<1>6. TypeOK'
  <2>1. [status |-> "pending", attempts |-> 0, available |-> now,
         occurred |-> now, settled |-> 0] \in Row
    BY <1>2 DEF Row, Statuses
  <2>. QED  BY <1>1, <1>3, <2>1 DEF ClaimInv, TypeOK
<1>7. BusyHoldsClaim'
  BY <1>3 DEF ClaimInv, BusyHoldsClaim, Holds
<1>8. \A w \in Workers, d \in Events : Holds(w, d)' => Holds(w, d) /\ d # e
  BY <1>3, <1>5 DEF Holds
<1>9. \A d \in Events : d # e => row'[d] = row[d]
  BY <1>4
<1>10. ClaimIsNumbered' /\ OwnerIsCurrent' /\ OthersAreLate'
  BY <1>3, <1>8, <1>9
  DEF ClaimInv, ClaimIsNumbered, OwnerIsCurrent, OthersAreLate, Fence, Holds
<1>. QED  BY <1>6, <1>7, <1>10 DEF ClaimInv

LEMMA RequeueInv ==
  ASSUME ClaimInv, NEW e \in Events, Requeue(e)
  PROVE  ClaimInv'
<1> DEFINE r == [row[e] EXCEPT !.status = "pending", !.attempts = 0,
                               !.available = clock]
<1>1. /\ row[e].status = "dead"
      /\ row' = [row EXCEPT ![e] = r]
      /\ UNCHANGED <<clock, worker, held, deliveries, owner>>
  BY DEF Requeue
<1>2. \A d \in Events : row'[d] = IF d = e THEN r ELSE row[d]
  BY <1>1 DEF ClaimInv, TypeOK
<1>3. /\ r \in Row
      /\ r.status = "pending" /\ r.attempts = 0 /\ r.available = clock
  BY DEF ClaimInv, TypeOK, Row, Statuses
<1> HIDE DEF r
<1>4. requeues' \in [Events -> 0..MaxRequeues]
  BY OutboxAssumption DEF Requeue, ClaimInv, TypeOK
<1>5. TypeOK'
  BY <1>1, <1>3, <1>4 DEF ClaimInv, TypeOK
<1>6. BusyHoldsClaim'
  BY <1>1 DEF ClaimInv, BusyHoldsClaim, Holds
<1>7. ClaimIsNumbered'
  BY <1>1, <1>2, <1>3 DEF ClaimInv, ClaimIsNumbered, Holds
<1>8. OwnerIsCurrent'
  BY <1>1, <1>2, <1>3 DEF ClaimInv, OwnerIsCurrent, Fence, Holds
<1>9. OthersAreLate'
  (* The requeued row carries attempt 0, which no claim does. *)
  BY <1>1, <1>2, <1>3 DEF ClaimInv, ClaimIsNumbered, OthersAreLate, Holds
<1>. QED  BY <1>5, <1>6, <1>7, <1>8, <1>9 DEF ClaimInv

LEMMA PurgeInv ==
  ASSUME ClaimInv, Purge
  PROVE  ClaimInv'
<1>1. PICK S \in SUBSET {e \in Events : row[e].status = "processed"} :
        row' = [e \in Events |->
                  IF e \in S THEN [row[e] EXCEPT !.status = "purged"]
                             ELSE row[e]]
  BY DEF Purge
<1>2. UNCHANGED <<clock, worker, held, requeues, deliveries, owner>>
  BY DEF Purge
<1>3. \A e \in Events : row'[e] \in Row
  BY <1>1 DEF ClaimInv, TypeOK, Row, Statuses
<1>4. TypeOK'
  BY <1>1, <1>2, <1>3 DEF ClaimInv, TypeOK
<1>5. \A e \in Events :
        \/ row'[e] = row[e]
        \/ row[e].status = "processed" /\ row'[e].status = "purged"
  BY <1>1 DEF ClaimInv, TypeOK, Row
<1>6. BusyHoldsClaim'
  BY <1>2 DEF ClaimInv, BusyHoldsClaim, Holds
<1>7. ClaimIsNumbered'
  BY <1>2, <1>5 DEF ClaimInv, ClaimIsNumbered, Holds
<1>8. OwnerIsCurrent'
  BY <1>2, <1>5 DEF ClaimInv, OwnerIsCurrent, Fence, Holds
<1>9. OthersAreLate'
  BY <1>2, <1>5 DEF ClaimInv, OthersAreLate, Holds
<1>. QED  BY <1>4, <1>6, <1>7, <1>8, <1>9 DEF ClaimInv

LEMMA TickInv ==
  ASSUME ClaimInv, Tick
  PROVE  ClaimInv'
<1>1. clock' = clock + 1
      /\ UNCHANGED <<row, worker, held, requeues, deliveries, owner>>
  BY DEF Tick
<1>2. TypeOK'
  BY <1>1 DEF ClaimInv, TypeOK
<1>3. BusyHoldsClaim' /\ ClaimIsNumbered' /\ OwnerIsCurrent'
  BY <1>1
  DEF ClaimInv, BusyHoldsClaim, ClaimIsNumbered, OwnerIsCurrent, Fence, Holds
<1>4. \A w \in Workers, e \in Events : held[w][e].leaseUntil \in Nat
  BY DEF ClaimInv, TypeOK, Claim
<1>5. clock \in Nat
  BY DEF ClaimInv, TypeOK
<1>6. OthersAreLate'
  BY <1>1, <1>4, <1>5 DEF ClaimInv, OthersAreLate, Holds
<1>. QED  BY <1>2, <1>3, <1>6 DEF ClaimInv

LEMMA SweepInv ==
  ASSUME ClaimInv, NEW w \in Workers, Sweep(w)
  PROVE  ClaimInv'
<1>1. PICK now \in Observed :
        LET exhausted == {e \in Events : /\ row[e].status = "pending"
                                         /\ row[e].attempts >= MaxAttempts
                                         /\ row[e].available <= now}
        IN /\ row' = [e \in Events |->
                        IF e \in exhausted
                        THEN [row[e] EXCEPT !.status = "dead", !.settled = now]
                        ELSE row[e]]
           /\ owner' = [e \in Events |->
                          IF e \in exhausted THEN None ELSE owner[e]]
  BY DEF Sweep
<1>2. /\ worker[w].pc = "idle"
      /\ worker' = [worker EXCEPT ![w].pc = "swept"]
      /\ UNCHANGED <<clock, held, requeues, deliveries>>
  BY DEF Sweep
<1>3. now \in Nat /\ now <= clock
  BY DEF Observed, ClaimInv, TypeOK
<1>4. \A e \in Events :
        \/ row'[e] = row[e] /\ owner'[e] = owner[e]
        \/ /\ row[e].status = "pending" /\ row[e].available <= now
           /\ row'[e].status = "dead" /\ owner'[e] = None
  BY <1>1 DEF ClaimInv, TypeOK, Row
<1>5. TypeOK'
  <2>1. \A e \in Events : row'[e] \in Row
    BY <1>1, <1>3 DEF ClaimInv, TypeOK, Row, Statuses
  <2>2. worker' \in [Workers -> Control]
    BY <1>2 DEF ClaimInv, TypeOK, Control
  <2>3. owner' \in [Events -> Workers \cup {None}]
    BY <1>1 DEF ClaimInv, TypeOK
  <2>4. row' \in [Events -> Row]
    BY <1>1, <2>1
  <2>. QED  BY <1>2, <2>2, <2>3, <2>4 DEF ClaimInv, TypeOK
<1>6. BusyHoldsClaim'
  <2>1. \A v \in Workers : v # w => worker'[v] = worker[v]
    BY <1>2 DEF ClaimInv, TypeOK
  <2>2. worker'[w].pc = "swept"
    BY <1>2 DEF ClaimInv, TypeOK, Control
  <2>. QED  BY <1>2, <2>1, <2>2 DEF ClaimInv, BusyHoldsClaim, Holds
<1>7. ClaimIsNumbered'
  BY <1>2, <1>4 DEF ClaimInv, ClaimIsNumbered, Holds
<1>8. OwnerIsCurrent'
  BY <1>2, <1>4, OutboxAssumption DEF ClaimInv, OwnerIsCurrent, Fence, Holds
<1>9. OthersAreLate'
  <2> SUFFICES ASSUME NEW v \in Workers, NEW e \in Events,
                      Holds(v, e)', owner'[e] # v
               PROVE  \/ row'[e].status \in {"processed", "purged"}
                      \/ /\ held'[v][e].leaseUntil <= clock'
                         /\ row'[e].status = "pending"
                            /\ row'[e].attempts = held'[v][e].attempts
                              => held'[v][e].leaseUntil < row'[e].available
    BY DEF OthersAreLate
  <2>1. Holds(v, e) /\ held' = held /\ clock' = clock
    BY <1>2 DEF Holds
  <2>2. CASE row'[e] = row[e] /\ owner'[e] = owner[e]
    BY <2>1, <2>2 DEF ClaimInv, OthersAreLate
  <2>3. CASE /\ row[e].status = "pending" /\ row[e].available <= now
             /\ row'[e].status = "dead" /\ owner'[e] = None
    <3>1. CASE owner[e] = v
      (* The owner's lease is over: that is why the row was parked. *)
      <4>1. held[v][e].leaseUntil = row[e].available
        BY <2>1, <3>1 DEF ClaimInv, OwnerIsCurrent, Fence
      <4>2. row[e].available \in Nat /\ clock \in Nat
        BY DEF ClaimInv, TypeOK, Row
      <4>. QED  BY <1>3, <2>1, <2>3, <4>1, <4>2
    <3>2. CASE owner[e] # v
      BY <2>1, <2>3, <3>2 DEF ClaimInv, OthersAreLate
    <3>. QED  BY <3>1, <3>2
  <2>. QED  BY <1>4, <2>2, <2>3
<1>. QED  BY <1>5, <1>6, <1>7, <1>8, <1>9 DEF ClaimInv

(* A claim takes claimable rows, whichever of them it passes over. *)
LEMMA BatchIsClaimable ==
  ASSUME NEW now, NEW locked
  PROVE  Batches(now, locked) \subseteq SUBSET Claimable(now)
BY DEF Batches

LEMMA ClaimBatchInv ==
  ASSUME ClaimInv, NEW w \in Workers, ClaimBatch(w)
  PROVE  ClaimInv'
<1>0. PICK now \in Observed :
        \E S \in SUBSET Claimable(now) :
          /\ row' = [e \in Events |->
                       IF e \in S
                       THEN [row[e] EXCEPT !.attempts = @ + 1,
                                           !.available = now + Lease]
                       ELSE row[e]]
          /\ owner' = [e \in Events |-> IF e \in S THEN w ELSE owner[e]]
          /\ Proceed(w, [e \in Events |->
                           IF e \in S /\ S \cap Unknown = {}
                           THEN [attempts |-> row[e].attempts + 1,
                                 leaseUntil |-> now + Lease]
                           ELSE NoClaim])
  BY BatchIsClaimable DEF ClaimBatch, ClaimSkipping
<1>1. PICK S \in SUBSET Claimable(now) :
        /\ row' = [e \in Events |->
                     IF e \in S
                     THEN [row[e] EXCEPT !.attempts = @ + 1,
                                         !.available = now + Lease]
                     ELSE row[e]]
        /\ owner' = [e \in Events |-> IF e \in S THEN w ELSE owner[e]]
        /\ Proceed(w, [e \in Events |->
                         IF e \in S /\ S \cap Unknown = {}
                         THEN [attempts |-> row[e].attempts + 1,
                               leaseUntil |-> now + Lease]
                         ELSE NoClaim])
  BY <1>0
<1>2. UNCHANGED <<clock, requeues, deliveries>>
  BY DEF ClaimBatch, ClaimSkipping
<1> DEFINE h == [e \in Events |->
                   IF e \in S /\ S \cap Unknown = {}
                   THEN [attempts |-> row[e].attempts + 1,
                         leaseUntil |-> now + Lease]
                   ELSE NoClaim]
<1>3. now \in Nat /\ now <= clock /\ clock <= now + Lag /\ clock \in Nat
  BY DEF Observed, ClaimInv, TypeOK
<1>4. \A e \in S : /\ e \in Events /\ row[e].status = "pending"
                   /\ row[e].available <= now /\ row[e].attempts < MaxAttempts
  BY DEF Claimable
<1>5. \A e \in Events :
        /\ e \in S => /\ row'[e].status = "pending" /\ owner'[e] = w
                      /\ row'[e].attempts = row[e].attempts + 1
                      /\ row'[e].available = now + Lease
        /\ e \notin S => row'[e] = row[e] /\ owner'[e] = owner[e]
  BY <1>1, <1>4 DEF ClaimInv, TypeOK, Row
<1>6. h \in [Events -> Claim]
  <2>1. \A e \in Events : row[e].attempts + 1 \in Nat
    BY DEF ClaimInv, TypeOK, Row
  <2>2. now + Lease \in Nat
    BY <1>3, OutboxAssumption
  <2>. QED  BY <2>1, <2>2 DEF Claim, NoClaim
<1>7. \A e \in Events :
        h[e] # NoClaim => /\ e \in S
                          /\ h[e].attempts = row[e].attempts + 1
                          /\ h[e].leaseUntil = now + Lease
  OBVIOUS
<1>8. Proceed(w, h) /\ TypeOK
  BY <1>1 DEF ClaimInv
<1> HIDE DEF h
<1>9. /\ held' = [held EXCEPT ![w] = h]
      /\ held' \in [Workers -> [Events -> Claim]]
      /\ worker' \in [Workers -> Control]
      /\ \A v \in Workers : v # w => worker'[v] = worker[v]
      /\ worker'[w].pc \in {"idle", "handling"}
      /\ worker'[w].pc = "handling" =>
           worker'[w].event \in Events /\ h[worker'[w].event] # NoClaim
  BY <1>6, <1>8, ProceedHolds
<1>10. held'[w] = h /\ \A v \in Workers : v # w => held'[v] = held[v]
  BY <1>9 DEF ClaimInv, TypeOK
<1>11. TypeOK'
  <2>1. \A e \in Events : row'[e] \in Row
    <3> SUFFICES ASSUME NEW e \in Events PROVE row'[e] \in Row
      OBVIOUS
    <3>1. row[e] \in Row
      BY DEF ClaimInv, TypeOK
    <3>2. now + Lease \in Nat /\ row[e].attempts + 1 \in Nat
      BY <1>3, <3>1, OutboxAssumption DEF Row
    <3>3. CASE e \in S
      <4>1. row'[e] = [row[e] EXCEPT !.attempts = row[e].attempts + 1,
                                     !.available = now + Lease]
        BY <1>1, <3>3
      <4>. QED  BY <3>1, <3>2, <4>1 DEF Row
    <3>4. CASE e \notin S
      BY <1>1, <3>1, <3>4
    <3>. QED  BY <3>3, <3>4
  <2>2. row' \in [Events -> Row]
    BY <1>1, <2>1
  <2>3. owner' \in [Events -> Workers \cup {None}]
    BY <1>1 DEF ClaimInv, TypeOK
  <2>. QED  BY <1>2, <1>9, <2>2, <2>3 DEF ClaimInv, TypeOK
<1>12. BusyHoldsClaim'
  BY <1>9, <1>10 DEF ClaimInv, BusyHoldsClaim, Holds
<1>13. ClaimIsNumbered'
  <2> SUFFICES ASSUME NEW v \in Workers, NEW e \in Events, Holds(v, e)'
               PROVE  /\ held'[v][e].attempts \in 1..MaxAttempts
                      /\ row'[e].status # "absent"
    BY DEF ClaimIsNumbered
  <2>1. CASE v = w
    <3>1. e \in S /\ held'[v][e].attempts = row[e].attempts + 1
      BY <1>7, <1>10, <2>1 DEF Holds
    <3>2. row[e].attempts \in Nat /\ row[e].attempts < MaxAttempts
      BY <1>4, <3>1 DEF ClaimInv, TypeOK, Row
    <3>. QED  BY <1>5, <3>1, <3>2, OutboxAssumption
  <2>2. CASE v # w
    BY <1>4, <1>5, <1>10, <2>2 DEF ClaimInv, ClaimIsNumbered, Holds
  <2>. QED  BY <2>1, <2>2
<1>14. OwnerIsCurrent'
  <2> SUFFICES ASSUME NEW v \in Workers, NEW e \in Events, Holds(v, e)',
                      owner'[e] = v
               PROVE  Fence(e, held[v][e])'
    BY DEF OwnerIsCurrent
  <2>1. CASE v = w
    BY <1>5, <1>7, <1>10, <2>1 DEF Fence, Holds
  <2>2. CASE v # w
    <3>1. e \notin S
      BY <1>5, <2>2
    <3>. QED  BY <1>5, <1>10, <2>2, <3>1 DEF ClaimInv, OwnerIsCurrent, Fence, Holds
  <2>. QED  BY <2>1, <2>2
<1>15. OthersAreLate'
  <2> SUFFICES ASSUME NEW v \in Workers, NEW e \in Events,
                      Holds(v, e)', owner'[e] # v
               PROVE  \/ row'[e].status \in {"processed", "purged"}
                      \/ /\ held'[v][e].leaseUntil <= clock'
                         /\ row'[e].status = "pending"
                            /\ row'[e].attempts = held'[v][e].attempts
                              => held'[v][e].leaseUntil < row'[e].available
    BY DEF OthersAreLate
  <2>1. v # w
    BY <1>5, <1>7, <1>10 DEF Holds
  <2>2. Holds(v, e) /\ held'[v] = held[v] /\ clock' = clock
    BY <1>2, <1>10, <2>1 DEF Holds
  <2>3. CASE e \notin S
    BY <1>5, <2>2, <2>3 DEF ClaimInv, OthersAreLate
  <2>4. CASE e \in S
    <3>1. /\ held[v][e].leaseUntil \in Nat
          /\ row[e].available \in Nat
      BY DEF ClaimInv, TypeOK, Claim, Row
    <3>2. held[v][e].leaseUntil <= clock
      <4>1. CASE owner[e] = v
        BY <1>3, <1>4, <2>2, <2>4, <3>1, <4>1 DEF ClaimInv, OwnerIsCurrent, Fence
      <4>2. CASE owner[e] # v
        BY <1>4, <2>2, <2>4, <4>2 DEF ClaimInv, OthersAreLate
      <4>. QED  BY <4>1, <4>2
    (* The new lease ends after every clock, since Lag < Lease. *)
    <3>3. row'[e].available > clock
      BY <1>3, <1>5, <2>4, OutboxAssumption, ClockAssumption
    <3>4. row'[e].available \in Nat
      BY <1>11 DEF TypeOK, Row
    <3>. QED  BY <1>3, <2>2, <3>1, <3>2, <3>3, <3>4
  <2>. QED  BY <2>3, <2>4
<1>. QED  BY <1>11, <1>12, <1>13, <1>14, <1>15 DEF ClaimInv

(* Steps of w inside one dispatch change its control state only. *)
LEMMA ControlInv ==
  ASSUME ClaimInv, NEW w \in Workers,
         worker[w].pc \in {"handling", "failing"},
         worker' \in [Workers -> Control],
         \A v \in Workers : v # w => worker'[v] = worker[v],
         worker'[w].event = worker[w].event,
         deliveries' \in [Events -> Nat],
         UNCHANGED <<clock, row, held, requeues, owner>>
  PROVE  ClaimInv'
<1>1. TypeOK'
  BY DEF ClaimInv, TypeOK
<1>2. BusyHoldsClaim'
  BY DEF ClaimInv, BusyHoldsClaim, Holds
<1>3. ClaimIsNumbered' /\ OwnerIsCurrent' /\ OthersAreLate'
  BY DEF ClaimInv, ClaimIsNumbered, OwnerIsCurrent, OthersAreLate, Fence, Holds
<1>. QED  BY <1>1, <1>2, <1>3 DEF ClaimInv

LEMMA RunHandlerInv ==
  ASSUME ClaimInv, NEW w \in Workers, RunHandler(w)
  PROVE  ClaimInv'
<1>1. /\ worker[w].pc = "handling" /\ worker[w].done < NHandlers
      /\ worker' = [worker EXCEPT ![w].done = @ + 1]
      /\ UNCHANGED <<clock, row, held, requeues, owner>>
  BY DEF RunHandler
<1>2. worker[w].event \in Events
  BY <1>1 DEF ClaimInv, BusyHoldsClaim
<1>3. deliveries' \in [Events -> Nat]
  BY <1>2 DEF RunHandler, ClaimInv, TypeOK
<1> DEFINE c == [worker[w] EXCEPT !.done = worker[w].done + 1]
<1>4. worker[w] \in Control /\ worker' = [worker EXCEPT ![w] = c]
  BY <1>1 DEF ClaimInv, TypeOK
<1>5. worker[w].done + 1 \in 0..NHandlers
  BY <1>1, <1>4, OutboxAssumption DEF Control
<1>6. c \in Control /\ c.event = worker[w].event
  BY <1>4, <1>5 DEF Control
<1>7. /\ worker' \in [Workers -> Control]
      /\ worker'[w].event = worker[w].event
      /\ \A v \in Workers : v # w => worker'[v] = worker[v]
  BY <1>4, <1>6 DEF ClaimInv, TypeOK
<1>. QED  BY <1>1, <1>3, <1>7, ControlInv

LEMMA FailingInv ==
  ASSUME ClaimInv, NEW w \in Workers, worker[w].pc = "handling",
         worker' = [worker EXCEPT ![w].pc = "failing"],
         UNCHANGED <<clock, row, held, requeues, deliveries, owner>>
  PROVE  ClaimInv'
<1>1. /\ worker' \in [Workers -> Control]
      /\ worker'[w].event = worker[w].event
      /\ \A v \in Workers : v # w => worker'[v] = worker[v]
  BY DEF ClaimInv, TypeOK, Control
<1>2. deliveries' \in [Events -> Nat]
  BY DEF ClaimInv, TypeOK
<1>. QED  BY <1>1, <1>2, ControlInv

(* The fence admits only the owner (the => half of OutcomeOwnership). *)
LEMMA FenceAdmitsOwner ==
  ASSUME ClaimInv, NEW w \in Workers, NEW e \in Events,
         Holds(w, e), Fence(e, held[w][e])
  PROVE  owner[e] = w
<1> SUFFICES ASSUME owner[e] # w PROVE FALSE
  OBVIOUS
<1>1. held[w][e].leaseUntil < row[e].available
  BY DEF ClaimInv, OthersAreLate, Fence
<1>2. held[w][e].leaseUntil = row[e].available /\ row[e].available \in Nat
  BY DEF ClaimInv, TypeOK, Row, Fence
<1>. QED  BY <1>1, <1>2

(* An outcome statement, whatever it records: r is the row it would leave.  *)
LEMMA SettleInv ==
  ASSUME ClaimInv, NEW w \in Workers, NEW e \in Events, e = worker[w].event,
         Holds(w, e), NEW r \in Row, Settle(w, r),
         UNCHANGED <<clock, requeues, deliveries>>,
         worker' \in [Workers -> Control],
         held' \in [Workers -> [Events -> Claim]],
         BusyHoldsClaim',
         \A v \in Workers, d \in Events :
           Holds(v, d)' => held'[v][d] = held[v][d],
         \/ r.status = "processed"
         \/ /\ ~ Holds(w, e)'
            /\ \/ r.status = "dead"
               \/ r.status = "pending" /\ r.available > clock
  PROVE  ClaimInv'
<1>0. \A v \in Workers, d \in Events : Holds(v, d)' => Holds(v, d)
  BY DEF Holds
<1>1. CASE ~ Fence(e, held[w][e])
  <2>1. UNCHANGED <<row, owner>>
    BY <1>1 DEF Settle
  <2>2. TypeOK'
    BY <2>1 DEF ClaimInv, TypeOK
  <2>3. ClaimIsNumbered'
    BY <1>0, <2>1 DEF ClaimInv, ClaimIsNumbered
  <2>4. OwnerIsCurrent'
    BY <1>0, <2>1 DEF ClaimInv, OwnerIsCurrent, Fence
  <2>5. OthersAreLate'
    BY <1>0, <2>1 DEF ClaimInv, OthersAreLate
  <2>. QED  BY <2>2, <2>3, <2>4, <2>5 DEF ClaimInv
<1>2. CASE Fence(e, held[w][e])
  <2>1. /\ row' = [row EXCEPT ![e] = r]
        /\ owner' = [owner EXCEPT ![e] = None]
    BY <1>2 DEF Settle
  <2>2. /\ row'[e] = r /\ owner'[e] = None
        /\ \A d \in Events : d # e => row'[d] = row[d] /\ owner'[d] = owner[d]
    BY <2>1 DEF ClaimInv, TypeOK
  <2>3. TypeOK'
    BY <2>1 DEF ClaimInv, TypeOK
  <2>4. owner[e] = w /\ row[e].status = "pending"
    BY <1>2, FenceAdmitsOwner DEF Fence
  <2>5. ClaimIsNumbered'
    <3>1. r.status # "absent"
      OBVIOUS
    <3>. QED  BY <1>0, <2>2, <3>1 DEF ClaimInv, ClaimIsNumbered
  <2>6. OwnerIsCurrent'
    BY <1>0, <2>2, OutboxAssumption DEF ClaimInv, OwnerIsCurrent, Fence
  <2>7. OthersAreLate'
    <3> SUFFICES ASSUME NEW v \in Workers, NEW d \in Events,
                        Holds(v, d)', owner'[d] # v
                 PROVE  \/ row'[d].status \in {"processed", "purged"}
                        \/ /\ held'[v][d].leaseUntil <= clock'
                           /\ row'[d].status = "pending"
                              /\ row'[d].attempts = held'[v][d].attempts
                                => held'[v][d].leaseUntil < row'[d].available
      BY DEF OthersAreLate
    <3>1. Holds(v, d) /\ held'[v][d] = held[v][d] /\ clock' = clock
      BY <1>0
    <3>2. CASE d # e
      BY <2>2, <3>1, <3>2 DEF ClaimInv, OthersAreLate
    <3>3. CASE d = e /\ v = w
      BY <2>2, <3>3
    <3>4. CASE d = e /\ v # w
      <4>1. held[v][e].leaseUntil <= clock
        BY <2>4, <3>1, <3>4 DEF ClaimInv, OthersAreLate
      <4>2. held[v][e].leaseUntil \in Nat /\ clock \in Nat /\ r.available \in Nat
        BY DEF ClaimInv, TypeOK, Claim, Row
      <4>. QED  BY <2>2, <3>1, <3>4, <4>1, <4>2
    <3>. QED  BY <3>2, <3>3, <3>4
  <2>. QED  BY <2>3, <2>5, <2>6, <2>7 DEF ClaimInv
<1>. QED  BY <1>1, <1>2

LEMMA MarkProcessedInv ==
  ASSUME ClaimInv, NEW w \in Workers, MarkProcessed(w)
  PROVE  ClaimInv'
<1> DEFINE e == worker[w].event
<1>1. /\ worker[w].pc = "handling"
      /\ UNCHANGED <<clock, requeues, deliveries>>
  BY DEF MarkProcessed
<1>2. e \in Events /\ Holds(w, e)
  BY <1>1 DEF ClaimInv, BusyHoldsClaim
<1>3. CASE /\ worker' = [worker EXCEPT ![w].pc = "failing"]
           /\ UNCHANGED <<row, held, owner>>
  BY <1>1, <1>3, FailingInv
<1>4. ASSUME NEW now \in Observed,
             Settle(w, [row[e] EXCEPT !.status = "processed", !.settled = now]),
             \/ NextItem(w)
             \/ /\ worker' = [worker EXCEPT ![w].pc = "failing"]
                /\ UNCHANGED held
      PROVE  ClaimInv'
  <2> DEFINE r == [row[e] EXCEPT !.status = "processed", !.settled = now]
  <2>1. now \in Nat /\ row[e] \in Row
    BY <1>2 DEF Observed, ClaimInv, TypeOK
  <2>2. r \in Row /\ r.status = "processed"
    BY <2>1 DEF Row, Statuses
  <2>3. CASE NextItem(w)
    <3>1. /\ held' \in [Workers -> [Events -> Claim]]
          /\ worker' \in [Workers -> Control]
          /\ \A v \in Workers, d \in Events :
               held'[v][d] = IF v = w /\ d = e THEN NoClaim ELSE held[v][d]
          /\ \A v \in Workers : v # w => worker'[v] = worker[v]
          /\ worker'[w].pc \in {"idle", "handling"}
          /\ worker'[w].pc = "handling" =>
               /\ worker'[w].event \in Events
               /\ held'[w][worker'[w].event] # NoClaim
      BY <1>2, <2>3, NextItemHolds DEF ClaimInv
    <3>2. BusyHoldsClaim'
      BY <3>1 DEF ClaimInv, BusyHoldsClaim, Holds
    <3>3. \A v \in Workers, d \in Events :
            Holds(v, d)' => held'[v][d] = held[v][d]
      BY <3>1 DEF Holds
    <3> HIDE DEF r
    <3>. QED  BY <1>1, <1>2, <1>4, <2>2, <3>1, <3>2, <3>3, SettleInv DEF r
  <2>4. CASE /\ worker' = [worker EXCEPT ![w].pc = "failing"]
             /\ UNCHANGED held
    <3>1. /\ worker' \in [Workers -> Control]
          /\ worker'[w].event = e
          /\ \A v \in Workers : v # w => worker'[v] = worker[v]
      BY <2>4 DEF ClaimInv, TypeOK, Control
    <3>2. BusyHoldsClaim'
      BY <1>2, <2>4, <3>1 DEF ClaimInv, BusyHoldsClaim, Holds
    <3>3. held' \in [Workers -> [Events -> Claim]]
      BY <2>4 DEF ClaimInv, TypeOK
    <3>4. \A v \in Workers, d \in Events :
            Holds(v, d)' => held'[v][d] = held[v][d]
      BY <2>4
    <3> HIDE DEF r
    <3>. QED
      BY <1>1, <1>2, <1>4, <2>2, <3>1, <3>2, <3>3, <3>4, SettleInv DEF r
  <2>. QED  BY <1>4, <2>3, <2>4
<1>. QED  BY <1>3, <1>4 DEF MarkProcessed

LEMMA RecordFailureInv ==
  ASSUME ClaimInv, NEW w \in Workers, RecordFailure(w)
  PROVE  ClaimInv'
<1>0. worker[w].event \in Events /\ Holds(w, worker[w].event)
  BY DEF RecordFailure, ClaimInv, BusyHoldsClaim
<1>. PICK e \in Events : e = worker[w].event
  BY <1>0
<1>. PICK n : n = held[w][e].attempts
  OBVIOUS
<1>1. /\ worker[w].pc = "failing"
      /\ NextItem(w)
      /\ UNCHANGED <<clock, requeues, deliveries>>
  BY DEF RecordFailure
<1>2. PICK now \in Observed :
        Settle(w, IF n >= MaxAttempts
                  THEN [row[e] EXCEPT !.status = "dead", !.settled = now]
                  ELSE [row[e] EXCEPT !.available = now + Backoff[n]])
  BY DEF RecordFailure
<1>3. Holds(w, e)
  BY <1>0
<1>4. /\ held' \in [Workers -> [Events -> Claim]]
      /\ worker' \in [Workers -> Control]
      /\ \A v \in Workers, d \in Events :
           held'[v][d] = IF v = w /\ d = e THEN NoClaim ELSE held[v][d]
      /\ \A v \in Workers : v # w => worker'[v] = worker[v]
      /\ worker'[w].pc \in {"idle", "handling"}
      /\ worker'[w].pc = "handling" =>
           /\ worker'[w].event \in Events
           /\ held'[w][worker'[w].event] # NoClaim
  BY <1>1, <1>3, NextItemHolds DEF ClaimInv
<1>5. BusyHoldsClaim'
  BY <1>4 DEF ClaimInv, BusyHoldsClaim, Holds
<1>6. /\ \A v \in Workers, d \in Events :
           Holds(v, d)' => held'[v][d] = held[v][d]
      /\ ~ Holds(w, e)'
  BY <1>3, <1>4 DEF Holds
<1>7. /\ now \in Nat /\ clock \in Nat /\ clock <= now + Lag
      /\ row[e] \in Row /\ n \in 1..MaxAttempts
  BY <1>3 DEF Observed, ClaimInv, TypeOK, ClaimIsNumbered
<1>8. CASE ~ Fence(e, held[w][e])
  (* A late worker writes nothing, whatever it meant to write. *)
  <2>1. UNCHANGED <<row, owner>>
    BY <1>2, <1>8 DEF Settle
  <2>2. TypeOK'
    BY <1>1, <1>4, <2>1 DEF ClaimInv, TypeOK
  <2>3. ClaimIsNumbered' /\ OwnerIsCurrent' /\ OthersAreLate'
    <3>1. \A v \in Workers, d \in Events : Holds(v, d)' => Holds(v, d)
      BY <1>6 DEF Holds
    <3>. QED
      BY <1>1, <1>6, <2>1, <3>1
      DEF ClaimInv, ClaimIsNumbered, OwnerIsCurrent, OthersAreLate, Fence
  <2>. QED  BY <1>5, <2>2, <2>3 DEF ClaimInv
<1>9. CASE n >= MaxAttempts
  <2> DEFINE r == [row[e] EXCEPT !.status = "dead", !.settled = now]
  <2>1. r \in Row /\ r.status = "dead"
    BY <1>7 DEF Row, Statuses
  <2>2. Settle(w, r)
    BY <1>2, <1>9
  <2> HIDE DEF r
  <2>. QED  BY <1>1, <1>3, <1>4, <1>5, <1>6, <2>1, <2>2, SettleInv
<1>10. CASE n < MaxAttempts /\ Fence(e, held[w][e])
  <2> DEFINE r == [row[e] EXCEPT !.available = now + Backoff[n]]
  <2>1. Backoff[n] \in Nat /\ Lag < Backoff[n] /\ Lag \in Nat
    BY <1>7, OutboxAssumption, ClockAssumption
  <2>2. now + Backoff[n] \in Nat /\ now + Backoff[n] > clock
    BY <1>7, <2>1
  <2>3. r \in Row /\ r.status = "pending" /\ r.available > clock
    BY <1>7, <1>10, <2>2 DEF Row, Fence
  <2>4. Settle(w, r)
    <3>1. ~ (n >= MaxAttempts)
      BY <1>7, <1>10, OutboxAssumption
    <3>. QED  BY <1>2, <3>1
  <2> HIDE DEF r
  <2>. QED  BY <1>1, <1>3, <1>4, <1>5, <1>6, <2>3, <2>4, SettleInv
<1>. QED  BY <1>7, <1>8, <1>9, <1>10, OutboxAssumption

LEMMA AbandonInv ==
  ASSUME ClaimInv, NEW w \in Workers, Abandon(w)
  PROVE  ClaimInv'
<1> DEFINE none == [e \in Events |-> NoClaim]
<1>1. /\ worker' = [worker EXCEPT ![w] = Idle]
      /\ held' = [held EXCEPT ![w] = none]
      /\ UNCHANGED <<clock, row, requeues, deliveries, owner>>
  BY DEF Abandon
<1>2. Idle \in Control /\ none \in [Events -> Claim]
  BY OutboxAssumption DEF Idle, Control, NoClaim, Claim
<1>3. \A e \in Events : none[e] = NoClaim
  OBVIOUS
<1> HIDE DEF none
<1>4. TypeOK'
  BY <1>1, <1>2 DEF ClaimInv, TypeOK
<1>5. /\ worker'[w].pc = "idle"
      /\ \A v \in Workers : v # w =>
           worker'[v] = worker[v] /\ held'[v] = held[v]
      /\ held'[w] = none
  BY <1>1 DEF ClaimInv, TypeOK, Idle
<1>6. \A v \in Workers, e \in Events : Holds(v, e)' => v # w /\ Holds(v, e)
  BY <1>3, <1>5 DEF Holds
<1>7. BusyHoldsClaim'
  BY <1>5 DEF ClaimInv, BusyHoldsClaim, Holds
<1>8. ClaimIsNumbered' /\ OwnerIsCurrent' /\ OthersAreLate'
  BY <1>1, <1>5, <1>6
  DEF ClaimInv, ClaimIsNumbered, OwnerIsCurrent, OthersAreLate, Fence
<1>. QED  BY <1>4, <1>7, <1>8 DEF ClaimInv

LEMMA ClaimInvNext == ClaimInv /\ [Next]_vars => ClaimInv'
<1> SUFFICES ASSUME ClaimInv, [Next]_vars PROVE ClaimInv'
  OBVIOUS
<1>1. ASSUME NEW e \in Events, Publish(e) PROVE ClaimInv'
  BY <1>1, PublishInv
<1>2. ASSUME NEW e \in Events, Requeue(e) PROVE ClaimInv'
  BY <1>2, RequeueInv
<1>3. CASE Purge
  BY <1>3, PurgeInv
<1>4. ASSUME NEW w \in Workers, Step(w) PROVE ClaimInv'
  <2>1. CASE Sweep(w)
    BY <2>1, SweepInv
  <2>2. CASE ClaimBatch(w)
    BY <2>2, ClaimBatchInv
  <2>3. CASE RunHandler(w)
    BY <2>3, RunHandlerInv
  <2>4. CASE HandlerThrows(w)
    BY <2>4, FailingInv DEF HandlerThrows
  <2>5. CASE MarkProcessed(w)
    BY <2>5, MarkProcessedInv
  <2>6. CASE RecordFailure(w)
    BY <2>6, RecordFailureInv
  <2>. QED  BY <1>4, <2>1, <2>2, <2>3, <2>4, <2>5, <2>6 DEF Step
<1>5. ASSUME NEW w \in Workers, Abandon(w) PROVE ClaimInv'
  BY <1>5, AbandonInv
<1>6. CASE Tick
  BY <1>6, TickInv
<1>7. CASE UNCHANGED vars
  BY <1>7
  DEF vars, ClaimInv, TypeOK, BusyHoldsClaim, ClaimIsNumbered, OwnerIsCurrent,
      OthersAreLate, Fence, Holds
<1>. QED  BY <1>1, <1>2, <1>3, <1>4, <1>5, <1>6, <1>7 DEF Next

(* Only handlers that all returned let an event be marked processed. *)
LEMMA DeliveredNext ==
  ClaimInv /\ DeliveredBeforeMarked /\ [Next]_vars => DeliveredBeforeMarked'
<1> SUFFICES ASSUME ClaimInv, DeliveredBeforeMarked, [Next]_vars
             PROVE  DeliveredBeforeMarked'
  OBVIOUS
<1> USE OutboxAssumption
<1>1. CASE UNCHANGED <<worker, deliveries>>
  BY <1>1 DEF DeliveredBeforeMarked
<1>2. ASSUME NEW w \in Workers,
             \A v \in Workers : v # w => worker'[v] = worker[v],
             \/ worker'[w].pc # "handling"
             \/ worker'[w].done = 0,
             UNCHANGED deliveries
      PROVE  DeliveredBeforeMarked'
  BY <1>2 DEF DeliveredBeforeMarked
<1>3. ASSUME NEW w \in Workers, Step(w) PROVE DeliveredBeforeMarked'
  <2>1. CASE Sweep(w)
    BY <1>2, <2>1 DEF Sweep, ClaimInv, TypeOK, Control
  <2>2. CASE ClaimBatch(w)
    <3>1. PICK h \in [Events -> Claim] : Proceed(w, h)
      <4>1. PICK now \in Observed :
              \E S \in SUBSET Claimable(now) :
                Proceed(w, [e \in Events |->
                              IF e \in S /\ S \cap Unknown = {}
                              THEN [attempts |-> row[e].attempts + 1,
                                    leaseUntil |-> now + Lease]
                              ELSE NoClaim])
        BY <2>2, BatchIsClaimable DEF ClaimBatch, ClaimSkipping
      <4>2. PICK S \in SUBSET Claimable(now) :
              Proceed(w, [e \in Events |->
                            IF e \in S /\ S \cap Unknown = {}
                            THEN [attempts |-> row[e].attempts + 1,
                                  leaseUntil |-> now + Lease]
                            ELSE NoClaim])
        BY <4>1
      <4>3. /\ now + Lease \in Nat
            /\ \A e \in Events : row[e].attempts + 1 \in Nat
        BY DEF Observed, ClaimInv, TypeOK, Row
      <4>4. [e \in Events |->
               IF e \in S /\ S \cap Unknown = {}
               THEN [attempts |-> row[e].attempts + 1,
                     leaseUntil |-> now + Lease]
               ELSE NoClaim] \in [Events -> Claim]
        BY <4>3 DEF Claim, NoClaim
      <4>. QED  BY <4>2, <4>4
    <3>2. /\ \A v \in Workers : v # w => worker'[v] = worker[v]
          /\ worker'[w].done = 0
      BY <3>1, ProceedHolds DEF ClaimInv
    <3>. QED  BY <1>2, <2>2, <3>2 DEF ClaimBatch, ClaimSkipping
  <2>3. CASE RunHandler(w)
    <3>1. /\ worker[w].event \in Events
          /\ worker' = [worker EXCEPT ![w].done = worker[w].done + 1]
          /\ deliveries' = IF worker[w].done + 1 = NHandlers
                           THEN [deliveries EXCEPT ![worker[w].event] =
                                   deliveries[worker[w].event] + 1]
                           ELSE deliveries
      BY <2>3 DEF RunHandler, ClaimInv, BusyHoldsClaim
    <3>2. \A e \in Events : deliveries[e] \in Nat /\ deliveries'[e] >= deliveries[e]
      <4>1. deliveries \in [Events -> Nat]
        BY DEF ClaimInv, TypeOK
      <4>. PICK d \in Events : d = worker[w].event
        BY <3>1
      <4>2. deliveries[d] \in Nat
        BY <4>1
      <4>3. /\ \A e \in Events \ {d} : deliveries'[e] = deliveries[e]
            /\ deliveries'[d] >= deliveries[d]
        BY <3>1, <4>1, <4>2
      <4>4. \A e \in Events : deliveries[e] \in Nat /\ deliveries[e] >= deliveries[e]
        BY <4>1
      <4>. QED  BY <4>3, <4>4, Zenon
    <3>3. /\ worker'[w].done = worker[w].done + 1
          /\ worker'[w].event = worker[w].event
          /\ \A v \in Workers : v # w => worker'[v] = worker[v]
      BY <3>1 DEF ClaimInv, TypeOK, Control
    <3>4. worker'[w].done = NHandlers => deliveries'[worker[w].event] > 0
      BY <3>1, <3>3 DEF ClaimInv, TypeOK
    <3>5. \A v \in Workers : worker[v].pc = "handling" =>
            worker[v].event \in Events
      BY DEF ClaimInv, BusyHoldsClaim
    <3>6. \A e \in Events : deliveries'[e] \in Nat
      BY <3>1 DEF ClaimInv, TypeOK
    <3>7. ASSUME NEW v \in Workers, v # w, worker'[v].pc = "handling",
                 worker'[v].done = NHandlers
          PROVE  deliveries'[worker'[v].event] > 0
      <4>1. worker'[v] = worker[v] /\ worker[v].event \in Events
        BY <3>3, <3>5, <3>7
      <4>2. deliveries[worker[v].event] > 0
        BY <3>7, <4>1 DEF DeliveredBeforeMarked
      <4>. PICK e \in Events : e = worker[v].event
        BY <4>1
      <4>3. /\ deliveries[e] \in Nat /\ deliveries'[e] \in Nat
            /\ deliveries'[e] >= deliveries[e] /\ deliveries[e] > 0
        BY <3>2, <3>6, <4>2
      <4>4. deliveries'[e] > 0
        BY <4>3
      <4>. QED  BY <4>1, <4>4
    <3>. QED  BY <3>3, <3>4, <3>7 DEF DeliveredBeforeMarked
  <2>4. CASE HandlerThrows(w)
    BY <1>2, <2>4 DEF HandlerThrows, ClaimInv, TypeOK, Control
  <2>5. CASE MarkProcessed(w) \/ RecordFailure(w)
    <3>1. worker[w].event \in Events
      BY <2>5 DEF MarkProcessed, RecordFailure, ClaimInv, BusyHoldsClaim
    <3>2. CASE NextItem(w)
      <4>1. /\ \A v \in Workers : v # w => worker'[v] = worker[v]
            /\ worker'[w].done = 0
        BY <3>1, <3>2, NextItemHolds DEF ClaimInv
      <4>. QED  BY <1>2, <2>5, <4>1 DEF MarkProcessed, RecordFailure
    <3>3. CASE worker' = [worker EXCEPT ![w].pc = "failing"]
      <4>1. /\ worker'[w].pc = "failing"
            /\ \A v \in Workers : v # w => worker'[v] = worker[v]
        BY <3>3 DEF ClaimInv, TypeOK, Control
      <4>2. UNCHANGED deliveries
        BY <2>5 DEF MarkProcessed, RecordFailure
      <4>. QED  BY <1>2, <4>1, <4>2
    <3>. QED  BY <2>5, <3>2, <3>3 DEF MarkProcessed, RecordFailure
  <2>. QED  BY <1>3, <2>1, <2>2, <2>3, <2>4, <2>5 DEF Step
<1>4. ASSUME NEW w \in Workers, Abandon(w) PROVE DeliveredBeforeMarked'
  BY <1>2, <1>4 DEF Abandon, Idle, ClaimInv, TypeOK
<1>5. CASE \/ \E e \in Events : Publish(e) \/ Requeue(e)
           \/ Purge \/ Tick \/ UNCHANGED vars
  BY <1>1, <1>5 DEF Publish, Requeue, Purge, Tick, vars
<1>. QED  BY <1>3, <1>4, <1>5 DEF Next

-----------------------------------------------------------------------------
(* The account of attempts: every delivery is paid for by an attempt. *)

(* What the attempts of an event can pay for is a number. *)
LEMMA PaidIsNat ==
  ASSUME TypeOK, NEW e \in Events
  PROVE  MaxAttempts * requeues[e] + row[e].attempts \in Nat
<1>1. row[e].attempts \in Nat /\ requeues[e] \in Nat
  BY DEF TypeOK, Row
<1>2. MaxAttempts \in Nat
  BY OutboxAssumption
<1>3. \A a, b, c \in Nat : a * b + c \in Nat
  OBVIOUS
<1>. QED  BY <1>1, <1>2, <1>3

(* An event no step delivers, claims, publishes or requeues stays covered. *)
LEMMA StaysCovered ==
  ASSUME TypeOK, NEW e \in Events, Covered(e),
         Undelivered(e)' \subseteq Undelivered(e),
         deliveries'[e] = deliveries[e], requeues'[e] = requeues[e],
         row'[e].attempts = row[e].attempts,
         row'[e].status = "absent" => row[e].status = "absent"
  PROVE  Covered(e)'
<1>1. /\ IsFiniteSet(Undelivered(e)')
      /\ Cardinality(Undelivered(e)') <= Cardinality(Undelivered(e))
  BY FS_Subset DEF Covered
<1>2. /\ Cardinality(Undelivered(e)') \in Nat
      /\ Cardinality(Undelivered(e)) \in Nat
  BY <1>1, FS_CardinalityType DEF Covered
<1>3. deliveries[e] \in Nat
  BY DEF TypeOK
<1> DEFINE paid == MaxAttempts * requeues[e] + row[e].attempts
<1>4. paid \in Nat
  BY PaidIsNat
<1>5. deliveries[e] + Cardinality(Undelivered(e)) <= paid
  BY DEF Covered
<1>6. paid = MaxAttempts * requeues'[e] + row'[e].attempts
  OBVIOUS
<1> HIDE DEF paid
<1>7. deliveries'[e] + Cardinality(Undelivered(e)') <= paid
  BY <1>1, <1>2, <1>3, <1>4, <1>5
<1>. QED  BY <1>1, <1>6, <1>7 DEF Covered

(* A claim that is kept as it was, by a worker that is further in its      *)
(* batch, is not delivered again.                                          *)
LEMMA NoNewClaim ==
  ASSUME NEW w \in Workers,
         \A v \in Workers : v # w => worker'[v] = worker[v],
         \A v \in Workers, d \in Events : v # w => held'[v][d] = held[v][d],
         NEW e \in Events,
         w \in Undelivered(e)' => w \in Undelivered(e)
  PROVE  Undelivered(e)' \subseteq Undelivered(e)
BY DEF Undelivered, Holds

(* Init: nothing is published, held or delivered. *)
LEMMA CoverInit == Init => AttemptsCover
<1> SUFFICES ASSUME Init, NEW e \in Events PROVE Covered(e)
  BY DEF AttemptsCover
<1>1. Undelivered(e) = {}
  BY DEF Init, Undelivered, Holds
<1>2. IsFiniteSet(Undelivered(e)) /\ Cardinality(Undelivered(e)) = 0
  BY <1>1, FS_EmptySet
<1>3. /\ deliveries[e] = 0 /\ requeues[e] = 0
      /\ row[e].attempts = 0
  BY DEF Init
<1>4. MaxAttempts * requeues[e] = 0
  BY <1>3, OutboxAssumption
<1>. QED  BY <1>2, <1>3, <1>4, OutboxAssumption DEF Covered

(* The steps that leave workers and their claims alone. *)
LEMMA TableCover ==
  ASSUME TypeOK, AttemptsCover,
         \/ \E d \in Events : Publish(d) \/ Requeue(d)
         \/ Purge \/ Tick \/ UNCHANGED vars
  PROVE  AttemptsCover'
<1> SUFFICES ASSUME NEW e \in Events PROVE Covered(e)'
  BY DEF AttemptsCover
<1>1. Covered(e) /\ row[e] \in Row
  BY DEF AttemptsCover, TypeOK
<1>2. UNCHANGED <<worker, held, deliveries>>
  BY DEF Publish, Requeue, Purge, Tick, vars
<1>3. Undelivered(e)' = Undelivered(e)
  BY <1>2 DEF Undelivered, Holds
<1>4. CASE /\ requeues'[e] = requeues[e]
           /\ row'[e].attempts = row[e].attempts
           /\ row'[e].status = "absent" => row[e].status = "absent"
  BY <1>1, <1>2, <1>3, <1>4, StaysCovered
<1>5. ASSUME NEW d \in Events, Publish(d)
      PROVE  /\ requeues'[e] = requeues[e]
             /\ row'[e].attempts = row[e].attempts
             /\ row'[e].status = "absent" => row[e].status = "absent"
  <2>1. UNCHANGED requeues /\ (e # d => row'[e] = row[e])
    BY <1>5 DEF Publish, TypeOK
  <2>2. CASE e = d
    BY <1>1, <1>5, <2>1, <2>2 DEF Publish, Covered, TypeOK
  <2>. QED  BY <2>1, <2>2
<1>6. CASE Purge
  <2>1. \/ row'[e] = row[e]
        \/ row'[e] = [row[e] EXCEPT !.status = "purged"]
    BY <1>6 DEF Purge
  <2>2. /\ row'[e].attempts = row[e].attempts
        /\ row'[e].status = "absent" => row[e].status = "absent"
    BY <1>1, <2>1 DEF Row
  <2>. QED  BY <1>4, <1>6, <2>2 DEF Purge
<1>7. CASE Tick \/ UNCHANGED vars
  BY <1>4, <1>7 DEF Tick, vars
(* A requeue opens a new budget, of which the old attempts used no more    *)
(* than the whole.                                                         *)
<1>8. ASSUME NEW d \in Events, Requeue(d) PROVE Covered(e)'
  <2>1. CASE e # d
    <3>1. row'[e] = row[e] /\ requeues'[e] = requeues[e]
      BY <1>8, <2>1 DEF Requeue, TypeOK
    <3>. QED  BY <1>4, <3>1
  <2>2. CASE e = d
    <3>1. /\ row'[e].attempts = 0 /\ row'[e].status = "pending"
          /\ requeues'[e] = requeues[e] + 1
      BY <1>1, <1>8, <2>2 DEF Requeue, TypeOK, Row
    <3> DEFINE old == MaxAttempts * requeues[e]
               n   == Cardinality(Undelivered(e))
    <3>2. requeues[e] \in Nat /\ MaxAttempts \in Nat
      BY OutboxAssumption DEF TypeOK
    <3>3. old \in Nat /\ MaxAttempts * (requeues[e] + 1) = old + MaxAttempts
      BY <3>2
    <3>4. /\ deliveries[e] \in Nat /\ row[e].attempts \in Nat
          /\ n \in Nat /\ IsFiniteSet(Undelivered(e))
      BY <1>1, FS_CardinalityType DEF TypeOK, Row, Covered
    <3>5. deliveries[e] + n <= old + row[e].attempts
          /\ row[e].attempts <= MaxAttempts
      BY <1>1 DEF Covered
    <3> HIDE DEF old, n
    <3>6. deliveries[e] + n <= MaxAttempts * (requeues[e] + 1) + 0
      BY <3>2, <3>3, <3>4, <3>5
    <3>7. /\ deliveries'[e] + Cardinality(Undelivered(e)')
               <= MaxAttempts * requeues'[e] + row'[e].attempts
          /\ IsFiniteSet(Undelivered(e)')
      BY <1>2, <1>3, <3>1, <3>4, <3>6 DEF n
    <3>. QED  BY <3>1, <3>2, <3>7 DEF Covered
  <2>. QED  BY <2>1, <2>2
<1>. QED  BY <1>4, <1>5, <1>6, <1>7, <1>8

LEMMA SweepCover ==
  ASSUME ClaimInv, AttemptsCover, NEW w \in Workers, Sweep(w)
  PROVE  AttemptsCover'
<1> SUFFICES ASSUME NEW e \in Events PROVE Covered(e)'
  BY DEF AttemptsCover
<1>1. Covered(e) /\ row[e] \in Row /\ TypeOK
  BY DEF AttemptsCover, ClaimInv, TypeOK
<1>2. \/ row'[e] = row[e]
      \/ \E now : row'[e] = [row[e] EXCEPT !.status = "dead", !.settled = now]
  BY DEF Sweep
<1>3. /\ row'[e].attempts = row[e].attempts
      /\ row'[e].status = "absent" => row[e].status = "absent"
  BY <1>1, <1>2 DEF Row
<1>4. /\ UNCHANGED <<held, requeues, deliveries>>
      /\ \A v \in Workers : worker'[v].event = worker[v].event
      /\ \A v \in Workers : v # w => worker'[v] = worker[v]
      /\ worker[w].pc = "idle" /\ worker'[w].pc = "swept"
  BY DEF Sweep, ClaimInv, TypeOK, Control
<1>5. w \in Undelivered(e)' => w \in Undelivered(e)
  BY <1>4 DEF Undelivered, Holds
<1>6. Undelivered(e)' \subseteq Undelivered(e)
  BY <1>4, <1>5, NoNewClaim
<1>. QED  BY <1>1, <1>3, <1>4, <1>6, StaysCovered

(* A claim the batch hands out costs the row one attempt. *)
LEMMA ClaimBatchCover ==
  ASSUME ClaimInv, AttemptsCover, NEW w \in Workers, ClaimBatch(w)
  PROVE  AttemptsCover'
<1> SUFFICES ASSUME NEW e \in Events PROVE Covered(e)'
  BY DEF AttemptsCover
<1>1. Covered(e) /\ row[e] \in Row /\ TypeOK
  BY DEF AttemptsCover, ClaimInv, TypeOK
<1>2. PICK now \in Observed :
        \E S \in SUBSET Claimable(now) :
          /\ row' = [d \in Events |->
                       IF d \in S
                       THEN [row[d] EXCEPT !.attempts = @ + 1,
                                           !.available = now + Lease]
                       ELSE row[d]]
          /\ Proceed(w, [d \in Events |->
                           IF d \in S /\ S \cap Unknown = {}
                           THEN [attempts |-> row[d].attempts + 1,
                                 leaseUntil |-> now + Lease]
                           ELSE NoClaim])
  BY BatchIsClaimable DEF ClaimBatch, ClaimSkipping
<1>3. PICK S \in SUBSET Claimable(now) :
        /\ row' = [d \in Events |->
                     IF d \in S
                     THEN [row[d] EXCEPT !.attempts = @ + 1,
                                         !.available = now + Lease]
                     ELSE row[d]]
        /\ Proceed(w, [d \in Events |->
                         IF d \in S /\ S \cap Unknown = {}
                         THEN [attempts |-> row[d].attempts + 1,
                               leaseUntil |-> now + Lease]
                         ELSE NoClaim])
  BY <1>2
<1> DEFINE h == [d \in Events |->
                   IF d \in S /\ S \cap Unknown = {}
                   THEN [attempts |-> row[d].attempts + 1,
                         leaseUntil |-> now + Lease]
                   ELSE NoClaim]
<1>4. held' = [held EXCEPT ![w] = h] /\ (e \notin S => h[e] = NoClaim)
  BY <1>3 DEF Proceed
<1>5. /\ \A v \in Workers : v # w => worker'[v] = worker[v]
      /\ UNCHANGED <<requeues, deliveries>>
  <2>1. \E c : worker' = [worker EXCEPT ![w] = c]
    BY <1>3 DEF Proceed
  <2>. QED  BY <1>1, <2>1 DEF ClaimBatch, ClaimSkipping, TypeOK
<1> HIDE DEF h
<1>6. /\ \A v \in Workers, d \in Events : v # w => held'[v][d] = held[v][d]
      /\ held'[w] = h
  BY <1>4 DEF ClaimInv, TypeOK
<1>7. CASE e \notin S
  <2>1. row'[e] = row[e]
    BY <1>3, <1>7
  <2>2. w \notin Undelivered(e)'
    BY <1>4, <1>6, <1>7 DEF Undelivered, Holds
  <2>3. Undelivered(e)' \subseteq Undelivered(e)
    BY <1>5, <1>6, <2>2, NoNewClaim
  <2>. QED  BY <1>1, <1>5, <2>1, <2>3, StaysCovered
<1>8. CASE e \in S
  <2>1. row[e].status = "pending" /\ row[e].attempts < MaxAttempts
    BY <1>8 DEF Claimable
  <2>2. row'[e] = [row[e] EXCEPT !.attempts = row[e].attempts + 1,
                                 !.available = now + Lease]
    BY <1>3, <1>8
  <2>3. row'[e].attempts = row[e].attempts + 1 /\ row'[e].status = "pending"
    BY <1>1, <2>1, <2>2 DEF Row
  <2>4. Undelivered(e)' \subseteq Undelivered(e) \cup {w}
    BY <1>5, <1>6 DEF Undelivered, Holds
  <2>5. /\ IsFiniteSet(Undelivered(e) \cup {w})
        /\ Cardinality(Undelivered(e) \cup {w}) <= Cardinality(Undelivered(e)) + 1
        /\ Cardinality(Undelivered(e)) \in Nat
    <3>1. IsFiniteSet(Undelivered(e))
      BY <1>1 DEF Covered
    <3>2. Cardinality(Undelivered(e)) \in Nat
      BY <3>1, FS_CardinalityType
    <3>3. /\ IsFiniteSet(Undelivered(e) \cup {w})
          /\ Cardinality(Undelivered(e) \cup {w})
               \in {Cardinality(Undelivered(e)), Cardinality(Undelivered(e)) + 1}
      BY <3>1, FS_AddElement, Zenon
    <3>. QED  BY <3>2, <3>3
  <2>6. /\ IsFiniteSet(Undelivered(e)')
        /\ Cardinality(Undelivered(e)') <= Cardinality(Undelivered(e) \cup {w})
    BY <2>4, <2>5, FS_Subset
  <2>7. /\ Cardinality(Undelivered(e)') \in Nat
        /\ Cardinality(Undelivered(e) \cup {w}) \in Nat
    BY <2>5, <2>6, FS_CardinalityType
  <2> DEFINE old == MaxAttempts * requeues[e]
  <2>8. old \in Nat /\ old = MaxAttempts * requeues'[e]
    BY <1>5, OutboxAssumption DEF ClaimInv, TypeOK
  <2>9. /\ deliveries[e] \in Nat /\ row[e].attempts \in Nat
        /\ deliveries'[e] = deliveries[e] /\ MaxAttempts \in Nat
    BY <1>1, <1>5, OutboxAssumption DEF TypeOK, Row
  <2>10. deliveries[e] + Cardinality(Undelivered(e)) <= old + row[e].attempts
    BY <1>1 DEF Covered
  <2> HIDE DEF old
  <2>11. deliveries'[e] + Cardinality(Undelivered(e)')
           <= old + row'[e].attempts
    BY <2>3, <2>5, <2>6, <2>7, <2>8, <2>9, <2>10
  <2>12. row'[e].attempts <= MaxAttempts
    BY <2>1, <2>3, <2>9
  <2>. QED  BY <2>3, <2>6, <2>8, <2>11, <2>12 DEF Covered
<1>. QED  BY <1>7, <1>8

(* The last handler to return turns an undelivered claim into a delivery. *)
LEMMA RunHandlerCover ==
  ASSUME ClaimInv, AttemptsCover, NEW w \in Workers, RunHandler(w)
  PROVE  AttemptsCover'
<1> SUFFICES ASSUME NEW e \in Events PROVE Covered(e)'
  BY DEF AttemptsCover
<1>1. Covered(e) /\ row[e] \in Row /\ TypeOK
  BY DEF AttemptsCover, ClaimInv, TypeOK
<1>2. /\ worker[w].pc = "handling" /\ worker[w].done < NHandlers
      /\ worker[w].event \in Events /\ Holds(w, worker[w].event)
      /\ worker[w] \in Control
      /\ UNCHANGED <<row, held, requeues>>
  BY DEF RunHandler, ClaimInv, BusyHoldsClaim, TypeOK
<1>3. /\ worker'[w] = [worker[w] EXCEPT !.done = worker[w].done + 1]
      /\ \A v \in Workers : v # w => worker'[v] = worker[v]
  BY <1>1 DEF RunHandler, TypeOK
<1>4. /\ worker'[w].event = worker[w].event
      /\ worker'[w].pc = "handling"
      /\ worker'[w].done = worker[w].done + 1
  BY <1>2, <1>3 DEF Control
<1>5. w \in Undelivered(e)' => w \in Undelivered(e)
  BY <1>2, <1>4 DEF Undelivered, Holds
<1>6. Undelivered(e)' \subseteq Undelivered(e)
  BY <1>2, <1>3, <1>5, NoNewClaim
<1>7. CASE deliveries'[e] = deliveries[e]
  BY <1>1, <1>2, <1>6, <1>7, StaysCovered
<1>8. CASE deliveries'[e] # deliveries[e]
  <2>1. /\ worker[w].done + 1 = NHandlers /\ worker[w].event = e
        /\ deliveries'[e] = deliveries[e] + 1
    BY <1>1, <1>2, <1>8 DEF RunHandler, TypeOK
  <2>2. w \in Undelivered(e)
    BY <1>2, <2>1 DEF Undelivered
  <2>3. w \notin Undelivered(e)'
    BY <1>4, <2>1, OutboxAssumption DEF Undelivered
  <2>4. Undelivered(e)' \subseteq Undelivered(e) \ {w}
    BY <1>6, <2>3
  <2>5. /\ IsFiniteSet(Undelivered(e) \ {w})
        /\ Cardinality(Undelivered(e) \ {w}) = Cardinality(Undelivered(e)) - 1
        /\ Cardinality(Undelivered(e)) \in Nat
    BY <1>1, <2>2, FS_RemoveElement, FS_CardinalityType DEF Covered
  <2>6. /\ IsFiniteSet(Undelivered(e)')
        /\ Cardinality(Undelivered(e)') <= Cardinality(Undelivered(e) \ {w})
    BY <2>4, <2>5, FS_Subset
  <2>7. Cardinality(Undelivered(e)') \in Nat
    BY <2>6, FS_CardinalityType
  <2> DEFINE paid == MaxAttempts * requeues[e] + row[e].attempts
  <2>8. paid \in Nat /\ deliveries[e] \in Nat
    BY <1>1, PaidIsNat DEF TypeOK
  <2>9. deliveries[e] + Cardinality(Undelivered(e)) <= paid
    BY <1>1 DEF Covered
  <2>10. paid = MaxAttempts * requeues'[e] + row'[e].attempts
    BY <1>2
  <2> HIDE DEF paid
  <2>11. deliveries'[e] + Cardinality(Undelivered(e)') <= paid
    BY <2>1, <2>5, <2>6, <2>7, <2>8, <2>9
  <2>. QED  BY <1>1, <1>2, <2>6, <2>10, <2>11 DEF Covered
<1>. QED  BY <1>7, <1>8

(* A dispatch that ends, or fails, delivers nothing more. *)
LEMMA DispatchCover ==
  ASSUME ClaimInv, AttemptsCover, NEW w \in Workers,
         HandlerThrows(w) \/ MarkProcessed(w) \/ RecordFailure(w)
  PROVE  AttemptsCover'
<1> SUFFICES ASSUME NEW e \in Events PROVE Covered(e)'
  BY DEF AttemptsCover
<1>1. Covered(e) /\ row[e] \in Row /\ TypeOK
  BY DEF AttemptsCover, ClaimInv, TypeOK
<1>2. /\ worker[w].pc \in {"handling", "failing"}
      /\ worker[w].event \in Events
      /\ UNCHANGED <<requeues, deliveries>>
  BY DEF HandlerThrows, MarkProcessed, RecordFailure, ClaimInv, BusyHoldsClaim
<1>3. /\ row'[e].attempts = row[e].attempts
      /\ row'[e].status = "absent" => row[e].status = "absent"
  <2>1. CASE UNCHANGED row
    BY <2>1
  <2>2. ASSUME NEW r, Settle(w, r), r.status # "absent",
               r.attempts = row[worker[w].event].attempts
        PROVE  /\ row'[e].attempts = row[e].attempts
               /\ row'[e].status = "absent" => row[e].status = "absent"
    BY <1>1, <1>2, <2>2 DEF Settle, TypeOK
  <2>3. PICK d \in Events : d = worker[w].event
    BY <1>2
  <2>4. row[d] \in Row
    BY <1>1 DEF TypeOK
  <2>5. CASE \E now \in Observed :
               Settle(w, [row[d] EXCEPT !.status = "processed",
                                        !.settled = now])
    <3>1. PICK now \in Observed :
            Settle(w, [row[d] EXCEPT !.status = "processed", !.settled = now])
      BY <2>5
    <3> DEFINE r == [row[d] EXCEPT !.status = "processed", !.settled = now]
    <3>2. r.status # "absent" /\ r.attempts = row[d].attempts
      BY <2>4 DEF Row
    <3> HIDE DEF r
    <3>. QED  BY <2>2, <2>3, <3>1, <3>2 DEF r
  <2>6. CASE RecordFailure(w)
    <3> DEFINE n == held[w][d].attempts
               late(now) == IF n >= MaxAttempts
                            THEN [row[d] EXCEPT !.status = "dead",
                                                !.settled = now]
                            ELSE [row[d] EXCEPT !.available = now + Backoff[n]]
    <3>1. PICK now \in Observed : Settle(w, late(now))
      BY <2>3, <2>6 DEF RecordFailure
    <3>2. CASE row[d].status # "absent"
      <4>1. late(now).status # "absent" /\ late(now).attempts = row[d].attempts
        BY <2>4, <3>2 DEF Row
      <4> HIDE DEF late
      <4>. QED  BY <2>2, <2>3, <3>1, <4>1
    <3>3. CASE row[d].status = "absent"
      <4> HIDE DEF late
      <4>1. ~ Fence(d, held[w][d])
        BY <3>3 DEF Fence
      <4>. QED  BY <2>1, <2>3, <3>1, <4>1 DEF Settle
    <3>. QED  BY <3>2, <3>3
  <2>. QED  BY <2>1, <2>3, <2>5, <2>6 DEF HandlerThrows, MarkProcessed
<1>4. Undelivered(e)' \subseteq Undelivered(e)
  <2>1. CASE NextItem(w)
    <3>1. /\ \A v \in Workers, d \in Events :
               held'[v][d] = IF v = w /\ d = worker[w].event THEN NoClaim
                                                             ELSE held[v][d]
          /\ \A v \in Workers : v # w => worker'[v] = worker[v]
      BY <1>1, <1>2, <2>1, NextItemHolds
    <3>2. w \in Undelivered(e)' => w \in Undelivered(e)
      BY <3>1 DEF Undelivered, Holds
    <3>. QED  BY <3>1, <3>2, NoNewClaim
  <2>2. CASE worker' = [worker EXCEPT ![w].pc = "failing"] /\ UNCHANGED held
    <3>1. /\ worker'[w].event = worker[w].event /\ worker'[w].pc = "failing"
          /\ \A v \in Workers : v # w => worker'[v] = worker[v]
      BY <1>1, <2>2 DEF TypeOK, Control
    <3>2. w \in Undelivered(e)' => w \in Undelivered(e)
      BY <2>2, <3>1 DEF Undelivered, Holds
    <3>. QED  BY <2>2, <3>1, <3>2, NoNewClaim
  <2>. QED  BY <2>1, <2>2 DEF HandlerThrows, MarkProcessed, RecordFailure
<1>. QED  BY <1>1, <1>2, <1>3, <1>4, StaysCovered

LEMMA AbandonCover ==
  ASSUME ClaimInv, AttemptsCover, NEW w \in Workers, Abandon(w)
  PROVE  AttemptsCover'
<1> SUFFICES ASSUME NEW e \in Events PROVE Covered(e)'
  BY DEF AttemptsCover
<1>1. Covered(e) /\ TypeOK
  BY DEF AttemptsCover, ClaimInv
<1>2. /\ UNCHANGED <<row, requeues, deliveries>>
      /\ \A v \in Workers : v # w => worker'[v] = worker[v]
      /\ \A v \in Workers, d \in Events : v # w => held'[v][d] = held[v][d]
      /\ held'[w][e] = NoClaim
  BY <1>1 DEF Abandon, TypeOK
<1>3. w \notin Undelivered(e)'
  BY <1>2 DEF Undelivered, Holds
<1>4. Undelivered(e)' \subseteq Undelivered(e)
  BY <1>2, <1>3, NoNewClaim
<1>. QED  BY <1>1, <1>2, <1>4, StaysCovered

LEMMA CoverNext == ClaimInv /\ AttemptsCover /\ [Next]_vars => AttemptsCover'
<1> SUFFICES ASSUME ClaimInv, AttemptsCover, [Next]_vars PROVE AttemptsCover'
  OBVIOUS
<1>1. CASE \/ \E e \in Events : Publish(e) \/ Requeue(e)
           \/ Purge \/ Tick \/ UNCHANGED vars
  BY <1>1, TableCover DEF ClaimInv
<1>2. ASSUME NEW w \in Workers, Step(w) PROVE AttemptsCover'
  BY <1>2, SweepCover, ClaimBatchCover, RunHandlerCover, DispatchCover DEF Step
<1>3. ASSUME NEW w \in Workers, Abandon(w) PROVE AttemptsCover'
  BY <1>3, AbandonCover
<1>. QED  BY <1>1, <1>2, <1>3 DEF Next

-----------------------------------------------------------------------------

(* The variables keep their types, a worker in dispatch works on a claim it *)
(* holds, every claim that is not the owner's is late, an event is only     *)
(* marked processed once all its handlers returned, and attempts cover the  *)
(* deliveries made and those still to come.                                 *)
THEOREM Invariant == Spec => []Inv
<1>1. Init => Inv
  BY ClaimInvInit, CoverInit DEF Inv, Init, Idle, DeliveredBeforeMarked
<1>2. Inv /\ [Next]_vars => Inv'
  BY ClaimInvNext, DeliveredNext, CoverNext DEF Inv
<1>. QED  BY <1>1, <1>2, PTL DEF Spec

-----------------------------------------------------------------------------
(* What the documentation promises. *)

(* Outcome ownership: of the workers still holding a claim on an event,    *)
(* exactly the one of its latest undecided claim passes the outcome fence. *)
THEOREM Ownership == Spec => []OutcomeOwnership
<1>1. Inv => OutcomeOwnership
  BY FenceAdmitsOwner DEF Inv, ClaimInv, OwnerIsCurrent, OutcomeOwnership
<1>. QED  BY <1>1, Invariant, PTL

(* The attempt budget: however leases lapse, workers die or acknowledgments *)
(* get lost, an event is dispatched to its handlers at most MaxAttempts     *)
(* times for each time it was enqueued.                                     *)
THEOREM Budget == Spec => []AttemptBudget
<1>1. Inv => AttemptBudget
  <2> SUFFICES ASSUME Inv, NEW e \in Events
               PROVE  /\ deliveries[e] <= MaxAttempts * (requeues[e] + 1)
                      /\ row[e].attempts <= MaxAttempts
    BY DEF AttemptBudget
  <2>1. Covered(e) /\ row[e] \in Row /\ TypeOK
    BY DEF Inv, AttemptsCover, ClaimInv, TypeOK
  <2> DEFINE old == MaxAttempts * requeues[e]
             n   == Cardinality(Undelivered(e))
  <2>2. /\ requeues[e] \in Nat /\ deliveries[e] \in Nat
        /\ row[e].attempts \in Nat /\ MaxAttempts \in Nat /\ n \in Nat
    BY <2>1, FS_CardinalityType, OutboxAssumption DEF TypeOK, Row, Covered
  <2>3. old \in Nat /\ MaxAttempts * (requeues[e] + 1) = old + MaxAttempts
    BY <2>2
  <2>4. deliveries[e] + n <= old + row[e].attempts /\ row[e].attempts <= MaxAttempts
    BY <2>1 DEF Covered
  <2> HIDE DEF old, n
  <2>. QED  BY <2>2, <2>3, <2>4
<1>. QED  BY <1>1, Invariant, PTL

(* A step never invents or alters a claim, except that ClaimBatch(w) hands *)
(* w rows whose last deadline is over for every observer.                  *)
LEMMA ClaimsOnlyFromClaimBatch ==
  ASSUME ClaimInv, [Next]_vars, NEW w \in Workers, NEW e \in Events,
         Holds(w, e)'
  PROVE  \/ Holds(w, e) /\ held'[w][e] = held[w][e]
         \/ row[e].status = "pending" /\ row[e].available <= clock
<1>1. CASE UNCHANGED held
  BY <1>1 DEF Holds
<1>2. ASSUME NEW v \in Workers, v # w, NEW h \in [Events -> Claim],
             held' = [held EXCEPT ![v] = h]
      PROVE  Holds(w, e) /\ held'[w][e] = held[w][e]
  BY <1>2 DEF Holds, ClaimInv, TypeOK
<1>3. CASE UNCHANGED vars
  BY <1>1, <1>3 DEF vars
<1>4. CASE Purge \/ Tick \/ \E d \in Events : Publish(d) \/ Requeue(d)
  BY <1>1, <1>4 DEF Purge, Tick, Publish, Requeue
<1>5. ASSUME NEW v \in Workers,
             Sweep(v) \/ RunHandler(v) \/ HandlerThrows(v)
      PROVE  UNCHANGED held
  BY <1>5 DEF Sweep, RunHandler, HandlerThrows
<1>6. ASSUME NEW v \in Workers, MarkProcessed(v) \/ RecordFailure(v)
      PROVE  Holds(w, e) /\ held'[w][e] = held[w][e]
  <2>1. worker[v].event \in Events
    BY <1>6 DEF MarkProcessed, RecordFailure, ClaimInv, BusyHoldsClaim
  <2>2. CASE NextItem(v)
    <3>1. \A u \in Workers, d \in Events :
            held'[u][d] = IF u = v /\ d = worker[v].event THEN NoClaim
                                                          ELSE held[u][d]
      BY <2>1, <2>2, NextItemHolds DEF ClaimInv
    <3>. QED  BY <3>1 DEF Holds
  <2>. QED  BY <1>1, <1>6, <2>2 DEF MarkProcessed, RecordFailure, Holds
<1>7. ASSUME NEW v \in Workers, Abandon(v)
      PROVE  Holds(w, e) /\ held'[w][e] = held[w][e]
  <2>1. held' = [held EXCEPT ![v] = [d \in Events |-> NoClaim]]
    BY <1>7 DEF Abandon
  <2>. QED  BY <2>1 DEF Holds, ClaimInv, TypeOK
<1>8. ASSUME NEW v \in Workers, ClaimBatch(v)
      PROVE  \/ Holds(w, e) /\ held'[w][e] = held[w][e]
             \/ row[e].status = "pending" /\ row[e].available <= clock
  <2>1. PICK now \in Observed :
          \E S \in SUBSET Claimable(now) :
            Proceed(v, [d \in Events |->
                          IF d \in S /\ S \cap Unknown = {}
                          THEN [attempts |-> row[d].attempts + 1,
                                leaseUntil |-> now + Lease]
                          ELSE NoClaim])
    BY <1>8, BatchIsClaimable DEF ClaimBatch, ClaimSkipping
  <2>2. PICK S \in SUBSET Claimable(now) :
          Proceed(v, [d \in Events |->
                        IF d \in S /\ S \cap Unknown = {}
                        THEN [attempts |-> row[d].attempts + 1,
                              leaseUntil |-> now + Lease]
                        ELSE NoClaim])
    BY <2>1
  <2> DEFINE h == [d \in Events |->
                     IF d \in S /\ S \cap Unknown = {}
                     THEN [attempts |-> row[d].attempts + 1,
                           leaseUntil |-> now + Lease]
                     ELSE NoClaim]
  <2>3. held' = [held EXCEPT ![v] = h]
    BY <2>2 DEF Proceed
  <2>4. h[e] # NoClaim => e \in S
    OBVIOUS
  <2>5. CASE v = w
    <3>1. e \in S
      BY <2>3, <2>4, <2>5 DEF Holds, ClaimInv, TypeOK
    <3>2. row[e].status = "pending" /\ row[e].available <= now
      BY <3>1 DEF Claimable
    <3>3. now \in Nat /\ now <= clock /\ clock \in Nat /\ row[e].available \in Nat
      BY DEF Observed, ClaimInv, TypeOK, Row
    <3>. QED  BY <3>2, <3>3
  <2>6. CASE v # w
    <3> HIDE DEF h
    <3>. QED  BY <2>3, <2>6 DEF Holds, ClaimInv, TypeOK
  <2>. QED  BY <2>5, <2>6
<1>. QED
  BY <1>1, <1>3, <1>4, <1>5, <1>6, <1>7, <1>8 DEF Next, Step

LEMMA ClockGrows ==
  ASSUME ClaimInv, [Next]_vars
  PROVE  clock \in Nat /\ clock' \in Nat /\ clock <= clock'
<1>1. clock \in Nat
  BY DEF ClaimInv, TypeOK
<1>2. clock' = clock \/ clock' = clock + 1
  BY DEF Next, Step, Publish, Requeue, Purge, Sweep, ClaimBatch, ClaimSkipping,
         RunHandler, HandlerThrows, MarkProcessed, RecordFailure, Abandon, Tick, vars
<1>. QED  BY <1>1, <1>2

(* Claiming is exclusive: no two workers hold unexpired claims on one event. *)
THEOREM ExclusiveLease == Spec => []LeaseIsExclusive
<1>1. Init => LeaseIsExclusive
  BY DEF Init, LeaseIsExclusive, Holds
<1>2. Inv /\ LeaseIsExclusive /\ [Next]_vars => LeaseIsExclusive'
  <2> SUFFICES ASSUME Inv, LeaseIsExclusive, [Next]_vars,
                      NEW e \in Events, NEW v \in Workers, NEW w \in Workers,
                      v # w,
                      Holds(v, e)', held'[v][e].leaseUntil > clock',
                      Holds(w, e)', held'[w][e].leaseUntil > clock'
               PROVE  FALSE
    BY DEF LeaseIsExclusive
  <2>1. ClaimInv /\ clock \in Nat /\ clock' \in Nat /\ clock <= clock'
    BY ClockGrows DEF Inv
  (* A claim that was already held is over once the row can be claimed. *)
  <2>2. ASSUME NEW u \in Workers, Holds(u, e),
               row[e].status = "pending", row[e].available <= clock
        PROVE  held[u][e].leaseUntil <= clock
    BY <2>1, <2>2 DEF ClaimInv, OwnerIsCurrent, OthersAreLate, Fence
  <2>3. ASSUME NEW u \in Workers, Holds(u, e), held'[u][e] = held[u][e],
               held'[u][e].leaseUntil > clock'
        PROVE  held[u][e].leaseUntil > clock
    <3>1. held[u][e].leaseUntil \in Nat
      BY <2>1 DEF ClaimInv, TypeOK, Claim
    <3>. QED  BY <2>1, <2>3, <3>1
  <2>4. \A u \in Workers : held[u][e].leaseUntil \in Nat
    BY <2>1 DEF ClaimInv, TypeOK, Claim
  <2>5. CASE /\ Holds(v, e) /\ held'[v][e] = held[v][e]
             /\ Holds(w, e) /\ held'[w][e] = held[w][e]
    BY <2>3, <2>5 DEF LeaseIsExclusive
  <2>6. row[e].status = "pending" /\ row[e].available <= clock
    BY <2>1, <2>5, ClaimsOnlyFromClaimBatch
  (* Then neither claim is old, so this very step handed out both. *)
  <2>7. ASSUME NEW u \in Workers, Holds(u, e), held'[u][e] = held[u][e],
               held'[u][e].leaseUntil > clock'
        PROVE  FALSE
    BY <2>1, <2>2, <2>3, <2>4, <2>6, <2>7
  <2>8. \E u \in {v, w} : UNCHANGED held[u]
    <3>1. \/ UNCHANGED held
          \/ \E x \in Workers : \E h : held' = [held EXCEPT ![x] = h]
      BY DEF Next, Step, Publish, Requeue, Purge, Sweep, ClaimBatch, ClaimSkipping,
             RunHandler, HandlerThrows, MarkProcessed, RecordFailure, Abandon, Tick, vars,
             NextItem, Proceed
    <3>. QED  BY <2>1, <3>1 DEF ClaimInv, TypeOK
  <2>. QED  BY <2>7, <2>8 DEF Holds
<1>. QED  BY <1>1, <1>2, Invariant, PTL DEF Spec

-----------------------------------------------------------------------------
(* How a step may change the rows, whoever takes it. *)

(* An outcome statement touches one pending row, or nothing. *)
LEMMA SettleRow ==
  ASSUME ClaimInv, NEW w \in Workers, worker[w].event \in Events,
         NEW r, Settle(w, r)
  PROVE  \A e \in Events :
           \/ row'[e] = row[e]
           \/ e = worker[w].event /\ row[e].status = "pending" /\ row'[e] = r
  BY DEF Settle, Fence, ClaimInv, TypeOK

(* The status of every row moves along one of these arrows. *)
RowStep(e) ==
  \/ row'[e] = row[e]
  \/ row[e].status = "absent" /\ row'[e].status = "pending"
  \/ row[e].status = "pending" /\ row'[e].status \in {"pending", "processed", "dead"}
  \/ row[e].status = "processed" /\ row'[e].status = "purged"
  \/ /\ row[e].status = "dead" /\ row'[e].status = "pending"
     /\ row'[e].attempts = 0 /\ requeues'[e] = requeues[e] + 1

LEMMA RowSteps ==
  ASSUME ClaimInv, [Next]_vars
  PROVE  \A e \in Events : RowStep(e)
<1> USE DEF RowStep
<1>0. \A e \in Events : row[e] \in Row
  BY DEF ClaimInv, TypeOK
<1>1. CASE UNCHANGED row
  BY <1>1
<1>2. ASSUME NEW d \in Events, Publish(d) PROVE \A e \in Events : RowStep(e)
  BY <1>2 DEF Publish, ClaimInv, TypeOK
<1>3. ASSUME NEW d \in Events, Requeue(d) PROVE \A e \in Events : RowStep(e)
  <2>1. row'[d].status = "pending" /\ row'[d].attempts = 0
    BY <1>0, <1>3 DEF Requeue, ClaimInv, TypeOK, Row
  <2>2. requeues'[d] = requeues[d] + 1
    BY <1>3 DEF Requeue, ClaimInv, TypeOK
  <2>3. row[d].status = "dead" /\ \A e \in Events : e # d => row'[e] = row[e]
    BY <1>3 DEF Requeue, ClaimInv, TypeOK
  <2>. QED  BY <2>1, <2>2, <2>3
<1>4. CASE Purge
  BY <1>0, <1>4 DEF Purge, Row
<1>5. ASSUME NEW w \in Workers, Step(w) PROVE \A e \in Events : RowStep(e)
  <2>1. CASE Sweep(w)
    BY <1>0, <2>1 DEF Sweep, Row
  <2>2. CASE ClaimBatch(w)
    <3>1. PICK now \in Observed :
            \E S \in SUBSET Claimable(now) :
              row' = [e \in Events |->
                        IF e \in S
                        THEN [row[e] EXCEPT !.attempts = @ + 1,
                                            !.available = now + Lease]
                        ELSE row[e]]
      BY <2>2, BatchIsClaimable DEF ClaimBatch, ClaimSkipping
    <3>2. PICK S \in SUBSET Claimable(now) :
            row' = [e \in Events |->
                      IF e \in S
                      THEN [row[e] EXCEPT !.attempts = @ + 1,
                                          !.available = now + Lease]
                      ELSE row[e]]
      BY <3>1
    <3>3. \A e \in S : row[e].status = "pending"
      BY DEF Claimable
    <3>. QED  BY <1>0, <3>2, <3>3 DEF Row
  <2>3. CASE RunHandler(w) \/ HandlerThrows(w)
    BY <1>1, <2>3 DEF RunHandler, HandlerThrows
  <2>4. CASE MarkProcessed(w)
    <3>. PICK d \in Events : d = worker[w].event
      BY <2>4 DEF MarkProcessed, ClaimInv, BusyHoldsClaim
    <3>1. CASE \E now \in Observed :
                 Settle(w, [row[d] EXCEPT !.status = "processed",
                                          !.settled = now])
      <4>1. PICK now \in Observed :
              Settle(w, [row[d] EXCEPT !.status = "processed",
                                       !.settled = now])
        BY <3>1
      <4>. PICK r : r = [row[d] EXCEPT !.status = "processed",
                                       !.settled = now]
        OBVIOUS
      <4>2. r.status = "processed" /\ Settle(w, r)
        BY <1>0, <4>1 DEF Row
      <4>3. \A e \in Events :
              \/ row'[e] = row[e]
              \/ row[e].status = "pending" /\ row'[e] = r
        BY <4>2, SettleRow
      <4>. QED  BY <4>2, <4>3
    <3>. QED  BY <1>1, <2>4, <3>1 DEF MarkProcessed
  <2>5. CASE RecordFailure(w)
    <3>. PICK d \in Events : d = worker[w].event
      BY <2>5 DEF RecordFailure, ClaimInv, BusyHoldsClaim
    <3> DEFINE n == held[w][d].attempts
               late(now) == IF n >= MaxAttempts
                            THEN [row[d] EXCEPT !.status = "dead",
                                                !.settled = now]
                            ELSE [row[d] EXCEPT !.available = now + Backoff[n]]
    <3>1. PICK now \in Observed : Settle(w, late(now))
      BY <2>5 DEF RecordFailure
    <3>2. row[d].status = "pending" => late(now).status \in {"pending", "dead"}
      BY <1>0 DEF Row
    <3> HIDE DEF late
    <3>. QED  BY <3>1, <3>2, SettleRow
  <2>. QED  BY <1>5, <2>1, <2>2, <2>3, <2>4, <2>5 DEF Step
<1>6. ASSUME NEW w \in Workers, Abandon(w) PROVE UNCHANGED row
  BY <1>6 DEF Abandon
<1>7. CASE Tick \/ UNCHANGED vars
  BY <1>1, <1>7 DEF Tick, vars
<1>. QED  BY <1>1, <1>2, <1>3, <1>4, <1>5, <1>6, <1>7 DEF Next

(* Terminal outcomes are final: a processed row only disappears, a parked  *)
(* row only comes back through a requeue with its attempts reset.          *)
THEOREM Finality == Spec => TerminalIsFinal
<1>1. ClaimInv /\ [Next]_vars =>
        [\A e \in Events :
           /\ row[e].status = "processed" =>
                \/ row'[e] = row[e]
                \/ row'[e].status = "purged"
           /\ row[e].status = "dead" =>
                \/ row'[e] = row[e]
                \/ row'[e].attempts = 0 /\ requeues'[e] = requeues[e] + 1]_vars
  BY RowSteps DEF RowStep
<1>. QED  BY <1>1, Invariant, PTL DEF Spec, Inv, TerminalIsFinal

-----------------------------------------------------------------------------
(* The outbox implements EventDelivery. *)

(* The rows of S change status together, everything else stays: this is a  *)
(* Move of the contract.                                                   *)
LEMMA MoveStep ==
  ASSUME NEW S \in SUBSET Events, UNCHANGED deliveries, NEW from, NEW to,
         \A e \in S : Stage(e) = from /\ Stage(e)' = to,
         \A e \in Events \ S : row'[e].status = row[e].status
  PROVE  Contract!Move(S, from, to)
<1>1. \A e \in Events \ S : Stage(e)' = Stage(e)
  BY DEF Stage
<1>. QED  BY <1>1 DEF Contract!Move

LEMMA Stutter ==
  ASSUME UNCHANGED deliveries,
         \A e \in Events : row'[e].status = row[e].status
  PROVE  UNCHANGED Contract!dvars
<1>1. \A e \in Events : Stage(e)' = Stage(e)
  BY DEF Stage
<1>. QED  BY <1>1 DEF Contract!dvars

LEMMA ContractInit == Init => Contract!DeliveryInit
<1> SUFFICES ASSUME Init PROVE Contract!DeliveryInit
  OBVIOUS
<1>1. \A e \in Events : Stage(e) = "unpublished"
  BY DEF Init, Stage
<1>2. {e \in Events : deliveries[e] > 0} = {}
  BY DEF Init
<1>. QED  BY <1>1, <1>2 DEF Contract!DeliveryInit

LEMMA ContractStep ==
  Inv /\ Inv' /\ [Next]_vars => [Contract!DeliveryNext]_(Contract!dvars)
<1> SUFFICES ASSUME Inv, Inv', [Next]_vars
             PROVE  Contract!DeliveryNext \/ UNCHANGED Contract!dvars
  OBVIOUS
<1>0. TypeOK /\ TypeOK' /\ \A e \in Events : row[e] \in Row
  BY DEF Inv, ClaimInv, TypeOK
<1>1. ASSUME NEW e \in Events, Publish(e) PROVE Contract!DeliveryNext
  <2>1. /\ row[e].status = "absent" /\ row'[e].status = "pending"
        /\ \A d \in Events \ {e} : row'[d].status = row[d].status
        /\ UNCHANGED deliveries
    BY <1>0, <1>1 DEF Publish, TypeOK
  <2>2. Stage(e) = "unpublished" /\ Stage(e)' = "pending"
    BY <2>1 DEF Stage
  <2>3. Contract!Move({e}, "unpublished", "pending")
    BY <2>1, <2>2, MoveStep
  <2>. QED  BY <2>3 DEF Contract!DeliveryNext, Contract!PublishEvent
<1>2. ASSUME NEW e \in Events, Requeue(e) PROVE Contract!DeliveryNext
  <2>1. /\ row[e].status = "dead" /\ row'[e].status = "pending"
        /\ \A d \in Events \ {e} : row'[d].status = row[d].status
        /\ UNCHANGED deliveries
    BY <1>0, <1>2 DEF Requeue, TypeOK, Row
  <2>2. Stage(e) = "parked" /\ Stage(e)' = "pending"
    BY <2>1 DEF Stage
  <2>3. Contract!Move({e}, "parked", "pending")
    BY <2>1, <2>2, MoveStep
  <2>. QED  BY <2>3 DEF Contract!DeliveryNext, Contract!Unpark
<1>3. CASE Purge
  <2>1. PICK S \in SUBSET {e \in Events : row[e].status = "processed"} :
          row' = [e \in Events |->
                    IF e \in S THEN [row[e] EXCEPT !.status = "purged"]
                               ELSE row[e]]
    BY <1>3 DEF Purge
  <2>2. /\ \A e \in S : row[e].status = "processed" /\ row'[e].status = "purged"
        /\ \A e \in Events \ S : row'[e].status = row[e].status
    BY <1>0, <2>1 DEF Row
  <2>3. S \in SUBSET Events /\ UNCHANGED deliveries
    BY <1>3 DEF Purge
  <2>4. \A e \in S : Stage(e) = "completed" /\ Stage(e)' = "deleted"
    BY <2>2 DEF Stage
  <2>5. Contract!Move(S, "completed", "deleted")
    BY <2>2, <2>3, <2>4, MoveStep
  <2>. QED  BY <2>3, <2>5 DEF Contract!DeliveryNext, Contract!Delete
<1>4. ASSUME NEW w \in Workers, Sweep(w) PROVE Contract!DeliveryNext
  <2>1. PICK now \in Observed :
          row' = [e \in Events |->
                    IF e \in {d \in Events : /\ row[d].status = "pending"
                                             /\ row[d].attempts >= MaxAttempts
                                             /\ row[d].available <= now}
                    THEN [row[e] EXCEPT !.status = "dead", !.settled = now]
                    ELSE row[e]]
    BY <1>4 DEF Sweep
  <2> DEFINE S == {d \in Events : /\ row[d].status = "pending"
                                  /\ row[d].attempts >= MaxAttempts
                                  /\ row[d].available <= now}
  <2>2. /\ \A e \in S : row[e].status = "pending" /\ row'[e].status = "dead"
        /\ \A e \in Events \ S : row'[e].status = row[e].status
    BY <1>0, <2>1 DEF Row
  <2>3. S \in SUBSET Events /\ UNCHANGED deliveries
    BY <1>4 DEF Sweep
  <2> HIDE DEF S
  <2>4. \A e \in S : Stage(e) = "pending" /\ Stage(e)' = "parked"
    BY <2>2 DEF Stage
  <2>5. Contract!Move(S, "pending", "parked")
    BY <2>2, <2>3, <2>4, MoveStep
  <2>. QED  BY <2>3, <2>5 DEF Contract!DeliveryNext, Contract!Park
<1>5. ASSUME NEW w \in Workers, ClaimBatch(w) PROVE UNCHANGED Contract!dvars
  <2>1. \A e \in Events : row'[e].status = row[e].status
    BY <1>0, <1>5 DEF ClaimBatch, ClaimSkipping, Row
  <2>. QED  BY <1>5, <2>1, Stutter DEF ClaimBatch, ClaimSkipping
<1>6. ASSUME NEW w \in Workers, RunHandler(w)
      PROVE  Contract!DeliveryNext \/ UNCHANGED Contract!dvars
  <2>. PICK e \in Events : e = worker[w].event /\ Holds(w, e)
    BY <1>6 DEF RunHandler, Inv, ClaimInv, BusyHoldsClaim
  <2>1. CASE worker[w].done + 1 # NHandlers
    BY <1>6, <2>1, Stutter DEF RunHandler
  <2>2. CASE worker[w].done + 1 = NHandlers
    <3>1. deliveries' = [deliveries EXCEPT ![e] = deliveries[e] + 1]
      BY <1>6, <2>2 DEF RunHandler
    <3>2. \A d \in Events : deliveries'[d] > 0 <=> d = e \/ deliveries[d] > 0
      BY <1>0, <3>1 DEF TypeOK
    <3>3. {d \in Events : deliveries'[d] > 0}
            = {d \in Events : deliveries[d] > 0} \cup {e}
      BY <3>2
    <3>4. UNCHANGED row
      BY <1>6 DEF RunHandler
    <3>5. \A d \in Events : Stage(d)' = Stage(d)
      BY <3>4 DEF Stage
    <3>6. Stage(e) # "unpublished"
      <4>1. row[e].status \in Statuses \ {"absent"}
        BY <1>0 DEF Inv, ClaimInv, ClaimIsNumbered, Row
      <4>. QED  BY <4>1 DEF Stage, Statuses
    <3>7. Contract!Deliver(e)
      BY <3>3, <3>5, <3>6 DEF Contract!Deliver
    <3>. QED  BY <3>7 DEF Contract!DeliveryNext
  <2>. QED  BY <2>1, <2>2
<1>7. ASSUME NEW w \in Workers, NEW e \in Events, e = worker[w].event, NEW r,
             r.status \in {"pending", "processed", "dead"},
             r.status = "processed" => deliveries[e] > 0,
             Settle(w, r), UNCHANGED deliveries
      PROVE  Contract!DeliveryNext \/ UNCHANGED Contract!dvars
  <2>1. \A d \in Events : \/ row'[d] = row[d]
                          \/ d = e /\ row[d].status = "pending" /\ row'[d] = r
    BY <1>7, SettleRow DEF Inv
  <2>2. CASE \A d \in Events : row'[d].status = row[d].status
    BY <1>7, <2>2, Stutter
  <2>3. CASE ~ \A d \in Events : row'[d].status = row[d].status
    <3>1. /\ row[e].status = "pending" /\ row'[e].status = r.status
          /\ r.status \in {"processed", "dead"}
          /\ \A d \in Events \ {e} : row'[d].status = row[d].status
      BY <1>7, <2>1, <2>3
    <3>2. CASE r.status = "processed"
      <4>1. Stage(e) = "pending" /\ Stage(e)' = "completed"
        BY <3>1, <3>2 DEF Stage
      <4>2. Contract!Move({e}, "pending", "completed")
        BY <1>7, <3>1, <4>1, MoveStep
      <4>. QED
        BY <1>7, <3>2, <4>2 DEF Contract!DeliveryNext, Contract!Complete
    <3>3. CASE r.status = "dead"
      <4>1. Stage(e) = "pending" /\ Stage(e)' = "parked"
        BY <3>1, <3>3 DEF Stage
      <4>2. Contract!Move({e}, "pending", "parked")
        BY <1>7, <3>1, <4>1, MoveStep
      <4>. QED  BY <4>2 DEF Contract!DeliveryNext, Contract!Park
    <3>. QED  BY <3>1, <3>2, <3>3
  <2>. QED  BY <2>2, <2>3
<1>8. ASSUME NEW w \in Workers, MarkProcessed(w)
      PROVE  Contract!DeliveryNext \/ UNCHANGED Contract!dvars
  <2>. PICK e \in Events : e = worker[w].event
    BY <1>8 DEF MarkProcessed, Inv, ClaimInv, BusyHoldsClaim
  <2>1. deliveries[e] > 0 /\ UNCHANGED deliveries
    BY <1>8 DEF MarkProcessed, Inv, DeliveredBeforeMarked
  <2>2. CASE UNCHANGED row
    BY <2>1, <2>2, Stutter
  <2>3. CASE \E now \in Observed :
               Settle(w, [row[e] EXCEPT !.status = "processed", !.settled = now])
    <3>1. PICK now \in Observed :
            Settle(w, [row[e] EXCEPT !.status = "processed", !.settled = now])
      BY <2>3
    <3> DEFINE r == [row[e] EXCEPT !.status = "processed", !.settled = now]
    <3>2. r.status = "processed" /\ Settle(w, r)
      BY <1>0, <3>1 DEF Row
    <3> HIDE DEF r
    <3>. QED  BY <1>7, <2>1, <3>2
  <2>. QED  BY <1>8, <2>2, <2>3 DEF MarkProcessed
<1>9. ASSUME NEW w \in Workers, RecordFailure(w)
      PROVE  Contract!DeliveryNext \/ UNCHANGED Contract!dvars
  <2>. PICK e \in Events : e = worker[w].event
    BY <1>9 DEF RecordFailure, Inv, ClaimInv, BusyHoldsClaim
  <2> DEFINE n == held[w][e].attempts
             late(now) == IF n >= MaxAttempts
                          THEN [row[e] EXCEPT !.status = "dead", !.settled = now]
                          ELSE [row[e] EXCEPT !.available = now + Backoff[n]]
  <2>1. PICK now \in Observed : Settle(w, late(now))
    BY <1>9 DEF RecordFailure
  <2>2. UNCHANGED deliveries
    BY <1>9 DEF RecordFailure
  <2>3. CASE row[e].status = "pending"
    <3>1. late(now).status \in {"pending", "dead"}
      BY <1>0, <2>3 DEF Row
    <3> HIDE DEF late
    <3>. QED  BY <1>7, <2>1, <2>2, <3>1
  <2>4. CASE row[e].status # "pending"
    <3>1. UNCHANGED row
      BY <2>1, <2>4 DEF Settle, Fence
    <3>. QED  BY <2>2, <3>1, Stutter
  <2>. QED  BY <2>3, <2>4
<1>10. ASSUME NEW w \in Workers, HandlerThrows(w) \/ Abandon(w)
       PROVE  UNCHANGED Contract!dvars
  BY <1>10, Stutter DEF HandlerThrows, Abandon
<1>11. CASE Tick \/ UNCHANGED vars
  BY <1>11, Stutter DEF Tick, vars
<1>. QED
  BY <1>1, <1>2, <1>3, <1>4, <1>5, <1>6, <1>8, <1>9, <1>10, <1>11
  DEF Next, Step

(* At-least-once: the rows, leases and workers implement the contract.  An *)
(* event is completed only after all its handlers ran, only completed      *)
(* events disappear, and only a requeue brings a parked event back.        *)
THEOREM Implements == Spec => AtLeastOnce
<1>. QED
  BY ContractInit, ContractStep, Invariant, PTL
  DEF Spec, AtLeastOnce, Contract!DeliverySpec
=============================================================================

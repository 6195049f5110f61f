--------------------------- MODULE EventDelivery ---------------------------
(***************************************************************************)
(* What the transactional outbox promises its publishers, with no rows,    *)
(* leases, workers or clocks: a published event is pending until it is     *)
(* either completed (only after every handler has run for it at least      *)
(* once) or parked; a parked event comes back only through a manual        *)
(* requeue; only completed events are ever deleted.  Delivery is           *)
(* at-least-once: it may be repeated, even after the event is completed,   *)
(* parked or deleted (a slow worker finishing late).                       *)
(***************************************************************************)
CONSTANT Events

VARIABLES
  stage,       \* stage[e]: where the event is in its life
  delivered    \* the events every handler has run for, at least once

dvars == <<stage, delivered>>

Stages == {"unpublished", "pending", "completed", "parked", "deleted"}

DeliveryTypeOK ==
  /\ stage \in [Events -> Stages]
  /\ delivered \subseteq Events

DeliveryInit ==
  /\ stage = [e \in Events |-> "unpublished"]
  /\ delivered = {}

(* Every event of S, all at stage "from", moves to stage "to". *)
Move(S, from, to) ==
  /\ \A e \in S : stage[e] = from
  /\ stage' = [e \in Events |-> IF e \in S THEN to ELSE stage[e]]
  /\ UNCHANGED delivered

PublishEvent(e) == Move({e}, "unpublished", "pending")

Deliver(e) ==
  /\ stage[e] # "unpublished"
  /\ delivered' = delivered \cup {e}
  /\ UNCHANGED stage

Complete(e) == e \in delivered /\ Move({e}, "pending", "completed")

Park(S) == Move(S, "pending", "parked")

Unpark(e) == Move({e}, "parked", "pending")

Delete(S) == Move(S, "completed", "deleted")

DeliveryNext ==
  \/ \E e \in Events :
       PublishEvent(e) \/ Deliver(e) \/ Complete(e) \/ Unpark(e)
  \/ \E S \in SUBSET Events : Park(S) \/ Delete(S)

DeliverySpec == DeliveryInit /\ [][DeliveryNext]_dvars
=============================================================================

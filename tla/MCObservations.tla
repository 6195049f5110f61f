---------------------------- MODULE MCObservations ----------------------------
(* One page capture, one agent capture above the cap; three calls.           *)
EXTENDS Observations, TLC

CONSTANTS p1, p2, p3, c1, a1, m1, m2

MCMenu == p1 :> {"submit"} @@ p2 :> {"submit", "confirm", "reject"}
          @@ p3 :> Ops \ {"submit", "confirm", "reject"}
Alike == Permutations(Members)
MCReading == c1 :> 1 @@ a1 :> 20
===============================================================================

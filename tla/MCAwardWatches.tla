----------------------------- MODULE MCAwardWatches -----------------------------
(* Two runs over two watches of two owners, a threshold between the rates.     *)
EXTENDS AwardWatches, TLC

CONSTANTS w1, w2, u1, u2, r1, r2

MCOwner == w1 :> u1 @@ w2 :> u2
Symmetric == Permutations({r1, r2})
=================================================================================

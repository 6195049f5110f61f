------------------------------- MODULE MCRollout -------------------------------
(* A release and the next one, and a branch whose file is younger than the     *)
(* next one's.                                                                 *)
EXTENDS Rollout, TLC

CONSTANTS r1, r2, h1, main, next, branch, m0, m1, b1

MCManifest == [c \in Candidates |-> CASE c = main -> {m0} [] c = next -> {m0, m1}
                                      [] OTHER -> {m0, b1}]
MCWhen == [m \in Migrations |-> CASE m = m0 -> 0 [] m = m1 -> 1 [] OTHER -> 2]

ReleaseSymmetry == Permutations(Releases)
================================================================================

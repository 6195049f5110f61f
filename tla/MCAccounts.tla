------------------------------- MODULE MCAccounts -------------------------------
(* Two programs and a goal over both; readings, syncs and edits against        *)
(* unlinks and purges, goals against imports.                                  *)
EXTENDS Accounts, TLC

CONSTANTS c1, c2, c3, g1, m1, m2

On(op, on, g, m) == [op |-> op, on |-> on, goal |-> g, member |-> m]

MCMenu ==
     c1 :> {On("record", {1}, None, None), On("sync", {1}, None, None),
            On("goal", {1, 2}, g1, None)}
  @@ c2 :> {On("edit", {1}, None, m2), On("expire", {1}, None, None),
            On("unlink", {1}, None, None), On("restore", {1}, None, None),
            On("import", {1, 2}, None, m1), On("rename", {}, g1, None),
            On("goal", {1}, g1, None)}
  @@ c3 :> {On("purge", {}, None, None), On("link", {1}, None, m1),
            On("drop", {}, g1, None)}
=================================================================================

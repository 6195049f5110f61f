------------------------------ MODULE MCWebProcess ------------------------------
(* Two owners; two calls that chat, one that reads and writes.                 *)
EXTENDS WebProcess, TLC

CONSTANTS r1, r2, r3, u1, u2

MCMenu == r1 :> {<<"chat", u1>>}
          @@ r2 :> {<<"chat", u1>>, <<"chat", u2>>}
          @@ r3 :> {<<"write", u1>>, <<"read", u1>>}
=================================================================================

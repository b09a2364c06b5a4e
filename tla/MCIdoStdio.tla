----------------------------- MODULE MCIdoStdio -----------------------------
(* Two streams beside the three first ones, and two files for them.         *)
EXTENDS IdoStdio, TLC

MCStd == 0 :> "in" @@ 1 :> "out" @@ 2 :> "err"
=============================================================================

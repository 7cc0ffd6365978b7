------------------------------ MODULE MCRunTask ------------------------------
(* Three pairs, the first and the last of which set the same variable, one  *)
(* session beside the runs without one, two processes and three turns.      *)
EXTENDS RunTask, TLC

CONSTANTS a, b, c, k1, k2

MCPlan == <<a, b, c>>
MCKeyOf == a :> k1 @@ b :> k2 @@ c :> k1
=============================================================================

------------------------------ MODULE TokenCustody ------------------------------
(***************************************************************************)
(* What the broker promises about stateful credentials, whatever clients,  *)
(* sweeps, lost answers and restarts do: a token is issued once and dies   *)
(* once, the broker tracks only tokens that were issued, and it stops      *)
(* tracking a token only after the token died.                             *)
(***************************************************************************)
CONSTANT Handle

VARIABLES fate,    \* what became of each token at its provider
          tracked  \* tokens a sweep would still find

vars == <<fate, tracked>>

Init ==
  /\ fate = [h \in Handle |-> "unissued"]
  /\ tracked = {}

Issue(h) ==
  /\ fate[h] = "unissued"
  /\ fate' = [fate EXCEPT ![h] = "live"]
  /\ UNCHANGED tracked

Die(h) ==
  /\ fate[h] = "live"
  /\ fate' = [fate EXCEPT ![h] = "dead"]
  /\ UNCHANGED tracked

Track(h) ==
  /\ fate[h] # "unissued"
  /\ tracked' = tracked \cup {h}
  /\ UNCHANGED fate

Drop(h) ==
  /\ fate[h] = "dead"
  /\ tracked' = tracked \ {h}
  /\ UNCHANGED fate

Next == \E h \in Handle : Issue(h) \/ Die(h) \/ Track(h) \/ Drop(h)

Spec == Init /\ [][Next]_vars
=============================================================================

------------------------------ MODULE Preflight ------------------------------
(***************************************************************************)
(* What happens before an agent acts: the launch of its container          *)
(* (Launcher) and the provisioning of its credentials with doctor's        *)
(* forecast of it (Providers).  The two share no state, so a behaviour     *)
(* takes one of them through all its cases while the other stays where it  *)
(* started.                                                                *)
(***************************************************************************)
EXTENDS Launcher, Providers

vars == <<launchVars, providerVars>>

CONSTANT IdleWorld   \* where Providers stays while a launch is looked at
ASSUME IdleAssumption == WorldOK(IdleWorld)
IdleMount == [source |-> "broken", within |-> FALSE, target |-> FALSE]

Init ==
  \/ LaunchInit /\ ProvidersStart(IdleWorld)
  \/ mount = IdleMount /\ LaunchInit /\ \E w \in Worlds : ProvidersStart(w)

Next ==
  \/ mount # IdleMount /\ LaunchNext /\ UNCHANGED providerVars
  \/ mount = IdleMount /\ ProvidersNext /\ UNCHANGED launchVars

Spec == Init /\ [][Next]_vars

TypeOK == LaunchTypeOK /\ ProvidersTypeOK
=============================================================================

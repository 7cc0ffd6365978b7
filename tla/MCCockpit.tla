---- MODULE MCCockpit ----
(* Cockpit on two threads.                                                   *)
EXTENDS Cockpit

CONSTANTS t1, t2, r1, r2
====

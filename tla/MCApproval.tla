---- MODULE MCApproval ----
(* ApprovalLoop on requests that all race for one thread.                    *)
EXTENDS ApprovalLoop

CONSTANTS r1, r2, t1

OneThread == [r \in Request |-> t1]
====

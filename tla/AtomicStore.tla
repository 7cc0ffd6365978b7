----------------------------- MODULE AtomicStore -----------------------------
(***************************************************************************)
(* What CheckpointStore (patterns/checkpoint.py) promises of a session's   *)
(* checkpoint: a save that is cut short, by an error or by the end of the  *)
(* process, leaves the checkpoint as it was, and a reader sees a whole     *)
(* checkpoint or none.                                                     *)
(***************************************************************************)
CONSTANTS Session, Value, None

VARIABLES store,    \* the checkpoint of each session, or None
          pending   \* what a save in progress will store, or None

Init == store = [s \in Session |-> None] /\ pending = [s \in Session |-> None]

Begin(s, v) ==
  /\ pending[s] = None
  /\ pending' = [pending EXCEPT ![s] = v]
  /\ UNCHANGED store

Commit(s) ==
  /\ pending[s] # None
  /\ store' = [store EXCEPT ![s] = pending[s]]
  /\ pending' = [pending EXCEPT ![s] = None]

Abandon(s) ==
  /\ pending[s] # None
  /\ pending' = [pending EXCEPT ![s] = None]
  /\ UNCHANGED store

Erase(s) ==
  /\ pending[s] = None
  /\ store' = [store EXCEPT ![s] = None]
  /\ UNCHANGED pending

Next == \E s \in Session :
          (\E v \in Value : Begin(s, v)) \/ Commit(s) \/ Abandon(s) \/ Erase(s)

Spec == Init /\ [][Next]_<<store, pending>>
=============================================================================

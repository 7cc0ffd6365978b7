------------------------------ MODULE OperatorGate ------------------------------
(***************************************************************************)
(* Who may drive a privileged action: click_authorized                     *)
(* (cockpit/transports/base.py), shared by /approve, /deny and /kill.      *)
(***************************************************************************)
CONSTANTS
  None,             \* no request, no container, no operator configured
  Sender,           \* identities that may post a command
  OperatorId,       \* the configured operator, or None
  RequireOperator   \* the cockpit's fail-closed switch

ASSUME OperatorAssumption ==
  /\ None \notin Sender
  /\ OperatorId \in Sender \cup {None}
  /\ RequireOperator \in BOOLEAN

\* click_authorized.
Authorized(sender) ==
  IF OperatorId = None THEN ~RequireOperator ELSE sender = OperatorId
=============================================================================

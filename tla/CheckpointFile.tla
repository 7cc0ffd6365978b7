---------------------------- MODULE CheckpointFile ----------------------------
(***************************************************************************)
(* FileCheckpointStore (patterns/checkpoint.py): one file per session,     *)
(* published by writing a temporary file and renaming it.  A session has   *)
(* one writer at a time, as the store's contract says.                     *)
(*                                                                         *)
(* A step is one system call.  The process may die between two of them;    *)
(* a machine that loses what it did not flush is not modelled, the store   *)
(* calls no fsync.                                                         *)
(***************************************************************************)
CONSTANTS Session, Value,
          None,   \* no file
          Torn    \* a file whose content is not a whole checkpoint

ASSUME StoreAssumption == None \notin Value /\ Torn \notin Value /\ None # Torn

VARIABLES file,    \* what is under each session's name
          temp,    \* content of the temporary file of the save in progress
          saving,  \* what that save will store, or None
          stray    \* checkpoints whose temporary file nobody will remove

storeVars == <<file, temp, saving, stray>>

StoreTypeOK ==
  /\ file \in [Session -> Value \cup {None, Torn}]
  /\ temp \in [Session -> Value \cup {None, Torn}]
  /\ saving \in [Session -> Value \cup {None}]
  /\ stray \subseteq Value

StoreInit ==
  /\ file = [s \in Session |-> None]
  /\ temp = [s \in Session |-> None]
  /\ saving = [s \in Session |-> None]
  /\ stray = {}

\* mkstemp: an empty temporary file.  If it raises nothing has happened.
SaveBegin(s, v) ==
  /\ saving[s] = None
  /\ saving' = [saving EXCEPT ![s] = v]
  /\ temp' = [temp EXCEPT ![s] = Torn]
  /\ UNCHANGED <<file, stray>>

\* The payload is written and the file closed.
SaveWritten(s) ==
  /\ saving[s] # None /\ temp[s] = Torn
  /\ temp' = [temp EXCEPT ![s] = saving[s]]
  /\ UNCHANGED <<file, saving, stray>>

\* Mutant: the rename does not wait for the content.
SaveReplaceEarly(s) ==
  /\ saving[s] # None
  /\ file' = [file EXCEPT ![s] = temp[s]]
  /\ temp' = [temp EXCEPT ![s] = None]
  /\ saving' = [saving EXCEPT ![s] = None]
  /\ UNCHANGED stray

\* os.replace
SaveReplace(s) ==
  /\ saving[s] # None /\ temp[s] = saving[s]
  /\ file' = [file EXCEPT ![s] = temp[s]]
  /\ temp' = [temp EXCEPT ![s] = None]
  /\ saving' = [saving EXCEPT ![s] = None]
  /\ UNCHANGED stray

\* The write or the rename raised: the temporary file is unlinked, and an
\* unlink that fails is suppressed.
SaveFails(s, unlinked) ==
  /\ saving[s] # None
  /\ stray' = IF unlinked THEN stray ELSE stray \cup {saving[s]}
  /\ temp' = [temp EXCEPT ![s] = None]
  /\ saving' = [saving EXCEPT ![s] = None]
  /\ UNCHANGED file

\* The process dies: a save in progress leaves its temporary file.
SavesLost ==
  /\ stray' = stray \cup {saving[s] : s \in {s \in Session : saving[s] # None}}
  /\ temp' = [s \in Session |-> None]
  /\ saving' = [s \in Session |-> None]
  /\ UNCHANGED file

\* delete is idempotent; if it raises nothing has happened.
Delete(s) ==
  /\ saving[s] = None
  /\ file' = [file EXCEPT ![s] = None]
  /\ UNCHANGED <<temp, saving, stray>>

\* What load may meet: no file, a checkpoint, or (Torn, a CheckpointError) a file
\* that cannot be decoded, or at the moment not read.
Loads(s) == {file[s], Torn}
=============================================================================

------------------------- MODULE BootstrapExperiment -------------------------
(***************************************************************************)
(* The live A/B experiment on the memory cloud: run_experiment             *)
(* (eval/bootstrap_ab.py) over RestBootstrapBackend and                    *)
(* CommandObjectiveActor (eval/bootstrap_live.py).                         *)
(*                                                                         *)
(* run_experiment is one coroutine.  Every request runs in a worker thread *)
(* (asyncio.to_thread): asyncio.gather raises at the first failure and a   *)
(* cancelled await returns at once, but the other threads run on.  An      *)
(* action is what the coroutine does between two awaits, or one trip of a  *)
(* thread.                                                                 *)
(*                                                                         *)
(* A trial stands for a (task, repetition) pair; a generation may take its *)
(* trials in any order.  Scores only matter to the verdict, which is       *)
(* computed from the records of a finished run and not modelled.           *)
(***************************************************************************)
EXTENDS LiveRequest, FiniteSets, Sequences

CONSTANTS Trial,        \* (task, repetition) pairs of one generation
          Memory,       \* logical ids of the snapshot
          Candidates,   \* candidate_memory_ids of each trial's task
          Generations,  \* manifest.generations
          ActorRetries, \* CommandObjectiveActor.retries
          Variant,      \* distinguishable policies and payloads of a server
          None

ASSUME ExperimentAssumption ==
  /\ Candidates \in [Trial -> SUBSET Memory]
  /\ Generations \in Nat /\ Generations >= 2
  /\ ActorRetries \in Nat /\ IsFiniteSet(Memory)
  /\ None \notin Trial \cup Memory

Control   == "control"
Treatment == "treatment"
Arm       == {Control, Treatment}
Other(arm) == CHOOSE b \in Arm : b # arm

\* ArmHandle.feedback_influence: what prepare pins reinforce_enabled to.
Influence(arm) == arm = Treatment

Slot == {"pin", "restore", "bootstrap", "feedback"} \X Arm
Event == (0..(Generations - 1)) \X Trial \X Memory

VARIABLES
  phase,     \* where run_experiment stands
  config,    \* search configuration of each arm's context, at the server
  saved,     \* _original_search_configs is not empty
  late,      \* history: arms whose pinning PUT still ran when prepare gave up
  req,       \* the request of each worker thread
  gen,       \* the current generation
  todo,      \* its trials not yet started
  cur,       \* the trial in progress
  env,       \* the control envelope of the trial, or None
  pair,      \* what the trial keeps of its two envelopes
  outcomes,  \* arms whose actor has been scored
  tries,     \* attempt of CommandObjectiveActor.run
  pending,   \* pending_feedback: <<trial, labels>>
  written,   \* writes of its first signal that were acknowledged
  target,    \* the event the current feedback request carries
  journal,   \* feedback events at the server, by arm
  repeated,  \* arms whose append-only journal holds one of its events twice
  records,   \* TrialRecords
  degraded,  \* trials of this generation a record of which is degraded
  cancelled  \* the run was interrupted once

configVars == <<config, saved, late>>
locals     == <<gen, todo, cur, env, pair, outcomes, tries, pending, written,
                records, degraded>>
trialVars  == <<locals, target>>
journals   == <<journal, repeated>>
vars == <<phase, configVars, req, trialVars, journals, cancelled>>

-----------------------------------------------------------------------------
(* BootstrapEnvelope and the checks on it.                                 *)

\* own: the agent and context ids are the handle's.  other: a component that
\* is not recall failed.  contract: the selection policy without seed and
\* reinforce_enabled; common: what non_ranking_fingerprint covers.
Envelope ==
  [own : BOOLEAN, recall : {"ok", "error", "skipped"}, other : BOOLEAN,
   declared : BOOLEAN, policy : {"none", "registered", "unregistered"},
   reinforce : BOOLEAN, declaredP : {"absent", "valid", "invalid"},
   perRecordP : BOOLEAN, contract : Variant, common : Variant,
   selected : SUBSET Memory]

Degraded(e) == e.recall = "error" \/ e.other

\* BootstrapEnvelope.__post_init__
WellFormed(e) == e.recall # "skipped" /\ e.declared = Degraded(e)

\* selection_probabilities() is not None: an envelope with no record and no
\* declared map has the empty map, not None.
HasProbabilities(e) ==
  \/ e.declaredP = "valid"
  \/ e.declaredP = "absent" /\ (e.selected = {} \/ e.perRecordP)

\* _validated_selection_policy does not raise.
PolicyValid(e, arm) ==
  IF e.recall = "ok"
  THEN e.policy = "registered" /\ e.reinforce = Influence(arm)
  ELSE e.policy = "none" /\ ~HasProbabilities(e)

\* What the pair checks and the labels use of an envelope; one whose stamp will
\* be refused has nothing they look at.
Rejected == [recall |-> "rejected"]
Kept(e, arm) ==
  IF PolicyValid(e, arm)
  THEN [recall |-> e.recall, degraded |-> Degraded(e), contract |-> e.contract,
        common |-> e.common, selected |-> e.selected]
  ELSE Rejected

\* What bootstrap can return for an arm under configuration c: the server stamps
\* the reinforce_enabled it ranks with.
Bootstraps ==
  [arm \in Arm |-> [c \in {"original", "pinned"} |->
     {Kept(e, arm) : e \in {e \in Envelope : /\ WellFormed(e) /\ e.own
                                             /\ c = "pinned" => e.reinforce = Influence(arm)}}]]

\* Both replay stamps are valid and the envelopes comparable outside ranking.
Comparable(c, t) ==
  /\ c # Rejected /\ t # Rejected
  /\ c.recall = "ok" /\ t.recall = "ok" => c.contract = t.contract
  /\ c.common = t.common

-----------------------------------------------------------------------------

TypeOK ==
  /\ phase \in {"new", "pinning", "unpinning", "bootstrap", "acting",
                "feedback", "closing", "done", "failed"}
  /\ config \in [Arm -> {"original", "pinned"}]
  /\ saved \in BOOLEAN /\ late \subseteq Arm /\ cancelled \in BOOLEAN
  /\ req \in [Slot -> Request]
  /\ gen \in 0..Generations
  /\ todo \subseteq Trial
  /\ cur \in Trial \cup {None}
  /\ env = None \/ env \in Bootstraps[Control]["original"]
  /\ pair = None \/ pair \in [labels : SUBSET Memory, degraded : BOOLEAN]
  /\ outcomes \subseteq Arm
  /\ tries \in 0..ActorRetries
  /\ pending \in Seq(Trial \X SUBSET Memory)
  /\ written \subseteq Arm \X Memory
  /\ target \in Event \cup {None}
  /\ journal \in [Arm -> SUBSET Event] /\ repeated \subseteq Arm
  /\ records \subseteq [gen : 0..(Generations - 1), trial : Trial, arm : Arm, writes : Nat]
  /\ degraded \subseteq Trial

Init ==
  /\ phase = "new"
  /\ config = [arm \in Arm |-> "original"]
  /\ saved = FALSE /\ late = {} /\ cancelled = FALSE
  /\ req = [s \in Slot |-> NoRequest]
  /\ gen = 0 /\ todo = Trial /\ cur = None
  /\ env = None /\ pair = None /\ outcomes = {} /\ tries = 0
  /\ pending = <<>> /\ written = {} /\ target = None
  /\ journal = [arm \in Arm |-> {}] /\ repeated = {}
  /\ records = {} /\ degraded = {}

-----------------------------------------------------------------------------
(* A worker thread makes one trip.                                         *)

\* What the server does with a request: a PUT sets the configuration, feedback is
\* appended to the journal, a bootstrap only reads.
TripEffect(kind, arm) ==
  /\ config' = IF kind = "pin" THEN [config EXCEPT ![arm] = "pinned"]
               ELSE IF kind = "restore" THEN [config EXCEPT ![arm] = "original"] ELSE config
  /\ IF kind = "feedback"
     THEN /\ journal' = [journal EXCEPT ![arm] = @ \cup {target}]
          /\ repeated' = IF target \in journal[arm] THEN repeated \cup {arm} ELSE repeated
     ELSE UNCHANGED journals

\* The server answers 2xx to feedback only once it is journalled; nobody looks at the
\* body.
Trip(kind, arm, a) ==
  /\ kind = "feedback" => a # "mismatch"
  /\ req[<<kind, arm>>].st = "running"
  /\ req' = [req EXCEPT ![<<kind, arm>>] = AfterTrip(@, a)]
  /\ IF a \in TookEffect THEN TripEffect(kind, arm) ELSE UNCHANGED <<config, journals>>
  /\ UNCHANGED <<phase, saved, late, trialVars, cancelled>>

-----------------------------------------------------------------------------
(* prepare and close *)

\* The start of the two PUTs of _restore_search_configs, which a gather awaits.
StartRestore ==
  req' = [s \in Slot |-> IF s[1] = "restore" THEN NewRequest ELSE req[s]]

\* run_experiment and prepare up to the PUTs.  The exports and the search
\* configurations are only read, so what they must satisfy is one choice.
Prepare ==
  /\ phase = "new"
  /\ \E ok \in BOOLEAN :
       IF ok
       THEN /\ phase' = "pinning" /\ saved' = TRUE
            /\ req' = [s \in Slot |-> IF s[1] = "pin" THEN NewRequest ELSE req[s]]
       ELSE phase' = "failed" /\ UNCHANGED <<saved, req>>
  /\ UNCHANGED <<config, late, trialVars, journals, cancelled>>

\* Both contexts echo the pinned configuration: the experiment starts.
Pinned ==
  /\ phase = "pinning"
  /\ \A arm \in Arm : req[<<"pin", arm>>].st = "ok"
  /\ phase' = "bootstrap"
  /\ req' = [s \in Slot |-> NoRequest]
  /\ UNCHANGED <<configVars, trialVars, journals, cancelled>>

\* The PUTs that are still under way when prepare gives up; nobody awaits them.
Pinning == {arm \in Arm : req[<<"pin", arm>>].st = "running"}

\* A PUT raised, or both are back and one context did not apply it: prepare
\* restores both contexts and raises.
PinFails ==
  /\ phase = "pinning"
  /\ \/ \E arm \in Arm : req[<<"pin", arm>>].st = "raised"
     \/ /\ \A arm \in Arm : req[<<"pin", arm>>].st \in Succeeds
        /\ \E arm \in Arm : req[<<"pin", arm>>].st = "mismatch"
  /\ phase' = "unpinning" /\ late' = Pinning
  /\ StartRestore
  /\ UNCHANGED <<config, saved, trialVars, journals, cancelled>>

\* Mutant: the saved configurations are dropped whatever the PUTs did.
RestoredAnyhow ==
  /\ phase \in {"unpinning", "closing"}
  /\ \E arm \in Arm : req[<<"restore", arm>>].st \in Succeeds
  /\ saved' = FALSE
  /\ phase' = IF phase = "closing" /\ gen = Generations THEN "done" ELSE "failed"
  /\ UNCHANGED <<config, late, req, trialVars, journals, cancelled>>

\* Mutant: an aborted run returns what it has.
RestoredAsDone ==
  /\ phase \in {"unpinning", "closing"}
  /\ \A arm \in Arm : req[<<"restore", arm>>].st \in Succeeds
  /\ saved' = FALSE
  /\ phase' = IF phase = "closing" THEN "done" ELSE "failed"
  /\ UNCHANGED <<config, late, req, trialVars, journals, cancelled>>

\* Both PUTs of _restore_search_configs are acknowledged.  Their bodies are
\* not looked at.
Restored ==
  /\ phase \in {"unpinning", "closing"}
  /\ \A arm \in Arm : req[<<"restore", arm>>].st \in Succeeds
  /\ saved' = FALSE
  /\ phase' = IF phase = "closing" /\ gen = Generations THEN "done" ELSE "failed"
  /\ UNCHANGED <<config, late, req, trialVars, journals, cancelled>>

\* One of them raises: the originals stay saved, and nobody retries.
RestoreFails ==
  /\ phase \in {"unpinning", "closing"}
  /\ \E arm \in Arm : req[<<"restore", arm>>].st = "raised"
  /\ phase' = "failed"
  /\ UNCHANGED <<configVars, req, trialVars, journals, cancelled>>

-----------------------------------------------------------------------------
(* One trial *)

\* An exception in the body of run_experiment: the finally runs, and the
\* generation, its records and the pending feedback are lost.
Unwind ==
  /\ gen' = 0 /\ todo' = {} /\ cur' = None
  /\ env' = None /\ pair' = None /\ outcomes' = {} /\ tries' = 0
  /\ pending' = <<>> /\ written' = {} /\ records' = {} /\ degraded' = {}

Abort ==
  /\ phase' = "closing"
  /\ StartRestore
  /\ Unwind
  /\ UNCHANGED <<configVars, target, journals, cancelled>>

\* A bootstrap or a feedback request raised.
RequestRaises ==
  /\ \/ phase = "bootstrap" /\ \E arm \in Arm : req[<<"bootstrap", arm>>].st = "raised"
     \/ phase = "feedback" /\ \E arm \in Arm : req[<<"feedback", arm>>].st = "raised"
  /\ Abort

Ask(arm) == req' = [req EXCEPT ![<<"bootstrap", arm>>] = NewRequest]

\* The next trial of the generation bootstraps the control arm first.
StartTrial(t) ==
  /\ phase = "bootstrap" /\ cur = None
  /\ t \in todo
  /\ cur' = t /\ todo' = todo \ {t}
  /\ Ask(Control)
  /\ UNCHANGED <<phase, configVars, gen, env, pair, outcomes, tries, pending, written,
                 target, records, degraded, journals, cancelled>>

\* The control arm is back and treatment is asked.  An envelope that is
\* malformed, or resolved outside the arm's agent and context, raises at once.
ControlBack ==
  /\ phase = "bootstrap" /\ req[<<"bootstrap", Control>>].st = "ok"
  /\ env' \in Bootstraps[Control][config[Control]]
  /\ req' = [req EXCEPT ![<<"bootstrap", Control>>] = NoRequest,
                        ![<<"bootstrap", Treatment>>] = NewRequest]
  /\ UNCHANGED <<phase, configVars, gen, todo, cur, pair, outcomes, tries, pending, written,
                 target, records, degraded, journals, cancelled>>

Unusable ==
  /\ phase = "bootstrap"
  /\ \E arm \in Arm : req[<<"bootstrap", arm>>].st = "mismatch"
  /\ Abort

\* Mutant: only the control arm's health decides.
LabelsOfControl(c, t) ==
  IF c.degraded THEN {} ELSE Candidates[cur] \cap (c.selected \cup t.selected)

\* The labels of a trial: the candidates some arm recalled, if no arm degraded.
Labels(c, t) ==
  IF c.degraded \/ t.degraded THEN {}
  ELSE Candidates[cur] \cap (c.selected \cup t.selected)

\* Treatment is back: the stamps and the two envelopes are compared, and the
\* actors start, in an order the seed decides.
TreatmentBack ==
  /\ phase = "bootstrap" /\ req[<<"bootstrap", Treatment>>].st = "ok"
  /\ \E e \in Bootstraps[Treatment][config[Treatment]] :
       /\ Comparable(env, e)
       /\ pair' = [labels |-> Labels(env, e), degraded |-> env.degraded \/ e.degraded]
  /\ phase' = "acting" /\ env' = None
  /\ req' = [req EXCEPT ![<<"bootstrap", Treatment>>] = NoRequest]
  /\ UNCHANGED <<configVars, gen, todo, cur, outcomes, tries, pending, written, target,
                 records, degraded, journals, cancelled>>

NotComparable ==
  /\ phase = "bootstrap" /\ req[<<"bootstrap", Treatment>>].st = "ok"
  /\ \E e \in Bootstraps[Treatment][config[Treatment]] : ~Comparable(env, e)
  /\ Abort

\* Mutant: one attempt too many.
ActorRetriedOnceMore ==
  /\ phase = "acting" /\ tries <= ActorRetries
  /\ tries' = tries + 1
  /\ UNCHANGED <<phase, req, configVars, gen, todo, cur, env, pair, outcomes, pending,
                 written, target, records, degraded, journals, cancelled>>

\* CommandObjectiveActor.run: one invocation that fails or is killed at its
\* timeout is tried again, up to the actor's own budget.
ActorRetried ==
  /\ phase = "acting" /\ tries < ActorRetries
  /\ tries' = tries + 1
  /\ UNCHANGED <<phase, req, configVars, gen, todo, cur, env, pair, outcomes, pending,
                 written, target, records, degraded, journals, cancelled>>

ActorFails == phase = "acting" /\ tries = ActorRetries /\ Abort

\* An actor's answer is scored.  After the second, both records are kept and
\* the labels, if any, wait for the end of the generation.
ActorScores(arm) ==
  /\ phase = "acting" /\ arm \notin outcomes
  /\ tries' = 0
  /\ IF outcomes = {}
     THEN outcomes' = {arm} /\ UNCHANGED <<phase, cur, pair, pending, records, degraded>>
     ELSE /\ outcomes' = {}
          /\ records' = records \cup
               [gen : {gen}, trial : {cur}, arm : Arm, writes : {0}]
          /\ degraded' = IF pair.degraded THEN degraded \cup {cur} ELSE degraded
          /\ pending' = IF pair.labels = {} THEN pending
                        ELSE Append(pending, <<cur, pair.labels>>)
          /\ cur' = None /\ pair' = None
          /\ phase' = IF todo = {} THEN "feedback" ELSE "bootstrap"
  /\ UNCHANGED <<configVars, req, gen, todo, env, written, target, journals, cancelled>>

-----------------------------------------------------------------------------
(* Feedback, after all trials of the generation *)

\* Mutant: what was acknowledged is not told from what is left to write.
UnwrittenAll(arm) == Head(pending)[2]

\* The control journal gets all writes of a signal before the treatment's.
Unwritten(arm) == {m \in Head(pending)[2] : <<arm, m>> \notin written}
Writing == \E arm \in Arm : req[<<"feedback", arm>>].st # "idle"

Write(arm, m) ==
  /\ phase = "feedback" /\ pending # <<>> /\ ~Writing
  /\ m \in Unwritten(arm)
  /\ arm = Treatment => Unwritten(Control) = {}
  /\ target' = <<gen, Head(pending)[1], m>>
  /\ req' = [req EXCEPT ![<<"feedback", arm>>] = NewRequest]
  /\ UNCHANGED <<phase, configVars, gen, todo, cur, env, pair, outcomes, tries, pending,
                 written, records, degraded, journals, cancelled>>

\* A write is acknowledged; the last one of an arm sets feedback_writes of its
\* record, the last one of the signal takes it off the list.
Written(arm) ==
  LET labels == Head(pending)[2]
      all == written \cup {<<arm, target[3]>>} IN
  /\ phase = "feedback" /\ req[<<"feedback", arm>>].st \in Succeeds
  /\ req' = [req EXCEPT ![<<"feedback", arm>>] = NoRequest]
  /\ target' = None
  /\ records' =
       IF Unwritten(arm) # {target[3]} THEN records
       ELSE {IF r.gen = gen /\ r.trial = Head(pending)[1] /\ r.arm = arm
             THEN [r EXCEPT !.writes = Cardinality(labels)] ELSE r : r \in records}
  /\ IF Arm \X labels \subseteq all
     THEN pending' = Tail(pending) /\ written' = {}
     ELSE written' = all /\ UNCHANGED pending
  /\ UNCHANGED <<phase, configVars, gen, todo, cur, env, pair, outcomes, tries, degraded,
                 journals, cancelled>>

\* Mutant: the next generation starts before its feedback is applied.
NextGenerationEarly ==
  /\ phase = "feedback"
  /\ gen' = gen + 1 /\ degraded' = {}
  /\ IF gen + 1 < Generations
     THEN phase' = "bootstrap" /\ todo' = Trial /\ UNCHANGED req
     ELSE phase' = "closing" /\ StartRestore /\ UNCHANGED todo
  /\ UNCHANGED <<configVars, cur, env, pair, outcomes, tries, pending, written, target,
                 records, journals, cancelled>>

\* All signals are applied: the next generation, or the finally.
NextGeneration ==
  /\ phase = "feedback" /\ pending = <<>>
  /\ gen' = gen + 1 /\ degraded' = {}
  /\ IF gen + 1 < Generations
     THEN phase' = "bootstrap" /\ todo' = Trial /\ UNCHANGED req
     ELSE phase' = "closing" /\ StartRestore /\ UNCHANGED todo
  /\ UNCHANGED <<configVars, cur, env, pair, outcomes, tries, pending, written, target,
                 records, journals, cancelled>>

-----------------------------------------------------------------------------

\* The operator interrupts the run: the awaiting coroutine is cancelled, its
\* threads are not.  A cancelled restore is not tried again.
Interrupt ==
  /\ ~cancelled /\ cancelled' = TRUE
  /\ late' = IF phase = "pinning" THEN Pinning ELSE late
  /\ \/ phase \in {"new", "unpinning", "closing"} /\ phase' = "failed" /\ UNCHANGED req
     \/ phase = "pinning" /\ phase' = "unpinning" /\ StartRestore
     \/ phase \in {"bootstrap", "acting", "feedback"} /\ phase' = "closing" /\ StartRestore
  /\ Unwind
  /\ UNCHANGED <<config, saved, target, journals>>

Thread == \E s \in Slot, a \in Answer : Trip(s[1], s[2], a)

Coroutine ==
  \/ Prepare \/ Pinned \/ PinFails \/ Restored \/ RestoreFails
  \/ RequestRaises \/ Unusable
  \/ \E t \in Trial : StartTrial(t)
  \/ ControlBack \/ TreatmentBack \/ NotComparable
  \/ ActorRetried \/ ActorFails \/ \E arm \in Arm : ActorScores(arm)
  \/ \E arm \in Arm, m \in Memory : Write(arm, m)
  \/ \E arm \in Arm : Written(arm)
  \/ NextGeneration

Next == Thread \/ Coroutine \/ Interrupt

\* Every trip ends by the client's timeout and every actor by its own, so both
\* the threads and the coroutine go on while they can.
Spec == Init /\ [][Next]_vars /\ WF_vars(Thread) /\ WF_vars(Coroutine)

-----------------------------------------------------------------------------

Scoring == phase \in {"bootstrap", "acting"}

\* "A generation is a clean policy snapshot": trials and feedback happen only under
\* the registered ranking at the server, off for control and on for treatment, and
\* while a generation is scored the two journals have the same events, all of
\* earlier generations, and every signal of those generations was applied.  How often
\* a journal has an event is OnlyRetriesRepeat's matter.
CleanGeneration ==
  /\ phase \in {"bootstrap", "acting", "feedback"} =>
       \A arm \in Arm : config[arm] = "pinned"
  /\ Scoring =>
       /\ journal[Control] = journal[Treatment]
       /\ \A e \in journal[Control] : e[1] < gen
       /\ \A r \in records : r.gen < gen =>
            r.writes = Cardinality({e \in journal[r.arm] : e[1] = r.gen /\ e[2] = r.trial})

\* Feedback is sent, and the journals hold feedback, only for candidates of a
\* trial both arms of which are scored and neither degraded.
CleanPair(e) ==
  /\ e[3] \in Candidates[e[2]]
  /\ \A arm \in Arm : \E r \in records : r.gen = e[1] /\ r.trial = e[2] /\ r.arm = arm
  /\ e[1] = gen => e[2] \notin degraded
FeedbackHasCleanPair ==
  phase \in {"bootstrap", "acting", "feedback", "done"} =>
    /\ target # None => CleanPair(target)
    /\ \A arm \in Arm : \A e \in journal[arm] : CleanPair(e)

\* The append-only journals hold an event twice only by a request that was tried
\* again: no signal is applied a second time by run_experiment, whatever failed or was
\* abandoned before, and a first attempt never meets its own event.
OnlyRetriesRepeat ==
  [][\A arm \in repeated' \ repeated : req[<<"feedback", arm>>].attempt > 0]_vars

\* Once the saved configurations are dropped, both contexts rank as they did before the
\* experiment, whatever failed or was interrupted and wherever.  There are two
\* exceptions: a restoring PUT that was acknowledged and did nothing, since its body is
\* not looked at, and a pinning PUT that still ran when prepare gave up.
RestoredAfterRun ==
  ~saved => \A arm \in Arm :
              config[arm] = "original" \/ req[<<"restore", arm>>].st = "mismatch" \/ arm \in late

\* A run that returns a result has both arms of every trial of every generation.
ResultIsPaired ==
  phase = "done" =>
    /\ \A g \in 0..(Generations - 1), t \in Trial, arm \in Arm :
         Cardinality({r \in records : r.gen = g /\ r.trial = t /\ r.arm = arm}) = 1
    /\ \A r, s \in records : r.gen = s.gen /\ r.trial = s.trial => r.writes = s.writes

\* The run ends, with no request left behind.
RunEnds == <>(phase \in {"done", "failed"} /\ \A s \in Slot : req[s].st # "running")

=============================================================================

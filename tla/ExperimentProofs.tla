---------------------------- MODULE ExperimentProofs ----------------------------
(***************************************************************************)
(* The live A/B experiment, proved for any trials, memories, candidates,   *)
(* generations and retries.  RunAdvances, at the end, is the order the     *)
(* coroutine runs in; the four state properties need one invariant:        *)
(*                                                                         *)
(*  - ConfigInv: which PUTs can still be under way, so that none lands on  *)
(*    a configuration the run relies on;                                   *)
(*  - StartInv and StepInv: what the coroutine's locals are at each await; *)
(*  - LiveInv, while the run may still return a result: one record of each *)
(*    arm for every trial that is over (RecordInv), signals that are clean *)
(*    and not yet in a journal (PendingInv), the signal being applied      *)
(*    (HeadInv, WriteInv), and for every other trial two journals that     *)
(*    agree with each other and with its records (SettledInv).             *)
(*                                                                         *)
(* A retry of a write that took effect is why HeadInv allows the journal   *)
(* one event more than is acknowledged, and why Written is the step that   *)
(* settles a trial.                                                        *)
(***************************************************************************)
EXTENDS BootstrapExperiment, FiniteSetTheorems, SequenceTheorems, TLAPS

-----------------------------------------------------------------------------
(* The configurations *)

Running == {"bootstrap", "acting", "feedback"}

\* Until the end of the run no PUT that restores is under way, one that pins and was
\* not awaited is known to be late, and otherwise a PUT whose body says so has done what
\* it was sent for.
ConfigInv ==
  /\ phase = "new" => \A s \in Slot : req[s].st = "idle"
  /\ phase \in Running \cup {"pinning"} =>
       saved /\ \A arm \in Arm : req[<<"restore", arm>>].st = "idle"
  /\ phase = "pinning" =>
       \A arm \in Arm : req[<<"pin", arm>>].st = "ok" => config[arm] = "pinned"
  /\ phase \in Running => \A arm \in Arm : config[arm] = "pinned"
  /\ phase \notin {"new", "pinning"} =>
       \A arm \in Arm : req[<<"pin", arm>>].st = "running" => arm \in late
  /\ \A arm \in Arm : req[<<"restore", arm>>].st = "ok" => config[arm] = "original" \/ arm \in late
  /\ RestoredAfterRun

-----------------------------------------------------------------------------
(* The trials *)

\* The run's locals are those of a run that may still return a result.
Live == phase \in Running \/ (phase \in {"closing", "done"} /\ gen = Generations)

\* Trials of the current generation that have no record yet.
Open == {t \in Trial : t \in todo \/ t = cur}
Busy(arm) == req[<<"feedback", arm>>].st # "idle"
Events(arm, g, t) == {e \in journal[arm] : e[1] = g /\ e[2] = t}

StartInv ==
  phase \in {"new", "pinning"} =>
    /\ gen = 0 /\ todo = Trial /\ cur = None /\ pending = <<>> /\ written = {}
    /\ target = None /\ journal = [arm \in Arm |-> {}] /\ records = {} /\ degraded = {}
    /\ \A arm \in Arm : ~Busy(arm)

StepInv ==
  /\ cur \notin todo
  /\ \A arm \in Arm : Busy(arm) => target \in Event /\ ~Busy(Other(arm))
  /\ phase \in Running => gen < Generations
  /\ phase = "bootstrap" =>
       /\ req[<<"bootstrap", Treatment>>].st # "idle" => req[<<"bootstrap", Control>>].st = "idle"
       /\ \A arm \in Arm : req[<<"bootstrap", arm>>].st # "idle" => cur # None
  /\ phase \in {"acting", "feedback"} => \A arm \in Arm : req[<<"bootstrap", arm>>].st = "idle"
  /\ phase = "acting" => /\ cur # None /\ pair.labels \subseteq Candidates[cur]
                         /\ pair.degraded => pair.labels = {}
  /\ Live /\ phase \notin {"bootstrap", "acting"} => todo = {} /\ cur = None
  /\ Live /\ phase \notin Running => pending = <<>>
  /\ phase = "done" => gen = Generations

\* One record of each trial that is over, by arm, and no other.
RecordInv ==
  /\ \A r \in records : r.gen < gen \/ (r.gen = gen /\ r.trial \notin Open)
  /\ \A g \in 0..(Generations - 1), t \in Trial, arm \in Arm :
       g < gen \/ (g = gen /\ t \notin Open) =>
         \E r \in records : r.gen = g /\ r.trial = t /\ r.arm = arm
  /\ \A r, s \in records : r.gen = s.gen /\ r.trial = s.trial /\ r.arm = s.arm => r = s
  /\ degraded \cap Open = {}

\* A signal that waits is of a clean trial that is over, and is not in a journal.
PendingInv ==
  \A k \in 1..Len(pending) :
    /\ pending[k][2] # {} /\ pending[k][2] \subseteq Candidates[pending[k][1]]
    /\ pending[k][1] \notin degraded \cup Open
    /\ \A j \in 1..Len(pending) : pending[j][1] = pending[k][1] => j = k
    /\ k > 1 => /\ \A arm \in Arm : Events(arm, gen, pending[k][1]) = {}
                /\ \A r \in records : r.gen = gen /\ r.trial = pending[k][1] => r.writes = 0

\* The signal being applied: what is acknowledged is in the journal, and at most
\* the write under way besides.
Acked(arm) == {<<gen, Head(pending)[1], m>> : m \in {m \in Memory : <<arm, m>> \in written}}
HeadInv ==
  pending # <<>> =>
    \A arm \in Arm :
      /\ Acked(arm) \subseteq Events(arm, gen, Head(pending)[1])
      /\ Events(arm, gen, Head(pending)[1]) \subseteq Acked(arm) \cup (IF Busy(arm) THEN {target} ELSE {})
      /\ \A m \in Memory : <<arm, m>> \in written => m \in Head(pending)[2]
      /\ \A r \in records :
           r.gen = gen /\ r.trial = Head(pending)[1] /\ r.arm = arm =>
             r.writes = IF Unwritten(arm) = {} THEN Cardinality(Head(pending)[2]) ELSE 0

WriteInv ==
  /\ pending = <<>> => written = {}
  /\ (\A arm \in Arm : ~Busy(arm)) => target = None
  /\ \A arm \in Arm : Busy(arm) =>
       /\ phase = "feedback" /\ pending # <<>>
       /\ \E m \in Unwritten(arm) : target = <<gen, Head(pending)[1], m>>
       /\ req[<<"feedback", arm>>].st \in Succeeds => target \in journal[arm]

\* The two journals agree on a trial, and its records say how often.
Settled(g, t) ==
  /\ Events(Control, g, t) = Events(Treatment, g, t)
  /\ \A r \in records : r.gen = g /\ r.trial = t => r.writes = Cardinality(Events(r.arm, g, t))
SettledInv ==
  \A g \in Nat, t \in Trial : (pending # <<>> /\ g = gen /\ t = Head(pending)[1]) \/ Settled(g, t)

JournalInv ==
  \A arm \in Arm : \A e \in journal[arm] :
    /\ e[1] < gen \/ (phase = "feedback" /\ e[1] = gen)
    /\ CleanPair(e)

LiveInv ==
  Live => RecordInv /\ PendingInv /\ HeadInv /\ WriteInv /\ SettledInv /\ JournalInv

ExperimentInv == TypeOK /\ ConfigInv /\ StartInv /\ StepInv /\ LiveInv

-----------------------------------------------------------------------------
(* Types *)

\* There are two arms, each the other of the other.
LEMMA Arms ==
  /\ Control \in Arm /\ Treatment \in Arm /\ Control # Treatment
  /\ \A arm \in Arm : arm = Control \/ arm = Treatment
  /\ Other(Control) = Treatment /\ Other(Treatment) = Control
BY DEF Arm, Control, Treatment, Other

\* Each arm has a request of every kind.
LEMMA Slots ==
  ASSUME NEW arm \in Arm
  PROVE  /\ <<"pin", arm>> \in Slot /\ <<"restore", arm>> \in Slot
         /\ <<"bootstrap", arm>> \in Slot /\ <<"feedback", arm>> \in Slot
BY DEF Slot

\* A request stays one through a trip; it succeeds only if the server acted.
LEMMA Requests ==
  /\ NoRequest \in Request /\ NewRequest \in Request
  /\ NoRequest.st = "idle" /\ NewRequest.st = "running"
  /\ \A r \in Request, a \in Answer : r.st = "running" =>
       /\ AfterTrip(r, a) \in Request /\ AfterTrip(r, a).st # "idle"
       /\ AfterTrip(r, a).st = "ok" => a \in TookEffect
       /\ AfterTrip(r, a).st = "mismatch" => a \in {"mismatch", "mismatchLate"}
<1> DEFINE Status == {"idle", "running", "ok", "mismatch", "raised"}
           Attempts == 0..Retries
           Flags == BOOLEAN
<1>1. 0 \in 0..Retries /\ (\A n \in 0..Retries : n < Retries => n + 1 \in 0..Retries) /\ TRUE \in Flags
  BY RetriesAssumption
<1>2. NoRequest \in Request /\ NoRequest.st = "idle"
  <2>1. NoRequest.st = "idle"
    BY DEF NoRequest
  <2>2. NoRequest \in Request
    BY <1>1, ZenonT(30) DEF NoRequest, Request
  <2> QED BY <2>1, <2>2
<1>3. Request = [st : Status, attempt : Attempts, refreshed : Flags]
  BY DEF Request
<1>4. \A s \in Status : Result(s) \in Request /\ Result(s).st = s
  <2> HIDE DEF Status, Attempts, Flags
  <2> QED BY <1>2, <1>3 DEF Result
<1>5. ASSUME NEW r \in Request
      PROVE  /\ [r EXCEPT !.refreshed = TRUE] \in Request /\ [r EXCEPT !.refreshed = TRUE].st = r.st
             /\ r.attempt < Retries => [r EXCEPT !.attempt = @ + 1] \in Request
             /\ [r EXCEPT !.attempt = @ + 1].st = r.st
  <2>1. r.attempt < Retries => r.attempt + 1 \in Attempts
    BY <1>1, <1>3
  <2> HIDE DEF Status, Attempts, Flags
  <2> QED BY <1>1, <1>3, <2>1
<1>6. ASSUME NEW r \in Request, NEW a \in Answer, r.st = "running"
      PROVE  /\ AfterTrip(r, a) \in Request /\ AfterTrip(r, a).st # "idle"
             /\ AfterTrip(r, a).st = "ok" => a \in TookEffect
             /\ AfterTrip(r, a).st = "mismatch" => a \in {"mismatch", "mismatchLate"}
  <2>1. CASE a \in DOMAIN Returned
    <3>1. /\ AfterTrip(r, a) = Result(Returned[a])
          /\ a \in {"ok", "mismatch", "mismatchLate"}
          /\ Returned[a] = IF a = "ok" THEN "ok" ELSE "mismatch"
      BY <2>1 DEF AfterTrip, Returned
    <3> QED BY <1>4, <3>1 DEF TookEffect
  <2>2. CASE a = "expired" /\ Refreshing /\ ~r.refreshed
    <3>1. AfterTrip(r, a) = [r EXCEPT !.refreshed = TRUE]
      BY <2>2 DEF AfterTrip, Returned
    <3> QED BY <1>5, <1>6, <3>1
  <2>3. CASE a \in {"failed", "failedLate"} /\ r.attempt < Retries
    <3>1. AfterTrip(r, a) = [r EXCEPT !.attempt = @ + 1]
      BY <2>3 DEF AfterTrip, Returned
    <3> QED BY <1>5, <1>6, <2>3, <3>1
  <2>4. CASE ~(a \in DOMAIN Returned) /\ ~(a = "expired" /\ Refreshing /\ ~r.refreshed)
             /\ ~(a \in {"failed", "failedLate"} /\ r.attempt < Retries)
    <3>1. AfterTrip(r, a) = Result("raised")
      BY <2>4 DEF AfterTrip
    <3> QED BY <1>4, <3>1
  <2> QED BY <2>1, <2>2, <2>3, <2>4
<1>7. NewRequest = Result("running")
  BY DEF NewRequest, Result
<1> QED BY <1>2, <1>4, <1>6, <1>7

\* A request that is still running on its first attempt has not been carried out.
LEMMA RetriedTrip ==
  ASSUME NEW r \in Request, NEW a \in Answer, r.st = "running",
         AfterTrip(r, a).st = "running", AfterTrip(r, a).attempt = 0
  PROVE  a \notin TookEffect /\ r.attempt = 0
<1>1. r.attempt \in Nat
  BY RetriesAssumption DEF Request
<1>2. CASE a \in DOMAIN Returned
  <2>1. AfterTrip(r, a) = Result(Returned[a]) /\ Returned[a] \in {"ok", "mismatch"}
    BY <1>2 DEF AfterTrip, Returned
  <2>2. \A s \in {"ok", "mismatch"} : Result(s).st = s
    BY DEF Result, NoRequest
  <2> QED BY <2>1, <2>2
<1>3. CASE a = "expired" /\ Refreshing /\ ~r.refreshed
  <2>1. AfterTrip(r, a) = [r EXCEPT !.refreshed = TRUE]
    BY <1>3 DEF AfterTrip, Returned
  <2> QED BY <1>3, <2>1 DEF Request, TookEffect
<1>4. CASE a \in {"failed", "failedLate"} /\ r.attempt < Retries
  <2>1. AfterTrip(r, a) = [r EXCEPT !.attempt = @ + 1]
    BY <1>4 DEF AfterTrip, Returned
  <2>2. AfterTrip(r, a).attempt = r.attempt + 1
    BY <2>1 DEF Request
  <2> QED BY <1>1, <2>2
<1>5. CASE ~(a \in DOMAIN Returned) /\ ~(a = "expired" /\ Refreshing /\ ~r.refreshed)
           /\ ~(a \in {"failed", "failedLate"} /\ r.attempt < Retries)
  <2>1. AfterTrip(r, a) = Result("raised")
    BY <1>5 DEF AfterTrip
  <2> QED BY <2>1 DEF Result, NoRequest
<1> QED BY <1>2, <1>3, <1>4, <1>5

\* A context that ranks as registered stamps nothing another would not.
LEMMA BootstrapsShrink ==
  ASSUME NEW c \in {"original", "pinned"}
  PROVE  Bootstraps[Control][c] \subseteq Bootstraps[Control]["original"]
<1> DEFINE Stamped(arm, d) == {e \in Envelope : /\ WellFormed(e) /\ e.own
                                                /\ d = "pinned" => e.reinforce = Influence(arm)}
           Made(arm, d) == {Kept(e, arm) : e \in Stamped(arm, d)}
<1>1. Bootstraps = [arm \in Arm |-> [d \in {"original", "pinned"} |-> Made(arm, d)]]
  BY DEF Bootstraps
<1>2. Made(Control, c) \subseteq Made(Control, "original")
  <2>1. Stamped(Control, c) \subseteq Stamped(Control, "original")
    OBVIOUS
  <2> HIDE DEF Stamped
  <2> QED BY <2>1
<1> HIDE DEF Made
<1> QED BY <1>1, <1>2, Arms

\* What Unwind leaves behind is well typed.
LEMMA Unwound == ASSUME Unwind PROVE
  /\ gen' \in 0..Generations /\ todo' \subseteq Trial /\ cur' \in Trial \cup {None} /\ env' = None
  /\ pair' = None /\ outcomes' \subseteq Arm /\ tries' \in 0..ActorRetries
  /\ pending' \in Seq(Trial \X SUBSET Memory) /\ written' \subseteq Arm \X Memory
  /\ records' \subseteq [gen : 0..(Generations - 1), trial : Trial, arm : Arm, writes : Nat]
  /\ degraded' \subseteq Trial
<1>1. <<>> \in Seq(Trial \X SUBSET Memory)
  BY EmptySeq
<1> QED BY <1>1, ExperimentAssumption DEF Unwind

\* Writes a signal can still get are of its labels.
LEMMA PendingTypes ==
  ASSUME TypeOK, pending # <<>>
  PROVE  /\ Len(pending) \in Nat \ {0} /\ Head(pending) = pending[1]
         /\ Head(pending)[1] \in Trial /\ Head(pending)[2] \subseteq Memory
         /\ IsFiniteSet(Head(pending)[2]) /\ Cardinality(Head(pending)[2]) \in Nat
         /\ Tail(pending) \in Seq(Trial \X SUBSET Memory) /\ Len(Tail(pending)) = Len(pending) - 1
         /\ \A k \in 1..(Len(pending) - 1) : Tail(pending)[k] = pending[k + 1]
<1> DEFINE Signal == Trial \X SUBSET Memory
<1>1. pending \in Seq(Signal)
  BY DEF TypeOK
<1>2. /\ Len(pending) \in Nat \ {0} /\ Head(pending) \in Signal /\ Head(pending) = pending[1]
      /\ Tail(pending) \in Seq(Signal) /\ Len(Tail(pending)) = Len(pending) - 1
      /\ \A k \in 1..Len(Tail(pending)) : Tail(pending)[k] = pending[k + 1]
  <2> HIDE DEF Signal
  <2> QED BY <1>1, EmptySeq, HeadTailProperties
<1>3. Head(pending)[1] \in Trial /\ Head(pending)[2] \subseteq Memory
  BY <1>2
<1>4. IsFiniteSet(Head(pending)[2]) /\ Cardinality(Head(pending)[2]) \in Nat
  <2>1. Head(pending)[2] \in SUBSET Memory /\ IsFiniteSet(Memory)
    BY <1>3, ExperimentAssumption
  <2> QED BY <2>1, FS_Subset, FS_CardinalityType
<1> QED BY <1>2, <1>3, <1>4

\* Types are kept by a trip of a thread.
LEMMA TypeThread ==
  ASSUME TypeOK, StepInv, NEW s \in Slot, NEW a \in Answer, Trip(s[1], s[2], a) PROVE TypeOK'
<1>1. PICK kind \in {"pin", "restore", "bootstrap", "feedback"}, arm \in Arm : s = <<kind, arm>>
  BY DEF Slot
<1>2. Trip(kind, arm, a) /\ <<kind, arm>> \in Slot
  BY <1>1
<1>3. req' \in [Slot -> Request]
  <2>1. req[<<kind, arm>>] \in Request /\ req[<<kind, arm>>].st = "running"
    BY <1>2 DEF TypeOK, Trip
  <2>2. AfterTrip(req[<<kind, arm>>], a) \in Request
    BY <2>1, Requests
  <2>3. req' = [req EXCEPT ![<<kind, arm>>] = AfterTrip(req[<<kind, arm>>], a)]
    BY <1>2 DEF Trip
  <2> QED BY <1>2, <2>2, <2>3 DEF TypeOK
<1>4. /\ config' \in [Arm -> {"original", "pinned"}] /\ journal' \in [Arm -> SUBSET Event]
      /\ repeated' \subseteq Arm
  <2>1. CASE kind = "feedback" /\ a \in TookEffect
    <3>1. target \in Event
      BY <1>2, <2>1 DEF Trip, StepInv, Busy, TypeOK
    <3>2. /\ config' = config /\ journal' = [journal EXCEPT ![arm] = @ \cup {target}]
          /\ repeated' \subseteq repeated \cup {arm}
      BY <1>2, <2>1 DEF Trip, TripEffect
    <3> QED BY <3>1, <3>2 DEF TypeOK
  <2>2. CASE ~(kind = "feedback" /\ a \in TookEffect)
    BY <1>2, <2>2 DEF TypeOK, Trip, TripEffect, journals
  <2> QED BY <2>1, <2>2
<1> QED BY <1>2, <1>3, <1>4 DEF TypeOK, Trip, trialVars, locals

\* StartRestore starts the two restoring PUTs and touches no other request.
LEMMA RestoreTypes ==
  ASSUME TypeOK, StartRestore
  PROVE  /\ req' \in [Slot -> Request]
         /\ \A arm \in Arm : /\ req'[<<"restore", arm>>].st = "running"
                             /\ req'[<<"pin", arm>>] = req[<<"pin", arm>>]
                             /\ req'[<<"feedback", arm>>] = req[<<"feedback", arm>>]
                             /\ req'[<<"bootstrap", arm>>] = req[<<"bootstrap", arm>>]
BY Requests, Slots DEF TypeOK, StartRestore

\* Types are kept by an exception in the body of run_experiment.
LEMMA AbortTypes == ASSUME TypeOK, Abort PROVE TypeOK'
<1>1. req' \in [Slot -> Request] /\ Unwind
  BY RestoreTypes DEF Abort
<1>2. phase' = "closing" /\ UNCHANGED <<config, saved, late, target, journal, repeated, cancelled>>
  BY DEF Abort, configVars, journals
<1> QED BY <1>1, <1>2, Unwound DEF TypeOK

\* Types are kept by an interruption.
LEMMA TypeInterrupt == ASSUME TypeOK, Interrupt PROVE TypeOK'
<1>1. /\ Unwind /\ cancelled' = TRUE /\ UNCHANGED <<config, saved, target, journal, repeated>>
      /\ late' \subseteq Arm
  BY DEF TypeOK, Pinning, Interrupt, configVars, journals
<1>2. /\ phase' \in {"failed", "unpinning", "closing"}
      /\ req' = req \/ StartRestore
  BY DEF Interrupt
<1>3. req' \in [Slot -> Request]
  BY <1>2, RestoreTypes DEF TypeOK
<1> QED BY <1>1, <1>2, <1>3, Unwound DEF TypeOK

\* Types are kept by prepare and close.
LEMMA TypeBetween ==
  ASSUME TypeOK, Prepare \/ Pinned \/ PinFails \/ Restored \/ RestoreFails PROVE TypeOK'
<1>1. UNCHANGED <<config, trialVars, journal, repeated, cancelled>>
  BY DEF Prepare, Pinned, PinFails, Restored, RestoreFails, configVars, journals
<1>2. /\ phase' \in {"pinning", "failed", "bootstrap", "unpinning", "done"}
      /\ saved' \in BOOLEAN /\ late' \subseteq Arm
  BY DEF TypeOK, Pinning, Prepare, Pinned, PinFails, Restored, RestoreFails, configVars, journals
<1>3. req' \in [Slot -> Request]
  <2>1. CASE Prepare
    BY <2>1, Requests DEF TypeOK, Prepare
  <2>2. CASE Pinned
    BY <2>2, Requests DEF TypeOK, Pinned
  <2>3. CASE PinFails
    BY <2>3, RestoreTypes DEF PinFails
  <2>4. CASE Restored \/ RestoreFails
    BY <2>4 DEF TypeOK, Restored, RestoreFails
  <2> QED BY <2>1, <2>2, <2>3, <2>4
<1> QED BY <1>1, <1>2, <1>3 DEF TypeOK, trialVars, locals

\* Types are kept by the steps of a trial.
LEMMA TypeTrial ==
  ASSUME TypeOK, StepInv,
         \/ (\E t \in Trial : StartTrial(t)) \/ ControlBack \/ TreatmentBack \/ ActorRetried
         \/ (\E arm \in Arm : ActorScores(arm))
  PROVE  TypeOK'
<1> USE Arms, Slots, Requests
<1>1. ASSUME NEW t \in Trial, StartTrial(t) PROVE TypeOK'
  <2>1. req' \in [Slot -> Request]
    BY <1>1 DEF StartTrial, Ask, TypeOK
  <2> QED BY <1>1, <2>1 DEF StartTrial, TypeOK, configVars, journals
<1>2. CASE ControlBack
  <2>1. req' \in [Slot -> Request]
    BY <1>2 DEF ControlBack, TypeOK
  <2>2. env' \in Bootstraps[Control]["original"]
    BY <1>2, BootstrapsShrink DEF ControlBack, TypeOK
  <2> QED BY <1>2, <2>1, <2>2 DEF ControlBack, TypeOK, configVars, journals
<1>3. CASE TreatmentBack
  <2>1. req' \in [Slot -> Request]
    BY <1>3 DEF TreatmentBack, TypeOK
  <2>2. pair' \in [labels : SUBSET Memory, degraded : BOOLEAN]
    <3>1. cur \in Trial
      BY <1>3 DEF TreatmentBack, TypeOK, StepInv
    <3>2. PICK e : pair' = [labels |-> Labels(env, e), degraded |-> env.degraded \/ e.degraded]
      BY <1>3 DEF TreatmentBack
    <3>3. Labels(env, e) \in SUBSET Memory
      BY <3>1, ExperimentAssumption DEF Labels
    <3>4. (env.degraded \/ e.degraded) \in BOOLEAN
      OBVIOUS
    <3> QED BY <3>2, <3>3, <3>4, Zenon
  <2>3. phase' = "acting" /\ env' = None
    BY <1>3 DEF TreatmentBack
  <2> QED BY <1>3, <2>1, <2>2, <2>3 DEF TreatmentBack, TypeOK, configVars, journals
<1>4. CASE ActorRetried
  BY <1>4, ExperimentAssumption DEF ActorRetried, TypeOK, configVars, journals
<1>5. ASSUME NEW arm \in Arm, ActorScores(arm) PROVE TypeOK'
  <2>1. /\ UNCHANGED <<config, saved, late, req, gen, todo, env, written, target, journal,
                     repeated, cancelled>>
        /\ tries' = 0 /\ phase = "acting" /\ cur \in Trial
    BY <1>5 DEF ActorScores, configVars, journals, StepInv, TypeOK
  <2>2. 0 \in 0..ActorRetries
    BY ExperimentAssumption
  <2>3. CASE outcomes = {}
    <3>1. outcomes' = {arm} /\ UNCHANGED <<phase, cur, pair, pending, records, degraded>>
      BY <1>5, <2>3 DEF ActorScores
    <3> QED BY <2>1, <2>2, <3>1 DEF TypeOK
  <2>4. CASE outcomes # {}
    <3>1. /\ outcomes' = {} /\ cur' = None /\ pair' = None
          /\ records' = records \cup [gen : {gen}, trial : {cur}, arm : Arm, writes : {0}]
          /\ degraded' = (IF pair.degraded THEN degraded \cup {cur} ELSE degraded)
          /\ pending' = (IF pair.labels = {} THEN pending ELSE Append(pending, <<cur, pair.labels>>))
          /\ phase' = (IF todo = {} THEN "feedback" ELSE "bootstrap")
      BY <1>5, <2>4 DEF ActorScores
    <3>2. records' \subseteq [gen : 0..(Generations - 1), trial : Trial, arm : Arm, writes : Nat]
      <4>1. gen \in 0..(Generations - 1)
        BY <2>1, ExperimentAssumption DEF TypeOK, StepInv, Running
      <4> QED BY <2>1, <3>1, <4>1 DEF TypeOK
    <3>3. degraded' \subseteq Trial
      BY <2>1, <3>1 DEF TypeOK
    <3>4. pending' \in Seq(Trial \X SUBSET Memory)
      <4> DEFINE Signal == Trial \X SUBSET Memory
      <4>1. <<cur, pair.labels>> \in Signal /\ pending \in Seq(Signal)
        BY <2>1, ExperimentAssumption DEF TypeOK, StepInv
      <4>2. Append(pending, <<cur, pair.labels>>) \in Seq(Signal)
        <5> DEFINE item == <<cur, pair.labels>>
        <5> HIDE DEF Signal, item
        <5>1. item \in Signal
          BY <4>1 DEF item
        <5>2. Append(pending, item) \in Seq(Signal)
          BY <4>1, <5>1, AppendProperties
        <5> QED BY <5>2 DEF item
      <4> HIDE DEF Signal
      <4>3. pending' \in Seq(Signal)
        BY <3>1, <4>1, <4>2
      <4> QED BY <4>3 DEF Signal
    <3> QED BY <2>1, <2>2, <3>1, <3>2, <3>3, <3>4 DEF TypeOK
  <2> QED BY <2>3, <2>4
<1> QED BY <1>1, <1>2, <1>3, <1>4, <1>5

\* A write under way is of the first signal.
LEMMA WriteFacts ==
  ASSUME TypeOK, StepInv, LiveInv, phase = "feedback", NEW arm \in Arm, Busy(arm)
  PROVE  /\ pending # <<>> /\ target \in Event /\ target[3] \in Unwritten(arm)
         /\ target = <<gen, Head(pending)[1], target[3]>> /\ ~Busy(Other(arm))
         /\ target[3] \in Memory /\ gen \in 0..(Generations - 1)
<1>1. Live /\ gen \in 0..(Generations - 1)
  BY ExperimentAssumption DEF Live, Running, StepInv, TypeOK
<1>2. pending # <<>> /\ \E m \in Unwritten(arm) : target = <<gen, Head(pending)[1], m>>
  BY <1>1 DEF LiveInv, WriteInv
<1>3. PICK m \in Unwritten(arm) : target = <<gen, Head(pending)[1], m>>
  BY <1>2
<1>4. m \in Memory /\ target[3] = m
  BY <1>2, <1>3, PendingTypes DEF Unwritten
<1>5. target \in Event /\ ~Busy(Other(arm))
  BY DEF StepInv, TypeOK
<1> QED BY <1>1, <1>2, <1>3, <1>4, <1>5

\* The records after a write: the same ones, with the count of one of them set.
LEMMA WrittenRecords ==
  ASSUME TypeOK, pending # <<>>, NEW arm \in Arm, Written(arm)
  PROVE  /\ records' \subseteq [gen : 0..(Generations - 1), trial : Trial, arm : Arm, writes : Nat]
         /\ \A r \in records : \E s \in records' :
              /\ s.gen = r.gen /\ s.trial = r.trial /\ s.arm = r.arm
              /\ s.writes = IF /\ Unwritten(arm) = {target[3]} /\ r.gen = gen
                               /\ r.trial = Head(pending)[1] /\ r.arm = arm
                            THEN Cardinality(Head(pending)[2]) ELSE r.writes
         /\ \A s \in records' : \E r \in records :
              /\ s.gen = r.gen /\ s.trial = r.trial /\ s.arm = r.arm
              /\ s.writes = IF /\ Unwritten(arm) = {target[3]} /\ r.gen = gen
                               /\ r.trial = Head(pending)[1] /\ r.arm = arm
                            THEN Cardinality(Head(pending)[2]) ELSE r.writes
<1> DEFINE n == Cardinality(Head(pending)[2])
           hit(r) == r.gen = gen /\ r.trial = Head(pending)[1] /\ r.arm = arm
           Rec == [gen : 0..(Generations - 1), trial : Trial, arm : Arm, writes : Nat]
<1>1. n \in Nat /\ records \subseteq Rec
  BY PendingTypes DEF TypeOK
<1>2. records' = IF Unwritten(arm) # {target[3]} THEN records
                 ELSE {IF hit(r) THEN [r EXCEPT !.writes = n] ELSE r : r \in records}
  BY DEF Written
<1>3. \A r \in Rec : /\ [r EXCEPT !.writes = n] \in Rec
                     /\ [r EXCEPT !.writes = n].gen = r.gen /\ [r EXCEPT !.writes = n].trial = r.trial
                     /\ [r EXCEPT !.writes = n].arm = r.arm /\ [r EXCEPT !.writes = n].writes = n
  <2> HIDE DEF n
  <2> QED BY <1>1
<1> HIDE DEF n, hit, Rec
<1>4. CASE Unwritten(arm) # {target[3]}
  BY <1>1, <1>2, <1>4 DEF Rec
<1>5. CASE Unwritten(arm) = {target[3]}
  <2> DEFINE new(r) == IF hit(r) THEN [r EXCEPT !.writes = n] ELSE r
  <2>1. records' = {new(r) : r \in records}
    BY <1>2, <1>5
  <2>2. \A r \in records : /\ new(r) \in Rec /\ new(r).gen = r.gen /\ new(r).trial = r.trial
                           /\ new(r).arm = r.arm /\ new(r).writes = IF hit(r) THEN n ELSE r.writes
    BY <1>1, <1>3
  <2> HIDE DEF new
  <2>3. records' \subseteq Rec
    BY <2>1, <2>2
  <2>4. \A r \in records : new(r) \in records'
    BY <2>1
  <2>5. \A s \in records' : \E r \in records : s = new(r)
    BY <2>1
  <2> QED BY <1>5, <2>2, <2>3, <2>4, <2>5 DEF hit, n, Rec
<1> QED BY <1>4, <1>5

\* Types are kept by the steps that apply the feedback.
LEMMA TypeFeedback ==
  ASSUME TypeOK, StepInv, LiveInv,
         \/ \E arm \in Arm, m \in Memory : Write(arm, m)
         \/ \E arm \in Arm : Written(arm)
         \/ NextGeneration
  PROVE  TypeOK'
<1> USE Arms, Slots, Requests
<1>1. ASSUME NEW arm \in Arm, NEW m \in Memory, Write(arm, m) PROVE TypeOK'
  <2>1. req' \in [Slot -> Request]
    BY <1>1 DEF Write, TypeOK
  <2>2. gen \in 0..(Generations - 1) /\ Head(pending)[1] \in Trial
    BY <1>1, PendingTypes, ExperimentAssumption DEF Write, TypeOK, StepInv, Running
  <2>3. target' \in Event
    BY <1>1, <2>2 DEF Write, Event
  <2> QED BY <1>1, <2>1, <2>3 DEF Write, TypeOK, configVars, journals
<1>2. ASSUME NEW arm \in Arm, Written(arm) PROVE TypeOK'
  <2>1. req' \in [Slot -> Request]
    BY <1>2 DEF Written, TypeOK
  <2>2. phase = "feedback" /\ Busy(arm)
    BY <1>2 DEF Written, Busy, Succeeds
  <2>3. pending # <<>> /\ target[3] \in Memory
    BY <2>2, WriteFacts
  <2>4. written' \subseteq Arm \X Memory
    BY <1>2, <2>3 DEF Written, TypeOK
  <2>5. pending' \in Seq(Trial \X SUBSET Memory)
    BY <1>2, <2>3, PendingTypes DEF Written, TypeOK
  <2>6. records' \subseteq [gen : 0..(Generations - 1), trial : Trial, arm : Arm, writes : Nat]
    BY <1>2, <2>3, WrittenRecords
  <2>7. target' = None
    BY <1>2 DEF Written
  <2> QED BY <1>2, <2>1, <2>4, <2>5, <2>6, <2>7 DEF Written, TypeOK, configVars, journals
<1>3. CASE NextGeneration
  <2>1. gen' \in 0..Generations
    BY <1>3, ExperimentAssumption DEF NextGeneration, TypeOK, StepInv, Running
  <2>2. req' \in [Slot -> Request] /\ todo' \subseteq Trial /\ phase' \in {"bootstrap", "closing"}
    BY <1>3, RestoreTypes DEF NextGeneration, TypeOK
  <2> QED BY <1>3, <2>1, <2>2 DEF NextGeneration, TypeOK, configVars, journals
<1> QED BY <1>1, <1>2, <1>3

-----------------------------------------------------------------------------
(* The configurations, step by step *)

\* What one trip changes: the status of its own request, and what it asked for if
\* it took effect, which it did if it succeeded.
LEMMA TripFacts ==
  ASSUME TypeOK, NEW kind \in {"pin", "restore", "bootstrap", "feedback"}, NEW arm \in Arm,
         NEW a \in Answer, Trip(kind, arm, a)
  PROVE  /\ req[<<kind, arm>>].st = "running" /\ req'[<<kind, arm>>].st # "idle"
         /\ req'[<<kind, arm>>].st = "ok" => a \in TookEffect
         /\ kind = "feedback" /\ req'[<<kind, arm>>].st \in Succeeds => a \in TookEffect
         /\ \A k \in {"pin", "restore", "bootstrap", "feedback"}, b \in Arm :
              <<k, b>> # <<kind, arm>> => req'[<<k, b>>] = req[<<k, b>>]
         /\ UNCHANGED <<phase, saved, late, gen, todo, cur, env, pair, outcomes, tries,
                        pending, written, records, degraded, target, cancelled>>
         /\ IF a \in TookEffect THEN TripEffect(kind, arm) ELSE UNCHANGED <<config, journals>>
<1>1. <<kind, arm>> \in Slot /\ req[<<kind, arm>>].st = "running" /\ req[<<kind, arm>>] \in Request
  BY DEF Trip, Slot, TypeOK
<1>2. req' = [req EXCEPT ![<<kind, arm>>] = AfterTrip(req[<<kind, arm>>], a)] /\ req \in [Slot -> Request]
  BY DEF Trip, TypeOK
<1>3. req'[<<kind, arm>>] = AfterTrip(req[<<kind, arm>>], a)
  BY <1>1, <1>2
<1>4. ASSUME NEW k \in {"pin", "restore", "bootstrap", "feedback"}, NEW b \in Arm, <<k, b>> # <<kind, arm>>
      PROVE  req'[<<k, b>>] = req[<<k, b>>]
  <2>1. <<k, b>> \in Slot
    BY DEF Slot
  <2> QED BY <1>2, <1>4, <2>1
<1>5. /\ req'[<<kind, arm>>].st # "idle" /\ (req'[<<kind, arm>>].st = "ok" => a \in TookEffect)
      /\ kind = "feedback" /\ req'[<<kind, arm>>].st \in Succeeds => a \in TookEffect
  <2>1. kind = "feedback" => a # "mismatch"
    BY DEF Trip
  <2> QED BY <1>1, <1>3, <2>1, Requests DEF Succeeds, TookEffect
<1>6. /\ UNCHANGED <<phase, saved, late, gen, todo, cur, env, pair, outcomes, tries,
                     pending, written, records, degraded, target, cancelled>>
      /\ IF a \in TookEffect THEN TripEffect(kind, arm) ELSE UNCHANGED <<config, journals>>
  BY DEF Trip, trialVars, locals
<1> QED BY <1>1, <1>4, <1>5, <1>6

\* A PUT that lands after prepare gave up is one that was under way then.
LEMMA ConfigThread ==
  ASSUME TypeOK, ConfigInv, NEW kind \in {"pin", "restore", "bootstrap", "feedback"},
         NEW arm \in Arm, NEW a \in Answer, Trip(kind, arm, a)
  PROVE  ConfigInv'
<1>0. TypeOK /\ Trip(kind, arm, a) /\ phase # "new"
  <2>1. <<kind, arm>> \in Slot /\ req[<<kind, arm>>].st = "running"
    BY DEF Slot, Trip
  <2> QED BY <2>1 DEF ConfigInv
<1>1. /\ req[<<kind, arm>>].st = "running" /\ req'[<<kind, arm>>].st # "idle"
      /\ req'[<<kind, arm>>].st = "ok" => a \in TookEffect
      /\ \A k \in {"pin", "restore", "bootstrap", "feedback"}, b \in Arm :
           <<k, b>> # <<kind, arm>> => req'[<<k, b>>] = req[<<k, b>>]
      /\ UNCHANGED <<phase, saved, late>>
      /\ config' = IF a \in TookEffect /\ kind = "pin" THEN [config EXCEPT ![arm] = "pinned"]
                   ELSE IF a \in TookEffect /\ kind = "restore" THEN [config EXCEPT ![arm] = "original"]
                   ELSE config
  <2>1. IF a \in TookEffect THEN TripEffect(kind, arm) ELSE UNCHANGED <<config, journals>>
    BY <1>0, TripFacts
  <2>2. config' = IF a \in TookEffect /\ kind = "pin" THEN [config EXCEPT ![arm] = "pinned"]
                   ELSE IF a \in TookEffect /\ kind = "restore" THEN [config EXCEPT ![arm] = "original"]
                   ELSE config
    BY <2>1 DEF TripEffect
  <2> QED BY <1>0, <2>2, TripFacts
<1>2. config \in [Arm -> {"original", "pinned"}]
  BY DEF TypeOK
<1>3. CASE kind = "pin"
  <2>1. phase = "pinning" \/ arm \in late
    BY <1>0, <1>1, <1>3 DEF ConfigInv
  <2>2. \A b \in Arm : /\ req'[<<"restore", b>>] = req[<<"restore", b>>]
                       /\ b # arm => req'[<<"pin", b>>] = req[<<"pin", b>>] /\ config'[b] = config[b]
    BY <1>1, <1>2, <1>3
  <2>3. /\ req'[<<"pin", arm>>].st = "ok" => config'[arm] = "pinned"
        /\ config[arm] = "pinned" => config'[arm] = "pinned"
    BY <1>1, <1>2, <1>3
  <2> QED BY <1>0, <1>1, <2>1, <2>2, <2>3 DEF ConfigInv, RestoredAfterRun
<1>4. CASE kind = "restore"
  <2>1. ~(phase \in Running \cup {"pinning"})
    BY <1>1, <1>4 DEF ConfigInv
  <2>2. \A b \in Arm : /\ req'[<<"pin", b>>] = req[<<"pin", b>>]
                       /\ b # arm => req'[<<"restore", b>>] = req[<<"restore", b>>] /\ config'[b] = config[b]
    BY <1>1, <1>2, <1>4
  <2>3. /\ req'[<<"restore", arm>>].st = "ok" => config'[arm] = "original"
        /\ config[arm] = "original" => config'[arm] = "original"
    BY <1>1, <1>2, <1>4
  <2> QED BY <1>0, <1>1, <2>1, <2>2, <2>3 DEF ConfigInv, RestoredAfterRun
<1>5. CASE kind \in {"bootstrap", "feedback"}
  <2>1. \A b \in Arm : /\ req'[<<"pin", b>>] = req[<<"pin", b>>]
                       /\ req'[<<"restore", b>>] = req[<<"restore", b>>]
    BY <1>1, <1>5
  <2>2. UNCHANGED <<config, phase, saved, late>>
    BY <1>1, <1>5
  <2>3. ConfigInv /\ phase # "new"
    BY <1>0
  <2>4. (phase = "new" => \A s \in Slot : req[s].st = "idle")'
    BY <2>2, <2>3
  <2>5. RestoredAfterRun'
    BY <2>1, <2>2, <2>3 DEF ConfigInv, RestoredAfterRun
  <2> QED BY <2>1, <2>2, <2>3, <2>4, <2>5 DEF ConfigInv
<1> QED BY <1>3, <1>4, <1>5

\* The finally of run_experiment, and the except of prepare.
LEMMA ConfigRestores ==
  ASSUME TypeOK, ConfigInv, StartRestore, phase' \in {"closing", "unpinning"},
         phase \in Running \cup {"pinning"}, UNCHANGED <<config, saved>>,
         late' = IF phase = "pinning" THEN Pinning ELSE late
  PROVE  ConfigInv'
BY RestoreTypes DEF ConfigInv, RestoredAfterRun, Running, Pinning

\* prepare and close leave the configurations explained.
LEMMA ConfigBetween ==
  ASSUME TypeOK, ConfigInv, Prepare \/ Pinned \/ PinFails \/ Restored \/ RestoreFails
  PROVE  ConfigInv'
<1>1. CASE Prepare
  <2>1. CASE phase' = "pinning"
    <3>1. /\ phase = "new" /\ saved' = TRUE /\ UNCHANGED <<config, late>>
          /\ req' = [s \in Slot |-> IF s[1] = "pin" THEN NewRequest ELSE req[s]]
      BY <1>1, <2>1 DEF Prepare
    <3>2. \A arm \in Arm : /\ req'[<<"pin", arm>>].st = "running"
                           /\ req'[<<"restore", arm>>].st = "idle"
      BY <3>1, Slots, Requests DEF ConfigInv
    <3> QED BY <2>1, <3>1, <3>2 DEF ConfigInv, RestoredAfterRun, Running, Succeeds
  <2>2. CASE phase' = "failed"
    <3>1. phase = "new" /\ UNCHANGED <<config, late, saved, req>>
      BY <1>1, <2>2 DEF Prepare
    <3> QED BY <2>2, <3>1, Slots DEF ConfigInv, RestoredAfterRun, Running
  <2> QED BY <1>1, <2>1, <2>2 DEF Prepare
<1>2. CASE Pinned
  <2>1. /\ phase = "pinning" /\ phase' = "bootstrap" /\ UNCHANGED <<config, saved, late>>
        /\ \A arm \in Arm : req[<<"pin", arm>>].st = "ok"
        /\ req' = [s \in Slot |-> NoRequest]
    BY <1>2 DEF Pinned, configVars
  <2>2. \A arm \in Arm : /\ req'[<<"pin", arm>>].st = "idle" /\ req'[<<"restore", arm>>].st = "idle"
                         /\ config[arm] = "pinned"
    BY <2>1, Slots, Requests DEF ConfigInv, Succeeds
  <2> QED BY <2>1, <2>2 DEF ConfigInv, RestoredAfterRun, Running, Succeeds
<1>3. CASE PinFails
  BY <1>3, ConfigRestores DEF PinFails
<1>4. CASE Restored
  <2>1. /\ phase \in {"unpinning", "closing"} /\ phase' \in {"done", "failed"} /\ saved' = FALSE
        /\ UNCHANGED <<config, late, req>>
        /\ \A arm \in Arm : req[<<"restore", arm>>].st \in Succeeds
    BY <1>4 DEF Restored
  <2> QED BY <2>1 DEF ConfigInv, RestoredAfterRun, Running, Succeeds
<1>5. CASE RestoreFails
  <2>1. phase \in {"unpinning", "closing"} /\ phase' = "failed" /\ UNCHANGED <<config, late, saved, req>>
    BY <1>5 DEF RestoreFails, configVars, journals
  <2> QED BY <2>1 DEF ConfigInv, RestoredAfterRun, Running
<1> QED BY <1>1, <1>2, <1>3, <1>4, <1>5

\* So does an interruption, whatever it interrupts.
LEMMA ConfigInterrupt == ASSUME TypeOK, ConfigInv, Interrupt PROVE ConfigInv'
<1>1. UNCHANGED <<config, saved>> /\ late' = IF phase = "pinning" THEN Pinning ELSE late
  BY DEF Interrupt
<1>2. CASE phase' = "failed" /\ UNCHANGED req /\ phase # "pinning"
  BY <1>1, <1>2, Slots DEF ConfigInv, RestoredAfterRun, Running
<1>3. CASE phase' # "failed"
  BY <1>1, <1>3, ConfigRestores DEF Interrupt, Running
<1> QED BY <1>2, <1>3 DEF Interrupt

\* A step of a trial or of the feedback leaves the configurations alone.
LEMMA ConfigStays ==
  ASSUME TypeOK, ConfigInv, phase \in Running, UNCHANGED <<config, saved, late>>,
         \/ /\ phase' \in Running
            /\ \A arm \in Arm : /\ req'[<<"pin", arm>>] = req[<<"pin", arm>>]
                                /\ req'[<<"restore", arm>>] = req[<<"restore", arm>>]
         \/ phase' = "closing" /\ StartRestore
  PROVE  ConfigInv'
<1>1. CASE phase' = "closing" /\ StartRestore
  BY <1>1, ConfigRestores DEF Running
<1>2. CASE phase' \in Running /\ ~(phase' = "closing" /\ StartRestore)
  BY <1>2 DEF ConfigInv, RestoredAfterRun, Running
<1> QED BY <1>1, <1>2

-----------------------------------------------------------------------------
(* The trials, step by step *)

\* The signals that wait stay right as long as no event and no record of theirs
\* changes.
LEMMA PendingStays ==
  ASSUME PendingInv, pending' = pending, gen' = gen,
         degraded' \cup Open' \subseteq degraded \cup Open,
         \A k \in 1..Len(pending) : k > 1 =>
           \A b \in Arm : Events(b, gen, pending[k][1])' = Events(b, gen, pending[k][1]),
         \A k \in 1..Len(pending) : k > 1 =>
           \A r \in records' : r.gen = gen /\ r.trial = pending[k][1] => r.writes = 0
  PROVE  PendingInv'
<1>1. \A k \in 1..Len(pending) :
        /\ pending[k][2] # {} /\ pending[k][2] \subseteq Candidates[pending[k][1]]
        /\ pending[k][1] \notin degraded \cup Open
        /\ \A j \in 1..Len(pending) : pending[j][1] = pending[k][1] => j = k
  BY DEF PendingInv
<1>2. \A k \in 1..Len(pending) : k > 1 => \A b \in Arm : Events(b, gen, pending[k][1]) = {}
  BY DEF PendingInv
<1>3. \A k \in 1..Len(pending) : k > 1 => \A b \in Arm : Events(b, gen, pending[k][1])' = {}
  BY <1>2
<1>4. \A k \in 1..Len(pending') :
        /\ pending'[k][2] # {} /\ pending'[k][2] \subseteq Candidates[pending'[k][1]]
        /\ pending'[k][1] \notin degraded' \cup Open'
        /\ \A j \in 1..Len(pending') : pending'[j][1] = pending'[k][1] => j = k
  BY <1>1
<1>5. \A k \in 1..Len(pending') : k > 1 => \A b \in Arm : Events(b, gen, pending[k][1])' = {}
  BY <1>3
<1>6. \A k \in 1..Len(pending') : k > 1 =>
        \A r \in records' : r.gen = gen' /\ r.trial = pending'[k][1] => r.writes = 0
  OBVIOUS
<1> QED BY <1>4, <1>5, <1>6 DEF PendingInv

\* Trials whose events and records do not change stay settled.
LEMMA SettledStays ==
  ASSUME TypeOK, records' = records, NEW g, NEW t, Settled(g, t),
         \A b \in Arm : Events(b, g, t)' = Events(b, g, t)
  PROVE  Settled(g, t)'
<1>1. \A r \in records : r.arm \in Arm
  BY DEF TypeOK
<1>2. Events(Control, g, t)' = Events(Treatment, g, t)'
  BY Arms DEF Settled
<1>3. ASSUME NEW r \in records, r.gen = g, r.trial = t PROVE r.writes = Cardinality(Events(r.arm, g, t)')
  <2>1. r.writes = Cardinality(Events(r.arm, g, t))
    BY <1>3 DEF Settled
  <2>2. Events(r.arm, g, t)' = Events(r.arm, g, t)
    BY <1>1
  <2> QED BY <2>1, <2>2
<1> QED BY <1>2, <1>3 DEF Settled

\* Nothing a result rests on has changed.
LEMMA LiveStays ==
  ASSUME TypeOK, LiveInv, Live, Open' = Open, phase' = "feedback" <=> phase = "feedback",
         UNCHANGED <<gen, pending, written, target, journal, records, degraded>>,
         \A arm \in Arm : req'[<<"feedback", arm>>] = req[<<"feedback", arm>>]
  PROVE  LiveInv'
<1>0. RecordInv /\ PendingInv /\ HeadInv /\ WriteInv /\ SettledInv /\ JournalInv
  BY DEF LiveInv
<1>1. /\ \A arm \in Arm : \A g, t : Events(arm, g, t)' = Events(arm, g, t)
      /\ \A arm \in Arm : Unwritten(arm)' = Unwritten(arm) /\ Acked(arm)' = Acked(arm)
      /\ \A arm \in Arm : Busy(arm)' <=> Busy(arm)
  BY DEF Events, Unwritten, Acked, Busy
<1>2. RecordInv'
  BY <1>0 DEF RecordInv
<1>3. PendingInv'
  <2>1. \A k \in 1..Len(pending) : k > 1 =>
          \A b \in Arm : Events(b, gen, pending[k][1])' = Events(b, gen, pending[k][1])
    BY <1>1
  <2>2. \A k \in 1..Len(pending) : k > 1 =>
          \A r \in records' : r.gen = gen /\ r.trial = pending[k][1] => r.writes = 0
    BY <1>0 DEF PendingInv
  <2> QED BY <1>0, <2>1, <2>2, PendingStays
<1>4. HeadInv'
  BY <1>0, <1>1 DEF HeadInv
<1>5. WriteInv'
  BY <1>0, <1>1 DEF WriteInv
<1>6. SettledInv'
  <2>1. \A g \in Nat, t \in Trial : Settled(g, t) => Settled(g, t)'
    BY <1>1, SettledStays
  <2> QED BY <1>0, <2>1 DEF SettledInv
<1>7. JournalInv'
  BY <1>0 DEF JournalInv, CleanPair
<1> QED BY <1>2, <1>3, <1>4, <1>5, <1>6, <1>7 DEF LiveInv

LocalsInv == StartInv /\ StepInv /\ LiveInv

\* A run that unwinds returns no result.
LEMMA LocalsUnwind ==
  ASSUME TypeOK, StepInv, Unwind, phase' \in {"failed", "unpinning", "closing"}, UNCHANGED target,
         UNCHANGED req \/ StartRestore
  PROVE  LocalsInv'
<1>1. gen' = 0 /\ todo' = {} /\ ~Live'
  BY ExperimentAssumption DEF Unwind, Live, Running
<1>2. \A arm \in Arm : req'[<<"feedback", arm>>] = req[<<"feedback", arm>>]
  BY RestoreTypes
<1>3. \A arm \in Arm : Busy(arm)' => target' \in Event /\ ~Busy(Other(arm))'
  BY <1>2, Arms DEF StepInv, Busy
<1>4. StepInv'
  BY <1>1, <1>3 DEF StepInv, Running
<1> QED BY <1>1, <1>4 DEF LocalsInv, StartInv, LiveInv

\* prepare and close start and end a run, and only a finished one returns.
LEMMA LocalsBetween ==
  ASSUME TypeOK, ConfigInv, LocalsInv, Prepare \/ Pinned \/ PinFails \/ Restored \/ RestoreFails
  PROVE  LocalsInv'
<1>0. /\ StartInv /\ StepInv /\ LiveInv
      /\ UNCHANGED <<gen, todo, cur, env, pair, outcomes, tries, pending, written, records, degraded,
                     target, journal>>
  BY DEF LocalsInv, Prepare, Pinned, PinFails, Restored, RestoreFails, trialVars, locals, journals
<1>1. CASE Prepare
  <2>1. phase = "new" /\ phase' \in {"pinning", "failed"} /\ ~Live'
    BY <1>1 DEF Prepare, Live, Running
  <2>2. \A arm \in Arm : ~Busy(arm)'
    <3>1. \A arm \in Arm : req'[<<"feedback", arm>>] = req[<<"feedback", arm>>]
      BY <1>1, Slots DEF Prepare
    <3> QED BY <2>1, <3>1, Slots DEF Busy, ConfigInv
  <2>3. StepInv'
    BY <1>0, <2>1, <2>2 DEF StepInv, Running
  <2>4. StartInv'
    BY <1>0, <2>1, <2>2 DEF StartInv
  <2> QED BY <2>1, <2>3, <2>4 DEF LocalsInv, LiveInv
<1>2. CASE Pinned
  <2>1. phase = "pinning" /\ phase' = "bootstrap" /\ req' = [s \in Slot |-> NoRequest]
    BY <1>2 DEF Pinned, configVars
  <2>2. \A arm \in Arm : ~Busy(arm)' /\ req'[<<"bootstrap", arm>>].st = "idle"
    BY <2>1, Slots, Requests DEF Busy
  <2>3. /\ gen' = 0 /\ todo' = Trial /\ cur' = None /\ pending' = <<>> /\ written' = {}
        /\ target' = None /\ journal' = [arm \in Arm |-> {}] /\ records' = {} /\ degraded' = {}
    BY <1>0, <2>1 DEF StartInv
  <2>4. 0 < Generations /\ None \notin Trial /\ Len(<<>>) = 0
    BY ExperimentAssumption
  <2>5. StepInv'
    BY <2>1, <2>2, <2>3, <2>4, Arms DEF StepInv, Running, Live
  <2>6. RecordInv' /\ JournalInv'
    BY <2>3, <2>4, ExperimentAssumption DEF RecordInv, JournalInv, Open
  <2>7. PendingInv' /\ HeadInv' /\ WriteInv'
    <3>1. Len(pending') = 0
      BY <2>3
    <3>2. PendingInv'
      BY <3>1 DEF PendingInv
    <3>3. HeadInv' /\ WriteInv'
      BY <2>2, <2>3 DEF HeadInv, WriteInv
    <3> QED BY <3>2, <3>3
  <2>8. SettledInv'
    BY <2>3, Arms DEF SettledInv, Settled, Events
  <2> QED BY <2>1, <2>5, <2>6, <2>7, <2>8 DEF LocalsInv, LiveInv, StartInv
<1>3. CASE PinFails
  <2>1. phase = "pinning" /\ phase' = "unpinning" /\ ~Live' /\ StartRestore
    BY <1>3 DEF PinFails, Live, Running
  <2>2. \A arm \in Arm : Busy(arm)' <=> Busy(arm)
    BY <2>1, RestoreTypes DEF Busy
  <2>3. StepInv'
    BY <1>0, <2>1, <2>2, Arms DEF StepInv, Running
  <2> QED BY <2>1, <2>3 DEF LocalsInv, LiveInv, StartInv
<1>4. CASE Restored
  <2>1. /\ phase \in {"unpinning", "closing"} /\ UNCHANGED req
        /\ phase' = IF phase = "closing" /\ gen = Generations THEN "done" ELSE "failed"
    BY <1>4 DEF Restored
  <2>2. Live' => Live /\ phase' = "done"
    BY <1>0, <2>1 DEF Live, Running
  <2>3. (\A arm \in Arm : Busy(arm)' <=> Busy(arm)) /\ Open' = Open
    BY <1>0, <2>1 DEF Busy, Open
  <2>4. StepInv'
    BY <1>0, <2>1, <2>2, <2>3, Arms DEF StepInv, Running
  <2>5. LiveInv'
    BY <1>0, <2>1, <2>2, <2>3, LiveStays DEF LiveInv
  <2> QED BY <2>1, <2>4, <2>5 DEF LocalsInv, StartInv
<1>5. CASE RestoreFails
  <2>1. phase' = "failed" /\ UNCHANGED req /\ ~Live'
    BY <1>5 DEF RestoreFails, Live, Running
  <2>2. \A arm \in Arm : Busy(arm)' <=> Busy(arm)
    BY <2>1 DEF Busy
  <2>3. StepInv'
    BY <1>0, <2>1, <2>2, Arms DEF StepInv, Running
  <2> QED BY <2>1, <2>3 DEF LocalsInv, LiveInv, StartInv
<1> QED BY <1>1, <1>2, <1>3, <1>4, <1>5

\* Asking for the envelopes and running the actors.
LEMMA LocalsAsk ==
  ASSUME TypeOK, LocalsInv,
         (\E t \in Trial : StartTrial(t)) \/ ControlBack \/ TreatmentBack \/ ActorRetried
  PROVE  LocalsInv'
<1>0. StartInv /\ StepInv /\ LiveInv
  BY DEF LocalsInv
<1>1. /\ phase \in {"bootstrap", "acting"} /\ phase' \in {"bootstrap", "acting"}
      /\ UNCHANGED <<gen, pending, written, target, journal, records, degraded>>
  BY DEF StartTrial, ControlBack, TreatmentBack, ActorRetried, journals
<1>2. \A arm \in Arm : req'[<<"feedback", arm>>] = req[<<"feedback", arm>>]
  <2>1. \A arm \in Arm : <<"feedback", arm>> # <<"bootstrap", Control>> /\ <<"feedback", arm>> # <<"bootstrap", Treatment>>
    OBVIOUS
  <2> QED BY <2>1, Slots, Arms DEF TypeOK, StartTrial, Ask, ControlBack, TreatmentBack, ActorRetried
<1>3. Open' = Open /\ cur' \notin todo'
  BY <1>0, ExperimentAssumption DEF Open, StepInv, TypeOK, StartTrial, ControlBack, TreatmentBack, ActorRetried
<1>4. Live /\ Live'
  BY <1>1 DEF Live, Running
<1>5. LiveInv'
  BY <1>0, <1>1, <1>2, <1>3, <1>4, LiveStays
<1>6. /\ \A arm \in Arm : Busy(arm)' <=> Busy(arm)
      /\ gen' < Generations
  BY <1>0, <1>1, <1>2 DEF Busy, StepInv, Running
<1>7. /\ phase' = "bootstrap" =>
           /\ req'[<<"bootstrap", Treatment>>].st # "idle" => req'[<<"bootstrap", Control>>].st = "idle"
           /\ \A arm \in Arm : req'[<<"bootstrap", arm>>].st # "idle" => cur' # None
      /\ phase' = "acting" =>
           /\ \A arm \in Arm : req'[<<"bootstrap", arm>>].st = "idle"
           /\ cur' # None /\ pair'.labels \subseteq Candidates[cur']
           /\ pair'.degraded => pair'.labels = {}
  <2> USE Arms, Slots, Requests
  <2>1. ASSUME NEW t \in Trial, StartTrial(t) PROVE <1>7!1 /\ phase' = "bootstrap"
    <3>1. \A arm \in Arm : req[<<"bootstrap", arm>>].st = "idle"
      BY <1>0, <2>1 DEF StartTrial, StepInv
    <3>2. phase' = "bootstrap" /\ cur' # None /\ req' = [req EXCEPT ![<<"bootstrap", Control>>] = NewRequest]
      BY <2>1, ExperimentAssumption DEF StartTrial, Ask
    <3>3. req'[<<"bootstrap", Treatment>>] = req[<<"bootstrap", Treatment>>]
      BY <3>2 DEF TypeOK
    <3> QED BY <3>1, <3>2, <3>3
  <2>2. CASE ControlBack
    <3>1. cur' # None
      BY <1>0, <2>2 DEF ControlBack, StepInv
    <3>2. phase' = "bootstrap" /\ req'[<<"bootstrap", Control>>] = NoRequest
      BY <2>2 DEF ControlBack, TypeOK
    <3> QED BY <3>1, <3>2
  <2>3. CASE TreatmentBack
    <3>1. req'[<<"bootstrap", Treatment>>] = NoRequest
      BY <2>3 DEF TreatmentBack, TypeOK
    <3>2. req'[<<"bootstrap", Control>>] = req[<<"bootstrap", Control>>]
      BY <2>3 DEF TreatmentBack, TypeOK
    <3>3. /\ phase' = "acting" /\ cur' = cur /\ cur # None
          /\ req[<<"bootstrap", Control>>].st = "idle"
      BY <1>0, <2>3 DEF TreatmentBack, StepInv
    <3>4. PICK e : pair' = [labels |-> Labels(env, e), degraded |-> env.degraded \/ e.degraded]
      BY <2>3 DEF TreatmentBack
    <3>5. pair'.labels = Labels(env, e) /\ (pair'.degraded <=> env.degraded \/ e.degraded)
      BY <3>4
    <3>6. pair'.labels \subseteq Candidates[cur] /\ (pair'.degraded => pair'.labels = {})
      BY <3>5 DEF Labels
    <3> QED BY <3>1, <3>2, <3>3, <3>6
  <2>4. CASE ActorRetried
    BY <1>0, <2>4 DEF ActorRetried, StepInv
  <2> QED BY <2>1, <2>2, <2>3, <2>4
<1>8. StepInv'
  BY <1>0, <1>1, <1>3, <1>4, <1>6, <1>7, Arms DEF StepInv, Running
<1> QED BY <1>1, <1>5, <1>8 DEF LocalsInv, StartInv

\* The event under way is of a clean trial both arms of which have a record.
LEMMA TargetIsClean ==
  ASSUME TypeOK, StepInv, LiveInv, phase = "feedback", NEW arm \in Arm, Busy(arm)
  PROVE  CleanPair(target)
<1>1. /\ pending # <<>> /\ target[3] \in Unwritten(arm) /\ gen \in 0..(Generations - 1)
      /\ target = <<gen, Head(pending)[1], target[3]>>
  BY WriteFacts
<1>2. RecordInv /\ PendingInv /\ target[1] = gen /\ target[2] = Head(pending)[1]
  BY <1>1 DEF LiveInv, Live, Running
<1>3. Head(pending) = pending[1] /\ 1 \in 1..Len(pending) /\ Head(pending)[1] \in Trial
  BY <1>1, PendingTypes
<1>4. /\ Head(pending)[2] \subseteq Candidates[Head(pending)[1]]
      /\ Head(pending)[1] \notin degraded \cup Open
  BY <1>2, <1>3 DEF PendingInv
<1>5. target[3] \in Candidates[Head(pending)[1]]
  BY <1>1, <1>4 DEF Unwritten
<1>6. \A b \in Arm : \E r \in records : r.gen = gen /\ r.trial = Head(pending)[1] /\ r.arm = b
  BY <1>1, <1>2, <1>3, <1>4 DEF RecordInv
<1> QED BY <1>2, <1>4, <1>5, <1>6 DEF CleanPair

\* One trip of a thread.  Only a feedback write that takes effect reaches a
\* journal, and only with the event of the signal being applied.
LEMMA LocalsThread ==
  ASSUME TypeOK, ConfigInv, LocalsInv, NEW kind \in {"pin", "restore", "bootstrap", "feedback"},
         NEW arm \in Arm, NEW a \in Answer, Trip(kind, arm, a)
  PROVE  LocalsInv'
<1>0. StartInv /\ StepInv /\ LiveInv
  BY DEF LocalsInv
<1>1. /\ req[<<kind, arm>>].st = "running" /\ req'[<<kind, arm>>].st # "idle"
      /\ kind = "feedback" /\ req'[<<kind, arm>>].st \in Succeeds => a \in TookEffect
      /\ \A k \in {"pin", "restore", "bootstrap", "feedback"}, b \in Arm :
           <<k, b>> # <<kind, arm>> => req'[<<k, b>>] = req[<<k, b>>]
      /\ UNCHANGED <<phase, gen, todo, cur, pair, pending, written, records, degraded, target>>
  BY TripFacts
<1>2. journal' = IF a \in TookEffect /\ kind = "feedback" THEN [journal EXCEPT ![arm] = @ \cup {target}]
                 ELSE journal
  <2>1. IF a \in TookEffect THEN TripEffect(kind, arm) ELSE UNCHANGED <<config, journals>>
    BY TripFacts
  <2> QED BY <2>1 DEF TripEffect, journals
<1>3. \A k \in {"pin", "restore", "bootstrap", "feedback"}, b \in Arm :
        req'[<<k, b>>].st = "idle" <=> req[<<k, b>>].st = "idle"
  BY <1>1
<1>4. (\A b \in Arm : Busy(b)' <=> Busy(b)) /\ (Live' <=> Live) /\ Open' = Open
  BY <1>1, <1>3 DEF Busy, Live, Open
<1>5. StepInv'
  BY <1>0, <1>1, <1>3, <1>4, Arms DEF StepInv
<1>6. phase # "new"
  <2>1. <<kind, arm>> \in Slot
    BY DEF Slot
  <2> QED BY <1>1, <2>1 DEF ConfigInv
<1>7. StartInv'
  <2>1. phase = "pinning" => kind # "feedback"
    BY <1>0, <1>1 DEF StartInv, Busy
  <2> QED BY <1>0, <1>1, <1>2, <1>4, <1>6, <2>1 DEF StartInv
<1>8. ASSUME Live PROVE LiveInv'
  <2>1. CASE kind # "feedback"
    <3>1. \A b \in Arm : req'[<<"feedback", b>>] = req[<<"feedback", b>>]
      BY <1>1, <2>1
    <3> QED BY <1>0, <1>1, <1>2, <1>4, <1>8, <2>1, <3>1, LiveStays
  <2>2. CASE kind = "feedback"
    <3>0. RecordInv /\ PendingInv /\ HeadInv /\ WriteInv /\ SettledInv /\ JournalInv
      BY <1>0, <1>8 DEF LiveInv
    <3>1. Busy(arm) /\ phase = "feedback"
      <4>1. Busy(arm)
        BY <1>1, <2>2 DEF Busy
      <4> QED BY <3>0, <4>1 DEF WriteInv
    <3>2. /\ pending # <<>> /\ target \in Event /\ target[3] \in Unwritten(arm)
          /\ target = <<gen, Head(pending)[1], target[3]>> /\ ~Busy(Other(arm))
          /\ target[3] \in Memory /\ gen \in 0..(Generations - 1)
      BY <1>0, <3>1, WriteFacts
    <3>3. /\ \A b \in Arm : b # arm => journal'[b] = journal[b] /\ ~Busy(b)
          /\ journal[arm] \subseteq journal'[arm] /\ journal'[arm] \subseteq journal[arm] \cup {target}
          /\ a \in TookEffect => target \in journal'[arm]
      BY <1>2, <2>2, <3>2, Arms DEF TypeOK
    <3>4. target[1] = gen /\ target[2] = Head(pending)[1]
      BY <3>2
    <3>5. \A b \in Arm : \A g, t : ~(g = gen /\ t = Head(pending)[1]) => Events(b, g, t)' = Events(b, g, t)
      BY <3>3, <3>4 DEF Events
    <3>6. /\ \A b \in Arm : b # arm => Events(b, gen, Head(pending)[1])' = Events(b, gen, Head(pending)[1])
          /\ Events(arm, gen, Head(pending)[1]) \subseteq Events(arm, gen, Head(pending)[1])'
          /\ Events(arm, gen, Head(pending)[1])' \subseteq Events(arm, gen, Head(pending)[1]) \cup {target}
      BY <1>1, <3>3 DEF Events
    <3>7. \A b \in Arm : Unwritten(b)' = Unwritten(b) /\ Acked(b)' = Acked(b)
      BY <1>1 DEF Unwritten, Acked
    <3>8. RecordInv'
      BY <1>1, <1>4, <3>0 DEF RecordInv
    <3>9. PendingInv'
      <4>1. ASSUME NEW k \in 1..Len(pending), k > 1, NEW b \in Arm
            PROVE  Events(b, gen, pending[k][1])' = Events(b, gen, pending[k][1])
        <5>1. Len(pending) \in Nat \ {0} /\ Head(pending) = pending[1]
          BY <3>2, PendingTypes
        <5>2. pending[k][1] # Head(pending)[1]
          BY <3>0, <4>1, <5>1 DEF PendingInv
        <5> QED BY <1>1, <3>5, <5>2
      <4>2. \A k \in 1..Len(pending) : k > 1 =>
              \A b \in Arm : Events(b, gen, pending[k][1])' = Events(b, gen, pending[k][1])
        BY <4>1
      <4>3. \A k \in 1..Len(pending) : k > 1 =>
              \A r \in records' : r.gen = gen /\ r.trial = pending[k][1] => r.writes = 0
        BY <1>1, <3>0 DEF PendingInv
      <4>4. PendingInv /\ UNCHANGED <<pending, gen, degraded, Open>>
        BY <1>1, <1>4, <3>0
      <4> QED BY <4>2, <4>3, <4>4, PendingStays
    <3>10. HeadInv'
      BY <1>1, <1>4, <3>0, <3>1, <3>6, <3>7 DEF HeadInv
    <3>11. WriteInv'
      <4>1. req'[<<"feedback", arm>>].st \in Succeeds => target' \in journal'[arm]
        BY <1>1, <2>2, <3>3
      <4>2. \A b \in Arm : b # arm => ~Busy(b)'
        BY <1>4, <3>3
      <4> QED BY <1>1, <1>4, <3>0, <3>1, <3>7, <4>1, <4>2 DEF WriteInv
    <3>12. SettledInv'
      <4>1. \A g \in Nat, t \in Trial : Settled(g, t) /\ ~(g = gen /\ t = Head(pending)[1]) => Settled(g, t)'
        BY <1>1, <3>5, SettledStays
      <4> QED BY <1>1, <3>0, <3>2, <4>1 DEF SettledInv
    <3>13. JournalInv'
      <4>1. CleanPair(target)
        BY <1>0, <3>1, TargetIsClean
      <4>2. \A e : CleanPair(e)' <=> CleanPair(e)
        BY <1>1 DEF CleanPair
      <4> QED BY <1>1, <3>0, <3>1, <3>3, <3>4, <4>1, <4>2 DEF JournalInv
    <3> QED BY <3>8, <3>9, <3>10, <3>11, <3>12, <3>13 DEF LiveInv
  <2> QED BY <2>1, <2>2
<1>9. LiveInv'
  BY <1>4, <1>8 DEF LiveInv
<1> QED BY <1>5, <1>7, <1>9 DEF LocalsInv

\* A signal is put at the end of the list.
LEMMA AppendedSignal ==
  ASSUME TypeOK, NEW item \in Trial \X SUBSET Memory
  PROVE  /\ Append(pending, item) # <<>> /\ Len(Append(pending, item)) = Len(pending) + 1
         /\ \A k \in 1..Len(pending) : Append(pending, item)[k] = pending[k]
         /\ Append(pending, item)[Len(pending) + 1] = item /\ Len(pending) \in Nat
         /\ pending # <<>> => Head(Append(pending, item)) = Head(pending)
         /\ pending = <<>> => Head(Append(pending, item)) = item
<1> DEFINE Signal == Trial \X SUBSET Memory
<1>1. pending \in Seq(Signal) /\ item \in Signal
  BY DEF TypeOK
<1> HIDE DEF Signal
<1>2. /\ Append(pending, item) \in Seq(Signal) /\ Append(pending, item) # <<>>
      /\ Len(Append(pending, item)) = Len(pending) + 1
      /\ \A k \in 1..Len(pending) : Append(pending, item)[k] = pending[k]
      /\ Append(pending, item)[Len(pending) + 1] = item /\ Len(pending) \in Nat
  BY <1>1, AppendProperties, LenProperties
<1>3. Head(Append(pending, item)) = Append(pending, item)[1]
  BY <1>2, HeadTailProperties
<1>4. pending # <<>> => Head(pending) = pending[1] /\ 1 \in 1..Len(pending)
  BY <1>1, EmptySeq, HeadTailProperties
<1>5. pending = <<>> => Len(pending) = 0
  OBVIOUS
<1> QED BY <1>2, <1>3, <1>4, <1>5

\* While a generation is scored no feedback is under way, and no journal has an
\* event of it.
LEMMA ScoringFacts ==
  ASSUME TypeOK, StepInv, LiveInv, phase \in {"bootstrap", "acting"}
  PROVE  /\ Live /\ gen \in 0..(Generations - 1)
         /\ RecordInv /\ PendingInv /\ HeadInv /\ WriteInv /\ SettledInv /\ JournalInv
         /\ \A arm \in Arm : ~Busy(arm) /\ \A t : Events(arm, gen, t) = {}
<1>1. Live /\ gen \in 0..(Generations - 1)
  BY ExperimentAssumption DEF Live, Running, StepInv, TypeOK
<1>2. RecordInv /\ PendingInv /\ HeadInv /\ WriteInv /\ SettledInv /\ JournalInv
  BY <1>1 DEF LiveInv
<1>3. \A arm \in Arm : ~Busy(arm)
  BY <1>2 DEF WriteInv
<1>4. \A arm \in Arm : \A e \in journal[arm] : e[1] # gen
  BY <1>1, <1>2 DEF JournalInv
<1>5. \A arm \in Arm : \A t : Events(arm, gen, t) = {}
  BY <1>4 DEF Events
<1> QED BY <1>1, <1>2, <1>3, <1>5

\* An actor is scored: after the second one the trial is over and has its records.
LEMMA LocalsScores ==
  ASSUME TypeOK, LocalsInv, NEW arm \in Arm, ActorScores(arm) PROVE LocalsInv'
<1>0. StartInv /\ StepInv /\ LiveInv /\ phase = "acting"
  BY DEF LocalsInv, ActorScores
<1>1. /\ Live /\ gen \in 0..(Generations - 1)
      /\ RecordInv /\ PendingInv /\ HeadInv /\ WriteInv /\ SettledInv /\ JournalInv
      /\ \A b \in Arm : ~Busy(b) /\ \A t : Events(b, gen, t) = {}
  BY <1>0, ScoringFacts
<1>2. /\ UNCHANGED <<config, saved, late, req, gen, todo, env, written, target, journal,
                     repeated, cancelled>>
      /\ cur \in Trial /\ cur \notin todo /\ \A b \in Arm : Busy(b)' <=> Busy(b)
  BY <1>0 DEF ActorScores, configVars, journals, StepInv, TypeOK, Busy
<1>3. CASE outcomes = {}
  <2>1. UNCHANGED <<phase, cur, pair, pending, records, degraded>>
    BY <1>3 DEF ActorScores
  <2>2. Open' = Open /\ (Live' <=> Live)
    BY <1>2, <2>1 DEF Open, Live
  <2>3. LiveInv'
    BY <1>0, <1>1, <1>2, <2>1, <2>2, LiveStays
  <2>4. StepInv'
    BY <1>0, <1>2, <2>1, <2>2, Arms DEF StepInv
  <2> QED BY <1>0, <2>1, <2>3, <2>4 DEF LocalsInv, StartInv
<1>4. CASE outcomes # {}
  <2> DEFINE New == [gen : {gen}, trial : {cur}, arm : Arm, writes : {0}]
             item == <<cur, pair.labels>>
  <2>1. /\ cur' = None
        /\ records' = records \cup New
        /\ degraded' = (IF pair.degraded THEN degraded \cup {cur} ELSE degraded)
        /\ pending' = (IF pair.labels = {} THEN pending ELSE Append(pending, item))
        /\ phase' = (IF todo = {} THEN "feedback" ELSE "bootstrap")
    BY <1>4 DEF ActorScores
  <2>2. /\ \A r \in New : r.gen = gen /\ r.trial = cur /\ r.arm \in Arm /\ r.writes = 0
        /\ \A b \in Arm : \E r \in New : r.gen = gen /\ r.trial = cur /\ r.arm = b
        /\ \A r, s \in New : r.arm = s.arm => r = s
    <3>1. \A r \in New : r.gen = gen /\ r.trial = cur /\ r.arm \in Arm /\ r.writes = 0
      OBVIOUS
    <3>2. \A r \in New : r = [gen |-> gen, trial |-> cur, arm |-> r.arm, writes |-> 0]
      OBVIOUS
    <3>3. ASSUME NEW b \in Arm PROVE \E r \in New : r.gen = gen /\ r.trial = cur /\ r.arm = b
      <4>1. [gen |-> gen, trial |-> cur, arm |-> b, writes |-> 0] \in New
        OBVIOUS
      <4> QED BY <4>1
    <3>4. ASSUME NEW r \in New, NEW s \in New, r.arm = s.arm PROVE r = s
      BY <3>2, <3>4
    <3> QED BY <3>1, <3>3, <3>4
  <2>3. /\ item \in Trial \X SUBSET Memory /\ item[1] = cur /\ item[2] = pair.labels
        /\ pair.labels \subseteq Candidates[cur] /\ (pair.degraded => pair.labels = {})
    BY <1>0, <1>2, ExperimentAssumption DEF StepInv, TypeOK
  <2> HIDE DEF New, item
  <2>4. /\ Open' \subseteq Open /\ cur \in Open /\ cur \notin Open' /\ Open \subseteq Open' \cup {cur}
        /\ None \notin Trial /\ Live' /\ phase' \in {"bootstrap", "feedback"}
    BY <1>2, <2>1, ExperimentAssumption DEF Open, TypeOK, Live, Running
  <2>5. StepInv'
    BY <1>0, <1>1, <1>2, <2>1, <2>4, Arms DEF StepInv, Running, TypeOK
  <2>6. \A r \in records : ~(r.gen = gen /\ r.trial = cur)
    BY <1>1, <2>4 DEF RecordInv, TypeOK
  <2>7. RecordInv'
    <3>1. \A r \in records' : r.gen < gen' \/ (r.gen = gen' /\ r.trial \notin Open')
      BY <1>1, <1>2, <2>1, <2>2, <2>4 DEF RecordInv
    <3>2. ASSUME NEW g \in 0..(Generations - 1), NEW t \in Trial, NEW b \in Arm,
                 g < gen' \/ (g = gen' /\ t \notin Open')
          PROVE  \E r \in records' : r.gen = g /\ r.trial = t /\ r.arm = b
      BY <1>1, <1>2, <2>1, <2>2, <2>4, <3>2 DEF RecordInv
    <3>3. \A r, s \in records' : r.gen = s.gen /\ r.trial = s.trial /\ r.arm = s.arm => r = s
      BY <1>1, <2>1, <2>2, <2>6 DEF RecordInv
    <3>4. degraded' \cap Open' = {}
      BY <1>1, <2>1, <2>4 DEF RecordInv
    <3> QED BY <3>1, <3>2, <3>3, <3>4 DEF RecordInv
  <2>8. /\ \A b \in Arm : \A g, t : Events(b, g, t)' = Events(b, g, t)
        /\ degraded \subseteq degraded' /\ degraded' \subseteq degraded \cup {cur}
        /\ cur \notin degraded /\ (pair.labels # {} => cur \notin degraded')
    BY <1>1, <1>2, <2>1, <2>3, <2>4 DEF Events, RecordInv
  <2>9. \A k \in 1..Len(pending) : pending[k][1] # cur
    BY <1>1, <2>4 DEF PendingInv
  <2>10. PendingInv'
    <3>1. ASSUME NEW k \in 1..Len(pending)
          PROVE  /\ pending[k][2] # {} /\ pending[k][2] \subseteq Candidates[pending[k][1]]
                 /\ pending[k][1] \notin degraded' \cup Open'
                 /\ \A j \in 1..Len(pending) : pending[j][1] = pending[k][1] => j = k
                 /\ k > 1 => /\ \A b \in Arm : Events(b, gen, pending[k][1]) = {}
                             /\ \A r \in records' : r.gen = gen /\ r.trial = pending[k][1] => r.writes = 0
      BY <1>1, <2>1, <2>2, <2>4, <2>8, <2>9 DEF PendingInv
    <3>2. CASE pair.labels = {}
      <4>1. pending' = pending /\ gen' = gen
        BY <1>2, <2>1, <3>2
      <4>2. \A b \in Arm, k \in 1..Len(pending) :
              Events(b, gen, pending[k][1])' = Events(b, gen, pending[k][1])
        BY <2>8, <4>1
      <4>3. \A k \in 1..Len(pending) : pending[k][1] \notin degraded' \cup Open'
        BY <3>1
      <4>4. \A k \in 1..Len(pending) : k > 1 => \A b \in Arm : Events(b, gen, pending[k][1])' = {}
        BY <3>1, <4>2
      <4>5. \A k \in 1..Len(pending) : k > 1 =>
              \A r \in records' : r.gen = gen /\ r.trial = pending[k][1] => r.writes = 0
        BY <3>1
      <4>6. \A k \in 1..Len(pending) :
              /\ pending[k][2] # {} /\ pending[k][2] \subseteq Candidates[pending[k][1]]
              /\ \A j \in 1..Len(pending) : pending[j][1] = pending[k][1] => j = k
        BY <3>1
      <4> HIDE DEF Open
      <4> QED BY <4>1, <4>3, <4>4, <4>5, <4>6, Zenon DEF PendingInv
    <3>3. CASE pair.labels # {}
      <4>1. /\ Len(pending') = Len(pending) + 1 /\ Len(pending) \in Nat /\ gen' = gen
            /\ \A k \in 1..Len(pending) : pending'[k] = pending[k]
            /\ pending'[Len(pending) + 1] = item
        BY <1>2, <2>1, <2>3, <3>3, AppendedSignal
      <4>2. \A r \in records' : r.gen = gen /\ r.trial = cur => r.writes = 0
        BY <2>1, <2>2, <2>6
      <4>3. ASSUME NEW k \in 1..Len(pending')
            PROVE  /\ pending'[k][2] # {} /\ pending'[k][2] \subseteq Candidates[pending'[k][1]]
                   /\ pending'[k][1] \notin degraded' \cup Open'
                   /\ \A j \in 1..Len(pending') : pending'[j][1] = pending'[k][1] => j = k
                   /\ k > 1 => /\ \A b \in Arm : Events(b, gen, pending'[k][1]) = {}
                               /\ \A r \in records' : r.gen = gen /\ r.trial = pending'[k][1] => r.writes = 0
        <5>1. \A j \in 1..Len(pending') : j \in 1..Len(pending) \/ j = Len(pending) + 1
          BY <4>1
        <5>2. CASE k \in 1..Len(pending)
          <6>1. \A j \in 1..Len(pending') : pending'[j][1] = pending'[k][1] => j = k
            BY <2>3, <2>9, <3>1, <4>1, <5>1, <5>2
          <6>2. pending'[k] = pending[k]
            BY <4>1, <5>2
          <6>3. /\ pending[k][2] # {} /\ pending[k][2] \subseteq Candidates[pending[k][1]]
                /\ pending[k][1] \notin degraded' \cup Open'
                /\ k > 1 => /\ \A b \in Arm : Events(b, gen, pending[k][1]) = {}
                            /\ \A r \in records' : r.gen = gen /\ r.trial = pending[k][1] => r.writes = 0
            BY <3>1, <5>2
          <6> QED BY <6>1, <6>2, <6>3
        <5>3. CASE k = Len(pending) + 1
          <6>1. pending'[k] = item
            BY <4>1, <5>3
          <6>2. \A j \in 1..Len(pending') : pending'[j][1] = pending'[k][1] => j = k
            BY <2>3, <2>9, <4>1, <5>1, <5>3, <6>1
          <6> QED BY <1>1, <2>3, <2>4, <2>8, <3>3, <4>2, <6>1, <6>2
        <5> QED BY <5>1, <5>2, <5>3
      <4>4. \A k \in 1..Len(pending') : \A b \in Arm : Events(b, gen, pending[k][1])' = Events(b, gen, pending'[k][1])
        BY <1>2, <2>8
      <4>5. \A k \in 1..Len(pending') :
              /\ pending'[k][2] # {} /\ pending'[k][2] \subseteq Candidates[pending'[k][1]]
              /\ pending'[k][1] \notin degraded' \cup Open'
              /\ \A j \in 1..Len(pending') : pending'[j][1] = pending'[k][1] => j = k
        BY <4>3
      <4>6. \A k \in 1..Len(pending') : k > 1 =>
              /\ \A b \in Arm : Events(b, gen, pending[k][1])' = {}
              /\ \A r \in records' : r.gen = gen' /\ r.trial = pending'[k][1] => r.writes = 0
        <5>1. ASSUME NEW k \in 1..Len(pending'), k > 1
              PROVE  /\ \A b \in Arm : Events(b, gen, pending'[k][1]) = {}
                     /\ \A r \in records' : r.gen = gen /\ r.trial = pending'[k][1] => r.writes = 0
          BY <4>3, <5>1
        <5>2. ASSUME NEW k \in 1..Len(pending'), k > 1
              PROVE  \A b \in Arm : Events(b, gen, pending[k][1])' = {}
          BY <4>4, <5>1, <5>2
        <5>3. gen' = gen
          BY <1>2
        <5> QED BY <5>1, <5>2, <5>3
      <4> QED BY <4>5, <4>6 DEF PendingInv
    <3> QED BY <3>2, <3>3
  <2>11. HeadInv' /\ WriteInv' /\ SettledInv'
    <3>1. \A r \in records' : r.gen = gen /\ r.trial = cur => r.writes = 0
      BY <2>1, <2>2, <2>6
    <3>2. \A g, t : ~(g = gen /\ t = cur) =>
            \A r : r.gen = g /\ r.trial = t => (r \in records' <=> r \in records)
      BY <2>1, <2>2
    <3>3. CASE pending = <<>> /\ pair.labels # {}
      <4>1. pending' # <<>> /\ Head(pending') = item /\ written' = {} /\ target' = None /\ gen' = gen
        BY <1>1, <1>2, <2>1, <2>3, <3>3, AppendedSignal DEF WriteInv
      <4>2. \A b \in Arm : /\ Acked(b)' = {} /\ Unwritten(b)' = pair.labels
                           /\ Events(b, gen, Head(pending)[1])' = {}
        BY <1>1, <1>2, <2>3, <2>8, <4>1 DEF Acked, Unwritten
      <4>3. HeadInv'
        BY <1>2, <2>3, <3>1, <3>3, <4>1, <4>2 DEF HeadInv
      <4>4. WriteInv'
        BY <1>1, <1>2, <4>1 DEF WriteInv
      <4>5. \A g \in Nat, t \in Trial : ~(g = gen /\ t = cur) => Settled(g, t)'
        <5>1. \A r \in records : r.arm \in Arm
          BY DEF TypeOK
        <5>2. \A g \in Nat, t \in Trial : Settled(g, t)
          BY <1>1, <3>3 DEF SettledInv
        <5> QED BY <2>8, <3>2, <5>1, <5>2, Arms DEF Settled
      <4>6. SettledInv'
        BY <2>3, <4>1, <4>5 DEF SettledInv
      <4> QED BY <4>3, <4>4, <4>6
    <3>4. CASE ~(pending = <<>> /\ pair.labels # {})
      <4>1. /\ pending' = <<>> <=> pending = <<>>
            /\ pending # <<>> => Head(pending') = Head(pending) /\ Head(pending)[1] # cur
            /\ written' = written /\ target' = target /\ gen' = gen
        <5>1. pending # <<>> => Head(pending)[1] # cur
          BY <2>9, PendingTypes
        <5> QED BY <1>2, <2>1, <2>3, <3>4, <5>1, AppendedSignal
      <4>2. pending # <<>> => \A b \in Arm :
                           /\ Acked(b)' = Acked(b) /\ Unwritten(b)' = Unwritten(b)
                           /\ Events(b, gen, Head(pending)[1])' = Events(b, gen, Head(pending)[1])
        BY <1>2, <2>8, <4>1 DEF Acked, Unwritten
      <4>3. HeadInv'
        <5>1. HeadInv /\ (pending' # <<>> => pending # <<>>) /\ UNCHANGED <<req, gen, target, written>>
          BY <1>1, <1>2, <4>1
        <5>2. pending # <<>> => \A r \in records' : r.trial = Head(pending)[1] => r \in records
          BY <3>2, <4>1
        <5>3. \A b \in Arm : Busy(b)' <=> Busy(b)
          BY <5>1 DEF Busy
        <5> QED BY <4>1, <4>2, <5>1, <5>2, <5>3 DEF HeadInv
      <4>4. WriteInv'
        BY <1>1, <1>2, <4>1 DEF WriteInv
      <4>5. ASSUME NEW g \in Nat, NEW t \in Trial, ~(pending # <<>> /\ g = gen /\ t = Head(pending)[1])
            PROVE  Settled(g, t)'
        <5>1. CASE g = gen /\ t = cur
          <6>1. Cardinality({}) = 0
            BY FS_EmptySet
          <6>2. \A b \in Arm : Events(b, g, t)' = {}
            BY <1>1, <2>8, <5>1
          <6>3. \A r \in records' : r.gen = g /\ r.trial = t => r.arm \in Arm /\ r.writes = 0
            BY <2>1, <2>2, <2>6, <5>1
          <6> QED BY <6>1, <6>2, <6>3, Arms DEF Settled
        <5>2. CASE ~(g = gen /\ t = cur)
          <6>1. Settled(g, t)
            BY <1>1, <4>5 DEF SettledInv
          <6>2. \A r \in records : r.arm \in Arm
            BY DEF TypeOK
          <6> QED BY <2>8, <3>2, <5>2, <6>1, <6>2, Arms DEF Settled
        <5> QED BY <5>1, <5>2
      <4>6. SettledInv'
        BY <4>1, <4>5 DEF SettledInv
      <4> QED BY <4>3, <4>4, <4>6
    <3> QED BY <3>3, <3>4
  <2>12. JournalInv'
    <3>1. ASSUME NEW b \in Arm, NEW e \in journal[b] PROVE e[1] < gen /\ CleanPair(e)'
      <4>1. e[1] < gen /\ CleanPair(e)
        BY <1>0, <1>1 DEF JournalInv
      <4>2. e[1] # gen
        BY <1>1, <4>1
      <4> QED BY <1>2, <2>1, <4>1, <4>2 DEF CleanPair
    <3> QED BY <1>2, <3>1 DEF JournalInv
  <2> QED BY <2>4, <2>5, <2>7, <2>10, <2>11, <2>12 DEF LocalsInv, LiveInv, StartInv
<1> QED BY <1>3, <1>4

\* A write starts: nothing has reached a journal.
LEMMA LocalsWrite ==
  ASSUME TypeOK, LocalsInv, NEW arm \in Arm, NEW m \in Memory, Write(arm, m) PROVE LocalsInv'
<1>0. StartInv /\ StepInv /\ LiveInv /\ phase = "feedback" /\ pending # <<>>
  BY DEF LocalsInv, Write
<1>1. Live /\ RecordInv /\ PendingInv /\ HeadInv /\ WriteInv /\ SettledInv /\ JournalInv
  BY <1>0 DEF LiveInv, Live, Running
<1>2. /\ UNCHANGED <<phase, gen, todo, cur, pair, pending, written, records, degraded, journal>>
      /\ target' = <<gen, Head(pending)[1], m>> /\ m \in Unwritten(arm)
      /\ req' = [req EXCEPT ![<<"feedback", arm>>] = NewRequest]
  BY DEF Write, journals
<1>3. /\ \A b \in Arm : ~Busy(b) /\ (Busy(b)' <=> b = arm)
      /\ req'[<<"feedback", arm>>].st = "running"
      /\ \A b \in Arm : req'[<<"bootstrap", b>>] = req[<<"bootstrap", b>>]
  <2>1. \A b \in Arm : ~Busy(b)
    BY DEF Write, Writing, Busy
  <2>2. /\ req'[<<"feedback", arm>>].st = "running"
        /\ \A b \in Arm : b # arm => req'[<<"feedback", b>>] = req[<<"feedback", b>>]
        /\ \A b \in Arm : req'[<<"bootstrap", b>>] = req[<<"bootstrap", b>>]
    BY <1>2, Slots, Requests DEF TypeOK
  <2> QED BY <2>1, <2>2 DEF Busy
<1>4. target' \in Event
  <2>1. gen \in 0..(Generations - 1) /\ Head(pending)[1] \in Trial
    BY <1>0, PendingTypes, ExperimentAssumption DEF StepInv, TypeOK, Running
  <2> QED BY <1>2, <2>1 DEF Event
<1>5. Live' /\ Open' = Open
  BY <1>1, <1>2 DEF Live, Open
<1>6. StepInv'
  BY <1>0, <1>2, <1>3, <1>4, <1>5, Arms DEF StepInv, Running, Live
<1>7. /\ \A b \in Arm : \A g, t : Events(b, g, t)' = Events(b, g, t)
      /\ \A b \in Arm : Unwritten(b)' = Unwritten(b) /\ Acked(b)' = Acked(b)
  BY <1>2 DEF Events, Unwritten, Acked
<1>8. RecordInv' /\ JournalInv'
  BY <1>1, <1>2, <1>5 DEF RecordInv, JournalInv, CleanPair
<1>9. PendingInv'
  <2>1. \A k \in 1..Len(pending) : k > 1 =>
          \A b \in Arm : Events(b, gen, pending[k][1])' = Events(b, gen, pending[k][1])
    BY <1>2, <1>7
  <2>2. PendingInv /\ UNCHANGED <<gen, pending, degraded, Open>>
    BY <1>1, <1>2, <1>5
  <2>3. \A k \in 1..Len(pending) : k > 1 =>
          \A r \in records' : r.gen = gen /\ r.trial = pending[k][1] => r.writes = 0
    BY <1>2, <2>2 DEF PendingInv
  <2> QED BY <2>1, <2>2, <2>3, PendingStays
<1>10. HeadInv'
  BY <1>1, <1>2, <1>3, <1>7 DEF HeadInv
<1>11. WriteInv'
  BY <1>0, <1>2, <1>3, <1>7 DEF WriteInv, Succeeds
<1>12. SettledInv'
  <2>1. \A g \in Nat, t \in Trial : Settled(g, t) => Settled(g, t)'
    BY <1>2, <1>7, SettledStays
  <2> QED BY <1>1, <1>2, <2>1 DEF SettledInv
<1> QED BY <1>0, <1>2, <1>6, <1>8, <1>9, <1>10, <1>11, <1>12 DEF LocalsInv, LiveInv, StartInv

\* All signals of a generation are applied.
LEMMA LocalsNext ==
  ASSUME TypeOK, LocalsInv, NextGeneration PROVE LocalsInv'
<1>0. StartInv /\ StepInv /\ LiveInv /\ phase = "feedback" /\ pending = <<>>
  BY DEF LocalsInv, NextGeneration
<1>1. /\ Live /\ RecordInv /\ WriteInv /\ SettledInv /\ JournalInv
      /\ todo = {} /\ cur = None /\ gen < Generations
  BY <1>0 DEF LiveInv, Live, Running, StepInv
<1>2. /\ gen' = gen + 1 /\ degraded' = {}
      /\ UNCHANGED <<cur, pair, pending, written, target, records, journal>>
      /\ phase' = (IF gen + 1 < Generations THEN "bootstrap" ELSE "closing")
      /\ todo' = (IF gen + 1 < Generations THEN Trial ELSE todo)
      /\ req' = req \/ StartRestore
  BY DEF NextGeneration, journals
<1>3. gen \in Nat /\ gen + 1 \in Nat /\ Generations \in Nat /\ None \notin Trial /\ gen + 1 <= Generations
  BY <1>1, ExperimentAssumption DEF TypeOK
<1>4. \A b \in Arm : /\ req'[<<"feedback", b>>] = req[<<"feedback", b>>]
                     /\ req'[<<"bootstrap", b>>] = req[<<"bootstrap", b>>]
  BY <1>2, RestoreTypes
<1>5. \A b \in Arm : ~Busy(b) /\ ~Busy(b)' /\ req[<<"bootstrap", b>>].st = "idle"
  BY <1>0, <1>1, <1>4 DEF Busy, WriteInv, StepInv
<1>6. Live' /\ Open = {}
  BY <1>1, <1>2, <1>3 DEF Live, Running, Open
<1>7. StepInv'
  BY <1>0, <1>1, <1>2, <1>3, <1>4, <1>5, Arms DEF StepInv, Running, Live
<1>8. RecordInv'
  <2>1. \A r \in records' : r.gen < gen'
    <3>1. \A r \in records : r.gen \in Int /\ (r.gen < gen \/ r.gen = gen)
      BY <1>1 DEF RecordInv, TypeOK
    <3> QED BY <1>2, <1>3, <3>1
  <2>2. ASSUME NEW g \in 0..(Generations - 1), NEW t \in Trial, NEW b \in Arm,
               g < gen' \/ (g = gen' /\ t \notin Open')
        PROVE  \E r \in records' : r.gen = g /\ r.trial = t /\ r.arm = b
    <3>1. g < gen'
      BY <1>2, <1>3, <2>2 DEF Open
    <3>2. g < gen \/ g = gen
      BY <1>2, <1>3, <3>1
    <3> QED BY <1>1, <1>2, <1>6, <3>2 DEF RecordInv
  <2>3. \A r, s \in records' : r.gen = s.gen /\ r.trial = s.trial /\ r.arm = s.arm => r = s
    BY <1>1, <1>2 DEF RecordInv
  <2> QED BY <1>2, <2>1, <2>2, <2>3 DEF RecordInv
<1>9. PendingInv' /\ HeadInv' /\ WriteInv'
  <2>1. Len(pending') = 0 /\ pending' = <<>>
    BY <1>0, <1>2
  <2>2. PendingInv'
    BY <2>1 DEF PendingInv
  <2> QED BY <1>0, <1>1, <1>2, <1>5, <2>1, <2>2 DEF HeadInv, WriteInv
<1>10. SettledInv'
  <2>1. \A b \in Arm : \A g, t : Events(b, g, t)' = Events(b, g, t)
    BY <1>2 DEF Events
  <2>2. \A g \in Nat, t \in Trial : Settled(g, t)
    BY <1>0, <1>1 DEF SettledInv
  <2>3. \A g \in Nat, t \in Trial : Settled(g, t)'
    BY <1>2, <2>1, <2>2, SettledStays
  <2> QED BY <2>3 DEF SettledInv
<1>11. JournalInv'
  <2>1. ASSUME NEW b \in Arm, NEW e \in journal[b] PROVE e[1] < gen' /\ CleanPair(e)'
    <3>1. CleanPair(e) /\ e[1] \in 0..(Generations - 1) /\ (e[1] < gen \/ e[1] = gen)
      BY <1>1 DEF JournalInv, TypeOK, Event
    <3>2. e[1] < gen'
      BY <1>2, <1>3, <3>1
    <3> QED BY <1>2, <3>1, <3>2 DEF CleanPair
  <2> QED BY <1>2, <2>1 DEF JournalInv
<1> QED BY <1>2, <1>7, <1>8, <1>9, <1>10, <1>11 DEF LocalsInv, LiveInv, StartInv

\* A write is acknowledged.  It was the event of the journal that none of the
\* acknowledged ones accounted for.
LEMMA LocalsWritten ==
  ASSUME TypeOK, LocalsInv, NEW arm \in Arm, Written(arm) PROVE LocalsInv'
<1> DEFINE h == Head(pending)[1]
           L == Head(pending)[2]
           mm == target[3]
           all == written \cup {<<arm, mm>>}
           Full(b) == {<<gen, h, x>> : x \in {x \in Memory : <<b, x>> \in all}}
           Left(b) == {x \in L : <<b, x>> \notin all}
<1>0. StartInv /\ StepInv /\ LiveInv /\ phase = "feedback" /\ Busy(arm)
  BY DEF LocalsInv, Written, Busy, Succeeds
<1>1. Live /\ RecordInv /\ PendingInv /\ HeadInv /\ WriteInv /\ SettledInv /\ JournalInv
  BY <1>0 DEF LiveInv, Live, Running
<1>2. /\ pending # <<>> /\ target \in Event /\ mm \in Unwritten(arm)
      /\ target = <<gen, h, mm>> /\ ~Busy(Other(arm)) /\ mm \in Memory /\ gen \in 0..(Generations - 1)
  BY <1>0, WriteFacts
<1>3. /\ Len(pending) \in Nat \ {0} /\ Head(pending) = pending[1]
      /\ h \in Trial /\ L \subseteq Memory /\ IsFiniteSet(L)
      /\ Len(Tail(pending)) = Len(pending) - 1
      /\ \A k \in 1..(Len(pending) - 1) : Tail(pending)[k] = pending[k + 1]
  BY <1>2, PendingTypes
<1>4. /\ UNCHANGED <<phase, gen, todo, cur, pair, degraded, journal>> /\ target' = None
      /\ req' = [req EXCEPT ![<<"feedback", arm>>] = NoRequest]
      /\ IF Arm \X L \subseteq all THEN pending' = Tail(pending) /\ written' = {}
         ELSE written' = all /\ pending' = pending
  BY DEF Written, journals
<1>5. /\ \A b \in Arm : ~Busy(b)' /\ (b # arm => ~Busy(b))
      /\ \A b \in Arm : req'[<<"bootstrap", b>>] = req[<<"bootstrap", b>>]
  <2>1. /\ req'[<<"feedback", arm>>].st = "idle"
        /\ \A b \in Arm : b # arm => req'[<<"feedback", b>>] = req[<<"feedback", b>>]
        /\ \A b \in Arm : req'[<<"bootstrap", b>>] = req[<<"bootstrap", b>>]
    BY <1>4, Slots, Requests DEF TypeOK
  <2> QED BY <1>2, <2>1, Arms DEF Busy
<1>6. Live' /\ Open' = Open
  BY <1>1, <1>4 DEF Live, Open
<1>7. StepInv'
  BY <1>0, <1>4, <1>5, <1>6, Arms DEF StepInv, Running, Live
<1>8. /\ \A b \in Arm : \A g, t : Events(b, g, t)' = Events(b, g, t)
      /\ \A b \in Arm : Events(b, gen, h) = Full(b)
      /\ \A b \in Arm, x \in Memory : <<b, x>> \in all => x \in L
  <2>1. target \in journal[arm]
    BY <1>0, <1>1 DEF WriteInv, Written
  <2>2. \A b \in Arm : \A g, t : Events(b, g, t)' = Events(b, g, t)
    BY <1>4 DEF Events
  <2>3. target \in Events(arm, gen, h)
    BY <1>2, <2>1 DEF Events
  <2>4. \A b \in Arm : Full(b) = Acked(b) \cup (IF b = arm THEN {target} ELSE {})
    BY <1>2 DEF Acked
  <2>5. \A b \in Arm : /\ Acked(b) \subseteq Events(b, gen, h)
                       /\ Events(b, gen, h) \subseteq Acked(b) \cup (IF Busy(b) THEN {target} ELSE {})
                       /\ \A x \in Memory : <<b, x>> \in written => x \in L
    BY <1>1, <1>2 DEF HeadInv
  <2>6. \A b \in Arm : Events(b, gen, h) = Full(b)
    <3> HIDE DEF Full
    <3> QED BY <1>0, <1>5, <2>3, <2>4, <2>5
  <2>7. mm \in L
    BY <1>2 DEF Unwritten
  <2> QED BY <2>2, <2>5, <2>6, <2>7
<1>9. /\ \A b \in Arm : b # arm => Left(b) = Unwritten(b)
      /\ Left(arm) = {} <=> Unwritten(arm) = {mm}
      /\ Unwritten(arm) # {}
  BY <1>2 DEF Unwritten
<1> HIDE DEF Left, Full
<1>10. \A s \in records' : s.gen = gen /\ s.trial = h =>
         s.arm \in Arm /\ s.writes = IF Left(s.arm) = {} THEN Cardinality(L) ELSE 0
  <2>1. ASSUME NEW s \in records', s.gen = gen, s.trial = h
        PROVE  s.arm \in Arm /\ s.writes = IF Left(s.arm) = {} THEN Cardinality(L) ELSE 0
    <3>1. PICK r \in records :
              /\ s.gen = r.gen /\ s.trial = r.trial /\ s.arm = r.arm
              /\ s.writes = IF /\ Unwritten(arm) = {target[3]} /\ r.gen = gen
                               /\ r.trial = Head(pending)[1] /\ r.arm = arm
                            THEN Cardinality(Head(pending)[2]) ELSE r.writes
      BY <1>2, WrittenRecords
    <3>2. r.arm \in Arm /\ r.writes = IF Unwritten(r.arm) = {} THEN Cardinality(L) ELSE 0
      <4>1. r.arm \in Arm
        BY DEF TypeOK
      <4> QED BY <1>1, <1>2, <2>1, <3>1, <4>1 DEF HeadInv
    <3> HIDE DEF L
    <3> QED BY <1>9, <2>1, <3>1, <3>2 DEF L
  <2> QED BY <2>1
<1>11. \A s \in records' : \E r \in records :
         /\ s.gen = r.gen /\ s.trial = r.trial /\ s.arm = r.arm
         /\ ~(r.gen = gen /\ r.trial = h) => s.writes = r.writes
  BY <1>2, WrittenRecords
<1>12. \A r \in records : \E s \in records' : s.gen = r.gen /\ s.trial = r.trial /\ s.arm = r.arm
  BY <1>2, WrittenRecords
<1>13. RecordInv'
  <2>1. \A s \in records' : s.gen < gen' \/ (s.gen = gen' /\ s.trial \notin Open')
    BY <1>1, <1>4, <1>6, <1>11 DEF RecordInv
  <2>2. ASSUME NEW g \in 0..(Generations - 1), NEW t \in Trial, NEW b \in Arm,
               g < gen' \/ (g = gen' /\ t \notin Open')
        PROVE  \E r \in records' : r.gen = g /\ r.trial = t /\ r.arm = b
    <3>1. \E r \in records : r.gen = g /\ r.trial = t /\ r.arm = b
      BY <1>1, <1>4, <1>6, <2>2 DEF RecordInv
    <3> QED BY <1>12, <3>1
  <2>3. ASSUME NEW r \in records', NEW s \in records',
               r.gen = s.gen, r.trial = s.trial, r.arm = s.arm
        PROVE  r = s
    <3>1. r.writes = s.writes
      <4>1. CASE s.gen = gen /\ s.trial = h
        BY <1>10, <2>3, <4>1
      <4>2. CASE ~(s.gen = gen /\ s.trial = h)
        BY <1>1, <1>11, <2>3, <4>2 DEF RecordInv
      <4> QED BY <4>1, <4>2
    <3>2. records' \subseteq [gen : 0..(Generations - 1), trial : Trial, arm : Arm, writes : Nat]
      BY <1>2, WrittenRecords
    <3> QED BY <2>3, <3>1, <3>2
  <2>4. degraded' \cap Open' = {}
    BY <1>1, <1>4, <1>6 DEF RecordInv
  <2> QED BY <2>1, <2>2, <2>3, <2>4 DEF RecordInv
<1>14. JournalInv'
  <2>1. \A e : CleanPair(e) => CleanPair(e)'
    BY <1>4, <1>12 DEF CleanPair
  <2> QED BY <1>1, <1>4, <2>1 DEF JournalInv
<1>15. ASSUME NEW g \in Nat, NEW t \in Trial, ~(g = gen /\ t = h) PROVE Settled(g, t)'
  <2>1. Settled(g, t)
    BY <1>1, <1>15 DEF SettledInv
  <2>2. \A r \in records : r.arm \in Arm
    BY DEF TypeOK
  <2> QED BY <1>8, <1>11, <1>15, <2>1, <2>2, Arms DEF Settled
\* What the signals that wait need is not touched.
<1>16. ASSUME NEW k \in 1..Len(pending)
       PROVE  /\ pending[k][2] # {} /\ pending[k][2] \subseteq Candidates[pending[k][1]]
              /\ pending[k][1] \notin degraded' \cup Open'
              /\ \A j \in 1..Len(pending) : pending[j][1] = pending[k][1] => j = k
              /\ k > 1 => /\ \A b \in Arm : Events(b, gen, pending[k][1]) = {}
                          /\ \A r \in records' : r.gen = gen /\ r.trial = pending[k][1] => r.writes = 0
  <2>1. k > 1 => pending[k][1] # h
    BY <1>1, <1>3 DEF PendingInv
  <2>2. /\ pending[k][2] # {} /\ pending[k][2] \subseteq Candidates[pending[k][1]]
        /\ pending[k][1] \notin degraded \cup Open
        /\ \A j \in 1..Len(pending) : pending[j][1] = pending[k][1] => j = k
        /\ k > 1 => /\ \A b \in Arm : Events(b, gen, pending[k][1]) = {}
                    /\ \A r \in records : r.gen = gen /\ r.trial = pending[k][1] => r.writes = 0
    BY <1>1 DEF PendingInv
  <2>3. degraded' \cup Open' = degraded \cup Open
    BY <1>4, <1>6
  <2>4. ASSUME k > 1, NEW s \in records', s.gen = gen, s.trial = pending[k][1] PROVE s.writes = 0
    <3>1. PICK r \in records :
            /\ s.gen = r.gen /\ s.trial = r.trial /\ s.arm = r.arm
            /\ ~(r.gen = gen /\ r.trial = h) => s.writes = r.writes
      BY <1>11
    <3> QED BY <2>1, <2>2, <2>4, <3>1
  <2> QED BY <2>2, <2>3, <2>4
<1>17. CASE ~(Arm \X L \subseteq all)
  <2>1. written' = all /\ pending' = pending /\ gen' = gen
    BY <1>4, <1>17
  <2>2. PendingInv'
    <3>1. \A k \in 1..Len(pending) : k > 1 =>
            \A b \in Arm : Events(b, gen, pending[k][1])' = Events(b, gen, pending[k][1])
      BY <1>8, <2>1
    <3>2. \A k \in 1..Len(pending) : k > 1 =>
            \A r \in records' : r.gen = gen /\ r.trial = pending[k][1] => r.writes = 0
      BY <1>16
    <3>3. PendingInv /\ UNCHANGED <<gen, degraded, Open>>
      BY <1>1, <1>4, <1>6
    <3> QED BY <2>1, <3>1, <3>2, <3>3, PendingStays
  <2>3. \A b \in Arm : Unwritten(b)' = Left(b) /\ Acked(b)' = Full(b)
    BY <2>1 DEF Unwritten, Acked, Left, Full
  <2>4. \A b \in Arm : Events(b, gen, Head(pending)[1])' = Full(b)
    BY <1>8, <2>1
  <2>5. HeadInv'
    BY <1>8, <1>10, <2>1, <2>3, <2>4 DEF HeadInv
  <2>6. WriteInv'
    BY <1>2, <1>4, <1>5, <2>1 DEF WriteInv
  <2>7. SettledInv'
    BY <1>15, <1>2, <2>1 DEF SettledInv
  <2> QED BY <1>0, <1>4, <1>7, <1>13, <1>14, <2>2, <2>5, <2>6, <2>7 DEF LocalsInv, LiveInv, StartInv
<1>18. CASE Arm \X L \subseteq all
  <2>1. written' = {} /\ pending' = Tail(pending) /\ gen' = gen
    BY <1>4, <1>18
  <2>2. \A b \in Arm : Left(b) = {} /\ Full(b) = {<<gen, h, x>> : x \in L}
    BY <1>3, <1>8, <1>18 DEF Left, Full
  <2>3. ASSUME NEW g, NEW t, g = gen, t = h PROVE Settled(g, t)'
    <3>1. Cardinality({<<gen, h, x>> : x \in L}) = Cardinality(L)
      <4>1. IsFiniteSet(L)
        BY <1>3
      <4> HIDE DEF h, L
      <4> DEFINE F == {<<gen, h, x>> : x \in L}
                 f == [x \in L |-> <<gen, h, x>>]
      <4>2. /\ f \in [L -> F] /\ (\A e \in F : \E x \in L : f[x] = e)
            /\ \A x, y \in L : f[x] = f[y] => x = y
        OBVIOUS
      <4> HIDE DEF F, f
      <4>3. f \in Bijection(L, F)
        BY <4>2 DEF Bijection, Injection, Surjection, IsInjective
      <4>4. ExistsBijection(L, F)
        BY <4>3 DEF ExistsBijection
      <4>5. Cardinality(F) = Cardinality(L)
        BY <4>1, <4>4, FS_Bijection
      <4> QED BY <4>5 DEF F
    <3>2. \A b \in Arm : Events(b, g, t)' = {<<gen, h, x>> : x \in L}
      BY <1>8, <2>2, <2>3
    <3>3. \A r \in records' : r.gen = g /\ r.trial = t => r.arm \in Arm /\ r.writes = Cardinality(L)
      BY <1>10, <2>2, <2>3
    <3> DEFINE F == {<<gen, h, x>> : x \in L}
    <3> HIDE DEF F, L
    <3> QED BY <3>1, <3>2, <3>3, Arms DEF Settled, F
  <2>4. \A g \in Nat, t \in Trial : Settled(g, t)'
    BY <1>15, <2>3
  <2>5. SettledInv'
    BY <2>4 DEF SettledInv
  <2>6. /\ Len(pending') = Len(pending) - 1
        /\ \A k \in 1..Len(pending') : k + 1 \in 1..Len(pending) /\ k + 1 > 1 /\ pending'[k] = pending[k + 1]
    BY <1>3, <2>1
  <2>7. ASSUME NEW k \in 1..Len(pending')
        PROVE  /\ pending'[k][2] # {} /\ pending'[k][2] \subseteq Candidates[pending'[k][1]]
               /\ pending'[k][1] \notin degraded' \cup Open'
               /\ \A j \in 1..Len(pending') : pending'[j][1] = pending'[k][1] => j = k
               /\ \A b \in Arm : Events(b, gen, pending[k][1])' = {}
               /\ \A r \in records' : r.gen = gen' /\ r.trial = pending'[k][1] => r.writes = 0
    <3>1. k + 1 \in 1..Len(pending) /\ k + 1 > 1 /\ pending'[k] = pending[k + 1]
      BY <2>6
    <3>2. /\ pending[k + 1][2] # {} /\ pending[k + 1][2] \subseteq Candidates[pending[k + 1][1]]
          /\ pending[k + 1][1] \notin degraded' \cup Open'
          /\ \A j \in 1..Len(pending) : pending[j][1] = pending[k + 1][1] => j = k + 1
          /\ \A b \in Arm : Events(b, gen, pending[k + 1][1]) = {}
          /\ \A r \in records' : r.gen = gen /\ r.trial = pending[k + 1][1] => r.writes = 0
      BY <1>16, <3>1
    <3>3. \A j \in 1..Len(pending') : pending'[j][1] = pending'[k][1] => j = k
      BY <2>6, <3>1, <3>2
    <3>4. \A b \in Arm : Events(b, gen, pending[k][1])' = Events(b, gen, pending[k + 1][1])
      BY <1>8, <2>1, <3>1
    <3> QED BY <2>1, <3>1, <3>2, <3>3, <3>4
  <2>8. PendingInv'
    BY <2>7 DEF PendingInv
  <2>9. HeadInv'
    <3>1. ASSUME pending' # <<>>
          PROVE  /\ 1 \in 1..Len(pending') /\ Head(pending') = pending'[1]
      <4>1. pending' \in Seq(Trial \X SUBSET Memory)
        BY <1>2, <2>1, PendingTypes
      <4> QED BY <3>1, <4>1, EmptySeq, HeadTailProperties
    <3>2. ASSUME pending' # <<>>, NEW b \in Arm
          PROVE  /\ Events(b, gen, Head(pending)[1])' = {} /\ Acked(b)' = {}
                 /\ Unwritten(b)' # {}
                 /\ \A r \in records' : r.gen = gen' /\ r.trial = Head(pending')[1] => r.writes = 0
      BY <2>1, <2>7, <3>1, <3>2 DEF Acked, Unwritten
    <3> QED BY <2>1, <3>2 DEF HeadInv
  <2>10. WriteInv'
    BY <1>4, <1>5, <2>1 DEF WriteInv
  <2> QED BY <1>0, <1>4, <1>7, <1>13, <1>14, <2>5, <2>8, <2>9, <2>10 DEF LocalsInv, LiveInv, StartInv
<1> QED BY <1>17, <1>18

-----------------------------------------------------------------------------
(* The invariant *)

\* The invariant holds before the run.
LEMMA ExperimentInit == Init => ExperimentInv
<1> SUFFICES ASSUME Init PROVE ExperimentInv
  OBVIOUS
<1>1. /\ phase = "new" /\ config = [arm \in Arm |-> "original"]
      /\ saved = FALSE /\ late = {} /\ cancelled = FALSE
      /\ req = [s \in Slot |-> NoRequest]
      /\ gen = 0 /\ todo = Trial /\ cur = None /\ env = None /\ pair = None /\ outcomes = {} /\ tries = 0
      /\ pending = <<>> /\ written = {} /\ target = None
      /\ journal = [arm \in Arm |-> {}] /\ repeated = {} /\ records = {} /\ degraded = {}
  BY DEF Init
<1>2. \A s \in Slot : req[s].st = "idle"
  BY <1>1, Requests
<1>3. \A arm \in Arm : ~Busy(arm)
  BY <1>2, Slots DEF Busy
<1>4. TypeOK
  <2>1. <<>> \in Seq(Trial \X SUBSET Memory)
    BY EmptySeq
  <2>2. req \in [Slot -> Request] /\ 0 \in 0..Generations /\ 0 \in 0..ActorRetries
    BY <1>1, Requests, ExperimentAssumption
  <2> QED BY <1>1, <2>1, <2>2 DEF TypeOK
<1>5. ConfigInv
  BY <1>1, <1>2 DEF ConfigInv, RestoredAfterRun, Running
<1>6. StartInv /\ StepInv /\ LiveInv
  BY <1>1, <1>3, ExperimentAssumption DEF StartInv, StepInv, LiveInv, Live, Running
<1> QED BY <1>4, <1>5, <1>6 DEF ExperimentInv

\* Every step keeps the invariant.
LEMMA ExperimentStep == ASSUME ExperimentInv, Next PROVE ExperimentInv'
<1>0. TypeOK /\ ConfigInv /\ StartInv /\ StepInv /\ LiveInv /\ LocalsInv
  BY DEF ExperimentInv, LocalsInv
<1> SUFFICES TypeOK' /\ ConfigInv' /\ LocalsInv'
  BY DEF ExperimentInv, LocalsInv
<1> HIDE <1>0
<1>1. CASE Thread
  <2>1. PICK s \in Slot, a \in Answer : Trip(s[1], s[2], a)
    BY <1>1 DEF Thread
  <2>2. s[1] \in {"pin", "restore", "bootstrap", "feedback"} /\ s[2] \in Arm
    BY DEF Slot
  <2>3. TypeOK'
    BY <1>0, <2>1, TypeThread
  <2> QED BY <1>0, <2>1, <2>2, <2>3, ConfigThread, LocalsThread
<1>2. CASE Interrupt
  <2>1. /\ Unwind /\ UNCHANGED target /\ (UNCHANGED req \/ StartRestore)
        /\ phase' \in {"failed", "unpinning", "closing"}
    BY <1>2 DEF Interrupt
  <2> QED BY <1>0, <1>2, <2>1, TypeInterrupt, ConfigInterrupt, LocalsUnwind
<1>3. CASE Prepare \/ Pinned \/ PinFails \/ Restored \/ RestoreFails
  BY <1>0, <1>3, TypeBetween, ConfigBetween, LocalsBetween
<1>4. CASE RequestRaises \/ Unusable \/ NotComparable \/ ActorFails
  <2>1. phase \in Running /\ Abort
    BY <1>4 DEF RequestRaises, Unusable, NotComparable, ActorFails, Running
  <2>2. /\ phase' = "closing" /\ StartRestore /\ Unwind
        /\ UNCHANGED <<config, saved, late>> /\ UNCHANGED target
    BY <2>1 DEF Abort, configVars, journals
  <2>3. ConfigInv'
    BY <1>0, <2>1, <2>2, ConfigStays
  <2>4. LocalsInv'
    BY <1>0, <2>2, LocalsUnwind
  <2> QED BY <1>0, <2>1, <2>3, <2>4, AbortTypes
<1>5. CASE (\E t \in Trial : StartTrial(t)) \/ ControlBack \/ TreatmentBack \/ ActorRetried
  <2>1. phase \in Running /\ phase' \in Running /\ UNCHANGED <<config, saved, late>>
    BY <1>5 DEF StartTrial, ControlBack, TreatmentBack, ActorRetried, Running, configVars, journals
  <2>2. \A arm \in Arm : /\ req'[<<"pin", arm>>] = req[<<"pin", arm>>]
                         /\ req'[<<"restore", arm>>] = req[<<"restore", arm>>]
    <3>1. \A arm, b \in Arm : <<"pin", arm>> # <<"bootstrap", b>> /\ <<"restore", arm>> # <<"bootstrap", b>>
      OBVIOUS
    <3> QED BY <1>0, <1>5, <3>1, Slots, Arms DEF TypeOK, StartTrial, Ask, ControlBack, TreatmentBack, ActorRetried
  <2>3. ConfigInv'
    BY <1>0, <2>1, <2>2, ConfigStays
  <2>4. TypeOK'
    BY <1>0, <1>5, TypeTrial
  <2> QED BY <1>0, <1>5, <2>3, <2>4, LocalsAsk
<1>6. ASSUME NEW arm \in Arm, ActorScores(arm) PROVE TypeOK' /\ ConfigInv' /\ LocalsInv'
  <2>1. phase \in Running /\ phase' \in Running /\ UNCHANGED <<config, saved, late, req>>
    BY <1>6 DEF ActorScores, Running, configVars, journals
  <2>2. ConfigInv'
    BY <1>0, <2>1, ConfigStays
  <2> QED BY <1>0, <1>6, <2>2, TypeTrial, LocalsScores
<1>7. ASSUME NEW arm \in Arm, NEW m \in Memory, Write(arm, m) PROVE TypeOK' /\ ConfigInv' /\ LocalsInv'
  <2>1. phase \in Running /\ phase' \in Running /\ UNCHANGED <<config, saved, late>>
    BY <1>7 DEF Write, Running, configVars, journals
  <2>2. \A b \in Arm : /\ req'[<<"pin", b>>] = req[<<"pin", b>>]
                       /\ req'[<<"restore", b>>] = req[<<"restore", b>>]
    BY <1>0, <1>7, Slots DEF TypeOK, Write
  <2>3. ConfigInv'
    BY <1>0, <2>1, <2>2, ConfigStays
  <2> QED BY <1>0, <1>7, <2>3, TypeFeedback, LocalsWrite
<1>8. ASSUME NEW arm \in Arm, Written(arm) PROVE TypeOK' /\ ConfigInv' /\ LocalsInv'
  <2>1. phase \in Running /\ phase' \in Running /\ UNCHANGED <<config, saved, late>>
    BY <1>8 DEF Written, Running, configVars, journals
  <2>2. \A b \in Arm : /\ req'[<<"pin", b>>] = req[<<"pin", b>>]
                       /\ req'[<<"restore", b>>] = req[<<"restore", b>>]
    BY <1>0, <1>8, Slots DEF TypeOK, Written
  <2>3. ConfigInv'
    BY <1>0, <2>1, <2>2, ConfigStays
  <2> QED BY <1>0, <1>8, <2>3, TypeFeedback, LocalsWritten
<1>9. CASE NextGeneration
  <2>1. /\ phase \in Running /\ UNCHANGED <<config, saved, late>>
        /\ (phase' \in Running /\ UNCHANGED req) \/ (phase' = "closing" /\ StartRestore)
    BY <1>9 DEF NextGeneration, Running, configVars, journals
  <2>2. ConfigInv'
    BY <1>0, <2>1, ConfigStays
  <2> QED BY <1>0, <1>9, <2>2, TypeFeedback, LocalsNext
<1> QED BY <1>1, <1>2, <1>3, <1>4, <1>5, <1>6, <1>7, <1>8, <1>9 DEF Next, Coroutine

\* So does a step that changes nothing.
LEMMA ExperimentStutter == ASSUME ExperimentInv, UNCHANGED vars PROVE ExperimentInv'
<1>1. /\ UNCHANGED <<phase, config, saved, late, req, gen, todo, cur, env, pair, outcomes, tries,
                     pending, written>>
      /\ UNCHANGED <<target, journal, repeated, records, degraded, cancelled>>
  BY DEF vars, configVars, journals, trialVars, locals
<1>2. TypeOK /\ ConfigInv /\ StartInv /\ StepInv /\ LiveInv
  BY DEF ExperimentInv
<1>3. TypeOK'
  BY <1>1, <1>2 DEF TypeOK
<1>4. ConfigInv'
  BY <1>1, <1>2 DEF ConfigInv, RestoredAfterRun
<1>5. (\A arm \in Arm : Busy(arm)' <=> Busy(arm)) /\ (Live' <=> Live) /\ Open' = Open
  BY <1>1 DEF Busy, Live, Open
<1>6. StartInv' /\ StepInv'
  BY <1>1, <1>2, <1>5, Arms DEF StartInv, StepInv
<1>7. LiveInv'
  BY <1>1, <1>2, <1>5, LiveStays DEF LiveInv
<1> QED BY <1>3, <1>4, <1>6, <1>7 DEF ExperimentInv

\* Every state of the experiment satisfies the inductive invariant: the types, and
\* what configurations, records, journals and the feedback under way have to do with
\* each other at every await of run_experiment.
THEOREM Invariance == Spec => []ExperimentInv
<1>1. ExperimentInv /\ [Next]_vars => ExperimentInv'
  BY ExperimentStep, ExperimentStutter
<1> QED BY <1>1, ExperimentInit, PTL DEF Spec

\* The state of run_experiment and its backend is always well typed; in particular
\* tries never passes the actor's retries and gen never passes manifest.generations.
THEOREM TypeCorrect == Spec => []TypeOK
<1>1. ExperimentInv => TypeOK
  BY DEF ExperimentInv
<1> QED BY <1>1, Invariance, PTL

\* Trials and feedback of run_experiment happen only under the pinned ranking, and
\* while a generation is scored the journals of the two arms have the same events, only
\* of earlier generations, and as many of a trial as its record says, whichever requests
\* were tried again and whichever threads ran on.  That is about which events a journal
\* has: the two streams differ where one arm's request was tried again after it had
\* taken effect.
THEOREM CleanGenerationHolds == Spec => []CleanGeneration
<1>1. ExperimentInv => CleanGeneration
  <2> SUFFICES ASSUME ExperimentInv PROVE CleanGeneration
    OBVIOUS
  <2>1. TypeOK /\ ConfigInv /\ StepInv /\ LiveInv
    BY DEF ExperimentInv
  <2>2. phase \in {"bootstrap", "acting", "feedback"} => \A arm \in Arm : config[arm] = "pinned"
    BY <2>1 DEF ConfigInv, Running
  <2>3. ASSUME Scoring
        PROVE  /\ journal[Control] = journal[Treatment]
               /\ \A e \in journal[Control] : e[1] < gen
               /\ \A r \in records : r.gen < gen =>
                    r.writes = Cardinality({e \in journal[r.arm] : e[1] = r.gen /\ e[2] = r.trial})
    <3>1. phase \in {"bootstrap", "acting"} /\ phase # "feedback"
      BY <2>3 DEF Scoring
    <3>2. JournalInv /\ SettledInv /\ gen \in Nat
      BY <2>1, <3>1, ScoringFacts
    <3>3. \A arm \in Arm : \A e \in journal[arm] : e[1] \in Nat /\ e[2] \in Trial /\ e[1] < gen
      BY <2>1, <3>1, <3>2 DEF JournalInv, TypeOK, Event
    <3>4. \A g \in Nat, t \in Trial : g < gen => Settled(g, t)
      BY <3>2 DEF SettledInv
    <3>5. ASSUME NEW arm \in Arm, NEW b \in Arm, NEW e \in journal[arm] PROVE e \in journal[b]
      <4>1. e \in Events(arm, e[1], e[2]) /\ Settled(e[1], e[2])
        BY <3>3, <3>4 DEF Events
      <4>2. e \in Events(b, e[1], e[2])
        BY <4>1, Arms DEF Settled
      <4> QED BY <4>2 DEF Events
    <3>6. journal[Control] = journal[Treatment]
      BY <3>5, Arms
    <3>7. ASSUME NEW r \in records, r.gen < gen
          PROVE  r.writes = Cardinality({e \in journal[r.arm] : e[1] = r.gen /\ e[2] = r.trial})
      <4>1. r.gen \in Nat /\ r.trial \in Trial
        BY <2>1 DEF TypeOK
      <4>2. Settled(r.gen, r.trial)
        BY <3>4, <3>7, <4>1
      <4>3. r.writes = Cardinality(Events(r.arm, r.gen, r.trial))
        BY <4>2 DEF Settled
      <4> QED BY <4>3 DEF Events
    <3> QED BY <3>3, <3>6, <3>7, Arms
  <2> QED BY <2>2, <2>3 DEF CleanGeneration
<1> QED BY <1>1, Invariance, PTL

\* Feedback is only ever sent, and a journal only ever holds it, for candidates of a
\* trial both arms of which are scored and neither degraded.
THEOREM FeedbackHasCleanPairHolds == Spec => []FeedbackHasCleanPair
<1>1. ExperimentInv => FeedbackHasCleanPair
  <2> SUFFICES ASSUME ExperimentInv, phase \in {"bootstrap", "acting", "feedback", "done"}
               PROVE  /\ target # None => CleanPair(target)
                      /\ \A arm \in Arm : \A e \in journal[arm] : CleanPair(e)
    BY DEF FeedbackHasCleanPair
  <2>1. TypeOK /\ StepInv /\ LiveInv /\ Live
    BY DEF ExperimentInv, StepInv, Live, Running
  <2>2. WriteInv /\ JournalInv
    BY <2>1 DEF LiveInv
  <2>3. target # None => CleanPair(target)
    <3>1. target # None => \E arm \in Arm : Busy(arm) /\ phase = "feedback"
      BY <2>2 DEF WriteInv
    <3> QED BY <2>1, <3>1, TargetIsClean
  <2> QED BY <2>2, <2>3 DEF JournalInv
<1> QED BY <1>1, Invariance, PTL

\* Whichever requests failed and wherever the run was interrupted, once the saved
\* configurations are dropped an arm that is still pinned had its restoring PUT
\* acknowledged with another body, or a pinning PUT under way when prepare gave up.
THEOREM RestoredAfterRunHolds == Spec => []RestoredAfterRun
<1>1. ExperimentInv => RestoredAfterRun
  BY DEF ExperimentInv, ConfigInv
<1> QED BY <1>1, Invariance, PTL

\* A run that returns has exactly one record of each arm for every trial of every
\* generation, and the two records of a trial count the same feedback writes.
THEOREM ResultIsPairedHolds == Spec => []ResultIsPaired
<1>1. ExperimentInv => ResultIsPaired
  <2> SUFFICES ASSUME ExperimentInv, phase = "done"
               PROVE  /\ \A g \in 0..(Generations - 1), t \in Trial, arm \in Arm :
                           Cardinality({r \in records : r.gen = g /\ r.trial = t /\ r.arm = arm}) = 1
                      /\ \A r, s \in records : r.gen = s.gen /\ r.trial = s.trial => r.writes = s.writes
    BY DEF ResultIsPaired
  <2>1. TypeOK /\ StepInv /\ LiveInv /\ Live /\ gen = Generations
    BY DEF ExperimentInv, StepInv, Live, Running
  <2>2. RecordInv /\ SettledInv /\ pending = <<>>
    BY <2>1 DEF LiveInv, StepInv, Running
  <2>3. ASSUME NEW g \in 0..(Generations - 1), NEW t \in Trial, NEW arm \in Arm
        PROVE  Cardinality({r \in records : r.gen = g /\ r.trial = t /\ r.arm = arm}) = 1
    <3> DEFINE R == {r \in records : r.gen = g /\ r.trial = t /\ r.arm = arm}
    <3>1. g < gen
      BY <2>1, ExperimentAssumption
    <3>2. PICK r \in records : r.gen = g /\ r.trial = t /\ r.arm = arm
      BY <2>2, <3>1 DEF RecordInv
    <3>3. R = {r}
      BY <2>2, <3>2 DEF RecordInv
    <3> HIDE DEF R
    <3>4. Cardinality(R) = 1
      BY <3>3, FS_Singleton
    <3> QED BY <3>4 DEF R
  <2>4. ASSUME NEW r \in records, NEW s \in records, r.gen = s.gen, r.trial = s.trial
        PROVE  r.writes = s.writes
    <3>1. r.gen \in Nat /\ r.trial \in Trial /\ r.arm \in Arm /\ s.arm \in Arm
      BY <2>1 DEF TypeOK
    <3>2. Settled(r.gen, r.trial)
      BY <2>2, <3>1 DEF SettledInv
    <3>3. /\ r.writes = Cardinality(Events(r.arm, r.gen, r.trial))
          /\ s.writes = Cardinality(Events(s.arm, r.gen, r.trial))
          /\ Events(Control, r.gen, r.trial) = Events(Treatment, r.gen, r.trial)
      BY <2>4, <3>2 DEF Settled
    <3> QED BY <3>1, <3>3, Arms
  <2> QED BY <2>3, <2>4
<1> QED BY <1>1, Invariance, PTL

-----------------------------------------------------------------------------
(* What a journal holds twice *)

\* A request on its first attempt carries an event its journal does not have.
FirstAttemptIsNew ==
  \A arm \in Arm : req[<<"feedback", arm>>].st = "running" /\ req[<<"feedback", arm>>].attempt = 0
                     => target \notin journal[arm]

\* run_experiment applies no signal twice, in a generation, across generations or after
\* a thread was left behind: of what a journal gets, only a retry of _request_sync can
\* be there already.
THEOREM FirstAttemptIsNewHolds == Spec => []FirstAttemptIsNew
<1>1. Init => FirstAttemptIsNew
  BY Slots, Requests DEF Init, FirstAttemptIsNew
<1>2. ExperimentInv /\ FirstAttemptIsNew /\ [Next]_vars => FirstAttemptIsNew'
  <2> SUFFICES ASSUME ExperimentInv, FirstAttemptIsNew, [Next]_vars PROVE FirstAttemptIsNew'
    OBVIOUS
  <2>0. TypeOK /\ StepInv /\ LiveInv
    BY DEF ExperimentInv
  <2>1. ASSUME UNCHANGED <<target, journal>>,
               \A arm \in Arm : req'[<<"feedback", arm>>] = req[<<"feedback", arm>>]
        PROVE  FirstAttemptIsNew'
    BY <2>1 DEF FirstAttemptIsNew
  <2>2. ASSUME \A arm \in Arm : req'[<<"feedback", arm>>].st # "running"
        PROVE  FirstAttemptIsNew'
    BY <2>2 DEF FirstAttemptIsNew
  <2>3. CASE Thread
    <3>1. PICK s \in Slot, a \in Answer : Trip(s[1], s[2], a)
      BY <2>3 DEF Thread
    <3>2. PICK kind \in {"pin", "restore", "bootstrap", "feedback"}, arm \in Arm : s = <<kind, arm>>
      BY DEF Slot
    <3>3. Trip(kind, arm, a)
      BY <3>1, <3>2
    <3>4. /\ req[<<kind, arm>>].st = "running" /\ UNCHANGED target
          /\ \A k \in {"pin", "restore", "bootstrap", "feedback"}, b \in Arm :
               <<k, b>> # <<kind, arm>> => req'[<<k, b>>] = req[<<k, b>>]
          /\ IF a \in TookEffect THEN TripEffect(kind, arm) ELSE UNCHANGED <<config, journals>>
      BY <2>0, <3>3, TripFacts
    <3>5. CASE kind # "feedback"
      <4>1. journal' = journal
        BY <3>4, <3>5 DEF TripEffect, journals
      <4>2. \A b \in Arm : req'[<<"feedback", b>>] = req[<<"feedback", b>>]
        BY <3>4, <3>5
      <4> QED BY <2>1, <3>4, <4>1, <4>2
    <3>6. CASE kind = "feedback"
      <4>1. \A b \in Arm : b # arm => req'[<<"feedback", b>>].st = "idle"
        <5>1. \A b \in Arm : b # arm => req[<<"feedback", b>>].st = "idle"
          BY <2>0, <3>4, <3>6, Arms DEF StepInv, Busy
        <5> QED BY <3>4, <3>6, <5>1
      <4>2. req'[<<"feedback", arm>>] = AfterTrip(req[<<"feedback", arm>>], a)
        BY <2>0, <3>3, <3>6, Slots DEF Trip, TypeOK
      <4>3. ASSUME req'[<<"feedback", arm>>].st = "running", req'[<<"feedback", arm>>].attempt = 0
            PROVE  a \notin TookEffect /\ req[<<"feedback", arm>>].attempt = 0
        BY <2>0, <3>4, <3>6, <4>2, <4>3, Slots, RetriedTrip DEF TypeOK
      <4>4. a \notin TookEffect => journal' = journal
        BY <3>4 DEF journals
      <4> QED BY <3>4, <3>6, <4>1, <4>3, <4>4 DEF FirstAttemptIsNew
    <3> QED BY <3>5, <3>6
  <2>4. CASE Prepare \/ PinFails \/ Restored \/ RestoreFails \/ Interrupt
             \/ RequestRaises \/ Unusable \/ NotComparable \/ ActorFails
    <3>1. UNCHANGED <<target, journal>>
      BY <2>4 DEF Prepare, PinFails, Restored, RestoreFails, Interrupt, RequestRaises, Unusable,
                  NotComparable, ActorFails, Abort, trialVars, journals
    <3>2. \A arm \in Arm : req'[<<"feedback", arm>>] = req[<<"feedback", arm>>]
      <4>1. CASE Prepare
        BY <4>1, Slots DEF Prepare
      <4>2. CASE ~Prepare
        BY <2>0, <2>4, <4>2, RestoreTypes
           DEF PinFails, Restored, RestoreFails, Interrupt, RequestRaises, Unusable,
               NotComparable, ActorFails, Abort
      <4> QED BY <4>1, <4>2
    <3> QED BY <2>1, <3>1, <3>2
  <2>5. CASE Pinned
    <3>1. \A arm \in Arm : req'[<<"feedback", arm>>].st # "running"
      BY <2>5, Slots, Requests DEF Pinned
    <3> QED BY <2>2, <3>1
  <2>6. CASE (\E t \in Trial : StartTrial(t)) \/ ControlBack \/ TreatmentBack \/ ActorRetried
             \/ (\E arm \in Arm : ActorScores(arm))
    <3>1. UNCHANGED <<target, journal>>
      BY <2>6 DEF StartTrial, ControlBack, TreatmentBack, ActorRetried, ActorScores, journals
    <3>2. \A b, c \in Arm : <<"feedback", b>> # <<"bootstrap", c>>
      OBVIOUS
    <3>3. \A arm \in Arm : req'[<<"feedback", arm>>] = req[<<"feedback", arm>>]
      BY <2>0, <2>6, <3>2, Slots, Arms
         DEF TypeOK, StartTrial, Ask, ControlBack, TreatmentBack, ActorRetried, ActorScores
    <3> QED BY <2>1, <3>1, <3>3
  <2>7. ASSUME NEW arm \in Arm, NEW m \in Memory, Write(arm, m) PROVE FirstAttemptIsNew'
    <3>1. /\ phase = "feedback" /\ pending # <<>> /\ ~Writing /\ m \in Unwritten(arm)
          /\ target' = <<gen, Head(pending)[1], m>> /\ journal' = journal
          /\ req' = [req EXCEPT ![<<"feedback", arm>>] = NewRequest]
      BY <2>7 DEF Write, journals
    <3>2. HeadInv /\ ~Busy(arm)
      BY <2>0, <3>1 DEF LiveInv, Live, Running, Writing, Busy
    <3>3. Events(arm, gen, Head(pending)[1]) \subseteq Acked(arm)
      BY <3>1, <3>2 DEF HeadInv
    <3>4. target' \notin Acked(arm)
      BY <3>1 DEF Acked, Unwritten
    <3>5. target' \in journal[arm] => target' \in Events(arm, gen, Head(pending)[1])
      BY <3>1 DEF Events
    <3>6. \A b \in Arm : b # arm => req'[<<"feedback", b>>].st = "idle"
      <4>1. \A b \in Arm : b # arm => <<"feedback", b>> # <<"feedback", arm>>
        OBVIOUS
      <4> QED BY <2>0, <3>1, <4>1, Slots DEF TypeOK, Writing
    <3> QED BY <3>1, <3>3, <3>4, <3>5, <3>6 DEF FirstAttemptIsNew
  <2>8. ASSUME NEW arm \in Arm, Written(arm) PROVE FirstAttemptIsNew'
    <3>1. Busy(arm) /\ req' = [req EXCEPT ![<<"feedback", arm>>] = NoRequest]
      BY <2>8 DEF Written, Busy, Succeeds
    <3>2. \A b \in Arm : b # arm => req[<<"feedback", b>>].st = "idle"
      BY <2>0, <3>1, Arms DEF StepInv, Busy
    <3>3. \A b \in Arm : req'[<<"feedback", b>>].st # "running"
      BY <2>0, <3>1, <3>2, Slots, Requests DEF TypeOK
    <3> QED BY <2>2, <3>3
  <2>9. CASE NextGeneration
    <3>1. UNCHANGED <<target, journal>> /\ (UNCHANGED req \/ StartRestore)
      BY <2>9 DEF NextGeneration, journals
    <3> QED BY <2>0, <2>1, <3>1, RestoreTypes
  <2>10. CASE UNCHANGED vars
    BY <2>1, <2>10 DEF vars, trialVars, journals
  <2> QED BY <2>3, <2>4, <2>5, <2>6, <2>7, <2>8, <2>9, <2>10 DEF Next, Coroutine
<1> QED BY <1>1, <1>2, Invariance, PTL DEF Spec

\* An append-only journal comes to hold an event twice only by a trip of a request that
\* was tried before.
THEOREM OnlyRetriesRepeatHolds == Spec => OnlyRetriesRepeat
<1> DEFINE Repeats == \A arm \in repeated' \ repeated : req[<<"feedback", arm>>].attempt > 0
<1>1. ExperimentInv /\ FirstAttemptIsNew /\ [Next]_vars => [Repeats]_vars
  <2> SUFFICES ASSUME ExperimentInv, FirstAttemptIsNew, Next, NEW arm \in repeated' \ repeated
               PROVE  req[<<"feedback", arm>>].attempt > 0
    OBVIOUS
  <2>1. CASE Thread
    <3>1. PICK s \in Slot, a \in Answer : Trip(s[1], s[2], a)
      BY <2>1 DEF Thread
    <3>2. /\ req[s].st = "running" /\ s[1] = "feedback" /\ s[2] = arm /\ target \in journal[arm]
          /\ s = <<s[1], s[2]>> /\ arm \in Arm
      BY <3>1 DEF Trip, TripEffect, journals, Slot
    <3>3. req[<<"feedback", arm>>].attempt # 0
      BY <3>2 DEF FirstAttemptIsNew
    <3>4. req[<<"feedback", arm>>].attempt \in Nat
      <4>1. req[<<"feedback", arm>>] \in Request
        BY <3>2, Slots DEF ExperimentInv, TypeOK
      <4> QED BY <4>1, RetriesAssumption DEF Request
    <3> QED BY <3>3, <3>4
  <2>2. CASE ~Thread
    <3>1. repeated' = repeated
      <4>1. CASE Prepare \/ Pinned \/ PinFails \/ Restored \/ RestoreFails \/ Interrupt
                 \/ RequestRaises \/ Unusable \/ NotComparable \/ ActorFails
        BY <4>1 DEF Prepare, Pinned, PinFails, Restored, RestoreFails, Interrupt, RequestRaises,
                    Unusable, NotComparable, ActorFails, Abort, journals
      <4>2. CASE (\E t \in Trial : StartTrial(t)) \/ ControlBack \/ TreatmentBack \/ ActorRetried
                 \/ (\E b \in Arm : ActorScores(b))
        BY <4>2 DEF StartTrial, ControlBack, TreatmentBack, ActorRetried, ActorScores, journals
      <4>3. CASE (\E b \in Arm, m \in Memory : Write(b, m)) \/ (\E b \in Arm : Written(b))
                 \/ NextGeneration
        BY <4>3 DEF Write, Written, NextGeneration, journals
      <4> QED BY <2>2, <4>1, <4>2, <4>3 DEF Next, Coroutine
    <3> QED BY <3>1
  <2> QED BY <2>1, <2>2
<1> QED BY <1>1, Invariance, FirstAttemptIsNewHolds, PTL DEF Spec, OnlyRetriesRepeat

-----------------------------------------------------------------------------
(* The steps behind RunEnds *)

\* The trips a request can still make: its first, one per retry, one after a refresh.
TripsLeft(r) ==
  IF r.st = "running" THEN 1 + (Retries - r.attempt) + (IF r.refreshed THEN 0 ELSE 1) ELSE 0

\* run_experiment's outermost order: prepare, the generations, the restore, the end.
Stage ==
  CASE phase = "new"                                   -> 0
    [] phase = "pinning"                               -> 1
    [] phase \in {"bootstrap", "acting", "feedback"}   -> 2
    [] phase \in {"unpinning", "closing"}              -> 3
    [] phase \in {"done", "failed"}                    -> 4

\* How far a trial is: control asked, treatment asked, each actor at each attempt,
\* between two trials, and after the last of its generation.
Beat ==
  CASE phase = "acting" -> 2 + tries + (IF outcomes = {} THEN 0 ELSE ActorRetries + 1)
    [] phase = "feedback" -> 5 + 2 * ActorRetries
    [] phase = "bootstrap" /\ cur = None -> 4 + 2 * ActorRetries
    [] OTHER -> IF req[<<"bootstrap", Control>>].st = "idle" THEN 1 ELSE 0

\* The order the coroutine runs in, outermost first: a stage, a generation, a trial
\* taken from its list, a beat of the trial, a signal, a write acknowledged, a write
\* under way.
Forward ==
  \/ Stage' > Stage
  \/ /\ Stage' = Stage
     /\ \/ gen' > gen
        \/ /\ gen' = gen
           /\ \/ todo' \subseteq todo /\ todo' # todo
              \/ /\ todo' = todo
                 /\ \/ Beat' > Beat
                    \/ /\ Beat' = Beat
                       /\ \/ Len(pending') < Len(pending)
                          \/ /\ pending' = pending
                             /\ \/ written \subseteq written' /\ written' # written
                                \/ written' = written /\ ~Writing /\ Writing'

Standing == /\ Stage' = Stage /\ gen' = gen /\ todo' = todo /\ Beat' = Beat
            /\ pending' = pending /\ written' = written

\* The coroutine never goes back: no retry, no abort and no interrupt starts over what
\* it has behind it.  A thread leaves the coroutine's place alone and uses up a trip of
\* its request, which no step gives back.
RunAdvances ==
  /\ Coroutine \/ Interrupt => Forward
  /\ \A s \in Slot, a \in Answer : Trip(s[1], s[2], a) =>
       Standing /\ TripsLeft(req'[s]) < TripsLeft(req[s])
  /\ \A s \in Slot : req'[s] # req[s] /\ req[s].st = "running" =>
       TripsLeft(req'[s]) < TripsLeft(req[s]) \/ Stage' > Stage

LEMMA TripUsesOne ==
  ASSUME NEW r \in Request, r.st = "running", NEW a \in Answer
  PROVE  TripsLeft(AfterTrip(r, a)) < TripsLeft(r)
<1>1. r.attempt \in 0..Retries /\ r.refreshed \in BOOLEAN /\ Retries \in Nat
  BY RetriesAssumption DEF Request
<1>2. TripsLeft(r) >= 1 /\ TripsLeft(r) \in Nat
  BY <1>1 DEF TripsLeft
<1>3. \A st : st # "running" => TripsLeft(Result(st)) = 0
  BY DEF TripsLeft, Result, NoRequest
<1>4. CASE a \in DOMAIN Returned
  <2>1. AfterTrip(r, a) = Result(Returned[a]) /\ Returned[a] \in {"ok", "mismatch"}
    BY <1>4 DEF AfterTrip, Returned
  <2> QED BY <1>2, <1>3, <2>1
<1>5. CASE a \notin DOMAIN Returned /\ a = "expired" /\ Refreshing /\ ~r.refreshed
  <2>1. AfterTrip(r, a) = [r EXCEPT !.refreshed = TRUE]
    BY <1>5 DEF AfterTrip
  <2>2. /\ AfterTrip(r, a).st = "running" /\ AfterTrip(r, a).attempt = r.attempt
        /\ AfterTrip(r, a).refreshed = TRUE
    BY <2>1 DEF Request
  <2> QED BY <1>1, <1>5, <2>2 DEF TripsLeft
<1>6. CASE /\ a \notin DOMAIN Returned /\ ~(a = "expired" /\ Refreshing /\ ~r.refreshed)
           /\ a \in {"failed", "failedLate"} /\ r.attempt < Retries
  <2>1. AfterTrip(r, a) = [r EXCEPT !.attempt = @ + 1]
    BY <1>6 DEF AfterTrip
  <2>2. /\ AfterTrip(r, a).st = "running" /\ AfterTrip(r, a).attempt = r.attempt + 1
        /\ AfterTrip(r, a).refreshed = r.refreshed
    BY <2>1 DEF Request
  <2> QED BY <1>1, <1>6, <2>2 DEF TripsLeft
<1>7. CASE /\ a \notin DOMAIN Returned /\ ~(a = "expired" /\ Refreshing /\ ~r.refreshed)
           /\ ~(a \in {"failed", "failedLate"} /\ r.attempt < Retries)
  <2>1. AfterTrip(r, a) = Result("raised")
    BY <1>7 DEF AfterTrip
  <2> QED BY <1>2, <1>3, <2>1
<1> QED BY <1>4, <1>5, <1>6, <1>7

\* The steps that end a stage.
LEMMA StageEnds ==
  ASSUME TypeOK,
         \/ Prepare \/ Pinned \/ PinFails \/ Restored \/ RestoreFails \/ Interrupt
         \/ Abort /\ phase \in Running
  PROVE  Stage' > Stage
BY DEF Prepare, Pinned, PinFails, Restored, RestoreFails, Abort, Interrupt, Running, Stage, TypeOK

LEMMA Aborts ==
  ASSUME RequestRaises \/ Unusable \/ NotComparable \/ ActorFails
  PROVE  Abort /\ phase \in Running
BY DEF RequestRaises, Unusable, NotComparable, ActorFails, Running

\* The steps of a trial.
LEMMA TrialForward ==
  ASSUME TypeOK, StepInv,
         (\E t \in Trial : StartTrial(t)) \/ ControlBack \/ TreatmentBack \/ ActorRetried
         \/ \E arm \in Arm : ActorScores(arm)
  PROVE  Forward
<1>0. /\ tries \in 0..ActorRetries /\ ActorRetries \in Nat /\ req \in [Slot -> Request]
      /\ <<"bootstrap", Control>> \in Slot /\ <<"bootstrap", Treatment>> \in Slot
      /\ <<"bootstrap", Control>> # <<"bootstrap", Treatment>>
  BY ExperimentAssumption, Slots, Arms DEF TypeOK
<1>1. ASSUME NEW t \in Trial, StartTrial(t) PROVE Forward
  BY <1>1 DEF StartTrial, Stage, Forward
<1>2. CASE ControlBack
  <2>1. /\ phase = "bootstrap" /\ cur # None /\ cur' = cur /\ UNCHANGED <<phase, gen, todo>>
        /\ req[<<"bootstrap", Control>>].st = "ok"
    BY <1>2, Arms DEF ControlBack, StepInv
  <2>2. req'[<<"bootstrap", Control>>] = NoRequest
    BY <1>0, <1>2 DEF ControlBack
  <2>3. Stage' = Stage /\ Beat = 0 /\ Beat' = 1
    BY <2>1, <2>2, Requests DEF Stage, Beat
  <2> QED BY <2>1, <2>3 DEF Forward
<1>3. CASE TreatmentBack
  <2>1. /\ phase = "bootstrap" /\ cur # None /\ phase' = "acting" /\ UNCHANGED <<gen, todo, tries, outcomes>>
    BY <1>3, Arms DEF TreatmentBack, StepInv
  <2>2. Stage' = Stage /\ Beat \in {0, 1} /\ Beat' >= 2 /\ Beat' \in Nat
    BY <1>0, <2>1 DEF Stage, Beat
  <2>3. Beat' > Beat
    BY <2>2
  <2> QED BY <2>1, <2>2, <2>3 DEF Forward
<1>4. CASE ActorRetried
  BY <1>0, <1>4 DEF ActorRetried, Stage, Beat, Forward
<1>5. ASSUME NEW arm \in Arm, ActorScores(arm) PROVE Forward
  <2>1. CASE outcomes = {}
    <3>1. /\ phase = "acting" /\ UNCHANGED <<phase, gen, todo>> /\ tries' = 0 /\ outcomes' # {}
      BY <1>5, <2>1 DEF ActorScores
    <3> QED BY <1>0, <2>1, <3>1 DEF Stage, Beat, Forward
  <2>2. CASE outcomes # {}
    <3>1. /\ phase = "acting" /\ UNCHANGED <<gen, todo>> /\ cur' = None
          /\ phase' \in {"feedback", "bootstrap"}
      BY <1>5, <2>2 DEF ActorScores
    <3> QED BY <1>0, <2>2, <3>1 DEF Stage, Beat, Forward
  <2> QED BY <2>1, <2>2
<1> QED BY <1>1, <1>2, <1>3, <1>4, <1>5

\* The steps that apply a generation's feedback.
LEMMA FeedbackForward ==
  ASSUME TypeOK, StepInv, LiveInv,
         (\E arm \in Arm, m \in Memory : Write(arm, m)) \/ (\E arm \in Arm : Written(arm))
         \/ NextGeneration
  PROVE  Forward
<1>1. ASSUME NEW arm \in Arm, NEW m \in Memory, Write(arm, m) PROVE Forward
  <2>1. /\ phase = "feedback" /\ ~Writing /\ UNCHANGED <<phase, gen, todo, pending, written, cur>>
    BY <1>1 DEF Write
  <2>2. req'[<<"feedback", arm>>].st # "idle"
    <3>1. <<"feedback", arm>> \in Slot /\ req' = [req EXCEPT ![<<"feedback", arm>>] = NewRequest]
      BY <1>1, Slots DEF Write
    <3> QED BY <3>1, Requests DEF TypeOK
  <2>3. Stage' = Stage /\ Beat' = Beat /\ Writing'
    BY <2>1, <2>2 DEF Stage, Beat, Writing
  <2> QED BY <2>1, <2>3 DEF Forward
<1>2. ASSUME NEW arm \in Arm, Written(arm) PROVE Forward
  <2>1. phase = "feedback" /\ Busy(arm) /\ UNCHANGED <<phase, gen, todo, cur>>
    BY <1>2 DEF Written, Busy, Succeeds
  <2>2. pending # <<>> /\ target[3] \in Unwritten(arm) /\ pending \in Seq(Trial \X SUBSET Memory)
    BY <2>1, WriteFacts DEF TypeOK
  <2>3. Stage' = Stage /\ Beat' = Beat
    BY <2>1 DEF Stage, Beat
  <2>4. CASE Arm \X Head(pending)[2] \subseteq written \cup {<<arm, target[3]>>}
    <3>1. pending' = Tail(pending)
      BY <1>2, <2>4 DEF Written
    <3>2. Len(pending') < Len(pending)
      BY <2>2, <3>1
    <3> QED BY <2>1, <2>3, <3>2 DEF Forward
  <2>5. CASE ~(Arm \X Head(pending)[2] \subseteq written \cup {<<arm, target[3]>>})
    <3>1. written' = written \cup {<<arm, target[3]>>} /\ pending' = pending
      BY <1>2, <2>5 DEF Written
    <3>2. <<arm, target[3]>> \notin written
      BY <2>2 DEF Unwritten
    <3> QED BY <2>1, <2>3, <3>1, <3>2 DEF Forward
  <2> QED BY <2>4, <2>5
<1>3. CASE NextGeneration
  <2>1. gen \in Nat /\ gen' = gen + 1 /\ phase = "feedback" /\ phase' \in {"bootstrap", "closing"}
    BY <1>3, ExperimentAssumption DEF NextGeneration, TypeOK
  <2> QED BY <2>1 DEF Stage, Forward
<1> QED BY <1>1, <1>2, <1>3

\* The coroutine starts a request only where none is under way, unless the stage ends.
LEMMA RequestsStand ==
  ASSUME TypeOK, StepInv, Coroutine \/ Interrupt, NEW s \in Slot, req[s].st = "running"
  PROVE  req'[s] = req[s] \/ Stage' > Stage
<1>0. /\ req \in [Slot -> Request]
      /\ <<"bootstrap", Control>> \in Slot /\ <<"bootstrap", Treatment>> \in Slot
      /\ Control \in Arm /\ Treatment \in Arm
  BY Slots, Arms DEF TypeOK
<1>1. CASE \E t \in Trial : StartTrial(t)
  <2>1. /\ req' = [req EXCEPT ![<<"bootstrap", Control>>] = NewRequest]
        /\ req[<<"bootstrap", Control>>].st = "idle"
    BY <1>0, <1>1 DEF StartTrial, Ask, StepInv
  <2> QED BY <1>0, <2>1
<1>2. CASE ControlBack
  <2>1. /\ req' = [req EXCEPT ![<<"bootstrap", Control>>] = NoRequest,
                              ![<<"bootstrap", Treatment>>] = NewRequest]
        /\ req[<<"bootstrap", Control>>].st = "ok" /\ req[<<"bootstrap", Treatment>>].st = "idle"
    BY <1>2 DEF ControlBack, StepInv
  <2> QED BY <1>0, <2>1
<1>3. CASE TreatmentBack
  <2>1. /\ req' = [req EXCEPT ![<<"bootstrap", Treatment>>] = NoRequest]
        /\ req[<<"bootstrap", Treatment>>].st = "ok"
    BY <1>3 DEF TreatmentBack
  <2> QED BY <1>0, <2>1
<1>4. ASSUME NEW arm \in Arm, (\E m \in Memory : Write(arm, m)) \/ Written(arm)
      PROVE  req'[s] = req[s]
  <2>1. /\ req[<<"feedback", arm>>].st # "running"
        /\ \E r \in {NoRequest, NewRequest} : req' = [req EXCEPT ![<<"feedback", arm>>] = r]
    BY <1>4 DEF Write, Written, Writing, Succeeds
  <2> QED BY <1>0, <2>1
<1>5. CASE NextGeneration
  <2>1. CASE gen + 1 < Generations
    BY <1>5, <2>1 DEF NextGeneration
  <2>2. CASE ~(gen + 1 < Generations)
    BY <1>5, <2>2 DEF NextGeneration, Stage
  <2> QED BY <2>1, <2>2
<1>6. CASE ActorRetried \/ \E arm \in Arm : ActorScores(arm)
  BY <1>6 DEF ActorRetried, ActorScores
<1>7. CASE Prepare \/ Pinned \/ PinFails \/ Restored \/ RestoreFails \/ Interrupt
           \/ RequestRaises \/ Unusable \/ NotComparable \/ ActorFails
  BY <1>7, StageEnds, Aborts
<1> QED BY <1>1, <1>2, <1>3, <1>4, <1>5, <1>6, <1>7 DEF Coroutine

\* A thread's trip is its own: the coroutine stands where it stood.
LEMMA TripStands ==
  ASSUME TypeOK, NEW s \in Slot, NEW a \in Answer, Trip(s[1], s[2], a)
  PROVE  /\ Standing /\ TripsLeft(req'[s]) < TripsLeft(req[s])
         /\ \A u \in Slot : u # s => req'[u] = req[u]
<1>1. s = <<s[1], s[2]>> /\ s[1] \in {"pin", "restore", "bootstrap", "feedback"} /\ s[2] \in Arm
  BY DEF Slot
<1>2. /\ req[s].st = "running" /\ req[s] \in Request
      /\ req' = [req EXCEPT ![s] = AfterTrip(req[s], a)]
      /\ UNCHANGED <<phase, gen, todo, cur, outcomes, tries, pending, written>>
  BY <1>1 DEF Trip, TypeOK, trialVars, locals
<1>3. TripsLeft(req'[s]) < TripsLeft(req[s]) /\ \A u \in Slot : u # s => req'[u] = req[u]
  BY <1>2, TripUsesOne DEF TypeOK
<1>4. <<"bootstrap", Control>> \in Slot
  BY Slots, Arms
<1>5. req'[<<"bootstrap", Control>>].st = "idle" <=> req[<<"bootstrap", Control>>].st = "idle"
  BY <1>2, <1>4, Requests DEF TypeOK
<1>6. Stage' = Stage /\ Beat' = Beat
  BY <1>2, <1>5 DEF Stage, Beat
<1> QED BY <1>2, <1>3, <1>6 DEF Standing

\* The safety half of RunEnds, for any number of trials, memories, generations and
\* retries: every step of the coroutine, an interrupt included, moves it on in one order
\* without infinite ascent, and a request makes at most Retries + 2 trips.
THEOREM RunAdvancesHolds == Spec => [][RunAdvances]_vars
<1>1. ExperimentInv /\ [Next]_vars => [RunAdvances]_vars
  <2> SUFFICES ASSUME ExperimentInv, Next PROVE RunAdvances
    OBVIOUS
  <2>0. TypeOK /\ StepInv /\ LiveInv
    BY DEF ExperimentInv
  <2>1. Coroutine \/ Interrupt => Forward
    <3>1. CASE Prepare \/ Pinned \/ PinFails \/ Restored \/ RestoreFails \/ Interrupt
               \/ RequestRaises \/ Unusable \/ NotComparable \/ ActorFails
      BY <2>0, <3>1, StageEnds, Aborts DEF Forward
    <3>2. CASE (\E t \in Trial : StartTrial(t)) \/ ControlBack \/ TreatmentBack \/ ActorRetried
               \/ \E arm \in Arm : ActorScores(arm)
      BY <2>0, <3>2, TrialForward
    <3>3. CASE (\E arm \in Arm, m \in Memory : Write(arm, m)) \/ (\E arm \in Arm : Written(arm))
               \/ NextGeneration
      BY <2>0, <3>3, FeedbackForward
    <3> QED BY <3>1, <3>2, <3>3 DEF Coroutine
  <2>2. \A s \in Slot, a \in Answer : Trip(s[1], s[2], a) =>
          Standing /\ TripsLeft(req'[s]) < TripsLeft(req[s])
    BY <2>0, TripStands
  <2>3. ASSUME NEW s \in Slot, req'[s] # req[s], req[s].st = "running"
        PROVE  TripsLeft(req'[s]) < TripsLeft(req[s]) \/ Stage' > Stage
    <3>1. CASE Coroutine \/ Interrupt
      BY <2>0, <2>3, <3>1, RequestsStand
    <3>2. CASE Thread
      <4>1. PICK u \in Slot, a \in Answer : Trip(u[1], u[2], a)
        BY <3>2 DEF Thread
      <4>2. u = s
        BY <2>0, <2>3, <4>1, TripStands
      <4> QED BY <2>0, <4>1, <4>2, TripStands
    <3> QED BY <3>1, <3>2 DEF Next
  <2> QED BY <2>1, <2>2, <2>3 DEF RunAdvances
<1> QED BY <1>1, Invariance, PTL DEF Spec
=============================================================================

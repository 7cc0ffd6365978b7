------------------------------ MODULE CockpitProofs ------------------------------
(***************************************************************************)
(* For any number of threads, runs, queued events and crashes and any      *)
(* timeouts: Cockpit is well typed, a session the router resumes has a     *)
(* checkpoint, a continuation in a container resumes the last run of its   *)
(* thread, a queued /kill waits no longer than the clock of the run before *)
(* it, every step of the serve loop brings its return nearer, and a        *)
(* container that its teardown failed to stop is still named for /kill.    *)
(***************************************************************************)
EXTENDS Cockpit, TLAPS

-----------------------------------------------------------------------------
(* The inductive invariant *)

\* What the serve loop awaits, and the event it is handling.
LoopInv ==
  /\ at \in {"bootstrap", "starting", "stream", "closing", "saving", "killing"} =>
       cur.thread \in Thread
  /\ at \in {"stream", "closing", "saving", "killing"} => cur.run \in Run
  /\ at \in {"stream", "closing", "saving"} => lastRun[cur.thread] = cur.run
  /\ at \in {"bootstrap", "starting"} /\ cur.intent = "continue" =>
       rec[cur.thread].status = "running"

\* The last run of thread t left its checkpoint behind.
CheckpointIsLast(t) == ckpt[t] # None /\ (inContainer => ckpt[t] = lastRun[t])

\* The run in progress was armed by on_start and has still to save its checkpoint.
Unsaved(t) == inContainer /\ t = cur.thread /\ at \in {"stream", "closing", "saving"}

\* Only a process that is shutting down leaves a resumable session behind that has
\* not the checkpoint of its last run; nobody routes to it any more.
SessionInv ==
  at # "down" =>
    \A t \in Thread : rec[t].status = "running" => CheckpointIsLast(t) \/ Unsaved(t)

\* Runs get fresh names: the last run of a thread has been started.
UsedInv == \A t \in Thread : lastRun[t] # None => box[lastRun[t]] # "unused"

\* The history of a waiting /kill never runs ahead of the run's clock.
ClockInv == at = "stream" => killWait + wall <= WallClock

IInv == TypeOK /\ LoopInv /\ SessionInv /\ UsedInv /\ LeftRunIsKillable /\ ClockInv

-----------------------------------------------------------------------------

LEMMA InvInit == Init => IInv
BY CockpitAssumption
   DEF Init, IInv, TypeOK, LoopInv, SessionInv, UsedInv, LeftRunIsKillable, ClockInv, Handling,
       NoHandling, Handle, Record, NoRecord, Event

\* NoHandling and the effect of the except clause are well typed.
LEMMA NoHandlingType == NoHandling \in Handling
BY DEF NoHandling, Handle, Handling

LEMMA RecordTypes ==
  ASSUME rec \in [Thread -> Record]
  PROVE  /\ \A t \in Thread : Closed(t) \in [Thread -> Record]
         /\ \A t \in Thread, r \in Run \cup {None} : Armed(t, r) \in [Thread -> Record]
         /\ Reconciled \in [Thread -> Record]
BY DEF Closed, Armed, Reconciled, Record

\* Closing and reconciling keep the container each record names.
LEMMA ContainersStay ==
  ASSUME rec \in [Thread -> Record], NEW u \in Thread
  PROVE  /\ \A t \in Thread : Closed(t)[u].container = rec[u].container
         /\ Reconciled[u].container = rec[u].container
BY DEF Closed, Reconciled, Record

\* What the three updates of the table mean for resumable sessions.
LEMMA ClosedRuns ==
  ASSUME rec \in [Thread -> Record], NEW t \in Thread, NEW u \in Thread
  PROVE  Closed(t)[u].status = "running" => rec[u].status = "running" /\ u # t
BY DEF Closed, Record

LEMMA ReconciledRuns ==
  ASSUME rec \in [Thread -> Record], NEW u \in Thread
  PROVE  Reconciled[u].status = "running" => rec[u].status = "running"
BY DEF Reconciled, Record

-----------------------------------------------------------------------------
(* Steps of the serve loop *)

LEMMA InvLoopStep == IInv /\ LoopStep => IInv'
<1> SUFFICES ASSUME IInv, LoopStep PROVE IInv'
  OBVIOUS
<1> USE CockpitAssumption, NoHandlingType
<1> USE DEF IInv, TypeOK, LoopInv, SessionInv, UsedInv, LeftRunIsKillable, ClockInv,
            CheckpointIsLast, Unsaved
<1>0. inbox # <<>> => /\ Head(inbox) \in Event
                      /\ Tail(inbox) \in Seq(Event)
                      /\ Len(Tail(inbox)) <= MaxInbox
  OBVIOUS
<1>1. CASE HandleStatus
  BY <1>0, <1>1 DEF HandleStatus, Take
<1>2. CASE HandleKill
  <2>1. /\ Head(inbox).thread \in Thread
        /\ inbox' \in Seq(Event) /\ Len(inbox') <= MaxInbox
    BY <1>0, <1>2 DEF HandleKill, Take, Event
  <2>2. CASE at' = "killing"
    <3>1. /\ rec[Head(inbox).thread].container \in Run
          /\ cur' = Handle(Head(inbox).thread, "kill", rec[Head(inbox).thread].container)
      BY <1>2, <2>1, <2>2 DEF HandleKill, Record
    <3>2. cur' \in Handling /\ cur'.thread \in Thread /\ cur'.run \in Run
      BY <3>1, <2>1 DEF Handle, Handling
    <3> QED BY <1>2, <2>1, <2>2, <3>2 DEF HandleKill, Take
  <2>3. CASE at' = "reply"
    <3>1. /\ rec' \in [Thread -> Record]
          /\ \A u \in Thread : /\ rec'[u].container = rec[u].container
                               /\ rec'[u].status = "running" => rec[u].status = "running"
      BY <1>2, <2>1, <2>3, RecordTypes, ClosedRuns, ContainersStay DEF HandleKill
    <3>2. UsedInv' /\ LeftRunIsKillable'
      BY <1>2, <2>3, <3>1 DEF HandleKill, Take
    <3>3. TypeOK' /\ LoopInv' /\ SessionInv' /\ ClockInv'
      BY <1>2, <2>1, <2>3, <3>1 DEF HandleKill, Take
    <3> QED BY <3>2, <3>3
  <2> QED BY <1>2, <2>2, <2>3 DEF HandleKill
<1>3. CASE Reply
  BY <1>3 DEF Reply
<1>4. ASSUME NEW b \in BOOLEAN, ReconcileOnStart(b) PROVE IInv'
  BY <1>4, RecordTypes, ReconciledRuns, ContainersStay DEF ReconcileOnStart
<1>5. ASSUME NEW b \in BOOLEAN, KillReturns(b) PROVE IInv'
  BY <1>5, RecordTypes, ClosedRuns, ContainersStay DEF KillReturns
<1>6. ASSUME NEW b \in BOOLEAN, NEW i \in {"launch", "continue"}, HandleTask(i, b)
      PROVE  IInv'
  <2>1. /\ Head(inbox).thread \in Thread
        /\ inbox' \in Seq(Event) /\ Len(inbox') <= MaxInbox
    BY <1>0, <1>6 DEF HandleTask, Take, Event
  <2>2. i = "continue" => rec[Head(inbox).thread].status = "running"
    BY <1>6 DEF HandleTask, Take, Intent
  <2>3. CASE b
    <3>0. cur' = Handle(Head(inbox).thread, i, None)
      BY <1>6, <2>3, Zenon DEF HandleTask
    <3>1. /\ cur' \in Handling
          /\ cur'.thread = Head(inbox).thread
          /\ cur'.intent = i
      BY <2>1, <3>0 DEF Handle, Handling
    <3> QED BY <1>6, <2>1, <2>2, <2>3, <3>1 DEF HandleTask, Take
  <2>4. CASE ~b
    BY <1>6, <2>1, <2>4 DEF HandleTask, Take
  <2> QED BY <2>3, <2>4
<1> QED
  BY <1>1, <1>2, <1>3, <1>4, <1>5, <1>6 DEF LoopStep

-----------------------------------------------------------------------------
(* Steps of a run *)

\* The except clause, wherever it is reached: it starts no container.
LEMMA InvFail ==
  ASSUME IInv, Fail, at \in {"bootstrap", "starting", "closing", "saving"},
         UNCHANGED <<inbox, mine, ckpt, lastRun, wall, idle, killWait, crashes,
                     inContainer>>,
         box' \in [Run -> {"unused", "running", "gone"}],
         \A r \in Run : /\ box'[r] = "running" => box[r] = "running"
                        /\ box'[r] = "unused" => box[r] = "unused"
  PROVE  IInv'
<1> USE DEF IInv, TypeOK, LoopInv, SessionInv, UsedInv, LeftRunIsKillable, ClockInv,
            CheckpointIsLast, Unsaved
<1>1. rec' \in [Thread -> Record]
  BY RecordTypes DEF Fail
<1>2. \A u \in Thread : rec'[u].status = "running" =>
        rec[u].status = "running" /\ (inContainer => u # cur.thread)
  BY ClosedRuns DEF Fail
<1>3. \A u \in Thread : rec'[u].container = rec[u].container
  BY ContainersStay DEF Fail
<1>4. TypeOK' /\ LoopInv' /\ SessionInv' /\ ClockInv'
  BY <1>1, <1>2, NoHandlingType, CockpitAssumption DEF Fail
<1>5. UsedInv' /\ LeftRunIsKillable'
  BY <1>3, CockpitAssumption DEF Fail
<1> QED
  BY <1>4, <1>5

LEMMA InvRunStep == IInv /\ RunStep => IInv'
<1> SUFFICES ASSUME IInv, RunStep PROVE IInv'
  OBVIOUS
<1> USE CockpitAssumption, NoHandlingType
<1> USE DEF IInv, TypeOK, LoopInv, SessionInv, UsedInv, LeftRunIsKillable, ClockInv,
            CheckpointIsLast, Unsaved
<1>1. CASE BootstrapFails
  BY <1>1 DEF BootstrapFails
<1>2. CASE StartFails
  BY <1>2, InvFail DEF StartFails
<1>3. CASE TimesOut
  BY <1>3 DEF TimesOut, Handling
<1>4. CASE Saved
  <2>1. rec' \in [Thread -> Record]
    BY <1>4, RecordTypes DEF Saved
  <2>2. \A u \in Thread : rec'[u].status = "running" =>
          \/ u = cur.thread
          \/ rec[u].status = "running"
    BY <1>4 DEF Saved, Armed
  <2> QED BY <1>4, <2>1, <2>2 DEF Saved
<1>5. CASE SaveFails
  BY <1>5, InvFail DEF SaveFails
<1>6. ASSUME NEW r \in Run, Started(r) PROVE IInv'
  <2>1. rec' \in [Thread -> Record]
    BY <1>6, RecordTypes DEF Started
  <2>2. cur' \in Handling /\ cur'.thread = cur.thread /\ cur'.run = r
    BY <1>6 DEF Started, Handling
  <2>3. \A u \in Thread : rec'[u].status = "running" =>
          (inContainer /\ u = cur.thread) \/ rec[u].status = "running"
    BY <1>6 DEF Started, Armed
  <2>4. TypeOK' /\ LoopInv' /\ SessionInv' /\ ClockInv'
    BY <1>6, <2>1, <2>2, <2>3 DEF Started
  <2>5. \A u \in Thread : lastRun[u] # r
    BY <1>6 DEF Started
  <2>6. UsedInv'
    BY <1>6, <2>5 DEF Started
  <2>7. LeftRunIsKillable'
    BY <1>6, <2>5 DEF Started, Armed
  <2> QED BY <2>4, <2>6, <2>7
<1>7. ASSUME NEW b \in BOOLEAN, Bootstrapped(b) PROVE IInv'
  BY <1>7, InvFail DEF Bootstrapped
<1>8. ASSUME NEW b \in BOOLEAN, Aclose(b) PROVE IInv'
  <2>1. /\ box' \in [Run -> {"unused", "running", "gone"}]
        /\ \A r \in Run : /\ box'[r] = "running" => box[r] = "running"
                          /\ box'[r] = "unused" => box[r] = "unused"
    BY <1>8 DEF Aclose
  <2>2. CASE cur.outcome = "error"
    BY <1>8, <2>1, <2>2, InvFail DEF Aclose
  <2>3. CASE cur.outcome # "error"
    BY <1>8, <2>1, <2>3 DEF Aclose
  <2> QED BY <2>2, <2>3
<1> QED
  BY <1>1, <1>2, <1>3, <1>4, <1>5, <1>6, <1>7, <1>8 DEF RunStep

-----------------------------------------------------------------------------
(* Steps of the brain, the transport, the clock and the supervisor *)

LEMMA InvOtherStep ==
  ASSUME IInv,
         \/ Shutdown \/ ShutdownRun \/ ShutdownTeardown \/ Tick \/ Restart
         \/ \E b \in BOOLEAN : Line(b) \/ StreamEnds(b)
         \/ \E r \in Run : Exits(r) \/ ShutdownStart(r)
         \/ \E e \in Event : Receive(e)
  PROVE  IInv'
<1> USE CockpitAssumption, NoHandlingType
<1> USE DEF IInv, TypeOK, LoopInv, SessionInv, UsedInv, LeftRunIsKillable, ClockInv,
            CheckpointIsLast, Unsaved
<1>1. CASE Shutdown
  BY <1>1 DEF Shutdown
<1>9. CASE ShutdownRun
  BY <1>9 DEF ShutdownRun, Handling
<1>10. CASE ShutdownTeardown
  BY <1>10 DEF ShutdownTeardown
<1>8. ASSUME NEW r \in Run, ShutdownStart(r) PROVE IInv'
  BY <1>8 DEF ShutdownStart
<1>2. CASE Tick
  BY <1>2 DEF Tick
<1>3. CASE Restart
  BY <1>3 DEF Restart, NoRecord, Record
<1>4. ASSUME NEW b \in BOOLEAN, Line(b) PROVE IInv'
  <2>1. /\ cur' \in Handling
        /\ cur'.thread = cur.thread /\ cur'.intent = cur.intent /\ cur'.run = cur.run
        /\ cur'.outcome = cur.outcome
    BY <1>4 DEF Line, Handling
  <2>2. TypeOK'
    BY <1>4, <2>1 DEF Line
  <2>3. (LoopInv /\ SessionInv /\ UsedInv /\ LeftRunIsKillable /\ ClockInv)'
    BY <1>4, <2>1 DEF Line
  <2> QED BY <2>2, <2>3
<1>5. ASSUME NEW b \in BOOLEAN, StreamEnds(b) PROVE IInv'
  BY <1>5 DEF StreamEnds, Handling
<1>6. ASSUME NEW r \in Run, Exits(r) PROVE IInv'
  BY <1>6 DEF Exits
<1>7. ASSUME NEW e \in Event, Receive(e) PROVE IInv'
  BY <1>7 DEF Receive
<1> QED
  BY <1>1, <1>2, <1>3, <1>4, <1>5, <1>6, <1>7, <1>8, <1>9, <1>10

LEMMA InvStutter == IInv /\ UNCHANGED vars => IInv'
BY DEF IInv, vars, TypeOK, LoopInv, SessionInv, UsedInv, LeftRunIsKillable, ClockInv,
            CheckpointIsLast, Unsaved

\* The strengthening behind the theorems below: sessions are resumable only with the
\* checkpoint of their last run, except the one whose run is in progress.
THEOREM Invariance == Spec => []IInv
<1>1. IInv /\ [Next]_vars => IInv'
  BY InvLoopStep, InvRunStep, InvOtherStep, InvStutter DEF Next
<1> QED
  BY InvInit, <1>1, PTL DEF Spec

-----------------------------------------------------------------------------

\* The cockpit stays well typed: its queue within its bound, its clocks and the
\* wait of a queued /kill within the run's wall-clock limit.
THEOREM TypeCorrect == Spec => []TypeOK
<1>1. IInv => TypeOK
  BY DEF IInv
<1> QED
  BY Invariance, <1>1, PTL

\* Whatever failed before, a session classify() routes a reply to has a checkpoint
\* to resume, in a container or in process.
THEOREM ResumableHasCheckpointHolds == Spec => []ResumableHasCheckpoint
<1>1. IInv => ResumableHasCheckpoint
  BY DEF IInv, SessionInv, CheckpointIsLast, Unsaved, ResumableHasCheckpoint
<1> QED
  BY Invariance, <1>1, PTL

\* No continuation in a container replays a checkpoint older than the last run that
\* was started on its thread.
THEOREM NoStaleResumeHolds == Spec => []NoStaleResume
<1>1. IInv => NoStaleResume
  BY DEF IInv, LoopInv, SessionInv, CheckpointIsLast, Unsaved, NoStaleResume
<1> QED
  BY Invariance, <1>1, PTL

\* _handle_task's except clause, close() and set_container(): however often runs fail,
\* time out or outlive their teardown, on any number of threads, a container a thread's
\* last run left behind stays named by its record, for /kill to reap it.
THEOREM LeftRunIsKillableHolds == Spec => []LeftRunIsKillable
<1>1. IInv => LeftRunIsKillable
  BY DEF IInv
<1> QED
  BY Invariance, <1>1, PTL

-----------------------------------------------------------------------------
(* The steps behind ServeReturns *)

\* How far the serve loop is from its next event: the awaits still ahead of it, and
\* while it streams the ticks left before the run's deadline.
Distance ==
  CASE at \in {"listen", "down"}  -> 0
    [] at \in {"boot", "reply"}   -> 1
    [] at \in {"saving", "killing"} -> 2
    [] at = "closing"             -> 3
    [] at = "stream"              -> 4 + wall
    [] at = "starting"            -> 5 + WallClock
    [] at = "bootstrap"           -> 6 + WallClock

\* Nothing but a process death takes a busy loop further from its next event, and
\* what fairness drives brings it nearer: a brain that keeps talking, the messages
\* that keep arriving and a shutdown cannot reset the run's deadline.
NearsListen ==
  at \notin {"listen", "down"} =>
    \/ Restart
    \/ /\ Distance' <= Distance
       /\ LoopStep \/ RunStep \/ Tick => Distance' < Distance

\* What one step can do to the awaits and the clock, action by action.
LEMMA DistanceFalls ==
  ASSUME IInv, at \notin {"listen", "down"}, LoopStep \/ RunStep \/ Tick
  PROVE  Distance' < Distance
<1> USE CockpitAssumption
<1>0. wall \in Nat /\ WallClock \in Nat /\ wall <= WallClock
  BY DEF IInv, TypeOK
<1>1. CASE LoopStep
  <2>1. \/ at = "reply" /\ at' = "listen"
        \/ at = "boot" /\ at' = "listen"
        \/ at = "killing" /\ at' = "reply"
    BY <1>1 DEF LoopStep, HandleStatus, HandleKill, Reply, ReconcileOnStart, KillReturns,
                HandleTask, Take
  <2> QED BY <2>1 DEF Distance
<1>2. CASE RunStep
  <2>1. \/ at \in {"bootstrap", "starting", "saving"} /\ at' = "reply"
        \/ at = "bootstrap" /\ at' = "starting"
        \/ at = "starting" /\ at' = "stream" /\ wall' = WallClock
        \/ at = "stream" /\ at' = "closing"
        \/ at = "closing" /\ at' \in {"saving", "reply", "down"}
    BY <1>2 DEF RunStep, BootstrapFails, StartFails, TimesOut, Saved, SaveFails, Started,
                Bootstrapped, Aclose, Fail
  <2> QED BY <1>0, <2>1 DEF Distance
<1>3. CASE Tick
  BY <1>0, <1>3 DEF Tick, Distance
<1> QED BY <1>1, <1>2, <1>3

\* The safety half of ServeReturns, for every deadline and every queue: only a process
\* death resets what is left of the event being handled, and every step the event loop
\* or the clock owes it makes that strictly less.  What is left to TLC is that one of
\* those steps is always enabled.
THEOREM NearsListenHolds == Spec => [][NearsListen]_vars
<1>1. IInv /\ [Next]_vars => [NearsListen]_vars
  <2> SUFFICES ASSUME IInv, Next, at \notin {"listen", "down"}, ~Restart
               PROVE  /\ Distance' <= Distance
                      /\ LoopStep \/ RunStep \/ Tick => Distance' < Distance
    BY DEF NearsListen
  <2>0. wall \in Nat /\ WallClock \in Nat /\ Distance \in Nat
    BY CockpitAssumption DEF IInv, TypeOK, Distance
  <2>1. CASE LoopStep \/ RunStep \/ Tick
    <3>1. Distance' < Distance
      BY <2>1, DistanceFalls
    <3>2. IInv'
      <4>1. CASE LoopStep \/ RunStep
        BY <4>1, InvLoopStep, InvRunStep
      <4>2. CASE Tick
        BY <4>2, InvOtherStep
      <4> QED BY <2>1, <4>1, <4>2
    <3>3. Distance' \in Nat
      <4>1. /\ wall' \in Nat
            /\ at' \in {"boot", "listen", "bootstrap", "starting", "stream", "closing",
                       "saving", "killing", "reply", "down"}
        BY <3>2, CockpitAssumption DEF IInv, TypeOK
      <4> QED BY <4>1, CockpitAssumption DEF Distance
    <3> QED BY <2>0, <3>1, <3>3
  <2>2. CASE ~(LoopStep \/ RunStep \/ Tick)
    <3>1. /\ wall' = wall
          /\ \/ at' = at
             \/ at \in {"stream", "closing"} /\ at' = "closing"
             \/ at' = "down"
      BY <2>2 DEF Next, Shutdown, ShutdownStart, ShutdownRun, ShutdownTeardown, Line, StreamEnds, Exits, Receive
    <3> QED BY <2>0, <2>2, <3>1 DEF Distance, IInv, TypeOK
  <2> QED BY <2>1, <2>2
<1> QED
  BY <1>1, Invariance, PTL DEF Spec

\* A /kill queued behind a streaming run has waited at most as long as the run's clock
\* has run, so never past its deadline: what KillReachesRun asks in vain is the strict
\* half of this.
KillWaitBounded == at = "stream" => killWait + wall <= WallClock

\* For any wall-clock limit and any traffic, the serve loop leaves a queued /kill waiting
\* no longer than what is left of the run it drives (_DockerBrainSession.events' deadline).
THEOREM KillWaitBoundedHolds == Spec => []KillWaitBounded
<1>1. IInv => KillWaitBounded
  BY DEF IInv, ClockInv, KillWaitBounded
<1> QED
  BY Invariance, <1>1, PTL
=============================================================================

-------------------------------- MODULE Cockpit ---------------------------------
(***************************************************************************)
(* The cockpit's serve loop and the brain runs it drives: Cockpit.serve,   *)
(* handle, _handle_task, _handle_kill and _reconcile_on_start              *)
(* (cockpit/core.py), the session table (cockpit/registry.py), intent      *)
(* routing (cockpit/intent.py), Session (core/session.py), the container   *)
(* brain (core/brain/container.py) with its bounded stream and teardown    *)
(* (membrane/brain_container.py), and the transport's inbox.  /approve and *)
(* /deny are in ApprovalLoop.                                              *)
(*                                                                         *)
(* The loop handles one event at a time; at says what it awaits.  A run r  *)
(* is one execution of the brain; with a container backend r is also the   *)
(* name of its container, and a checkpoint is named by the run it is from. *)
(***************************************************************************)
EXTENDS Integers, Sequences, OperatorGate

CONSTANTS
  Thread,            \* chat threads
  Run,               \* brain runs, a fresh one per message that starts one
  MaxInbox,          \* bound on events waiting in the transport's queue
  MaxCrashes,        \* bound on process deaths
  WallClock,         \* _WALL_CLOCK_S, in ticks
  IdleTimeout        \* _IDLE_TIMEOUT_S, in ticks

ASSUME CockpitAssumption ==
  /\ None \notin Run
  /\ MaxInbox \in Nat /\ MaxCrashes \in Nat
  /\ WallClock \in Nat \ {0} /\ IdleTimeout \in Nat \ {0}

VARIABLES
  inbox,    \* the transport's queue
  rec,      \* SessionRegistry._records
  box,      \* what became of each run's brain (its container)
  mine,     \* runs started by this process (history)
  ckpt,     \* the run whose checkpoint the store holds for each thread
  lastRun,  \* the last run started on each thread (history)
  at,       \* what the serve loop awaits
  cur,      \* the event being handled
  wall,     \* ticks left before the run's wall-clock deadline
  idle,     \* ticks left before the pending read counts as hung
  killWait, \* ticks the current run streamed on with a /kill for it queued (history)
  crashes,  \* process deaths so far
  inContainer \* TRUE: the deployment wires a container backend; never changes

vars == <<inbox, rec, box, mine, ckpt, lastRun, at, cur, wall, idle, killWait, crashes,
          inContainer>>

Event == [thread : Thread, kind : {"task", "reply", "status", "kill"}, sender : Sender]
Record == [status : {"none", "running", "closed", "dead"}, container : Run \cup {None}]
NoRecord == [status |-> "none", container |-> None]

Handling == [thread : Thread \cup {None},
             intent : {"none", "launch", "continue", "kill"},
             run : Run \cup {None}, done : BOOLEAN,
             outcome : {"none", "ok", "error", "cancelled"}]
Handle(t, i, r) == [thread |-> t, intent |-> i, run |-> r, done |-> FALSE,
                    outcome |-> "none"]
NoHandling == Handle(None, "none", None)

TypeOK ==
  /\ inbox \in Seq(Event) /\ Len(inbox) <= MaxInbox
  /\ rec \in [Thread -> Record]
  /\ box \in [Run -> {"unused", "running", "gone"}]
  /\ mine \subseteq Run
  /\ ckpt \in [Thread -> Run \cup {None}]
  /\ lastRun \in [Thread -> Run \cup {None}]
  /\ at \in {"boot", "listen", "bootstrap", "starting", "stream", "closing", "saving",
             "killing", "reply", "down"}
  /\ cur \in Handling
  /\ wall \in 0..WallClock
  /\ idle \in 0..IdleTimeout
  /\ killWait \in 0..WallClock
  /\ crashes \in 0..MaxCrashes
  /\ inContainer \in BOOLEAN

Init ==
  /\ inbox = <<>>
  /\ rec = [t \in Thread |-> NoRecord]
  /\ box = [r \in Run |-> "unused"]
  /\ mine = {}
  /\ ckpt = [t \in Thread |-> None]
  /\ lastRun = [t \in Thread |-> None]
  /\ at = "boot"
  /\ cur = NoHandling
  /\ wall = 0
  /\ idle = 0
  /\ killWait = 0
  /\ crashes = 0
  /\ inContainer \in BOOLEAN

-----------------------------------------------------------------------------
(* The session table *)

\* Mutant: a closed session is dropped from the table.
ClosedForgets(t) == [rec EXCEPT ![t] = NoRecord]

\* SessionRegistry.close: a thread without a record stays without one.
Closed(t) == IF rec[t].status = "none" THEN rec ELSE [rec EXCEPT ![t].status = "closed"]

\* SessionRegistry.set_container re-arms the record in place, add replaces it.
Armed(t, r) == [rec EXCEPT ![t] = [status |-> "running", container |-> r]]

\* The live ids that are some record's container: none, since `docker ps -q` lists
\* ids and a record holds the --name its container was started with.
LiveIds == {}

\* SessionRegistry.reconcile.
Reconciled ==
  [t \in Thread |-> IF rec[t].container # None /\ rec[t].container \notin LiveIds
                    THEN [rec[t] EXCEPT !.status = "dead"] ELSE rec[t]]

\* classify: a slash command, else a reply on a resumable session, else a launch.
Intent(e) ==
  CASE e.kind \in {"status", "kill"} -> e.kind
    [] e.kind = "reply" /\ rec[e.thread].status = "running" -> "continue"
    [] OTHER -> "launch"

-----------------------------------------------------------------------------
(* Events and their dispatch *)

\* The transport's listener queues a message; delivery may repeat one.
Receive(e) ==
  /\ at # "down"
  /\ Len(inbox) < MaxInbox
  /\ inbox' = Append(inbox, e)
  /\ UNCHANGED <<rec, box, mine, ckpt, lastRun, at, cur, wall, idle, killWait, crashes,
                 inContainer>>

\* _reconcile_on_start: a failed enumeration leaves every record alone.
ReconcileOnStart(enumerated) ==
  /\ at = "boot"
  /\ rec' = IF inContainer /\ enumerated THEN Reconciled ELSE rec
  /\ at' = "listen"
  /\ UNCHANGED <<inbox, box, mine, ckpt, lastRun, cur, wall, idle, killWait, crashes,
                 inContainer>>

Take(intent) ==
  /\ at = "listen"
  /\ inbox # <<>>
  /\ Intent(Head(inbox)) = intent
  /\ inbox' = Tail(inbox)

HandleStatus ==
  /\ Take("status")
  /\ at' = "reply"
  /\ UNCHANGED <<rec, box, mine, ckpt, lastRun, cur, wall, idle, killWait, crashes,
                 inContainer>>

\* _handle_kill up to its await of docker kill, or the whole of it if there is
\* nothing to kill.
HandleKill ==
  LET e == Head(inbox) IN
  /\ Take("kill")
  /\ IF Authorized(e.sender) /\ rec[e.thread].container # None
     THEN /\ cur' = Handle(e.thread, "kill", rec[e.thread].container)
          /\ at' = "killing"
          /\ UNCHANGED rec
     ELSE /\ rec' = IF Authorized(e.sender) THEN Closed(e.thread) ELSE rec
          /\ at' = "reply"
          /\ UNCHANGED cur
  /\ UNCHANGED <<box, mine, ckpt, lastRun, wall, idle, killWait, crashes, inContainer>>

\* docker kill answers; it fails on a container that is gone.  Either way the
\* session is closed.
KillReturns(ok) ==
  /\ at = "killing"
  /\ ok => box[cur.run] = "running"
  /\ box' = IF ok THEN [box EXCEPT ![cur.run] = "gone"] ELSE box
  /\ rec' = Closed(cur.thread)
  /\ at' = "reply"
  /\ cur' = NoHandling
  /\ UNCHANGED <<inbox, mine, ckpt, lastRun, wall, idle, killWait, crashes, inContainer>>

\* _handle_task up to the memory's bootstrap; a spec the membrane refuses ends the
\* handler before anything is created.
HandleTask(intent, valid) ==
  /\ intent \in {"launch", "continue"}
  /\ ~valid => inContainer
  /\ Take(intent)
  /\ IF valid
     THEN at' = "bootstrap" /\ cur' = Handle(Head(inbox).thread, intent, None)
     ELSE at' = "reply" /\ UNCHANGED cur
  /\ UNCHANGED <<rec, box, mine, ckpt, lastRun, wall, idle, killWait, crashes,
                 inContainer>>

\* The answer to the user, or "internal error", is sent or its failure logged; a
\* finished run's outcome is written to memory before that, best effort.
Reply ==
  /\ at = "reply"
  /\ at' = "listen"
  /\ UNCHANGED <<inbox, rec, box, mine, ckpt, lastRun, cur, wall, idle, killWait, crashes,
                 inContainer>>

-----------------------------------------------------------------------------
(* A run *)

\* _handle_task's except clause: a failed container run closes the session.
Fail ==
  /\ rec' = IF inContainer THEN Closed(cur.thread) ELSE rec
  /\ at' = "reply"
  /\ cur' = NoHandling

\* The bootstrap raises: nothing was started, and the record is left as it is.
BootstrapFails ==
  /\ at = "bootstrap"
  /\ at' = "reply"
  /\ cur' = NoHandling
  /\ UNCHANGED <<inbox, rec, box, mine, ckpt, lastRun, wall, idle, killWait, crashes,
                 inContainer>>

\* The prompt is ready; a continuation needs a checkpoint that can be read.
Bootstrapped(readable) ==
  /\ at = "bootstrap"
  /\ IF cur.intent = "continue" /\ (ckpt[cur.thread] = None \/ ~readable)
     THEN Fail
     ELSE at' = "starting" /\ UNCHANGED <<rec, cur>>
  /\ UNCHANGED <<inbox, box, mine, ckpt, lastRun, wall, idle, killWait, crashes,
                 inContainer>>

StartFails ==
  /\ at = "starting"
  /\ Fail
  /\ UNCHANGED <<inbox, box, mine, ckpt, lastRun, wall, idle, killWait, crashes,
                 inContainer>>

\* The container runs and on_start names it in the session table.
Started(r) ==
  /\ at = "starting"
  /\ box[r] = "unused"
  /\ box' = [box EXCEPT ![r] = "running"]
  /\ mine' = mine \cup {r}
  /\ lastRun' = [lastRun EXCEPT ![cur.thread] = r]
  /\ rec' = IF inContainer THEN Armed(cur.thread, r) ELSE rec
  /\ cur' = [cur EXCEPT !.run = r]
  /\ wall' = WallClock
  /\ idle' = IdleTimeout
  /\ killWait' = 0
  /\ at' = "stream"
  /\ UNCHANGED <<inbox, ckpt, crashes, inContainer>>

\* Mutant: the deadline is computed anew for every line.
LineExtendsDeadline(done) ==
  /\ at = "stream"
  /\ wall > 0
  /\ cur' = [cur EXCEPT !.done = @ \/ done]
  /\ idle' = IdleTimeout
  /\ wall' = WallClock
  /\ UNCHANGED <<inbox, rec, box, mine, ckpt, lastRun, at, killWait, crashes, inContainer>>

\* A line is read before the deadline: narration, a keepalive or the DoneEvent,
\* after which the stream is drained.
Line(done) ==
  /\ at = "stream"
  /\ wall > 0
  /\ cur' = [cur EXCEPT !.done = @ \/ done]
  /\ idle' = IdleTimeout
  /\ UNCHANGED <<inbox, rec, box, mine, ckpt, lastRun, at, wall, killWait, crashes,
                 inContainer>>

\* The stream ends: closed by the brain, or broken by a line decode_event refuses
\* or an error of the brain.  It counts only if a DoneEvent came.
StreamEnds(broken) ==
  /\ at = "stream"
  /\ cur' = [cur EXCEPT !.outcome = IF cur.done /\ ~broken THEN "ok" ELSE "error"]
  /\ at' = "closing"
  /\ UNCHANGED <<inbox, rec, box, mine, ckpt, lastRun, wall, idle, killWait, crashes,
                 inContainer>>

\* events() gives up: no output for the idle timeout, or the deadline passed.
TimesOut ==
  /\ inContainer
  /\ at = "stream"
  /\ wall = 0 \/ idle = 0
  /\ cur' = [cur EXCEPT !.outcome = "error"]
  /\ at' = "closing"
  /\ UNCHANGED <<inbox, rec, box, mine, ckpt, lastRun, wall, idle, killWait, crashes,
                 inContainer>>

\* The transport's own loop ended, or an interrupt came: the serve loop is cancelled at
\* whatever it awaits.  CancelledError is no Exception, so the record is left as it is.
Shutdown ==
  /\ at \notin {"down", "stream", "closing"}
  /\ at' = "down"
  /\ cur' = NoHandling
  /\ UNCHANGED <<inbox, rec, box, mine, ckpt, lastRun, wall, idle, killWait, crashes,
                 inContainer>>

\* Cancelled in create_subprocess_exec: the docker client is killed, but the daemon may
\* have been asked for the container already.
ShutdownStart(r) ==
  /\ inContainer
  /\ at = "starting"
  /\ box[r] = "unused"
  /\ box' = [box EXCEPT ![r] = "running"]
  /\ mine' = mine \cup {r}
  /\ at' = "down"
  /\ cur' = NoHandling
  /\ UNCHANGED <<inbox, rec, ckpt, lastRun, wall, idle, killWait, crashes, inContainer>>

\* Cancelled while the run streams: the provider's finally still awaits aclose.
ShutdownRun ==
  /\ at = "stream"
  /\ at' = "closing"
  /\ cur' = [cur EXCEPT !.outcome = "cancelled"]
  /\ UNCHANGED <<inbox, rec, box, mine, ckpt, lastRun, wall, idle, killWait, crashes,
                 inContainer>>

\* Cancelled inside aclose, which has set _closed: the rest of it is skipped for good.
\* SIGTERM may have been sent before (then Exits may follow) or never is.
ShutdownTeardown ==
  /\ at = "closing"
  /\ box' = IF inContainer THEN box ELSE [box EXCEPT ![cur.run] = "gone"]
  /\ at' = "down"
  /\ cur' = NoHandling
  /\ UNCHANGED <<inbox, rec, mine, ckpt, lastRun, wall, idle, killWait, crashes,
                 inContainer>>

\* aclose: SIGTERM reaches the container through the docker client.  Its python is PID 1
\* and installs no handler, so it may ignore the signal; SIGKILL then ends only the client.
Aclose(obeys) ==
  /\ at = "closing"
  /\ ~inContainer => obeys
  /\ box' = IF obeys THEN [box EXCEPT ![cur.run] = "gone"] ELSE box
  /\ \/ cur.outcome = "ok" /\ at' = "saving" /\ UNCHANGED <<rec, cur>>
     \/ cur.outcome = "error" /\ Fail
     \/ cur.outcome = "cancelled" /\ at' = "down" /\ cur' = NoHandling /\ UNCHANGED rec
  /\ UNCHANGED <<inbox, mine, ckpt, lastRun, wall, idle, killWait, crashes, inContainer>>

\* Mutant: only a launch saves its checkpoint.
SavedOnLaunch ==
  /\ at = "saving"
  /\ ckpt' = IF cur.intent = "launch" THEN [ckpt EXCEPT ![cur.thread] = cur.run] ELSE ckpt
  /\ rec' = IF ~inContainer /\ cur.intent = "launch" THEN Armed(cur.thread, None) ELSE rec
  /\ at' = "reply"
  /\ cur' = NoHandling
  /\ UNCHANGED <<inbox, box, mine, lastRun, wall, idle, killWait, crashes, inContainer>>

\* The checkpoint is saved; an in-process launch registers its session only now.
Saved ==
  /\ at = "saving"
  /\ ckpt' = [ckpt EXCEPT ![cur.thread] = cur.run]
  /\ rec' = IF ~inContainer /\ cur.intent = "launch" THEN Armed(cur.thread, None) ELSE rec
  /\ at' = "reply"
  /\ cur' = NoHandling
  /\ UNCHANGED <<inbox, box, mine, lastRun, wall, idle, killWait, crashes, inContainer>>

\* Mutant: a failed save does not close the session.
SaveFailsStaysOpen ==
  /\ at = "saving"
  /\ at' = "reply"
  /\ cur' = NoHandling
  /\ UNCHANGED <<inbox, rec, box, mine, ckpt, lastRun, wall, idle, killWait, crashes,
                 inContainer>>

SaveFails ==
  /\ at = "saving"
  /\ Fail
  /\ UNCHANGED <<inbox, box, mine, ckpt, lastRun, wall, idle, killWait, crashes,
                 inContainer>>

-----------------------------------------------------------------------------
(* The environment *)

\* A container exits by itself.
Exits(r) ==
  /\ inContainer
  /\ box[r] = "running"
  /\ box' = [box EXCEPT ![r] = "gone"]
  /\ UNCHANGED <<inbox, rec, mine, ckpt, lastRun, at, cur, wall, idle, killWait, crashes,
                 inContainer>>

KillQueued ==
  \E i \in DOMAIN inbox : /\ inbox[i].kind = "kill"
                          /\ inbox[i].thread = cur.thread
                          /\ Authorized(inbox[i].sender)

Tick ==
  /\ inContainer
  /\ at = "stream"
  /\ wall > 0 /\ idle > 0
  /\ wall' = wall - 1
  /\ idle' = idle - 1
  /\ killWait' = IF KillQueued THEN killWait + 1 ELSE killWait
  /\ UNCHANGED <<inbox, rec, box, mine, ckpt, lastRun, at, cur, crashes, inContainer>>

\* The process dies and its supervisor starts another, which builds an empty
\* registry.  Containers outlive it, in-process brains do not; queued events are
\* lost; the checkpoint store is on disk.
Restart ==
  /\ crashes < MaxCrashes
  /\ crashes' = crashes + 1
  /\ inbox' = <<>>
  /\ rec' = [t \in Thread |-> NoRecord]
  /\ box' = IF inContainer THEN box
            ELSE [r \in Run |-> IF box[r] = "running" THEN "gone" ELSE box[r]]
  /\ mine' = {}
  /\ at' = "boot"
  /\ cur' = NoHandling
  /\ UNCHANGED <<ckpt, lastRun, wall, idle, killWait, inContainer>>

RunStep ==
  \/ BootstrapFails
  \/ StartFails
  \/ TimesOut
  \/ Saved
  \/ SaveFails
  \/ \E r \in Run : Started(r)
  \/ \E b \in BOOLEAN : Bootstrapped(b) \/ Aclose(b)

LoopStep ==
  \/ HandleStatus
  \/ HandleKill
  \/ Reply
  \/ \E b \in BOOLEAN : \/ ReconcileOnStart(b)
                        \/ KillReturns(b)
                        \/ \E i \in {"launch", "continue"} : HandleTask(i, b)

Next ==
  \/ LoopStep
  \/ RunStep
  \/ Shutdown \/ ShutdownRun \/ ShutdownTeardown
  \/ Tick
  \/ Restart
  \/ \E b \in BOOLEAN : Line(b) \/ StreamEnds(b)
  \/ \E r \in Run : Exits(r) \/ ShutdownStart(r)
  \/ \E e \in Event : Receive(e)

Spec == Init /\ [][Next]_vars

\* The event loop runs what is ready, awaits of memory, docker and the transport
\* end, and time passes.  A brain need not say or finish anything.
Fairness == WF_vars(LoopStep) /\ WF_vars(RunStep) /\ WF_vars(Tick)

FairSpec == Spec /\ Fairness

-----------------------------------------------------------------------------
(* Safety *)

\* A session that the router treats as resumable has a checkpoint, so a reply never
\* ends in "no checkpoint to resume".
ResumableHasCheckpoint ==
  at = "listen" => \A t \in Thread : rec[t].status = "running" => ckpt[t] # None

\* A continuation in a container resumes from the last run started on its thread:
\* after a run that failed or hung, no message replays the checkpoint from before it.
NoStaleResume ==
  inContainer /\ at = "starting" /\ cur.intent = "continue" =>
    ckpt[cur.thread] = lastRun[cur.thread]

\* The backstop of a teardown that fails: whichever way a run ended, as long as the
\* process serves and the container runs on, its thread's record still names it, so the
\* thread's next /kill aims docker kill at it and no other.
LeftRunIsKillable ==
  inContainer /\ at # "down" =>
    \A t \in Thread : lastRun[t] \in mine /\ box[lastRun[t]] = "running" =>
      rec[t].container = lastRun[t]

\* on_start registers the container so that /kill can tear it down mid-run: an
\* operator's /kill does not wait for the run's own deadline.
KillReachesRun == killWait < WallClock

-----------------------------------------------------------------------------
(* Liveness *)

\* However a brain in a container behaves, the only consumer of events gets back to
\* the next one.  (A brain in process has no timeout: it may hang the loop.)
ServeReturns == (inContainer /\ at # "listen") ~> (at \in {"listen", "down"})
=============================================================================

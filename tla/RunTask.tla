------------------------------- MODULE RunTask -------------------------------
(***************************************************************************)
(* The command line's own runs (cli/main.py): `run` with _run_task and     *)
(* `repl` with _run_repl and run_repl (patterns/continuity.py), one        *)
(* process after the other, over the checkpoint files they share.          *)
(*                                                                         *)
(* A step is what the coroutine does up to its next await.  asyncio.run    *)
(* turns the first SIGINT into a cancellation, which the coroutine meets   *)
(* at an await that really suspends: the brain's always does, a mint, the  *)
(* bootstrap, the summary or a revoke may, a file operation never.         *)
(*                                                                         *)
(* LeaseBroker models the broker; here a lease is the token it stands for  *)
(* at the provider.  Whether a provider can be built is Providers' part.   *)
(***************************************************************************)
EXTENDS CheckpointFile, Naturals, Sequences

CONSTANTS Plan,           \* the pairs that can be granted, in the order of lease_requests
          Key,            \* environment variables
          KeyOf,          \* the variable cred_to_env sets for a pair, or None
          Stateful,       \* pairs whose token stays live until it is revoked
          ProbeAttempts,  \* _probe_attempts()
          MaxProcesses    \* bound: processes started

Pair == {Plan[i] : i \in 1..Len(Plan)}
Token == Pair \X (1..MaxProcesses)
Plain == {None, "user"}

ASSUME RunAssumption ==
  /\ Plan \in Seq(Pair)
  /\ KeyOf \in [Pair -> Key \cup {None}]
  /\ Stateful \subseteq Pair
  /\ ProbeAttempts \in Nat \ {0} /\ MaxProcesses \in Nat
  /\ Value \subseteq Nat \ {0}
  /\ None \notin Nat
  /\ \A t \in Token : t \notin Plain

VARIABLES
  pc,        \* where the process stands
  proc,      \* its number
  how,       \* its command line: repl or run, the session, how much of Plan is granted
  probes,    \* probes the memory gate has made
  code,      \* the exit code, once it is known
  leases,    \* leases: the pairs acquired, in order
  restore,   \* env_restore: the prior value of each variable injected
  env,       \* os.environ: None, "user", or the token a variable holds
  ambient,   \* os.environ as the process found it
  live,      \* tokens live at their providers
  lost,      \* history: tokens of this process whose mint raised after it took effect
  tried,     \* history: its tokens whose release was attempted
  prior,     \* the checkpoint the turn resumes from, or None
  turn,      \* turns started so far; the number names the checkpoint a turn makes
  base,      \* history: the session's file when the process started
  reported,  \* history: the last turn of each session whose result was shown
  signal     \* "none", "sent", "met" at an await, "cut" short a release

tokenVars == <<leases, live, lost, tried>>
envVars   == <<restore, env, ambient>>
turnVars  == <<prior, turn, reported>>
procVars  == <<proc, how, base>>
vars == <<storeVars, pc, probes, code, signal, tokenVars, envVars, turnVars, procVars>>

Sid == how.session
Of(g) == <<g, proc>>

TypeOK ==
  /\ StoreTypeOK
  /\ pc \in {"start", "gate", "plan", "acquire", "inject", "brain", "line", "ground",
             "load", "drive", "save", "saving", "remember", "cleanup", "release",
             "exit", "dead"}
  /\ proc \in 0..MaxProcesses
  /\ how \in [repl : BOOLEAN, session : Session \cup {None}, grants : 0..Len(Plan)]
  /\ probes \in 0..(ProbeAttempts - 1)
  /\ code \in {0, 1, 2, 3, 130, None}
  /\ leases \in Seq(Pair) /\ Len(leases) <= how.grants
  /\ DOMAIN restore \subseteq Key /\ \A k \in DOMAIN restore : restore[k] \in Plain
  /\ env \in [Key -> Plain \cup Token] /\ ambient \in [Key -> Plain]
  /\ live \subseteq Token /\ lost \subseteq Token /\ tried \subseteq Token
  /\ prior \in Value \cup {None} /\ base \in Value \cup {None}
  /\ turn \in Value \cup {0} /\ reported \in [Session -> Value \cup {0}]
  /\ signal \in {"none", "sent", "met", "cut"}

Init ==
  /\ StoreInit
  /\ pc = "exit" /\ proc = 0 /\ probes = 0 /\ code = None /\ signal = "none"
  /\ how = [repl |-> FALSE, session |-> None, grants |-> 0]
  /\ leases = <<>> /\ live = {} /\ lost = {} /\ tried = {}
  /\ restore = <<>> /\ ambient = [k \in Key |-> None] /\ env = ambient
  /\ prior = None /\ turn = 0 /\ base = None
  /\ reported = [s \in Session |-> 0]

-----------------------------------------------------------------------------
(* Processes *)

\* A process starts with its own environment; repl always names a session and
\* takes no grants.
Launch(h, a) ==
  /\ pc \in {"exit", "dead"} /\ proc < MaxProcesses
  /\ h.repl => h.session # None /\ h.grants = 0
  /\ proc' = proc + 1 /\ how' = h /\ pc' = "start" /\ code' = None
  /\ ambient' = a /\ env' = a /\ restore' = <<>>
  /\ leases' = <<>> /\ lost' = {} /\ tried' = {}
  /\ prior' = None /\ signal' = "none" /\ probes' = 0
  /\ base' = IF h.session = None THEN None ELSE file[h.session]
  /\ UNCHANGED <<storeVars, live, turn, reported>>

\* Between two processes the host erases a session's checkpoint: nothing is
\* asked any more of the process that ended.
Erased(s) ==
  /\ pc \in {"exit", "dead"}
  /\ Delete(s)
  /\ base' = IF s = Sid THEN None ELSE base
  /\ reported' = [reported EXCEPT ![s] = 0]
  /\ pc' = "dead"
  /\ UNCHANGED <<probes, code, signal, tokenVars, envVars, prior, turn, proc, how>>

Crash ==
  /\ pc \notin {"exit", "dead"}
  /\ pc' = "dead"
  /\ SavesLost
  /\ UNCHANGED <<probes, code, signal, tokenVars, envVars, turnVars, procVars>>

\* SIGINT, of which one is modelled per process.
Interrupt ==
  /\ pc \notin {"exit", "dead"} /\ signal = "none"
  /\ signal' = "sent"
  /\ UNCHANGED <<storeVars, pc, probes, code, tokenVars, envVars, turnVars, procVars>>

\* The process ends at once, outside any try.
Quit(c) == pc' = "exit" /\ code' = c

\* An exception in _run_task runs the finally; run_repl reports an Exception of
\* a turn and reads the next line, outside a turn repl ends.
Raise(c) ==
  IF how.repl /\ pc \in {"ground", "load", "drive", "save", "saving"}
  THEN pc' = "line" /\ UNCHANGED code
  ELSE code' = c /\ pc' = IF how.repl THEN "exit" ELSE "cleanup"

-----------------------------------------------------------------------------
(* From the command line to the brain *)

\* The brain backend, the permission mode, --grant, --mcp-config and the prompt
\* are checked first.
Parsed(ok) ==
  /\ pc = "start"
  /\ IF ok THEN pc' = "gate" /\ UNCHANGED code ELSE Quit(2)
  /\ UNCHANGED <<storeVars, probes, signal, tokenVars, envVars, turnVars, procVars>>

\* Mutant: one probe too many.
ProbeOnceMore(ok) ==
  /\ pc = "gate"
  /\ CASE ok -> pc' = (IF how.grants = 0 THEN "brain" ELSE "plan") /\ UNCHANGED <<probes, code>>
       [] ~ok /\ probes < ProbeAttempts -> probes' = probes + 1 /\ UNCHANGED <<pc, code>>
       [] OTHER -> Quit(3) /\ UNCHANGED probes
  /\ UNCHANGED <<storeVars, signal, tokenVars, envVars, turnVars, procVars>>

\* memory_reachable probes up to ProbeAttempts times, before anything is minted.
Probe(ok) ==
  /\ pc = "gate"
  /\ CASE ok -> pc' = (IF how.grants = 0 THEN "brain" ELSE "plan") /\ UNCHANGED <<probes, code>>
       [] ~ok /\ probes + 1 < ProbeAttempts -> probes' = probes + 1 /\ UNCHANGED <<pc, code>>
       [] OTHER -> Quit(3) /\ UNCHANGED probes
  /\ UNCHANGED <<storeVars, signal, tokenVars, envVars, turnVars, procVars>>

\* load_registry, plan_granted_specs, build_broker: only the granted providers
\* are built, and what fails is the operator's input.
Planned(ok) ==
  /\ pc = "plan"
  /\ IF ok THEN pc' = "acquire" /\ UNCHANGED code ELSE Raise(2)
  /\ UNCHANGED <<storeVars, probes, signal, tokenVars, envVars, turnVars, procVars>>

NextPair == Plan[Len(leases) + 1]
Minted == IF NextPair \in Stateful THEN live \cup {Of(NextPair)} ELSE live

Acquired ==
  /\ pc = "acquire"
  /\ leases' = Append(leases, NextPair)
  /\ live' = Minted
  /\ pc' = IF Len(leases) + 1 = how.grants THEN "inject" ELSE "acquire"
  /\ UNCHANGED <<storeVars, probes, code, signal, lost, tried, envVars, turnVars, procVars>>

\* Mutant: a pair that cannot be had is skipped.
AcquireRaisesSkips(late, setup) ==
  /\ pc = "acquire"
  /\ live' = IF late THEN Minted ELSE live
  /\ lost' = IF late THEN lost \cup {Of(NextPair)} ELSE lost
  /\ pc' = "inject"
  /\ UNCHANGED <<code, storeVars, probes, signal, leases, tried, envVars, turnVars, procVars>>

\* A lock, a refused standing secret or a garbled answer (a ValueError) is a
\* CredentialSetupError; any other failure leaves as it is.
AcquireRaises(late, setup) ==
  /\ pc = "acquire"
  /\ live' = IF late THEN Minted ELSE live
  /\ lost' = IF late THEN lost \cup {Of(NextPair)} ELSE lost
  /\ Raise(IF setup THEN 2 ELSE 1)
  /\ UNCHANGED <<storeVars, probes, signal, leases, tried, envVars, turnVars, procVars>>

Held == {leases[i] : i \in 1..Len(leases)}
Injected == {KeyOf[g] : g \in Held} \ {None}
Clash == \E i, j \in 1..Len(leases) :
           i < j /\ KeyOf[leases[i]] = KeyOf[leases[j]] /\ KeyOf[leases[i]] # None
LastFor(k) == CHOOSE i \in 1..Len(leases) :
                KeyOf[leases[i]] = k /\ \A j \in (i + 1)..Len(leases) : KeyOf[leases[j]] # k

\* container_env refuses two values for one variable; what it returns is put
\* into os.environ with what was there kept.
Inject(same) ==
  /\ pc = "inject"
  /\ IF Clash /\ ~same
     THEN Raise(2) /\ UNCHANGED envVars
     ELSE /\ pc' = "brain" /\ UNCHANGED <<code, ambient>>
          /\ restore' = [k \in Injected |-> env[k]]
          /\ env' = [k \in Key |-> IF k \in Injected THEN Of(leases[LastFor(k)]) ELSE env[k]]
  /\ UNCHANGED <<storeVars, probes, signal, tokenVars, turnVars, procVars>>

\* make_brain: the backend's package may be missing.
MakeBrain(ok) ==
  /\ pc = "brain"
  /\ IF ok THEN pc' = (IF how.repl THEN "line" ELSE "ground") /\ UNCHANGED code ELSE Raise(3)
  /\ UNCHANGED <<storeVars, probes, signal, tokenVars, envVars, turnVars, procVars>>

-----------------------------------------------------------------------------
(* One turn: ground_and_run *)

\* repl reads a line: a task, /exit or the end of the input.
Line(more) ==
  /\ pc = "line"
  /\ IF more THEN pc' = "ground" /\ UNCHANGED code ELSE Quit(0)
  /\ UNCHANGED <<storeVars, probes, signal, tokenVars, envVars, turnVars, procVars>>

Ground(ok) ==
  /\ pc = "ground"
  /\ turn + 1 \in Value
  /\ turn' = turn + 1
  /\ IF ok THEN pc' = "load" /\ UNCHANGED code ELSE Raise(1)
  /\ UNCHANGED <<storeVars, probes, signal, tokenVars, envVars, prior, reported, procVars>>

\* drive_task: the checkpoint decides between launch and resume.  Without
\* --session the store is a new InMemoryCheckpointStore.
Load ==
  /\ pc = "load"
  /\ \E c \in IF Sid = None THEN {None} ELSE Loads(Sid) :
       IF c = Torn THEN Raise(2) /\ UNCHANGED prior
       ELSE pc' = "drive" /\ prior' = c /\ UNCHANGED code
  /\ UNCHANGED <<storeVars, probes, signal, tokenVars, envVars, turn, reported, procVars>>

\* Session._drive: the stream ends with its DoneEvent, or without one
\* (SessionError) or in a BrainInvocationError; any other exception is raised
\* as it is.
Drive(end) ==
  /\ pc = "drive" /\ signal # "sent"
  /\ CASE end = "done" -> pc' = "save" /\ UNCHANGED code
       [] end = "failed" -> Raise(2)
       [] end = "other" -> Raise(1)
  /\ UNCHANGED <<storeVars, probes, signal, tokenVars, envVars, turnVars, procVars>>

\* The session's checkpoint is saved; without --session, in memory.
Save ==
  /\ pc = "save"
  /\ IF Sid = None THEN pc' = "remember" /\ UNCHANGED storeVars
     ELSE pc' = "saving" /\ SaveBegin(Sid, turn)
  /\ UNCHANGED <<probes, code, signal, tokenVars, envVars, turnVars, procVars>>

SaveStep ==
  /\ pc = "saving"
  /\ \/ SaveWritten(Sid) /\ UNCHANGED pc
     \/ SaveReplace(Sid) /\ pc' = "remember"
  /\ UNCHANGED <<probes, code, signal, tokenVars, envVars, turnVars, procVars>>

\* Mutant: a checkpoint that cannot be saved is not worth failing the run.
SaveRaisesIgnored ==
  /\ \/ pc = "save" /\ Sid # None /\ UNCHANGED storeVars
     \/ pc = "saving" /\ \E unlinked \in BOOLEAN : SaveFails(Sid, unlinked)
  /\ pc' = "remember"
  /\ UNCHANGED <<code, probes, signal, tokenVars, envVars, turnVars, procVars>>

\* An OSError of mkdir or mkstemp, of the write or of the rename.
SaveRaises ==
  /\ \/ pc = "save" /\ Sid # None /\ UNCHANGED storeVars
     \/ pc = "saving" /\ \E unlinked \in BOOLEAN : SaveFails(Sid, unlinked)
  /\ Raise(1)
  /\ UNCHANGED <<probes, signal, tokenVars, envVars, turnVars, procVars>>

\* Mutant: a summary that cannot be written fails the run.
RememberedOrRaises(ok) ==
  /\ pc = "remember"
  /\ reported' = IF Sid = None THEN reported ELSE [reported EXCEPT ![Sid] = turn]
  /\ CASE how.repl -> pc' = "line" /\ UNCHANGED code
       [] ~how.repl /\ ok -> pc' = "cleanup" /\ code' = 0
       [] OTHER -> pc' = "cleanup" /\ code' = 1
  /\ UNCHANGED <<storeVars, probes, signal, tokenVars, envVars, prior, turn, procVars>>

\* remember_outcome and, in `run`, reinforce_after_run: whether they succeed or
\* not, the turn's result is returned.
Remembered(ok) ==
  /\ pc = "remember"
  /\ reported' = IF Sid = None THEN reported ELSE [reported EXCEPT ![Sid] = turn]
  /\ IF how.repl THEN pc' = "line" /\ UNCHANGED code ELSE pc' = "cleanup" /\ code' = 0
  /\ UNCHANGED <<storeVars, probes, signal, tokenVars, envVars, prior, turn, procVars>>

\* The cancellation is met at an await of the body.  A mint that is cancelled
\* may have taken effect.
Cancelled(late) ==
  /\ signal = "sent" /\ signal' = "met"
  /\ pc \in {"acquire", "ground", "drive", "remember"}
  /\ late => pc = "acquire"
  /\ live' = IF late THEN Minted ELSE live
  /\ lost' = IF late THEN lost \cup {Of(NextPair)} ELSE lost
  /\ code' = 130 /\ pc' = IF how.repl THEN "exit" ELSE "cleanup"
  /\ UNCHANGED <<storeVars, probes, leases, tried, envVars, turnVars, procVars>>

-----------------------------------------------------------------------------
(* The finally of _run_task *)

\* Mutant: the leases are released under the environment that holds them.
RestoreEnvLater ==
  /\ pc = "cleanup"
  /\ pc' = "release"
  /\ UNCHANGED <<env, storeVars, probes, code, signal, tokenVars, restore, ambient, turnVars,
                 procVars>>

RestoreEnv ==
  /\ pc = "cleanup"
  /\ pc' = "release"
  /\ env' = [k \in Key |-> IF k \in DOMAIN restore THEN restore[k] ELSE env[k]]
  /\ UNCHANGED <<storeVars, probes, code, signal, tokenVars, restore, ambient, turnVars, procVars>>

\* The first lease not yet tried.
Due(i) == Of(leases[i]) \notin tried /\ \A j \in 1..(i - 1) : Of(leases[j]) \in tried
Outstanding == \E i \in 1..Len(leases) : Of(leases[i]) \notin tried

Revoke(revoked) ==
  \E i \in 1..Len(leases) :
    /\ Due(i)
    /\ tried' = tried \cup {Of(leases[i])}
    /\ live' = IF revoked THEN live \ {Of(leases[i])} ELSE live

\* Mutant: a revoke that fails ends the loop.
ReleaseStops(revoked) ==
  /\ pc = "release"
  /\ Revoke(revoked)
  /\ pc' = IF revoked THEN pc ELSE "exit"
  /\ UNCHANGED <<storeVars, probes, code, signal, leases, lost, envVars, turnVars, procVars>>

\* A revoke that fails is logged and the loop goes on.
Release(revoked) ==
  /\ pc = "release"
  /\ Revoke(revoked)
  /\ UNCHANGED <<storeVars, pc, probes, code, signal, leases, lost, envVars, turnVars, procVars>>

\* CancelledError is no Exception: the rest of the loop is skipped.
ReleaseCancelled(revoked) ==
  /\ pc = "release"
  /\ signal = "sent" /\ signal' = "cut"
  /\ Revoke(revoked)
  /\ Quit(130)
  /\ UNCHANGED <<storeVars, probes, leases, lost, envVars, turnVars, procVars>>

Released ==
  /\ pc = "release" /\ ~Outstanding
  /\ Quit(code)
  /\ UNCHANGED <<storeVars, probes, signal, tokenVars, envVars, turnVars, procVars>>

Finally == RestoreEnv \/ (\E b \in BOOLEAN : Release(b) \/ ReleaseCancelled(b)) \/ Released

Body ==
  \/ \E b \in BOOLEAN : \/ Parsed(b) \/ Probe(b) \/ Planned(b) \/ Inject(b) \/ MakeBrain(b)
                        \/ Line(b) \/ Ground(b) \/ Remembered(b) \/ Cancelled(b)
  \/ \E late, setup \in BOOLEAN : AcquireRaises(late, setup)
  \/ \E end \in {"done", "failed", "other"} : Drive(end)
  \/ Acquired \/ Load \/ Save \/ SaveStep \/ SaveRaises

CommandLine == [repl : BOOLEAN, session : Session \cup {None}, grants : 0..Len(Plan)]

Next ==
  \/ \E h \in CommandLine, a \in [Key -> Plain] : Launch(h, a)
  \/ \E s \in Session : Erased(s)
  \/ Body \/ Finally \/ Interrupt \/ Crash

Spec == Init /\ [][Next]_vars

-----------------------------------------------------------------------------

\* The rename makes a save atomic: however it is cut short, by a failing call or
\* by the death of the process, the file holds the old checkpoint or the new.
Store == INSTANCE AtomicStore WITH store <- file, pending <- saving
ImplementsAtomicStore == Store!Spec

\* No environment variable holds a credential whose release has begun, and what
\* _run_task leaves behind is the environment it found.
EnvIsClean ==
  /\ pc # "dead" => \A k \in Key : env[k] \in Token => env[k] \notin tried
  /\ pc = "exit" => env = ambient

\* While the brain runs, every granted pair has been leased, none has been
\* released, and each one's variable holds a credential of this process.
Working == pc \in {"ground", "load", "drive", "save", "saving", "remember"}
BrainHasItsGrants ==
  Working =>
    /\ Len(leases) = how.grants
    /\ \A g \in Held :
         /\ Of(g) \notin tried /\ (g \in Stateful => Of(g) \in live)
         /\ KeyOf[g] # None => env[KeyOf[g]] \in Token

\* A token of a process that has ended is live only if its mint raised, its
\* revoke was tried and failed, or an interrupt cut the releases short.
LiveIsExplained ==
  pc = "exit" /\ signal # "cut" =>
    \A t \in live : t[2] = proc => t \in lost \cup tried

\* Unless it was interrupted, a `run` that ends says the truth about the
\* session: exit 0 with its checkpoint on disk, anything else with the session
\* as it was.
ExitCodeIsTrue ==
  pc = "exit" /\ Sid # None /\ ~how.repl /\ code # 130 =>
    file[Sid] = IF code = 0 THEN turn ELSE base

\* A turn never resumes from an older checkpoint than that of the last turn of
\* its session whose result was shown.
NeverRewinds ==
  pc = "drive" /\ Sid # None /\ reported[Sid] # 0 =>
    prior # None /\ prior >= reported[Sid]
=============================================================================

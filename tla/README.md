# A TLA+ model of kagura-agent

kagura-agent runs a coding agent ("brain") inside a security membrane, drives it
from a chat cockpit, and lets a human operator approve what it may do. This
directory models the parts of it where order, failure and time matter, checks them
with TLC on small instances and proves the main safety properties with TLAPS for
every value of the constants. Paths below are relative to
`src/src/kagura_agent/`; `PROJECT.json` maps every definition to its lines.

## 1. Inventory

| Component | State it keeps | Operations | Talks to | What is hard about it | Status |
|---|---|---|---|---|---|
| Credential broker, lease ledger (`membrane/lease.py`, `granted_broker.py`, `revoke.py`) | ledger of open leases, a budget per lease, the grants | `acquire`, `renew`, `release`, `sweep` | providers | partial failure of mint-then-revoke, lost answers, a sweep over a ledger that changes under it, restart | modelled |
| Credential providers (`membrane/providers.py`, `cloud_transports.py`, `cred_env.py`) | tokens at the vendor | `mint`, `revoke` | vendor APIs | effect without an answer, 404/410, expiry, reissue | as seen by the broker, and what the factory builds |
| Approval registry and HITL loop (`cockpit/approval.py`, `core.py`) | pending requests per thread, futures, the audit trail | `register`, `claim`, `resolve`, lazy expiry, `request_capability`, `withdraw_pending`, `/approve`, `/deny` | producers, transport, memory | timeouts and cancellations racing decisions, audit between claim and answer | modelled |
| Approval producers (`cockpit/memory_write.py`, `hitl.py`) | – | `request`, `propose_promotion`, `review` | approval loop, broker, memory | wait, time out, withdraw | modelled but for the buttons of `HitlGate` |
| Cockpit serve loop, session table (`cockpit/core.py`, `registry.py`, `intent.py`) | session records | `serve`, `handle`, launch, continue, `/status`, `/kill`, reconcile | transport, session driver, container backend | one consumer for everything; failure at each await; crash | modelled |
| Session driver (`core/session.py`, `patterns/continuity.py`) | – | `run`, `resume`, `drive_task`, REPL | brain, checkpoints, memory | fail-closed without a `DoneEvent` | modelled |
| Brain in a container (`core/brain/container.py`, `membrane/brain_container.py`, `runtime.py`) | the docker client, the stdin feeder, two clocks | `start`, `events`, `aclose`, `kill`, `list` | docker | hanging, chattering, ignoring SIGTERM | modelled |
| Checkpoint stores (`patterns/checkpoint.py`) | one checkpoint per session | `save`, `load`, `delete` | disk, memory cloud | crash between temporary file and rename | modelled |
| Chat transports (`cockpit/transports/*`) | inbound queue, button futures | `listen`, `send`, `ask` | Slack, Discord, terminal | button future against late clicks | queue modelled |
| Capability graduation (`membrane/graduation.py`, `patterns/failure_learning.py`) | streaks, demotion and proposal times | `record_success`, `record_failure`, `should_propose`, `mark_proposed` | producers, memory | window boundaries; successes during a demotion; a failure while a proposal waits | modelled for one category |
| Provenance and erasure (`patterns/erasure.py`) | which memories fed which sessions | `record_grounding`, `forget_cascade` | memory, checkpoints | a cascade that fails half way, races a run, or meets a chain of derivations | modelled |
| Reinforcement (`patterns/reinforce.py`, `measure.py`, `membrane/verified_outcome.py`) | feedback lane of a memory | `reinforce_after_run` | memory, log | memories erased between grounding and verdict | modelled without the direction of the verdict |
| One-shot runs and REPL (`cli/main.py`) | environment, leases, exit code | `_run_task`, `_run_repl` | broker, session, checkpoint files | SIGINT and failures at every await; the `finally`; several leases on one variable | modelled |
| Launcher, egress (`membrane/launcher.py`, `egress.py`, `egress_proxy.py`, `deploy/images/egress-proxy/proxy.py`) | the walk's frontier and counters | mount validation, docker arguments, `CONNECT` | docker, filesystem | caps of a bounded walk; one allowlist read twice through two conversions; a label the deployed proxy does not read | modelled |
| Registry, secret sources (`membrane/registry.py`, `registry_io.py`, `secret_source.py`) | configuration | parse, resolve, build | files, environment, keychain | two readers (doctor and run) of one table; the host changes between them | modelled |
| Memory clients (`mcp/*`) | memories with trust tiers | remember, recall, promote, quarantine | memory cloud, sqlite | nothing an agent wrote may ground a run unapproved | local and sqlite clients modelled |
| Brain engines (`core/brain/*`) | – | choose, check, build | SDK, terminal | which configuration refuses when | the choice modelled, the engines are adapters |
| Doctor, setup (`cli/doctor.py`) | a report | `collect_checks`, exit code | registry, host, memory | a forecast of another command's decision | doctor modelled |
| Live evaluation (`eval/bootstrap_ab.py`, `bootstrap_live.py`) | two contexts at the memory cloud, feedback, records | `prepare`, `run_experiment`, `restore` | memory cloud, actor process | threads that outlive the coroutine awaiting them, retries of writes, interruption with the server reconfigured | the run modelled, the statistics not |

**Properties that make each component correct.** Broker: no live credential is ever
forgotten; a client is never left with a token the broker revoked; every operation ends.
Approval loop: nothing is granted without an audited decision of the operator on that
very request; one verdict per request; no thread stays wedged but by a cancelled
producer; every request is settled. Cockpit: a reply never resumes a missing or stale
checkpoint; a container that outlives its run can still be killed by name; the loop
always gets back to the next event; `/kill` reaches a running session. Graduation: a
proposal only after enough verified successes and outside cooldown and demotion; a
promotion only by an audited approval. Erasure: nothing derived from an erased memory
stays reachable. Reinforcement: a verdict reaches all of its trail that is left. One-shot
runs: the environment is put back, no credential outlives its run without a reason, and
the exit code tells whether the result is durable. Checkpoint file: after a crash the
store holds the old or the new checkpoint. Launcher: nothing unsafe is mounted, and the
label says what the launcher accepted. Registry: what `doctor` reports failed is what
`run` fails on, and nothing is minted that the operator did not declare. Evaluation: each
generation is scored under an unchanging ranking, feedback is paired and applied once,
and the contexts are put back.

## 2. Modules

| Module | Models |
|---|---|
| `LeaseBroker` | broker, ledger, grants, budget, providers, clients, sweeper, restarts |
| `TokenCustody` | what the broker promises: the abstract specification `LeaseBroker` refines |
| `OperatorGate` | `click_authorized`, shared by `/approve`, `/deny` and `/kill` |
| `ApprovalLoop` | registry, producers, `_resolve_pending`, clocks |
| `Cockpit` | serve loop, session table, a run from bootstrap to checkpoint, containers, crashes |
| `MemoryBackbone` | memory tiers, grounded runs, provenance log, erasure cascade, reinforcement |
| `Graduation` | graduation engine, failure learner and promotion gate, composed with `ApprovalLoop` |
| `AtomicStore` | what a checkpoint store promises: the abstract specification |
| `CheckpointFile` | `FileCheckpointStore`, one system call a step |
| `RunTask` | `run` and `repl`, process after process, over `CheckpointFile`; refines `AtomicStore` |
| `Egress` | the allowlist's text conversions in `EgressPolicy` and `policy_from_label` |
| `Launcher` | one launch: mount, walk, allowlist, docker arguments, the shipped proxy's answer |
| `Providers` | registry, secret references, factory, brain choice, `doctor` and the provisioning of a run |
| `Preflight` | `Launcher` and `Providers` side by side |
| `LiveRequest` | one request of `BearerJsonClient`: retries, token refresh, effects without an answer |
| `BootstrapExperiment` | `run_experiment` over `RestBootstrapBackend` and `CommandObjectiveActor`, on `LiveRequest` |
| `LeaseBrokerProofs`, `ApprovalProofs`, `CockpitProofs`, `MemoryProofs`, `GraduationProofs`, `RunTaskProofs`, `PreflightProofs`, `ExperimentProofs` | the theorems |
| `MCLeaseBroker`, `MCApproval`, `MCCockpit`, `MCMemory`, `MCGraduation`, `MCRunTask`, `MCPreflight`, `MCExperiment` | instances for TLC |

**How state and actions correspond to the code.** Most parts are asyncio programs:
code between two awaits is atomic, so an action is what the code does from one await
to the next, and anything may happen in between.

*LeaseBroker.* `ledger` is `LeaseLedger._open` (by handle, which plays the key
`provider:handle`), `lease[c]` the `Lease` object a client holds, `draft[c]` the one
`acquire` or `renew` is building, `call[a]` the provider request an agent awaits,
`token[h]` the provider's own view. `XBegin` is the code up to the provider call,
`XEnd` its continuation; provider steps in between may succeed, fail before the effect, or
fail after it. `Cancel` is a `CancelledError` at the await, which no `except
Exception` catches. `Restart` kills every coroutine and may lose a provider from the
configuration; the ledger is kept only if `LedgerSurvives` (the constructor takes a
ledger, but no caller passes one). Every caller in `src/` is sequential; several
clients and a concurrent sweep are what the broker's interface permits, and
`sweep` itself has no caller yet. The Cloudflare provider in fact blocks while it
waits for its HTTP client, but `CredProvider` is an async protocol and others may
suspend.

*ApprovalLoop.* `pend` is `PendingApprovalRegistry._pending`, `fut` the futures,
`age`/`left` the registry's TTL and the producer's `wait_for` as durations, so time is
unbounded and the state finite. `Command` claims, `AuditWritten`/`AuditRaises` is
`record_decision` returning or raising, and the future is fulfilled only after it.
`Register`…`Withdraw` are the producer. Lazy expiry (`_purge_if_expired`) is part of
every action whose code calls it. `TimerFires` and `Withdraw` are separate steps because
`TimeoutError` reaches the coroutine one turn of the event loop after the timer.
`Cancelled` is a `CancelledError` at the producer's `wait_for` or in its withdraw: the
producers catch `TimeoutError` only (`memory_write.py:57-65`, `115-122`) and
`withdraw_pending` suppresses `Exception` only, so the entry stays on the registry with a
cancelled future. `Punctual` restricts the event loop to never being late; passing runs
do not assume it, the violation run does, so that its trace needs no slow loop.

*Cockpit.* `at` is the await the single serve loop is in; `cur` the event it handles.
`rec` is the session table, `box[r]` the container of run `r`, `ckpt[t]` names the run
whose checkpoint the store holds. `Fail` is `_handle_task`'s `except` clause and
follows every failing await. A shutdown cancels the loop at any await, and what that
leaves depends on the await: in `create_subprocess_exec` the daemon may have been asked
for the container already (`ShutdownStart`), in a streaming run the provider's `finally`
still awaits `aclose` (`ShutdownRun`), and inside `aclose`, which has set `_closed`, the
rest of the teardown is skipped for good (`ShutdownTeardown`). `Aclose(obeys)`: the
agent's python is PID 1 of its container (`Dockerfile.agent:26`) and `launcher.py:335-363`
passes no `--init`, so SIGTERM may be ignored, and SIGKILL ends the docker client, not
the container. `inContainer`
is chosen once: with a container backend, `on_start` registers the session when the
container starts; in process it is registered after the first successful run.
`LiveIds` is empty because `DockerRuntime.list` uses `docker ps -q`, which prints
ids, while a record holds the `--name`; as `_serve` starts with an empty table
there is nothing to reconcile in any case, and a container that survives a crash
belongs to no session (`docs/operations.md:126-129` asks for survivors to be adopted
from their labels).

*MemoryBackbone.* `tier` is the table of memories, `trail` and `attested` the two
dictionaries of `ProvenanceLog`, `held[s]` the saved checkpoint, `casc` the progress of
`forget_cascade`. Text is reduced to its origin: `held[s]`, `know[s]` and `src[x]` name
the memories injected into the prompts behind a checkpoint, a run in progress and a
summary. The local and sqlite clients never suspend, so recall and `record_grounding` are
one step (`Ground`), and the summary and the verdict are one step: `Finish` without a
verdict, `FinishVerified` with its feedback written, and `FinishLosing` if a write raised
on the way. `judged` is history: the sessions whose verdict was written. Checkpoint calls
suspend and may fail with or without effect. `run` gives `ground_and_run` a log, the REPL
and the cockpit do not; a session that ran without one, or under the log of an earlier
process, leaves the set `logged`, and the erasure properties are about `logged` sessions.
`contained` is chosen at the start: the operator stops all runs before erasing, as
`docs/operations.md:55` prescribes, or does not. Without it a run that finishes after the
cascade writes back what was erased. Two memory lanes (pinned and recalled) are one set
here, since both admit trusted memories only. What an agent copies into its own writes is
not a derived artifact `forget_cascade` knows of, and is quarantined.

*Graduation.* One category of `GraduationEngine`: `successes` and `tasks` are the streak,
`banned` what remains of the demotion window, `since` the time since `mark_proposed`; the
counters stop where the policy no longer tells values apart. `learning` is
`FailureLearner` between its memory write and `record_failure`. The proposals are the
requests of `ApprovalLoop`: `Propose`, `Decided`, `GiveUp`, `Promote` and `Elapse`
conjoin a step of the loop with one of the engine, every other step of the loop, a
cancelled producer's included, is taken as it is. `clean` and `calm` are history: the
verified successes since the last recorded failure, and the time since it.

*CheckpointFile, RunTask.* `file`, `temp` and `saving` are the published checkpoint,
the temporary file and the save in progress of each session; `stray` collects
temporary files that a crash or a failed unlink leaves behind. In `RunTask`, `pc`
walks through `_run_task` (gate, plan, acquire, inject, brain, ground, load, drive,
save, remember, cleanup, release), `leases` and `restore` are its locals of those names,
`env` is `os.environ`. The first SIGINT cancels the coroutine at an await that
suspends, and an interrupt during the `finally` cuts the releases short; a crash may
come anywhere. A failing checkpoint read or write ends a `run`, and is reported and
survived by a `repl`. What a turn computes is its number, so that resuming from an
older checkpoint than the one last shown is visible.

*Launcher, Egress.* A subtree is a sequence of entries, each with its parent and
kind; `Open`, `Look` and `Walked` are the iterations of the walk's two loops with
its counters. Text is a sequence of characters of a small alphabet: the colon, the
brackets, the comma, the space, the wildcard and letters of either case are what
`_normalize_host`, the label and the proxy's parser tell apart. `ProxyAsks` is the
proxy as it is shipped: `_allowlist_for_source` returns the static `EGRESS_ALLOWLIST` of
the proxy's environment for every container, so the label the launcher stamps is not
enforced by anything in the repository.

*Providers.* A provider's table is reduced to features: its kind, whether its required
fields are set, one field that does not belong or narrows, its references and their
shape, and the consent flag. `Doctor` computes the whole report; `Gate` …
`MakeBrain` is the provisioning of `run` in the order of the code; `HostChanges` may come
before either.

*LiveRequest, BootstrapExperiment.* Every request runs in a worker thread: `req[s]` goes
on although the `gather` that awaits it has raised or the coroutine was interrupted. One
`Trip` is one HTTP exchange; it may be refused, unauthorised, carried out without an
answer, or answered with a body that is not what was asked for, whether or not the
request was carried out (`mismatchLate`, `mismatch`). `config`, `journal` and `repeated`
are at the server: the journal is append-only, so a `POST` carried out twice is there
twice, which `repeated` remembers for each arm. A 2xx to a feedback `POST` is taken to
mean that it was journalled. `late` is history: the pinning `PUT`s still under way when
`prepare` gave up. Everything else is a local of `run_experiment` or of the backend.
Scores are not modelled: they decide the final verdict and no step.

## 3. Runs

| Run | Instance | What it shows |
|---|---|---|
| `lease_broker` | 2 clients, sweeper, 2 handles, 1 stateful and 1 stateless provider, 3 scopes, 1 restart with a surviving ledger | `NeverDropLive`, `HeldLeaseNotRevoked`, and the refinement `ImplementsCustody` |
| `lease_liveness` | 1 client, sweeper, a restart that loses the ledger | every operation returns (`OperationsReturn`) |
| `approval` | 2 requests on one thread, operator and agent | `GrantIsAudited`, `OneVerdict`, `NoOrphanPending`, `EveryRequestSettles` |
| `approval_withdraw` (violation) | 2 requests, punctual loop | a late withdraw denies the next request of the thread |
| `cockpit` | 2 threads, 2 runs, 1 crash, with and without containers | `ResumableHasCheckpoint`, `NoStaleResume`, `LeftRunIsKillable`, `ServeReturns` |
| `cockpit_kill` (violation) | 1 thread, 1 run | a `/kill` queued at the start of a run is still unread at its wall-clock limit |
| `memory` | 2 memories, 2 sessions, 3 runs, restarts at any time, contained or not | `OnlyVettedGrounds`, `TrailComplete`, `DirectErasure`, `RankedIsTrusted`, `VerdictReachesAll` |
| `memory_chain` (violation) | 2 memories, 2 sessions, 2 runs | an erasure does not reach what a second session derived through a promoted summary |
| `graduation` | 2 proposals on one thread, 2 tasks, both thresholds 2, window and cooldown 2 | `ProposalIsEarned`, `PromotionIsApproved`, `CooldownNeedsAnswer` |
| `run_task` | 2 processes, 3 turns, 3 grants of which two share a variable and one is stateless, 1 session | `EnvIsClean`, `BrainHasItsGrants`, `LiveIsExplained`, `ExitCodeIsTrue`, `NeverRewinds`, and the refinement `ImplementsAtomicStore` |
| `preflight` | subtrees of up to 3 entries against caps of 2 entries and depth 1; allowlists of texts of up to 3 characters; three lists of the proxy; tables with at most one oddity on 6 states of the host's secrets, pairs of plain tables, all brain configurations and host checks | `WalkIsExact`, `LabelReadsBack`, `SealedOrProxied`, `DoctorPredictsRun`, `MintedIsSanctioned` |
| `experiment` | 2 trials with a memory each, 2 generations, 1 retry of a request and of an actor, 1 interruption | `CleanGeneration`, `FeedbackHasCleanPair`, `OnlyRetriesRepeat`, `RestoredAfterRun`, `ResultIsPaired`, `RunEnds` |

The `violation` runs are disagreements between the code and what a comment or a
document says of it; `findings` in `PROJECT.json` quotes both sides. Of
`ErasureComplete` the direct case, `DirectErasure`, holds and is proved.

**Known limits of the code, without a run.** Found while modelling. The steps are in the
model unless said otherwise, and the properties above name them as exceptions or are
stated so as to leave them out: none of these is caught by a property, and the hazards
concerned say so in their notes.

* The ledger lives in memory (`lease.py:76`), while `docs/operations.md:143-146` speaks
  of tokens the next process sweeps. `NeverDropLive` holds within one process or with
  a ledger that is handed on (`LedgerSurvives`), and no caller hands it on.
* A mint that took effect and lost its answer leaves a token nobody tracks
  (`lease.py:185-190`); `LiveIsExplained` lists it as `lost`.
* A one-shot run leaves a failed release "tracked for sweep" (`main.py:834-848`) in a
  ledger that ends with the process.
* An audit that ends after the producer's timeout tells the operator "approved" and
  records it (`core.py:123-125`, `326`), though nothing was granted.
* A producer cancelled at its `wait_for` leaves its entry on the registry
  (`memory_write.py:57-65`, `115-122`) until a command, another withdraw or the TTL
  takes it; a late `/approve` is then audited "approved" with nothing granted, which
  the comment at `memory_write.py:60-63` excludes for a timed-out producer only. A new
  request of the thread meets `PendingApprovalExists` meanwhile.
* The shipped egress proxy enforces the static `EGRESS_ALLOWLIST` of its deployment
  (`deploy/compose.yml:39`) and never the label: `proxy.py:14-20` and `egress.py:24-31`
  call the lookup a deployment seam. `launcher.py:313-316` ("so the proxy enforces
  *this run's* hosts"), `docs/extending.md:85-87` and
  `deploy/images/egress-proxy/README.md:10-13` say more. `LabelReadsBack` is about the
  label and its reader, not about what a run can reach.
* A container may outlive its run: it may ignore SIGTERM, as python does as PID 1, and
  `aclose`'s SIGKILL ends the docker client (`brain_container.py:284`); and a
  cancellation inside `aclose` comes after `_closed` was set and before `terminate`
  (`brain_container.py:269-275`). The docstrings at `brain_container.py:203-206`
  ("never leaks a live (egress-capable) container") and `262-266` do not hold then.
  `LeftRunIsKillable` says what remains: `/kill` finds it, until the thread's next
  launch overwrites the record or the process ends.
* A proposal that lazy expiry answered as a denial burns the cooldown although no
  operator decided: the TTL runs from `register`, the producer's timer only from the end
  of the send, so a slow send lets the entry expire first. So does a denial by another
  producer's withdraw. `memory_write.py:123-124` ("A real decision (approve OR deny) was
  seen") does not hold for these; `CooldownNeedsAnswer` admits them by name. Between
  the eligibility check and `mark_proposed` a second caller is eligible too.
* A `PUT` still under way in its thread when `prepare` fails may reach a context after
  it was restored (`late` in `RestoredAfterRun`), and a restoring `PUT` answered 2xx
  with another configuration is taken for a success (`bootstrap_live.py:578-591`, where
  `458-464` compares the body of a pin). `docs/bootstrap-eval.md:57-58` promises the
  restore in a `finally` without these exceptions.
* A feedback `POST` that was carried out, answered 5xx and retried
  (`bootstrap_live.py:213-225`, `570`) is twice in one arm's append-only journal and
  once in the other's, although `docs/bootstrap-eval.md:14-18` and
  `bootstrap_ab.py:1122-1124` promise identical streams. `retries` defaults to 0
  (`bootstrap_live.py:143`); `OnlyRetriesRepeat` shows that without retries it cannot
  happen. `CleanGeneration` compares which events the journals hold, not how often.
* A recall that failed with no records has an empty probability map, not `None`, so
  `bootstrap_ab.py:980` aborts the experiment where a degraded pair was meant.
* `doctor` calls a provider sound that the default factory refuses (`cloudflare`,
  `memory_cloud`, an `aws_sts` or `gcp` table with a parent token, a region, a
  lifetime or delegates, a `static_env` without consent), and a permission mode
  `run` refuses, although `doctor.py:481` says it predicts the run. `DoctorPredictsRun`
  constrains what `doctor` reports on (registry, memory, backend, secrets) and says
  nothing of a run that the mode, the plan, the factory, the consent rule or a mint ends.

**Bounds.** Two handles let a renewal replace a token while the old one is live; two
clients and a sweeper give every pairwise race on the ledger; `TotalSeconds = 1` with
ttl 1 reaches both exhausted and exactly spent budgets. Two requests on one thread
are what it takes for one to act on the other's entry; `Timeout = 1 < TTL = 2` is the
order `memory_write.py` demands, and the tick between them is where expiry and timeout
meet. For the cockpit a second run on a thread can fail or be continued after the
first was saved, a second thread shows that sessions do not disturb each other;
`MaxInbox = 1` is enough because the loop is serial: what is queued behind the head
is only read after it. `WallClock = 2`, `IdleTimeout = 1` separates
a silent container (idle) from a chattering one (wall clock). Two memories are a
source and a summary of it, three runs let a session resume after another was grounded
on that summary. The theorems remove these bounds
for the safety properties they state.

Graduation: two proposals, so that a second one follows an answered, a timed-out or a
withdrawn first; thresholds of two tell one task repeated from two tasks; a window of two
ticks has an inside and a boundary. RunTask: three grants with `a` and `c` on one
variable show that the restore undoes a double injection in the right order, and a
failure between two acquires; two processes and three turns make the second process
resume, overwrite, or find what a crash of the first left, and a `repl` take a second turn
after a failed save. Launcher: caps of two entries and depth one are each reached,
met and exceeded by three entries, and the walk's decision at a cap looks at no more than
the next entry. Allowlists: every text of three characters over the alphabet holds
the shortest host with a port, the shortest bracketed one and a comma or space in any place.
Providers: a check in the code looks at one feature of one table at a time, so
one oddity reaches each refusal; pairs show that one bad provider spoils the others.
Experiment: two trials are what it takes for a failed trial to leave feedback of another
pending, and two generations for feedback of the first to be seen by the second; one
retry separates a request that is repeated from one that is given up.

Deadlock is not checked: every one of the systems may stop (all tokens issued, all
requests settled, the cockpit shut down, the last process ended, the container
launched or refused, the experiment done).

**Fairness.** Weak fairness of: answers of a provider (every HTTP client in
`cloud_transports.py` has a timeout), coroutines whose await is over, timers and the
clock, the transport's and the memory's calls. Nothing else is fair: no client need
start an operation, no sweep need begin, no operator need ever answer, no brain need
say or finish anything, no process need die.
In the experiment the worker threads and the coroutine are weakly fair: every trip ends
by the client's timeout and every actor by its own; an interruption is not fair.
`ServeReturns` is about container runs only; a brain in process has no timeout and
may hold the loop for ever.

## 4. Proofs

Every safety property a passing run checks is also a theorem, for every value of the
constants. Each proof module defines an inductive invariant, proves that `Init` implies it
and, with one lemma per action or group of actions, that every step keeps it, and derives
the results from that. TLC checked each invariant on the runs' instances before it was
proved.

* **LeaseBrokerProofs.** `NeverDropLive` is not inductive: a forget is justified by
  an answer read earlier. `RevokeInv` says that a revoke answered "ok" or "gone" is
  about a token that is dead, and stays dead; `ClientInv` ties phase, call, lease and
  draft together so that the handle forgotten is the handle revoked; `LedgerInv` says
  only issued tokens are recorded. `HeldInv` adds what `HeldLeaseNotRevoked` needs: a
  token has one holder, a renewal's replacement is another token than the one it
  revokes, and a sweep only touches what it has listed. What a restart can lose is the
  ledger, so the invariant has `NeverDropLive` under `SameLedger == LedgerSurvives \/
  restarts = 0`. Results: `TypeCorrect`, `HeldLeaseNotRevokedHolds`,
  `DropNeedsLostLedger` (`NeverDropLive` in every state with the same ledger), and, for
  `OneLedger == LedgerSurvives \/ MaxRestarts = 0`, `NeverDropLiveHolds` and
  `CustodyRefinement`. Without any such condition: `HeldIsTrackedHolds` (a live token
  that a client's lease or replacement names is on the ledger) and `DropsOnlyDeadHolds`
  (a step that is no restart takes only dead tokens off it).
* **ApprovalProofs.** The invariant follows a request's entry: it is on the registry, or
  claimed by the handler, or popped by a withdraw, or gone, never two of these; an entry
  whose producer is gone has a cancelled future, and a future is "approved" only after the
  audit of the operator's claim. Results: `TypeCorrect`, `GrantIsAuditedHolds`,
  `OneVerdictHolds`, `NoOrphanPendingHolds`, and the action property
  `DecisionsStandHolds`: claims, results and outcomes are final and the trail only grows
  (`NewFutureInv`: a request not yet made has no future).
* **CockpitProofs.** `SessionInv`: a session marked running has the checkpoint of its
  last run, unless its run is in progress or the process is going down; `LoopInv`
  carries the routing decision across the awaits between `classify` and the start of
  the run; `UsedInv` says a recorded run has had its container; `ClockInv`
  bounds the wait of a queued `/kill`. Results: `TypeCorrect`,
  `ResumableHasCheckpointHolds`, `NoStaleResumeHolds`, `KillWaitBoundedHolds` (from
  `ClockInv`), and `LeftRunIsKillableHolds`.
* **MemoryProofs.** `DirectErasure` needs three things to be inductive: `TrailComplete`
  (when a cascade starts, its list of sessions misses nothing), `CascadeInv` (the sessions
  it is past, or never had to visit, hold nothing of its source) and `TrustInv` (a memory
  that grounded anything is trusted or erased, so no fresh id is mistaken for it).
  Results: `TypeCorrect`, `OnlyVettedGroundsHolds`, `TrailCompleteHolds`,
  `DirectErasureHolds`, `TrustHasEvidenceHolds`, `RankedIsTrustedHolds`,
  `VerdictReachesAllHolds`, and the action property `ErasureGoesOnHolds`: the log loses an
  entry only with its memory or its process, so a failed cascade can be repeated.

* **GraduationProofs** extends `ApprovalProofs`: `StepImplements` shows that each step of
  the composition is a step of the loop or leaves it alone, so the loop's invariant
  holds of proposals too. `RecordInv` ties the
  engine's counters to the history they stand for (what has passed of a demotion window
  and what remains of it add up to the window), `TakesInv` and `DenialInv` say
  whose answer a denied proposal holds, and `PromotedInv` names the proposal behind a
  promotion; it is kept because the loop never takes back a grant. Results: `GradTypeCorrect`,
  `PromotionIsApprovedHolds`, and the action properties `CooldownNeedsAnswerHolds` and
  `ProposalIsEarnedHolds`.
* **RunTaskProofs.** `EnvIsClean` speaks of a process that has ended; to be inductive it
  needs `EnvInv` (what is not ambient is remembered in `restore`) at every `pc`
  before. `TokenInv` accounts for a live token at each step as leased, lost or tried,
  `LeaseInv` counts the leases, `SaveInv`, `SessionInv` and `ResultInv` tie the file of a
  session to the turn, to what was shown of it and to the exit code. Results:
  `TypeCorrect`, `EnvIsCleanHolds`, `BrainHasItsGrantsHolds`, `LiveIsExplainedHolds`,
  `ExitCodeIsTrueHolds`, `NeverRewindsHolds`, and `StoreRefinement`: each system call of
  the file store is a step of `AtomicStore` or a stutter. `FilesMoveForwardHolds`, an action
  property: a file is erased or moves on to the turn under way, and nothing is shown
  that is not on disk.
* **PreflightProofs.** The walk: the entries looked at are closed under "parent", and each
  directory among them is on the stack, being listed, or done (`WalkInv`, with the set the
  code never builds as a witness); when nothing is left to do, a least entry not looked at
  would have a parent that was. The label: `LabelRoundTrip` shows that splitting a joined
  allowlist gives its hosts back, for a reader that looks the label up, as no accepted
  host holds a comma or a space or has a second normal form. The run: `RunInv` says what a
  run that came this far has passed, to compare with what `doctor` computed of the same
  host. Results: `TypeCorrect`, `WalkIsExactHolds`, `LabelReadsBackHolds`,
  `SealedOrProxiedHolds`, `DoctorPredictsRunHolds`, `MintedIsSanctionedHolds`.
* **ExperimentProofs.** `ConfigInv` says which `PUT`s can still be under way in their
  threads, so that none lands on a configuration the run relies on. `CleanGeneration`
  is about the moments a generation is scored; in between, `HeadInv` and `WriteInv`
  describe the one signal being applied (the journal holds what is acknowledged and at
  most the write under way besides, which is what a retry after a lost answer leaves),
  `PendingInv` the signals that wait, and `SettledInv` says that on every other
  trial the two journals agree with each other and with the records. `RecordInv` has
  one record of each arm for every trial that is over. Results: `TypeCorrect`,
  `CleanGenerationHolds`, `OnlyRetriesRepeatHolds`, `FeedbackHasCleanPairHolds`,
  `RestoredAfterRunHolds`, `ResultIsPairedHolds`.

The steps behind the liveness properties are safety and proved. Each of four action
properties says that a step of the activity brings it strictly nearer its end and that
no other step takes it back, by a measure of the state:

| Theorem | of | measure |
|---|---|---|
| `OperationsAdvanceHolds` | `OperationsReturn` | `Ahead`, the awaits a client's operation has left; for a sweep the entries left and what the current one owes (`SweepInv`: the sweeper calls only for such an entry) |
| `RequestsAdvanceHolds` | `EveryRequestSettles` | `Outstanding`, the producer's steps and the time on its timer |
| `NearsListenHolds` | `ServeReturns` | `Distance`, the awaits before the next event and the ticks before the run's deadline |
| `RunAdvancesHolds` | `RunEnds` | `Forward`, the lexicographic order of stage, generation, trials left, beat, signals and writes; `TripsLeft` for a request in its thread |

The measures are natural numbers or finite sets, as ledgers and experiments are finite.
`ServeReturns` excepts a process death and is about container runs, for which the
deadline in `Distance` exists.

The provers cannot instantiate the library's induction theorems. Where a proof is an
induction over data (the depth of an entry, the prefixes of a joined label) it is by a
least counterexample instead: a lemma `LeastNatural`, from the well-foundedness of `<`,
gives the least number at which the claim fails, and the step before it contradicts that.

Assumptions on the constants are the named `ASSUME`s of the component modules; TLC
evaluates them in every run. Only model-checked, because the prover reaches neither
fairness nor `ENABLED`: `OperationsReturn`, `EveryRequestSettles`, `ServeReturns`,
`RunEnds`, that is, beyond the measures above, that a step which brings the activity
nearer stays enabled until it is taken. The three violation runs are counterexamples and
have nothing to prove. `TypeOK` of `LeaseBroker`, `ApprovalLoop`, `Cockpit` and
`MemoryBackbone` and `TrustHasEvidence` are theorems and not checked again by a run.

## 5. External assumptions

A provider call takes effect at most once and either answers or times out; a token id
is never reused; 404 and 410 mean the token does not work. `docker run` attached
forwards SIGTERM, not SIGKILL; `docker kill` ends a running container. A checkpoint
store call either happens or raises. From CPython 3.12 on a `wait_for` whose timer
fires may drop a result its coroutine was not yet resumed with.
`os.replace` is atomic, and a file survives the process that wrote it (the store calls
no `fsync`, so a loss of power is outside). The filesystem does not change under the
mount walk. A `PUT` or `POST` of the memory cloud is carried out as a whole or not at all.

The proofs use, as assumptions on constants: a minted credential differs from every
value the environment had before (`RunAssumption`); allowlists and the snapshot of an
experiment are finite (`LauncherAssumption`, `ExperimentAssumption`); the registry tables and
hosts are of the kinds `Providers` distinguishes (`WorldOK`); and the model value
`None` is none of the numbers, texts, trials or memories it stands beside.

## 6. Not modelled

Vendor payloads, constant argument lists, the JSON wire format, wording and logging
are data that no property depends on. The query of a brain engine is one call of an
SDK and a translation of its messages, the in-container entry point a loop around it.
The MCP and REST memory clients are I/O; tiers and quarantine are modelled on the
local and sqlite clients, which implement them. Of the evaluation harness the
statistics, the verdict on a finished run, the offline fixtures and the codex actor are
computations over recorded data. `HitlGate.review` and the transports' `ask` (one
future per button message) are left out: `_resolve_pending` is the approval path the
cockpit uses. `setup` prints guidance; the parsing of compose and Dockerfile text in
`doctor` is reduced to its three outcomes.

## 7. Plan

The model covers what the repository's core decides, and the safety properties of all
its parts are proved, as are the measures of its liveness properties. What is left:

1. That a step nearing its end stays enabled until it is taken, as invariants that write
   out the guards, for each row of the table in section 4.
2. `LeaseBroker`: which of the tokens a lost ledger leaves behind are lost mints and which
   the leases of the process that died, as an explanation like `LiveIsExplained`;
   `HeldIsTracked` says that no client that lives has one.

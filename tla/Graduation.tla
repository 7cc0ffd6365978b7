------------------------------ MODULE Graduation ------------------------------
(***************************************************************************)
(* Capability graduation of one category: GraduationEngine                 *)
(* (membrane/graduation.py), FailureLearner (patterns/failure_learning.py) *)
(* and WriteGraduationGate.propose_promotion (cockpit/memory_write.py),    *)
(* whose proposals are the requests of ApprovalLoop.                       *)
(*                                                                         *)
(* Time is kept relative, as in ApprovalLoop: `banned` is what remains of  *)
(* the demotion window and `since` what has passed since the last mark.    *)
(* The counters stop where the policy no longer tells values apart.        *)
(***************************************************************************)
EXTENDS ApprovalLoop, FiniteSets

CONSTANTS MinSuccesses, MinTasks, Cooldown,   \* GraduationPolicy
          Task,                               \* task ids
          Quarantined                         \* the memory ids each proposal would promote

ASSUME GraduationAssumption ==
  /\ MinSuccesses \in Nat /\ MinTasks \in Nat
  /\ Cooldown \in Nat \ {0}
  /\ None \notin Nat

VARIABLES
  successes, tasks,   \* _Stats.successes and distinct_tasks
  banned,             \* time until demoted_until
  since,              \* time since last_proposed_at, or None
  learning,           \* what FailureLearner.failed awaits
  promoted,           \* memories raised to the trusted tier
  clean,              \* history: verified successes since the last failure, and their tasks
  calm                \* history: time since the last failure, or None

stats    == <<successes, tasks, banned, since>>
gradVars == <<stats, learning, promoted, clean, calm>>
allVars  == <<vars, gradVars>>

NoSuccess == [n |-> 0, by |-> {}]

GradTypeOK ==
  /\ TypeOK
  /\ successes \in 0..MinSuccesses /\ tasks \subseteq Task
  /\ banned \in 0..Cooldown
  /\ since \in (0..Cooldown) \cup {None}
  /\ learning \in {"idle", "remember", "edge"}
  /\ promoted \subseteq Quarantined
  /\ clean \in [n : 0..MinSuccesses, by : SUBSET Task]
  /\ calm \in (0..Cooldown) \cup {None}

GradInit ==
  /\ Init
  /\ successes = 0 /\ tasks = {} /\ banned = 0 /\ since = None
  /\ learning = "idle" /\ promoted = {}
  /\ clean = NoSuccess /\ calm = None

Lower(a, b) == IF a < b THEN a ELSE b

-----------------------------------------------------------------------------
(* GraduationEngine and FailureLearner *)

\* record_success: a self-reported success never counts; one recorded within the
\* demotion window does.
Succeeded(t, verified) ==
  /\ IF verified
     THEN /\ successes' = Lower(successes + 1, MinSuccesses)
          /\ tasks' = tasks \cup {t}
          /\ clean' = [n |-> Lower(clean.n + 1, MinSuccesses), by |-> clean.by \cup {t}]
     ELSE UNCHANGED <<successes, tasks, clean>>
  /\ UNCHANGED <<vars, banned, since, learning, promoted, calm>>

\* FailureLearner.failed awaits two memory writes before it demotes; either may
\* raise, and then the failure is not recorded.
FailureSeen ==
  /\ learning = "idle"
  /\ learning' = "remember"
  /\ UNCHANGED <<vars, stats, promoted, clean, calm>>

FailureRaises ==
  /\ learning # "idle"
  /\ learning' = "idle"
  /\ UNCHANGED <<vars, stats, promoted, clean, calm>>

FailureRemembered ==
  /\ learning = "remember"
  /\ learning' = "edge"
  /\ UNCHANGED <<vars, stats, promoted, clean, calm>>

\* Mutant: the window is doubled.
RecordFailureTwice ==
  /\ learning = "edge"
  /\ learning' = "idle"
  /\ successes' = 0 /\ tasks' = {} /\ banned' = banned + Cooldown
  /\ clean' = NoSuccess /\ calm' = 0
  /\ UNCHANGED <<vars, since, promoted>>

\* Mutant: the reset keeps the distinct tasks.
RecordFailureKeepsTasks ==
  /\ learning = "edge"
  /\ learning' = "idle"
  /\ successes' = 0 /\ banned' = Cooldown
  /\ clean' = NoSuccess /\ calm' = 0
  /\ UNCHANGED <<vars, tasks, since, promoted>>

\* record_failure: progress is wiped and the category demoted for the window.
RecordFailure ==
  /\ learning = "edge"
  /\ learning' = "idle"
  /\ successes' = 0 /\ tasks' = {} /\ banned' = Cooldown
  /\ clean' = NoSuccess /\ calm' = 0
  /\ UNCHANGED <<vars, since, promoted>>

\* should_propose
ShouldPropose(trust) ==
  /\ trust = "trusted"
  /\ banned = 0
  /\ successes >= MinSuccesses
  /\ Cardinality(tasks) >= MinTasks
  /\ since = None \/ since = Cooldown

-----------------------------------------------------------------------------
(* propose_promotion *)

\* A category that is not eligible surfaces nothing; its caller may ask again.
Propose(r, trust) == ShouldPropose(trust) /\ Register(r) /\ UNCHANGED gradVars

\* A decision is seen, whichever it is: mark_proposed.
Decided(r) ==
  /\ Resume(r)
  /\ since' = 0
  /\ UNCHANGED <<successes, tasks, banned, learning, promoted, clean, calm>>

\* Mutant: a proposal that timed out starts the cooldown too.
GiveUpMarks(r) ==
  /\ Withdraw(r)
  /\ since' = 0
  /\ UNCHANGED <<successes, tasks, banned, learning, promoted, clean, calm>>

\* TimeoutError: the request is withdrawn and mark_proposed skipped.
GiveUp(r) == Withdraw(r) /\ UNCHANGED gradVars

\* Mutant: promotes on any decision.
PromoteAlways(r) ==
  /\ prod[r] \in {"granting", "refused"} /\ fut[r] \in {"approved", "denied"}
  /\ prod' = [prod EXCEPT ![r] = "granted"]
  /\ \E S \in SUBSET Quarantined : promoted' = promoted \cup S
  /\ UNCHANGED <<pend, fut, age, left, popped, serve, audit, decider, stats, learning,
                 clean, calm>>

\* Approved: each memory is promoted on its own, and one that fails stays back.
Promote(r) ==
  /\ Grant(r, TRUE)
  /\ \E S \in SUBSET Quarantined : promoted' = promoted \cup S
  /\ UNCHANGED <<stats, learning, clean, calm>>

Passed(n) == IF n = None THEN None ELSE Lower(n + 1, Cooldown)

Elapse ==
  /\ Tick
  /\ banned' = IF banned = 0 THEN 0 ELSE banned - 1
  /\ since' = Passed(since)
  /\ calm' = Passed(calm)
  /\ UNCHANGED <<successes, tasks, learning, promoted, clean>>

GradNext ==
  \/ \E t \in Task, b \in BOOLEAN : Succeeded(t, b)
  \/ FailureSeen \/ FailureRaises \/ FailureRemembered \/ RecordFailure
  \/ \E r \in Request, trust \in {"trusted", "quarantine"} : Propose(r, trust)
  \/ \E r \in Request : Decided(r) \/ GiveUp(r) \/ Promote(r)
  \/ /\ \/ \E r \in Request :
             SendOk(r) \/ SendFails(r) \/ TimerFires(r) \/ Cancelled(r)
               \/ \E b \in BOOLEAN : WithdrawRecorded(r, b)
        \/ \E t \in Thread, s \in Sender, b \in BOOLEAN : Command(t, s, b)
        \/ HandlerStep
     /\ UNCHANGED gradVars
  \/ Elapse

GradSpec == GradInit /\ [][GradNext]_allVars

-----------------------------------------------------------------------------

\* Fail-closed demotion: after a failure is recorded no proposal reaches the
\* operator before the whole window has passed, and never before enough verified
\* successes, of enough distinct tasks, were recorded since that failure.
ProposalIsEarned ==
  [][\A r \in Request : prod[r] = "new" /\ prod'[r] = "sending" =>
       /\ calm \in {None, Cooldown}
       /\ clean.n >= MinSuccesses /\ Cardinality(clean.by) >= MinTasks
    ]_allVars

\* A memory leaves quarantine only by a proposal the operator approved, with the
\* approval on the trail; the category may have failed in the meantime.
PromotionIsApproved ==
  promoted # {} =>
    \E r \in Request : prod[r] = "granted" /\ <<r, "approved">> \in audit /\
                       decider[r] # None /\ Authorized(decider[r])

\* Who decided request r: the operator, or, in his place, its expiry or another producer
\* of the thread that took it off the registry.
AnsweredBy(r) == \/ decider[r] # None
                 \/ age[r] > TTL
                 \/ \E q \in Request \ {r} : popped[q] = r

\* The cooldown starts only in the step in which a surfaced proposal's producer is handed
\* a decision, the operator's unless the registry denied it in his place.  A proposal
\* that timed out, was cancelled or could not be sent leaves the category proposable.
CooldownNeedsAnswer ==
  [][since # 0 /\ since' = 0 =>
       \E r \in Request : /\ prod[r] = "waiting" /\ prod'[r] \in {"granting", "refused"}
                          /\ AnsweredBy(r)
    ]_allVars
=============================================================================

--------------------------- MODULE GraduationProofs ---------------------------
(***************************************************************************)
(* For any policy, any set of tasks and any number of proposals: the       *)
(* graduation gate only takes steps of ApprovalLoop, so what ApprovalProofs *)
(* shows of the loop holds of proposals; a proposal is earned, a promotion *)
(* was approved, and the cooldown starts only with a delivered decision.   *)
(***************************************************************************)
EXTENDS Graduation, ApprovalProofs

\* The engine's own variables, without the loop's.
GateTypeOK ==
  /\ successes \in 0..MinSuccesses /\ tasks \subseteq Task
  /\ banned \in 0..Cooldown
  /\ since \in (0..Cooldown) \cup {None}
  /\ learning \in {"idle", "remember", "edge"}
  /\ promoted \subseteq Quarantined
  /\ clean \in [n : 0..MinSuccesses, by : SUBSET Task]
  /\ calm \in (0..Cooldown) \cup {None}

\* The counters hold what the history says of the time since the last failure,
\* and what has passed of the demotion window and what remains of it add up.
RecordInv ==
  /\ clean.n = successes /\ clean.by = tasks
  /\ calm = None => banned = 0
  /\ calm # None => calm + banned = Cooldown

\* A producer that has not seen its answer was denied, if at all, by the operator, by
\* its expiry, or by another producer's withdraw or rollback.
DenialInv ==
  \A r \in Request :
    fut[r] = "denied" /\ prod[r] \in {"sending", "waiting"} => AnsweredBy(r)

\* A producer takes something off the registry only as it ends.
TakesInv ==
  \A r \in Request :
    prod[r] \in {"new", "sending", "waiting", "timedOut"} => popped[r] = None

PromotedInv == promoted # {} => \E r \in Request : prod[r] = "granted"

GradInv ==
  IInv /\ GateTypeOK /\ RecordInv /\ TakesInv /\ DenialInv /\ PromotedInv

-----------------------------------------------------------------------------
(* The gate is a producer of ApprovalLoop. *)

\* Every step of the gate is a step of the loop, or leaves it alone.
LEMMA StepImplements == ASSUME GradNext PROVE [Next]_vars
<1>1. ASSUME NEW t \in Task, NEW b \in BOOLEAN, Succeeded(t, b) PROVE UNCHANGED vars
  BY <1>1 DEF Succeeded, vars
<1>2. CASE FailureSeen \/ FailureRaises \/ FailureRemembered \/ RecordFailure
  BY <1>2 DEF FailureSeen, FailureRaises, FailureRemembered, RecordFailure, vars
<1>3. ASSUME NEW r \in Request, NEW trust \in {"trusted", "quarantine"}, Propose(r, trust)
      PROVE  Next
  BY <1>3 DEF Propose, Next, ProducerStep
<1>4. ASSUME NEW r \in Request, Decided(r) \/ GiveUp(r) \/ Promote(r) PROVE Next
  BY <1>4 DEF Decided, GiveUp, Promote, Next, ProducerStep
<1>5. ASSUME NEW r \in Request, SendOk(r) \/ SendFails(r) \/ TimerFires(r) \/
                                \E b \in BOOLEAN : WithdrawRecorded(r, b)
      PROVE  Next
  BY <1>5 DEF Next, ProducerStep
<1>9. ASSUME NEW r \in Request, Cancelled(r) PROVE Next
  BY <1>9 DEF Next
<1>6. ASSUME NEW t \in Thread, NEW s \in Sender, NEW b \in BOOLEAN, Command(t, s, b)
      PROVE  Next
  BY <1>6 DEF Next
<1>7. CASE HandlerStep
  BY <1>7 DEF Next
<1>8. CASE Elapse
  BY <1>8 DEF Elapse, Next
<1> QED BY <1>1, <1>2, <1>3, <1>4, <1>5, <1>6, <1>7, <1>8, <1>9 DEF GradNext

-----------------------------------------------------------------------------
(* What a step of the loop does to answers. *)

\* Only its own producer takes a request out of "granted", and none does.
LEMMA GrantedStays ==
  ASSUME IInv, [Next]_vars, NEW r \in Request, prod[r] = "granted" PROVE prod'[r] = "granted"
<1>1. CASE Next
  BY <1>1, ProducerMoves, OthersLeaveProducer DEF Cancelled
<1>2. CASE UNCHANGED vars
  BY <1>2 DEF vars
<1> QED BY <1>1, <1>2

\* A purge denies the expired entry of its thread and touches no other future.
LEMMA PurgeDenies ==
  ASSUME TypeOK, NEW t \in Thread, NEW r \in Request, Purged(t)[r] # fut[r]
  PROVE  r = pend[t] /\ age[r] > TTL /\ Live(t) = None
BY PurgeEffect DEF Purged, Expired, Live

\* resolve(approved=False) denies an expired entry or the one it hands back.
LEMMA ResolveDenies ==
  ASSUME TypeOK, NEW t \in Thread, ResolveDenied(t), NEW r \in Request, fut'[r] # fut[r]
  PROVE  age[r] > TTL \/ r = Live(t)
<1>1. CASE Live(t) = None
  BY <1>1, PurgeDenies DEF ResolveDenied
<1>2. CASE Live(t) # None
  <2>1. Live(t) \in Request /\ Purged(t) \in Futures
    BY <1>2, PurgeEffect DEF TypeOK
  <2>2. r # Live(t) => fut'[r] = Purged(t)[r]
    <3>1. fut' = SetResult(Purged(t), Live(t), FALSE)
      BY <1>2 DEF ResolveDenied
    <3>2. \A q \in Request \ {Live(t)} :
            SetResult(Purged(t), Live(t), FALSE)[q] = Purged(t)[q]
      BY <2>1, SetResultEffect
    <3> QED BY <3>1, <3>2
  <2> QED BY <2>2, PurgeDenies
<1> QED BY <1>1, <1>2

LEMMA TakesKept == ASSUME IInv, TakesInv, [Next]_vars PROVE TakesInv'
<1>0. TypeOK
  BY DEF IInv
<1>1. ASSUME NEW q \in Request, ProducerStep(q) \/ Cancelled(q) PROVE TakesInv'
  BY <1>0, <1>1 DEF TakesInv, TypeOK, ProducerStep, Register, SendOk, SendFails, Resume,
     TimerFires, Withdraw, WithdrawRecorded, Grant, Cancelled
<1>2. CASE Tick \/ HandlerStep \/ \E t \in Thread, s \in Sender, b \in BOOLEAN : Command(t, s, b)
  BY <1>2 DEF Tick, HandlerStep, AuditWritten, Replied, AuditRaises, Command, TakesInv
<1>3. CASE UNCHANGED vars
  BY <1>3 DEF vars, TakesInv
<1> QED BY <1>1, <1>2, <1>3 DEF Next

\* Who answered a request under way does not change; its entry's age only grows.
LEMMA AnswerStays ==
  ASSUME IInv, TakesInv, [Next]_vars, NEW r \in Request, AnsweredBy(r), prod[r] # "new"
  PROVE  AnsweredBy(r)'
<1>0. TypeOK /\ TTL \in Nat
  BY ApprovalAssumption DEF IInv
<1>1. decider[r] # None => decider'[r] # None
  BY ClaimsStand DEF vars
<1>2. ASSUME NEW q \in Request, popped[q] = r PROVE popped'[q] = r
  <2>1. popped[q] # None
    BY <1>2, ApprovalAssumption
  <2>2. prod[q] \notin {"new", "sending", "waiting", "timedOut"}
    BY <2>1 DEF TakesInv
  <2>3. ASSUME NEW p \in Request, SendFails(p) \/ Withdraw(p) PROVE popped'[q] = popped[q]
    BY <1>0, <2>2, <2>3 DEF SendFails, Withdraw, TypeOK
  <2> QED BY <1>2, <2>3 DEF Next, ProducerStep, Register, SendOk, Resume, TimerFires,
       WithdrawRecorded, Grant, Cancelled, Tick, HandlerStep, AuditWritten, Replied,
       AuditRaises, Command, vars
<1>3. age[r] > TTL => age'[r] > TTL
  <2>1. ASSUME NEW q \in Request, Register(q) PROVE age'[r] = age[r]
    BY <1>0, <2>1 DEF Register, TypeOK
  <2>2. CASE Tick
    BY <1>0, <2>2 DEF Tick, TypeOK
  <2> QED BY <2>1, <2>2 DEF Next, ProducerStep, SendOk, SendFails, Resume, TimerFires,
       Withdraw, WithdrawRecorded, Grant, Cancelled, HandlerStep, AuditWritten, Replied,
       AuditRaises, Command, vars
<1> QED BY <1>1, <1>2, <1>3 DEF AnsweredBy

\* Whatever denies a request whose producer still waits leaves its mark.
LEMMA DenialAnswers ==
  ASSUME IInv, TakesInv, Next, NEW r \in Request, fut[r] # "denied", fut'[r] = "denied",
         prod'[r] \in {"sending", "waiting"}
  PROVE  AnsweredBy(r)'
<1>0. TypeOK /\ PendInv /\ ServeInv
  BY DEF IInv
<1> USE ApprovalAssumption, OperatorAssumption
<1>1. ASSUME NEW q \in Request, Register(q) PROVE AnsweredBy(r)'
  <2>1. CASE Live(ThreadOf[q]) # None
    BY <1>1, <2>1 DEF Register
  <2>2. CASE Live(ThreadOf[q]) = None
    <3>1. /\ fut' = [Purged(ThreadOf[q]) EXCEPT ![q] = "pending"]
          /\ age' = [age EXCEPT ![q] = 0]
          /\ prod[q] = "new"
      BY <1>1, <2>2 DEF Register
    <3>2. ThreadOf[q] \in Thread /\ Purged(ThreadOf[q]) \in Futures
      BY <1>0, PurgeEffect
    <3>3. q # r /\ Purged(ThreadOf[q])[r] # fut[r]
      BY <3>1, <3>2 DEF Futures
    <3>4. age[r] > TTL
      BY <1>0, <3>2, <3>3, PurgeDenies
    <3> QED BY <1>0, <3>1, <3>3, <3>4 DEF AnsweredBy, TypeOK
  <2> QED BY <2>1, <2>2
<1>2. ASSUME NEW q \in Request, SendFails(q) \/ Withdraw(q) PROVE AnsweredBy(r)'
  <2>1. /\ ResolveDenied(ThreadOf[q]) /\ ThreadOf[q] \in Thread
        /\ popped' = [popped EXCEPT ![q] = Live(ThreadOf[q])]
        /\ UNCHANGED age
        /\ q # r
    BY <1>0, <1>2 DEF SendFails, Withdraw, TypeOK
  <2>2. age[r] > TTL \/ r = Live(ThreadOf[q])
    BY <1>0, <2>1, ResolveDenies
  <2> QED BY <1>0, <2>1, <2>2 DEF AnsweredBy, TypeOK
<1>3. ASSUME NEW t \in Thread, NEW s \in Sender, NEW b \in BOOLEAN, Command(t, s, b)
      PROVE  AnsweredBy(r)'
  <2>1. Purged(t)[r] # fut[r] /\ UNCHANGED age
    BY <1>3 DEF Command
  <2> QED BY <1>0, <2>1, PurgeDenies DEF AnsweredBy
<1>4. CASE HandlerStep
  <2>1. AuditWritten /\ UNCHANGED decider
    BY <1>4 DEF HandlerStep, Replied, AuditRaises, AuditWritten
  <2>2. r = serve.req
    BY <1>0, <2>1 DEF AuditWritten, SetResult, TypeOK
  <2> QED BY <1>0, <2>1, <2>2 DEF AuditWritten, ServeInv, AnsweredBy
<1>5. ASSUME NEW q \in Request, SendOk(q) \/ Resume(q) \/ TimerFires(q) \/ Cancelled(q) \/
                                (\E b \in BOOLEAN : WithdrawRecorded(q, b) \/ Grant(q, b))
      PROVE  FALSE
  BY <1>0, <1>5 DEF SendOk, Resume, TimerFires, Cancelled, WithdrawRecorded, Grant, TypeOK
<1>6. CASE Tick
  BY <1>6 DEF Tick
<1> QED BY <1>1, <1>2, <1>3, <1>4, <1>5, <1>6 DEF Next, ProducerStep

LEMMA DenialKept == ASSUME IInv, TakesInv, DenialInv, [Next]_vars PROVE DenialInv'
<1> SUFFICES ASSUME NEW r \in Request, fut'[r] = "denied", prod'[r] \in {"sending", "waiting"}
             PROVE  AnsweredBy(r)'
  BY DEF DenialInv
<1>1. CASE UNCHANGED vars
  BY <1>1 DEF vars, DenialInv, AnsweredBy
<1>2. CASE Next /\ fut[r] # "denied"
  BY <1>2, DenialAnswers
<1>3. CASE Next /\ fut[r] = "denied"
  <2>1. prod[r] \in {"sending", "waiting"}
    <3>1. ASSUME prod[r] = "new" PROVE FALSE
      <4>1. ProducerStep(r)
        BY <1>3, <3>1, OthersLeaveProducer DEF Cancelled
      <4>2. fut'[r] = "pending"
        BY <1>3, <3>1, <4>1, PurgeEffect, ApprovalAssumption
           DEF ProducerStep, Register, SendOk, SendFails, Resume, TimerFires, Withdraw,
               WithdrawRecorded, Grant, Futures, IInv, TypeOK
      <4> QED BY <4>2
    <3>2. prod[r] \in {"new", "sending", "waiting", "timedOut", "withdrawing", "granting",
                       "granted", "refused", "raised", "cancelled"}
      BY DEF IInv, TypeOK
    <3>3. ~Cancelled(r)
      BY DEF Cancelled, IInv, TypeOK
    <3> QED BY <1>3, <3>1, <3>2, <3>3, ProducerMoves, OthersLeaveProducer
  <2>2. AnsweredBy(r) /\ prod[r] # "new"
    BY <1>3, <2>1 DEF DenialInv
  <2> QED BY <1>3, <2>2, AnswerStays
<1> QED BY <1>1, <1>2, <1>3

-----------------------------------------------------------------------------
(* The invariant is inductive. *)

LEMMA GradInitInv == GradInit => GradInv
BY InvInit, GraduationAssumption
   DEF GradInit, GradInv, GateTypeOK, RecordInv, TakesInv, DenialInv, PromotedInv, NoSuccess,
       Init

LEMMA RecordKept == ASSUME GateTypeOK, RecordInv, GradNext \/ UNCHANGED allVars
                    PROVE  GateTypeOK' /\ RecordInv'
<1> USE GraduationAssumption DEF GateTypeOK, RecordInv
<1>1. ASSUME NEW t \in Task, NEW b \in BOOLEAN, Succeeded(t, b)
      PROVE  GateTypeOK' /\ RecordInv'
  BY <1>1 DEF Succeeded, Lower
<1>2. CASE FailureSeen \/ FailureRaises \/ FailureRemembered
  BY <1>2 DEF FailureSeen, FailureRaises, FailureRemembered, stats
<1>3. CASE RecordFailure
  BY <1>3 DEF RecordFailure, NoSuccess
<1>4. CASE UNCHANGED gradVars
  BY <1>4 DEF gradVars, stats
<1>5. ASSUME NEW r \in Request, Decided(r) \/ Promote(r)
      PROVE  GateTypeOK' /\ RecordInv'
  <2>1. CASE Decided(r)
    BY <2>1 DEF Decided
  <2>2. CASE Promote(r)
    <3>1. promoted' \subseteq Quarantined
      BY <2>2 DEF Promote
    <3> QED BY <2>2, <3>1 DEF Promote, stats
  <2> QED BY <1>5, <2>1, <2>2
<1>6. CASE Elapse
  BY <1>6 DEF Elapse, Passed, Lower
<1> HIDE DEF GateTypeOK, RecordInv
<1> QED BY <1>1, <1>2, <1>3, <1>4, <1>5, <1>6 DEF GradNext, Propose, GiveUp, allVars

LEMMA PromotedKept ==
  ASSUME IInv, PromotedInv, GradNext \/ UNCHANGED allVars PROVE PromotedInv'
<1>1. [Next]_vars
  BY StepImplements DEF allVars
<1>2. \A r \in Request : prod[r] = "granted" => prod'[r] = "granted"
  BY <1>1, GrantedStays
<1>3. ASSUME NEW r \in Request, Promote(r) PROVE prod'[r] = "granted"
  BY <1>3 DEF Promote, Grant, IInv, TypeOK
<1>4. (\E r \in Request : Promote(r)) \/ promoted' = promoted
  BY DEF GradNext, Succeeded, FailureSeen, FailureRaises, FailureRemembered, RecordFailure,
         Propose, GiveUp, Decided, Elapse, gradVars, allVars
<1> QED BY <1>2, <1>3, <1>4 DEF PromotedInv

LEMMA GradInvariance == GradSpec => []GradInv
<1>1. GradInv /\ [GradNext]_allVars => GradInv'
  <2> SUFFICES ASSUME GradInv, GradNext \/ UNCHANGED allVars PROVE GradInv'
    OBVIOUS
  <2>1. IInv /\ [Next]_vars
    BY StepImplements DEF GradInv, allVars
  <2>2. IInv'
    BY <2>1, InvNext DEF GradInv
  <2> QED BY <2>1, <2>2, RecordKept, TakesKept, DenialKept, PromotedKept DEF GradInv
<1> QED BY <1>1, GradInitInv, PTL DEF GradSpec

\* The engine's counters, windows and sets stay what their types say, next to a
\* well-typed registry.
THEOREM GradTypeCorrect == GradSpec => []GradTypeOK
<1>1. GradInv => GradTypeOK
  BY DEF GradInv, IInv, GateTypeOK, GradTypeOK
<1> QED BY <1>1, GradInvariance, PTL

\* Whatever number of proposals and whatever the operator, the timeouts and the
\* failures do in between, nothing leaves quarantine without an audited approval
\* of somebody the gate of click_authorized let through.
THEOREM PromotionIsApprovedHolds == GradSpec => []PromotionIsApproved
<1>1. GradInv => PromotionIsApproved
  BY DEF GradInv, IInv, PromotedInv, AuditInv, DeciderInv, PromotionIsApproved
<1> QED BY <1>1, GradInvariance, PTL

\* mark_proposed runs only where wait_for has returned a decision of a surfaced
\* proposal: the operator's, or the denial an expiry or another producer of the thread
\* put in its place.  A proposal that timed out, was cancelled, could not be sent or met
\* another pending one starts no cooldown.
THEOREM CooldownNeedsAnswerHolds == GradSpec => CooldownNeedsAnswer
<1>1. ASSUME GradInv, GradNext, since # 0, since' = 0
      PROVE  \E r \in Request : /\ prod[r] = "waiting" /\ prod'[r] \in {"granting", "refused"}
                                /\ AnsweredBy(r)
  <2>1. PICK r \in Request : Decided(r)
    <3>1. ASSUME Elapse PROVE FALSE
      BY <1>1, <3>1, GraduationAssumption DEF Elapse, Passed, Lower, GradInv, GateTypeOK
    <3> QED BY <1>1, <3>1 DEF GradNext, Succeeded, FailureSeen, FailureRaises,
         FailureRemembered, RecordFailure, Propose, GiveUp, Promote, gradVars, stats
  <2>2. /\ prod[r] = "waiting" /\ fut[r] \in {"approved", "denied"}
        /\ prod'[r] \in {"granting", "refused"}
    BY <1>1, <2>1 DEF Decided, Resume, GradInv, IInv, TypeOK
  <2>3. fut[r] = "approved" => AnsweredBy(r)
    BY <1>1 DEF GradInv, IInv, AuditInv, AnsweredBy
  <2>4. fut[r] = "denied" => AnsweredBy(r)
    BY <1>1, <2>2 DEF GradInv, DenialInv
  <2> QED BY <2>2, <2>3, <2>4
<1>2. GradInv /\ [GradNext]_allVars =>
        [since # 0 /\ since' = 0 =>
           \E r \in Request : /\ prod[r] = "waiting" /\ prod'[r] \in {"granting", "refused"}
                              /\ AnsweredBy(r)]_allVars
  BY <1>1
<1> QED BY <1>2, GradInvariance, PTL DEF GradSpec, CooldownNeedsAnswer

\* Fail-closed demotion for any window and any thresholds: should_propose lets no
\* proposal through before the window of the last failure has passed and the
\* category has earned it again.
THEOREM ProposalIsEarnedHolds == GradSpec => ProposalIsEarned
<1>1. ASSUME GradInv, [GradNext]_allVars, NEW r \in Request, prod[r] = "new", prod'[r] = "sending"
      PROVE  /\ calm \in {None, Cooldown}
             /\ clean.n >= MinSuccesses /\ Cardinality(clean.by) >= MinTasks
  <2>1. TypeOK
    BY <1>1 DEF GradInv, IInv
  <2>2. \E q \in Request, trust \in {"trusted", "quarantine"} : Propose(q, trust)
    <3>1. ASSUME NEW q \in Request,
                 Decided(q) \/ GiveUp(q) \/ Promote(q) \/ SendOk(q) \/ SendFails(q) \/
                 TimerFires(q) \/ Cancelled(q) \/ \E b \in BOOLEAN : WithdrawRecorded(q, b)
          PROVE  FALSE
      BY <1>1, <2>1, <3>1 DEF Decided, Resume, GiveUp, Withdraw, Promote, Grant, SendOk,
           SendFails, TimerFires, Cancelled, WithdrawRecorded, TypeOK
    <3>2. prod' # prod
      BY <1>1
    <3> QED BY <1>1, <3>1, <3>2 DEF GradNext, Succeeded, FailureSeen, FailureRaises,
              FailureRemembered, RecordFailure, Command, HandlerStep, AuditWritten, Replied,
              AuditRaises, Elapse, Tick, allVars, vars
  <2>3. banned = 0 /\ successes >= MinSuccesses /\ Cardinality(tasks) >= MinTasks
    BY <2>2 DEF Propose, ShouldPropose
  <2> QED BY <1>1, <2>3, GraduationAssumption DEF GradInv, GateTypeOK, RecordInv
<1>2. GradInv /\ [GradNext]_allVars =>
        [\A r \in Request : prod[r] = "new" /\ prod'[r] = "sending" =>
           /\ calm \in {None, Cooldown}
           /\ clean.n >= MinSuccesses /\ Cardinality(clean.by) >= MinTasks]_allVars
  BY <1>1
<1> QED BY <1>2, GradInvariance, PTL DEF GradSpec, ProposalIsEarned
=============================================================================

------------------------------ MODULE ApprovalLoop ------------------------------
(***************************************************************************)
(* Human-in-the-loop approvals: PendingApprovalRegistry                    *)
(* (cockpit/approval.py), the cockpit's request_capability,                *)
(* withdraw_pending and _resolve_pending (cockpit/core.py), and the        *)
(* producers that wait for a decision: MemoryWriteApprover.request and     *)
(* WriteGraduationGate.propose_promotion (cockpit/memory_write.py).        *)
(*                                                                         *)
(* Each request r is made once by a coroutine of its own; the serve loop   *)
(* handles one operator command at a time.  A step ends where the code     *)
(* awaits: the transport, the memory, the decision's future or the grant.  *)
(*                                                                         *)
(* Time is kept as ages and remaining waits, so it is unbounded: age[r] is *)
(* clock() - created_at of r's entry, capped just above TTL, and left[r]   *)
(* is what remains of r's asyncio.wait_for.  The cockpit has a memory, as  *)
(* _serve always gives it one: without it no decision is recorded.         *)
(***************************************************************************)
EXTENDS Integers, OperatorGate

CONSTANTS
  Request,          \* capability requests
  Thread,           \* chat threads
  ThreadOf,         \* the thread each request is made on
  TTL,              \* PendingApprovalRegistry.ttl_seconds
  Timeout,          \* the producers' wait_for timeout
  Punctual          \* TRUE: the event loop is never late for a due timer

ASSUME ApprovalAssumption ==
  /\ ThreadOf \in [Request -> Thread]
  /\ None \notin Request
  /\ TTL \in Nat /\ Timeout \in Nat
  /\ Timeout < TTL
  /\ Punctual \in BOOLEAN

VARIABLES
  pend,     \* PendingApprovalRegistry._pending
  fut,      \* the future of each request
  age,      \* time since created_at, capped at TTL + 1
  left,     \* time left of each producer's wait_for
  prod,     \* where each producer stands
  popped,   \* the request each producer's withdraw or rollback took off the registry
  serve,    \* what the serve loop awaits while it handles a command
  audit,    \* the graduation trail: <<request, verdict>> entries
  decider   \* whose command claimed each request (history)

vars == <<pend, fut, age, left, prod, popped, serve, audit, decider>>

Verdict(approved) == IF approved THEN "approved" ELSE "denied"
Idle == [at |-> "listen", req |-> None, approved |-> FALSE]

TypeOK ==
  /\ pend \in [Thread -> Request \cup {None}]
  /\ fut \in [Request -> {"none", "pending", "approved", "denied", "cancelled"}]
  /\ age \in [Request -> 0..(TTL + 1)]
  /\ left \in [Request -> 0..Timeout]
  /\ prod \in [Request -> {"new", "sending", "waiting", "timedOut", "withdrawing",
                           "granting", "granted", "refused", "raised", "cancelled"}]
  /\ popped \in [Request -> Request \cup {None}]
  /\ serve \in [at : {"listen", "audit", "reply"}, req : Request \cup {None},
                approved : BOOLEAN]
  /\ audit \subseteq Request \X {"approved", "denied"}
  /\ decider \in [Request -> Sender \cup {None}]

Init ==
  /\ pend = [t \in Thread |-> None]
  /\ fut = [r \in Request |-> "none"]
  /\ age = [r \in Request |-> 0]
  /\ left = [r \in Request |-> 0]
  /\ prod = [r \in Request |-> "new"]
  /\ popped = [r \in Request |-> None]
  /\ serve = Idle
  /\ audit = {}
  /\ decider = [r \in Request |-> None]

-----------------------------------------------------------------------------
(* PendingApprovalRegistry *)

\* Future.set_result guarded by "if not future.done()".
SetResult(f, r, approved) ==
  IF f[r] = "pending" THEN [f EXCEPT ![r] = Verdict(approved)] ELSE f

Expired(t) == pend[t] # None /\ age[pend[t]] > TTL

\* _purge_if_expired: the entry left on thread t, and the futures, after it.
Live(t) == IF Expired(t) THEN None ELSE pend[t]
Purged(t) == IF Expired(t) THEN SetResult(fut, pend[t], FALSE) ELSE fut

\* resolve(t, approved=False): purge, pop whatever thread t has, deny it.
ResolveDenied(t) ==
  /\ pend' = [pend EXCEPT ![t] = None]
  /\ fut' = IF Live(t) = None THEN Purged(t) ELSE SetResult(Purged(t), Live(t), FALSE)

-----------------------------------------------------------------------------
(* The producer *)

\* request_capability up to its await of transport.send.
Register(r) ==
  LET t == ThreadOf[r] IN
  /\ prod[r] = "new"
  /\ IF Live(t) # None                     \* PendingApprovalExists
     THEN /\ prod' = [prod EXCEPT ![r] = "raised"]
          /\ UNCHANGED <<pend, fut, age>>
     ELSE /\ pend' = [pend EXCEPT ![t] = r]
          /\ fut' = [Purged(t) EXCEPT ![r] = "pending"]
          /\ age' = [age EXCEPT ![r] = 0]
          /\ prod' = [prod EXCEPT ![r] = "sending"]
  /\ UNCHANGED <<left, popped, serve, audit, decider>>

\* The request is surfaced; the producer enters wait_for.
SendOk(r) ==
  /\ prod[r] = "sending"
  /\ prod' = [prod EXCEPT ![r] = "waiting"]
  /\ left' = [left EXCEPT ![r] = Timeout]
  /\ UNCHANGED <<pend, fut, age, popped, serve, audit, decider>>

\* Mutant: the failed send leaves the entry on the registry.
SendFailsNoRollback(r) ==
  /\ prod[r] = "sending"
  /\ prod' = [prod EXCEPT ![r] = "raised"]
  /\ UNCHANGED <<pend, fut, age, left, popped, serve, audit, decider>>

\* The request could not be surfaced, or its producer was cancelled meanwhile: roll
\* back whatever the thread has pending and re-raise.
SendFails(r) ==
  /\ prod[r] = "sending"
  /\ ResolveDenied(ThreadOf[r])
  /\ popped' = [popped EXCEPT ![r] = Live(ThreadOf[r])]
  /\ prod' = [prod EXCEPT ![r] = "raised"]
  /\ UNCHANGED <<age, left, serve, audit, decider>>

\* wait_for returns the decision.
Resume(r) ==
  /\ prod[r] = "waiting"
  /\ fut[r] \in {"approved", "denied"}
  /\ prod' = [prod EXCEPT ![r] = IF fut[r] = "approved" THEN "granting" ELSE "refused"]
  /\ UNCHANGED <<pend, fut, age, left, popped, serve, audit, decider>>

\* Mutant: the future is awaited without a timeout.
TimerFiresNever(r) == FALSE /\ UNCHANGED vars

\* The timer of wait_for fires and cancels the future; TimeoutError reaches the
\* producer one turn of the event loop later.  From CPython 3.12 on this also
\* happens to a future whose result the producer has not yet been resumed with.
TimerFires(r) ==
  /\ prod[r] = "waiting"
  /\ left[r] = 0
  /\ fut' = IF fut[r] = "pending" THEN [fut EXCEPT ![r] = "cancelled"] ELSE fut
  /\ prod' = [prod EXCEPT ![r] = "timedOut"]
  /\ UNCHANGED <<pend, age, left, popped, serve, audit, decider>>

\* withdraw_pending up to its await of record_decision.
Withdraw(r) ==
  LET t == ThreadOf[r] IN
  /\ prod[r] = "timedOut"
  /\ ResolveDenied(t)
  /\ popped' = [popped EXCEPT ![r] = Live(t)]
  /\ prod' = [prod EXCEPT ![r] = IF Live(t) = None THEN "refused" ELSE "withdrawing"]
  /\ UNCHANGED <<age, left, serve, audit, decider>>

\* The timeout denial is recorded, or its write fails and is only logged.
WithdrawRecorded(r, written) ==
  /\ prod[r] = "withdrawing"
  /\ audit' = IF written THEN audit \cup {<<popped[r], "denied">>} ELSE audit
  /\ prod' = [prod EXCEPT ![r] = "refused"]
  /\ UNCHANGED <<pend, fut, age, left, popped, serve, decider>>

\* The task is cancelled while it waits, or before it sees its TimeoutError, or in its
\* withdraw.  The producers catch only TimeoutError and withdraw_pending only
\* Exception: nobody withdraws, and an entry still pending stays on the registry.
Cancelled(r) ==
  /\ \/ /\ prod[r] \in {"waiting", "timedOut"}
        /\ fut' = IF fut[r] = "pending" THEN [fut EXCEPT ![r] = "cancelled"] ELSE fut
        /\ UNCHANGED audit
     \/ /\ prod[r] = "withdrawing"
        /\ audit' \in {audit, audit \cup {<<popped[r], "denied">>}}
        /\ UNCHANGED fut
  /\ prod' = [prod EXCEPT ![r] = "cancelled"]
  /\ UNCHANGED <<pend, age, left, popped, serve, decider>>

\* The approved effect: mint the write lease, or promote the memories.
Grant(r, ok) ==
  /\ prod[r] = "granting"
  /\ prod' = [prod EXCEPT ![r] = IF ok THEN "granted" ELSE "raised"]
  /\ UNCHANGED <<pend, fut, age, left, popped, serve, audit, decider>>

-----------------------------------------------------------------------------
(* The serve loop: _resolve_pending *)

\* Mutant: the handler peeks with pending() instead of claiming the entry.
CommandPeeks(t, sender, approved) ==
  /\ serve = Idle
  /\ fut' = Purged(t)
  /\ pend' = [pend EXCEPT ![t] = Live(t)]
  /\ IF Live(t) # None /\ Authorized(sender)
     THEN /\ serve' = [at |-> "audit", req |-> Live(t), approved |-> approved]
          /\ decider' = [decider EXCEPT ![Live(t)] = sender]
     ELSE UNCHANGED <<serve, decider>>
  /\ UNCHANGED <<age, left, prod, popped, audit>>

\* /approve or /deny up to the await of record_decision.  Every path first purges
\* an expired entry; a missing entry or an unauthorised sender only gets a reply.
Command(t, sender, approved) ==
  /\ serve = Idle
  /\ fut' = Purged(t)
  /\ IF Live(t) # None /\ Authorized(sender)
     THEN /\ pend' = [pend EXCEPT ![t] = None]       \* claim
          /\ serve' = [at |-> "audit", req |-> Live(t), approved |-> approved]
          /\ decider' = [decider EXCEPT ![Live(t)] = sender]
     ELSE /\ pend' = [pend EXCEPT ![t] = Live(t)]
          /\ UNCHANGED <<serve, decider>>
  /\ UNCHANGED <<age, left, prod, popped, audit>>

\* record_decision returns: only now is the future fulfilled.
AuditWritten ==
  /\ serve.at = "audit"
  /\ audit' = audit \cup {<<serve.req, Verdict(serve.approved)>>}
  /\ fut' = SetResult(fut, serve.req, serve.approved)
  /\ serve' = [serve EXCEPT !.at = "reply"]
  /\ UNCHANGED <<pend, age, left, prod, popped, decider>>

\* Mutant: the future is fulfilled although its audit failed.
AuditRaisesGrants(stored) ==
  /\ serve.at = "audit"
  /\ audit' = IF stored THEN audit \cup {<<serve.req, Verdict(serve.approved)>>} ELSE audit
  /\ fut' = SetResult(fut, serve.req, serve.approved)
  /\ serve' = Idle
  /\ UNCHANGED <<pend, age, left, prod, popped, decider>>

\* record_decision raises, before or after the entry was stored: the handler is
\* abandoned and the future left alone.
AuditRaises(stored) ==
  /\ serve.at = "audit"
  /\ audit' = IF stored THEN audit \cup {<<serve.req, Verdict(serve.approved)>>} ELSE audit
  /\ serve' = Idle
  /\ UNCHANGED <<pend, fut, age, left, prod, popped, decider>>

\* The reply is sent, or its error is logged; the loop takes the next event.
Replied ==
  /\ serve.at = "reply"
  /\ serve' = Idle
  /\ UNCHANGED <<pend, fut, age, left, prod, popped, audit, decider>>

-----------------------------------------------------------------------------
\* One unit of time passes for every entry and every wait.
Tick ==
  /\ Punctual => \A r \in Request : /\ prod[r] # "timedOut"
                                    /\ prod[r] = "waiting" => left[r] > 0
  /\ age' = [r \in Request |-> IF r = pend[ThreadOf[r]] /\ age[r] <= TTL
                               THEN age[r] + 1 ELSE age[r]]
  /\ left' = [r \in Request |-> IF prod[r] = "waiting" /\ left[r] > 0
                                THEN left[r] - 1 ELSE left[r]]
  /\ UNCHANGED <<pend, fut, prod, popped, serve, audit, decider>>

ProducerStep(r) ==
  \/ Register(r)
  \/ SendOk(r)
  \/ SendFails(r)
  \/ Resume(r)
  \/ TimerFires(r)
  \/ Withdraw(r)
  \/ \E b \in BOOLEAN : WithdrawRecorded(r, b) \/ Grant(r, b)

HandlerStep == AuditWritten \/ Replied \/ \E b \in BOOLEAN : AuditRaises(b)

Next ==
  \/ \E r \in Request : ProducerStep(r) \/ Cancelled(r)
  \/ \E t \in Thread, s \in Sender, b \in BOOLEAN : Command(t, s, b)
  \/ HandlerStep
  \/ Tick

Spec == Init /\ [][Next]_vars

\* Awaits of the transport, the memory and the grant end, timers run, and the event
\* loop resumes whoever is ready.  No operator command, and no cancellation, need ever
\* arrive.
Fairness ==
  /\ \A r \in Request :
       WF_vars(ProducerStep(r) /\ prod[r] # "new")
  /\ WF_vars(HandlerStep)
  /\ WF_vars(Tick)

FairSpec == Spec /\ Fairness

-----------------------------------------------------------------------------
(* Safety *)

\* A capability is granted only after the operator decided on that very request
\* and after the approval reached the audit trail: a timeout, an expiry, a failed
\* audit or somebody else's command never grants.
GrantIsAudited ==
  \A r \in Request : prod[r] \in {"granting", "granted"} =>
    <<r, "approved">> \in audit /\ Authorized(decider[r]) /\ decider[r] # None

\* The trail never holds both verdicts for one request: whoever takes the entry off
\* the registry, the operator or the producer's timeout, is alone.
OneVerdict ==
  \A r \in Request : ~(<<r, "approved">> \in audit /\ <<r, "denied">> \in audit)

\* A pending entry whose producer is gone was left by a cancelled wait and by nothing
\* else: a timeout, a failed send, a refusal or a grant never strands one.  Such an
\* entry is spent, its future cancelled, so no command can still answer it.
NoOrphanPending ==
  \A t \in Thread : pend[t] # None =>
    /\ ThreadOf[pend[t]] = t
    /\ \/ prod[pend[t]] \in {"sending", "waiting", "timedOut"}
       \/ prod[pend[t]] = "cancelled" /\ fut[pend[t]] = "cancelled"

\* withdraw_pending tears down the request its producer gave up on, and no other.
WithdrawsOwnRequest ==
  \A r \in Request : prod[r] \in {"withdrawing", "refused"} => popped[r] \in {r, None}

-----------------------------------------------------------------------------
(* Liveness *)

\* Every request is answered: granted, refused, raised to its caller or abandoned with
\* its task, even if the operator never speaks or the audit of the decision fails.
EveryRequestSettles ==
  \A r \in Request :
    prod[r] # "new" ~> prod[r] \in {"granted", "refused", "raised", "cancelled"}

=============================================================================

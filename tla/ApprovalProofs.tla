----------------------------- MODULE ApprovalProofs -----------------------------
(***************************************************************************)
(* For any set of requests, threads and senders, and any TTL and timeout:  *)
(* ApprovalLoop is well typed, grants only what the operator approved on   *)
(* the audit trail, records one verdict per request and strands no pending *)
(* entry unless its producer is cancelled; what was decided stands, and    *)
(* every step of a request brings its verdict nearer.                      *)
(***************************************************************************)
EXTENDS ApprovalLoop, TLAPS

Audited(r) == <<r, "approved">> \in audit \/ <<r, "denied">> \in audit

\* A pending entry is undecided and unrecorded, and its producer is still there or was
\* cancelled together with its future.
PendInv ==
  \A t \in Thread : pend[t] # None =>
    /\ ThreadOf[pend[t]] = t
    /\ prod[pend[t]] \in {"sending", "waiting", "timedOut", "cancelled"}
    /\ fut[pend[t]] \in {"pending", "cancelled"}
    /\ prod[pend[t]] = "cancelled" => fut[pend[t]] = "cancelled"
    /\ decider[pend[t]] = None
    /\ ~Audited(pend[t])

\* A request not yet made has left no trace.
NewInv ==
  \A r \in Request : prod[r] = "new" => decider[r] = None /\ ~Audited(r)

\* What a producer's withdraw or rollback took off the registry no command ever claimed; it is
\* a request that was made and is not pending any more.
PoppedInv ==
  \A q \in Request : popped[q] # None =>
    /\ decider[popped[q]] = None
    /\ prod[popped[q]] # "new"
    /\ \A t \in Thread : pend[t] # popped[q]

\* The request being decided was claimed by the operator and is not recorded yet.
ServeInv ==
  serve.at # "listen" =>
    /\ serve.req \in Request
    /\ prod[serve.req] # "new"
    /\ decider[serve.req] \in Sender
    /\ decider[serve.req] # None
    /\ serve.at = "audit" => ~Audited(serve.req)

WithdrawingInv == \A r \in Request : prod[r] = "withdrawing" => popped[r] # None

DeciderInv == \A r \in Request : decider[r] # None => Authorized(decider[r])

\* Approvals come from a decided request, futures and grants from approvals.
AuditInv ==
  \A r \in Request :
    /\ <<r, "approved">> \in audit => decider[r] # None
    /\ fut[r] = "approved" => <<r, "approved">> \in audit
    /\ prod[r] \in {"granting", "granted"} => <<r, "approved">> \in audit

IInv ==
  /\ TypeOK
  /\ PendInv
  /\ NewInv
  /\ PoppedInv
  /\ ServeInv
  /\ WithdrawingInv
  /\ DeciderInv
  /\ AuditInv
  /\ OneVerdict

-----------------------------------------------------------------------------
(* What the registry's operations return. *)

Futures == [Request -> {"none", "pending", "approved", "denied", "cancelled"}]

LEMMA SetResultEffect ==
  ASSUME NEW f \in Futures, NEW r \in Request, NEW b \in BOOLEAN
  PROVE  /\ SetResult(f, r, b) \in Futures
         /\ \A q \in Request : SetResult(f, r, b)[q] = "approved" =>
              f[q] = "approved" \/ (q = r /\ b = TRUE)
         /\ \A q \in Request \ {r} : SetResult(f, r, b)[q] = f[q]
BY DEF SetResult, Futures, Verdict

LEMMA PurgeEffect ==
  ASSUME TypeOK, NEW t \in Thread
  PROVE  /\ Live(t) \in {pend[t], None}
         /\ Purged(t) \in Futures
         /\ \A q \in Request : Purged(t)[q] = "approved" => fut[q] = "approved"
         /\ \A q \in Request \ {pend[t]} : Purged(t)[q] = fut[q]
<1>1. CASE Expired(t)
  <2>1. pend[t] \in Request /\ fut \in Futures
    BY <1>1 DEF Expired, TypeOK, Futures
  <2>2. Purged(t) = SetResult(fut, pend[t], FALSE) /\ Live(t) = None
    BY <1>1 DEF Purged, Live
  <2>3. /\ SetResult(fut, pend[t], FALSE) \in Futures
        /\ \A q \in Request : SetResult(fut, pend[t], FALSE)[q] = "approved" =>
             fut[q] = "approved"
        /\ \A q \in Request \ {pend[t]} : SetResult(fut, pend[t], FALSE)[q] = fut[q]
    BY <2>1, SetResultEffect
  <2> QED BY <2>2, <2>3
<1>2. CASE ~Expired(t)
  BY <1>2 DEF Purged, Live, TypeOK, Futures
<1> QED BY <1>1, <1>2

LEMMA ResolveEffect ==
  ASSUME TypeOK, NEW t \in Thread, ResolveDenied(t)
  PROVE  /\ fut' \in Futures
         /\ \A q \in Request : fut'[q] = "approved" => fut[q] = "approved"
         /\ \A q \in Request \ {pend[t]} : fut'[q] = fut[q]
         /\ pend' = [pend EXCEPT ![t] = None]
<1>1. CASE Live(t) = None
  BY <1>1, PurgeEffect DEF ResolveDenied
<1>2. CASE Live(t) # None
  <2>1. Live(t) \in Request /\ Live(t) = pend[t]
    BY <1>2, PurgeEffect DEF TypeOK
  <2>2. /\ Purged(t) \in Futures
        /\ \A q \in Request : Purged(t)[q] = "approved" => fut[q] = "approved"
        /\ \A q \in Request \ {pend[t]} : Purged(t)[q] = fut[q]
    BY PurgeEffect
  <2>3. fut' = SetResult(Purged(t), Live(t), FALSE) /\ pend' = [pend EXCEPT ![t] = None]
    BY <1>2 DEF ResolveDenied
  <2>4. /\ SetResult(Purged(t), Live(t), FALSE) \in Futures
        /\ \A q \in Request : SetResult(Purged(t), Live(t), FALSE)[q] = "approved" =>
             Purged(t)[q] = "approved"
        /\ \A q \in Request \ {Live(t)} :
             SetResult(Purged(t), Live(t), FALSE)[q] = Purged(t)[q]
    BY <2>1, <2>2, SetResultEffect
  <2> QED BY <2>1, <2>2, <2>3, <2>4
<1> QED BY <1>1, <1>2

\* A request is pending on at most one thread.
LEMMA PendUnique ==
  ASSUME PendInv, NEW s \in Thread, NEW t \in Thread, pend[t] # None, pend[s] = pend[t]
  PROVE  s = t
<1>1. ThreadOf[pend[s]] = s /\ ThreadOf[pend[t]] = t
  BY DEF PendInv
<1> QED BY <1>1

-----------------------------------------------------------------------------
(* The invariant is inductive. *)

LEMMA InvInit == Init => IInv
BY ApprovalAssumption, OperatorAssumption
   DEF Init, IInv, TypeOK, PendInv, NewInv, PoppedInv, ServeInv, WithdrawingInv,
       DeciderInv, AuditInv, OneVerdict, Audited, Idle

LEMMA InvProducer == ASSUME NEW r \in Request, IInv, ProducerStep(r) PROVE IInv'
<1> DEFINE t == ThreadOf[r]
<1> USE ApprovalAssumption, OperatorAssumption
<1>0. t \in Thread /\ TypeOK
  BY DEF IInv
<1> USE DEF IInv, TypeOK, PendInv, NewInv, PoppedInv, ServeInv, WithdrawingInv,
            DeciderInv, AuditInv, OneVerdict, Audited, Authorized, Futures
<1>1. CASE Register(r)
  <2>1. CASE Live(t) # None
    BY <1>1, <2>1 DEF Register
  <2>2. CASE Live(t) = None
    <3>1. /\ prod[r] = "new"
          /\ pend' = [pend EXCEPT ![t] = r]
          /\ fut' = [Purged(t) EXCEPT ![r] = "pending"]
          /\ age' = [age EXCEPT ![r] = 0]
          /\ prod' = [prod EXCEPT ![r] = "sending"]
          /\ UNCHANGED <<left, popped, serve, audit, decider>>
      BY <1>1, <2>2 DEF Register
    <3>2. /\ fut' \in Futures
          /\ \A q \in Request : fut'[q] = "approved" => fut[q] = "approved"
          /\ \A q \in Request \ {pend[t], r} : fut'[q] = fut[q]
          /\ fut'[r] = "pending"
      BY <1>0, <3>1, PurgeEffect
    <3>3. TypeOK'
      BY <1>0, <3>1, <3>2
    <3>4. (PendInv /\ NewInv /\ PoppedInv /\ ServeInv)'
      BY <1>0, <3>1, <3>2
    <3>5. (WithdrawingInv /\ DeciderInv /\ AuditInv /\ OneVerdict)'
      BY <3>1, <3>2
    <3> QED BY <3>3, <3>4, <3>5
  <2> QED BY <2>1, <2>2
<1>2. CASE SendOk(r)
  BY <1>2 DEF SendOk
<1>4. CASE Resume(r)
  <2>1. prod[r] = "waiting" /\ prod' \in {[prod EXCEPT ![r] = "granting"],
                                            [prod EXCEPT ![r] = "refused"]}
    BY <1>4 DEF Resume
  <2>2. fut[r] = "approved" \/ prod' = [prod EXCEPT ![r] = "refused"]
    BY <1>4 DEF Resume
  <2>3. fut[r] \notin {"pending", "cancelled"} /\ r # None
    BY <1>4 DEF Resume
  <2>4. \A s \in Thread : pend[s] # r
    BY <2>3
  <2> QED BY <1>4, <2>1, <2>2, <2>4 DEF Resume
<1>5. CASE TimerFires(r)
  BY <1>5 DEF TimerFires
<1>6. CASE SendFails(r) \/ Withdraw(r)
  <2>1. /\ fut' \in Futures
        /\ \A q \in Request : fut'[q] = "approved" => fut[q] = "approved"
        /\ \A q \in Request \ {pend[t]} : fut'[q] = fut[q]
        /\ pend' = [pend EXCEPT ![t] = None]
        /\ Live(t) \in {pend[t], None}
    BY <1>0, <1>6, ResolveEffect, PurgeEffect DEF SendFails, Withdraw
  <2>2. /\ prod[r] \in {"sending", "timedOut"}
        /\ popped' = [popped EXCEPT ![r] = Live(t)]
        /\ \E p \in {"raised", "refused", "withdrawing"} :
             /\ prod' = [prod EXCEPT ![r] = p]
             /\ p = "withdrawing" => Live(t) # None
        /\ UNCHANGED <<age, left, serve, audit, decider>>
    BY <1>6 DEF SendFails, Withdraw
  <2>3. TypeOK'
    BY <1>0, <2>1, <2>2
  <2>4. (PendInv /\ NewInv /\ ServeInv)'
    BY <1>0, <2>1, <2>2
  <2>5. PoppedInv'
    <3> SUFFICES ASSUME NEW q \in Request, popped'[q] # None
                 PROVE  /\ decider[popped'[q]] = None
                        /\ prod'[popped'[q]] # "new"
                        /\ \A s \in Thread : pend'[s] # popped'[q]
      BY <2>2
    <3>1. CASE q = r
      <4>1. popped'[q] = pend[t] /\ pend[t] \in Request
        BY <1>0, <2>1, <2>2, <3>1
      <4>2. \A s \in Thread : s # t => pend[s] # pend[t]
        BY <1>0, <2>2, <3>1, <4>1, PendUnique
      <4>3. \A s \in Thread : pend'[s] # popped'[q]
        BY <1>0, <2>1, <4>1, <4>2
      <4>4. decider[pend[t]] = None /\ prod[pend[t]] # "new"
        BY <1>0, <4>1
      <4>5. prod'[popped'[q]] # "new"
        BY <1>0, <2>2, <4>1, <4>4
      <4> QED BY <4>1, <4>3, <4>4, <4>5
    <3>2. CASE q # r
      BY <1>0, <2>1, <2>2, <3>2
    <3> QED BY <3>1, <3>2
  <2>7. WithdrawingInv'
    BY <1>0, <2>1, <2>2
  <2>6. (DeciderInv /\ AuditInv /\ OneVerdict)'
    BY <2>1, <2>2
  <2> QED BY <2>3, <2>4, <2>5, <2>6, <2>7
<1>7. ASSUME NEW b \in BOOLEAN, WithdrawRecorded(r, b) PROVE IInv'
  BY <1>7 DEF WithdrawRecorded
<1>8. ASSUME NEW b \in BOOLEAN, Grant(r, b) PROVE IInv'
  BY <1>8 DEF Grant
<1> HIDE DEF IInv
<1> QED
  BY <1>1, <1>2, <1>4, <1>5, <1>6, <1>7, <1>8 DEF ProducerStep

LEMMA InvCancelled == ASSUME NEW r \in Request, IInv, Cancelled(r) PROVE IInv'
<1> USE DEF IInv, TypeOK, PendInv, NewInv, PoppedInv, ServeInv, WithdrawingInv,
            DeciderInv, AuditInv, OneVerdict, Audited, Futures
<1>1. /\ prod[r] \in {"waiting", "timedOut", "withdrawing"}
      /\ prod' = [prod EXCEPT ![r] = "cancelled"]
      /\ UNCHANGED <<pend, age, left, popped, serve, decider>>
  BY DEF Cancelled
<1>2. CASE prod[r] = "withdrawing"
  <2>1. /\ audit' \in {audit, audit \cup {<<popped[r], "denied">>}} /\ UNCHANGED fut
        /\ popped[r] \in Request
    BY <1>2 DEF Cancelled
  <2>2. \A t \in Thread : pend[t] # r
    <3>1. r # None
      BY ApprovalAssumption
    <3>2. \A t \in Thread : pend[t] # None => prod[pend[t]] # "withdrawing"
      OBVIOUS
    <3> QED BY <1>2, <3>1, <3>2
  <2>3. TypeOK' /\ (PendInv /\ NewInv /\ PoppedInv)'
    BY <1>1, <1>2, <2>1, <2>2
  <2>4. (ServeInv /\ WithdrawingInv /\ DeciderInv /\ AuditInv /\ OneVerdict)'
    BY <1>1, <1>2, <2>1
  <2> QED BY <2>3, <2>4
<1>3. CASE prod[r] # "withdrawing"
  <2>1. /\ UNCHANGED audit
        /\ fut' = IF fut[r] = "pending" THEN [fut EXCEPT ![r] = "cancelled"] ELSE fut
    BY <1>3 DEF Cancelled
  <2>2. TypeOK' /\ (PendInv /\ NewInv /\ PoppedInv)'
    BY <1>1, <2>1
  <2>3. (ServeInv /\ WithdrawingInv /\ DeciderInv /\ AuditInv /\ OneVerdict)'
    BY <1>1, <2>1
  <2> QED BY <2>2, <2>3
<1> QED BY <1>2, <1>3

LEMMA InvCommand ==
  ASSUME NEW t \in Thread, NEW s \in Sender, NEW b \in BOOLEAN, IInv, Command(t, s, b)
  PROVE  IInv'
<1> USE ApprovalAssumption, OperatorAssumption
<1>0. TypeOK
  BY DEF IInv
<1>1. /\ fut' \in Futures
      /\ \A q \in Request : fut'[q] = "approved" => fut[q] = "approved"
      /\ \A q \in Request \ {pend[t]} : fut'[q] = fut[q]
      /\ Live(t) \in {pend[t], None}
      /\ Live(t) # None => fut' = fut
  BY <1>0, PurgeEffect DEF Command, Live, Purged
<1> USE DEF IInv, TypeOK, PendInv, NewInv, PoppedInv, ServeInv, WithdrawingInv,
            DeciderInv, AuditInv, OneVerdict, Audited, Futures
<1>2. CASE Live(t) # None /\ Authorized(s)
  <2>1. /\ pend' = [pend EXCEPT ![t] = None]
        /\ serve' = [at |-> "audit", req |-> pend[t], approved |-> b]
        /\ decider' = [decider EXCEPT ![pend[t]] = s]
        /\ pend[t] \in Request
        /\ UNCHANGED <<age, left, prod, popped, audit>>
    BY <1>0, <1>1, <1>2 DEF Command
  <2>2. \A u \in Thread : u # t => pend[u] # pend[t]
    BY <2>1, PendUnique
  <2>3. TypeOK'
    BY <1>0, <1>1, <2>1
  <2>4. (PendInv /\ NewInv /\ PoppedInv)'
    BY <1>0, <1>1, <1>2, <2>1, <2>2
  <2>5. (ServeInv /\ WithdrawingInv)'
    BY <1>0, <1>1, <2>1
  <2>7. (AuditInv /\ OneVerdict)'
    BY <1>0, <1>1, <2>1
  <2>6. DeciderInv'
    BY <1>0, <1>2, <2>1 DEF Authorized
  <2> QED BY <2>3, <2>4, <2>5, <2>6, <2>7
<1>3. CASE ~(Live(t) # None /\ Authorized(s))
  <2>1. /\ pend' = [pend EXCEPT ![t] = Live(t)]
        /\ UNCHANGED <<serve, decider, age, left, prod, popped, audit>>
    BY <1>3 DEF Command
  <2>2. TypeOK'
    BY <1>0, <1>1, <2>1
  <2>3. (PendInv /\ NewInv /\ PoppedInv)'
    BY <1>0, <1>1, <2>1
  <2>4. (ServeInv /\ WithdrawingInv /\ DeciderInv /\ AuditInv /\ OneVerdict)'
    BY <1>1, <2>1 DEF Authorized
  <2> QED BY <2>2, <2>3, <2>4
<1> QED BY <1>2, <1>3

LEMMA InvHandler == IInv /\ HandlerStep => IInv'
<1> SUFFICES ASSUME IInv, HandlerStep PROVE IInv'
  OBVIOUS
<1> USE ApprovalAssumption, OperatorAssumption
<1> USE DEF IInv, TypeOK, PendInv, NewInv, PoppedInv, ServeInv, WithdrawingInv,
            DeciderInv, AuditInv, OneVerdict, Audited, Authorized, Futures
<1>1. CASE AuditWritten
  <2>1. /\ serve.req \in Request /\ serve.approved \in BOOLEAN
        /\ decider[serve.req] # None
        /\ ~Audited(serve.req)
        /\ audit' = audit \cup {<<serve.req, Verdict(serve.approved)>>}
        /\ fut' = SetResult(fut, serve.req, serve.approved)
        /\ serve' = [serve EXCEPT !.at = "reply"]
        /\ UNCHANGED <<pend, age, left, prod, popped, decider>>
    BY <1>1 DEF AuditWritten
  <2>2. /\ fut' \in Futures
        /\ \A q \in Request : fut'[q] = "approved" =>
             fut[q] = "approved" \/ (q = serve.req /\ serve.approved = TRUE)
        /\ \A q \in Request \ {serve.req} : fut'[q] = fut[q]
    <3>1. fut \in Futures /\ serve.req \in Request
      BY <2>1
    <3>2. CASE serve.approved = TRUE
      BY <2>1, <3>1, <3>2 DEF SetResult, Verdict
    <3>3. CASE serve.approved = FALSE
      BY <2>1, <3>1, <3>3 DEF SetResult, Verdict
    <3> QED BY <2>1, <3>2, <3>3
  <2>3. Verdict(serve.approved) \in {"approved", "denied"}
        /\ (Verdict(serve.approved) = "approved" <=> serve.approved = TRUE)
    BY <2>1 DEF Verdict
  <2>4. TypeOK'
    BY <2>1, <2>2, <2>3
  <2>5. (PendInv /\ NewInv /\ PoppedInv /\ ServeInv)'
    BY <1>1, <2>1, <2>2, <2>3 DEF AuditWritten
  <2>6. (WithdrawingInv /\ DeciderInv /\ AuditInv /\ OneVerdict)'
    BY <2>1, <2>2, <2>3
  <2> QED BY <2>4, <2>5, <2>6
<1>2. CASE Replied
  BY <1>2 DEF Replied, Idle
<1>3. ASSUME NEW b \in BOOLEAN, AuditRaises(b) PROVE IInv'
  <2>1. /\ serve.req \in Request /\ serve.approved \in BOOLEAN
        /\ decider[serve.req] # None
        /\ prod[serve.req] # "new"
        /\ ~Audited(serve.req)
        /\ audit' \in {audit, audit \cup {<<serve.req, Verdict(serve.approved)>>}}
        /\ serve' = Idle
        /\ UNCHANGED <<pend, fut, age, left, prod, popped, decider>>
    BY <1>3 DEF AuditRaises
  <2>2. Verdict(serve.approved) \in {"approved", "denied"}
    BY <2>1 DEF Verdict
  <2>3. (TypeOK /\ ServeInv)'
    BY <2>1, <2>2 DEF Idle
  <2>4. (PendInv /\ NewInv /\ PoppedInv)'
    BY <2>1, <2>2
  <2>5. (WithdrawingInv /\ DeciderInv /\ AuditInv /\ OneVerdict)'
    BY <2>1, <2>2
  <2> QED BY <2>3, <2>4, <2>5
<1> HIDE DEF IInv
<1> QED
  BY <1>1, <1>2, <1>3 DEF HandlerStep

LEMMA InvTick == IInv /\ Tick => IInv'
BY ApprovalAssumption, OperatorAssumption
   DEF Tick, IInv, TypeOK, PendInv, NewInv, PoppedInv, ServeInv, WithdrawingInv,
       DeciderInv, AuditInv, OneVerdict, Audited, Authorized

LEMMA InvStutter == IInv /\ UNCHANGED vars => IInv'
BY DEF vars, IInv, TypeOK, PendInv, NewInv, PoppedInv, ServeInv, WithdrawingInv,
       DeciderInv, AuditInv, OneVerdict, Audited, Authorized

LEMMA InvNext == IInv /\ [Next]_vars => IInv'
BY InvProducer, InvCancelled, InvCommand, InvHandler, InvTick, InvStutter DEF Next

-----------------------------------------------------------------------------
(* The theorems *)

\* The strengthened invariant holds in every state the approval loop reaches.
THEOREM Invariance == Spec => []IInv
BY InvInit, InvNext, PTL DEF Spec

\* The registry, the producers and the serve loop keep their state well typed; in
\* particular a withdraw only ever records a request it popped.
THEOREM TypeCorrect == Spec => []TypeOK
<1>1. IInv => TypeOK
  BY DEF IInv
<1> QED BY <1>1, Invariance, PTL

\* request(), propose_promotion(): nothing is minted or promoted unless the
\* operator's approval of that very request is on the graduation trail.
THEOREM GrantIsAuditedHolds == Spec => []GrantIsAudited
<1>1. IInv => GrantIsAudited
  BY DEF IInv, GrantIsAudited, DeciderInv, AuditInv
<1> QED BY <1>1, Invariance, PTL

\* claim() and withdraw_pending never record contradictory verdicts.
THEOREM OneVerdictHolds == Spec => []OneVerdict
<1>1. IInv => OneVerdict
  BY DEF IInv
<1> QED BY <1>1, Invariance, PTL

\* request(), propose_promotion(): only a cancelled wait leaves an entry on the registry
\* without its producer, and that entry's future is cancelled with it.
THEOREM NoOrphanPendingHolds == Spec => []NoOrphanPending
<1>1. IInv => NoOrphanPending
  BY DEF IInv, PendInv, NoOrphanPending
<1> QED BY <1>1, Invariance, PTL

-----------------------------------------------------------------------------
(* What is decided stays decided, and the steps behind EveryRequestSettles *)

Settled == {"granted", "refused", "raised", "cancelled"}

\* The first claim of a request, the first result of its future and the end of its
\* producer are final, and the trail only grows: neither a second command, a purge, a
\* late timer nor a withdraw of another request turns an answer round.
DecisionsStand ==
  /\ audit \subseteq audit'
  /\ \A r \in Request :
       /\ decider[r] # None => decider'[r] = decider[r]
       /\ fut[r] \in {"approved", "denied", "cancelled"} => fut'[r] = fut[r]
       /\ prod[r] \in Settled => prod'[r] = prod[r]

\* The steps, and the units of time, request r can still take before it is answered.
Outstanding(r) ==
  CASE prod[r] = "sending"                      -> 5 + Timeout
    [] prod[r] = "waiting"                      -> 4 + left[r]
    [] prod[r] = "timedOut"                     -> 3
    [] prod[r] \in {"withdrawing", "granting"}  -> 2
    [] OTHER                                    -> 0

\* A request under way is only brought nearer to its answer, by each step of its
\* producer and each tick of its timer; nothing rearms the timer.
RequestAdvances(r) ==
  prod[r] \notin Settled \cup {"new"} =>
    /\ Outstanding(r)' <= Outstanding(r)
    /\ ProducerStep(r) => Outstanding(r)' < Outstanding(r)
    /\ Tick /\ prod[r] = "waiting" /\ left[r] > 0 => Outstanding(r)' < Outstanding(r)

RequestsAdvance == \A r \in Request : RequestAdvances(r)

\* A request not yet made has no future, so its registration is the only step that
\* gives it one.
NewFutureInv == \A r \in Request : prod[r] = "new" => fut[r] = "none"

\* A step settles a pending future or registers a new request; it changes no other.
LEMMA FuturesStand ==
  ASSUME IInv, NewFutureInv, Next, NEW r \in Request
  PROVE  /\ fut[r] \in {"approved", "denied", "cancelled"} => fut'[r] = fut[r]
         /\ prod'[r] = "new" => prod[r] = "new" /\ fut'[r] = fut[r]
<1>0. TypeOK /\ PendInv
  BY DEF IInv
<1>1. ASSUME NEW f \in Futures, NEW q \in Request, NEW b \in BOOLEAN, NEW s \in Request
      PROVE  f[s] # "pending" => SetResult(f, q, b)[s] = f[s]
  BY DEF SetResult, Futures
<1>2. ASSUME NEW t \in Thread
      PROVE  /\ Purged(t) \in Futures
             /\ \A s \in Request : fut[s] # "pending" => Purged(t)[s] = fut[s]
  <2>1. CASE Expired(t)
    <3>1. pend[t] \in Request /\ fut \in Futures
      BY <1>0, <2>1 DEF Expired, TypeOK, Futures
    <3>2. Purged(t) = SetResult(fut, pend[t], FALSE)
      BY <2>1 DEF Purged
    <3>3. Purged(t) \in Futures
      BY <1>0, PurgeEffect
    <3>4. \A s \in Request : fut[s] # "pending" => SetResult(fut, pend[t], FALSE)[s] = fut[s]
      BY <1>1, <3>1
    <3> QED BY <3>2, <3>3, <3>4
  <2>2. CASE ~Expired(t)
    BY <1>0, <2>2, PurgeEffect DEF Purged
  <2> QED BY <2>1, <2>2
<1>3. ASSUME NEW t \in Thread, ResolveDenied(t)
      PROVE  \A s \in Request : fut[s] # "pending" => fut'[s] = fut[s]
  <2>1. Live(t) # None => Live(t) \in Request
    BY <1>0, PurgeEffect DEF TypeOK
  <2> QED BY <1>1, <1>2, <1>3, <2>1 DEF ResolveDenied
<1>4. ASSUME NEW q \in Request, ProducerStep(q)
      PROVE  /\ fut[r] \in {"approved", "denied", "cancelled"} => fut'[r] = fut[r]
             /\ prod'[r] = "new" => prod[r] = "new" /\ (fut[r] # "pending" => fut'[r] = fut[r])
  <2>0. ThreadOf[q] \in Thread
    BY ApprovalAssumption
  <2>1. CASE Register(q)
    <3>1. Purged(ThreadOf[q]) \in Futures
          /\ \A s \in Request : fut[s] # "pending" => Purged(ThreadOf[q])[s] = fut[s]
      BY <1>2, <2>0
    <3>2. CASE Live(ThreadOf[q]) # None
      BY <1>0, <2>1, <3>2 DEF Register, TypeOK
    <3>3. CASE Live(ThreadOf[q]) = None
      <4>1. /\ prod[q] = "new" /\ prod' = [prod EXCEPT ![q] = "sending"]
            /\ fut' = [Purged(ThreadOf[q]) EXCEPT ![q] = "pending"]
        BY <2>1, <3>3 DEF Register
      <4> QED BY <1>0, <3>1, <4>1 DEF NewFutureInv, TypeOK, Futures
    <3> QED BY <3>2, <3>3
  <2>2. CASE SendFails(q)
    BY <1>0, <1>3, <2>0, <2>2 DEF SendFails, TypeOK
  <2>3. CASE Withdraw(q)
    BY <1>0, <1>3, <2>0, <2>3 DEF Withdraw, TypeOK
  <2>4. CASE TimerFires(q)
    BY <1>0, <2>4 DEF TimerFires, TypeOK
  <2>5. CASE SendOk(q) \/ Resume(q) \/ \E b \in BOOLEAN : WithdrawRecorded(q, b) \/ Grant(q, b)
    BY <1>0, <2>5 DEF SendOk, Resume, WithdrawRecorded, Grant, TypeOK
  <2> QED BY <1>4, <2>1, <2>2, <2>3, <2>4, <2>5 DEF ProducerStep
<1>5. ASSUME NEW t \in Thread, NEW s \in Sender, NEW b \in BOOLEAN, Command(t, s, b)
      PROVE  UNCHANGED prod /\ (fut[r] # "pending" => fut'[r] = fut[r])
  BY <1>2, <1>5 DEF Command
<1>6. CASE HandlerStep
  <2>1. UNCHANGED prod /\ (fut[r] # "pending" => fut'[r] = fut[r])
    <3>1. CASE AuditWritten
      <4>1. /\ serve.req \in Request /\ serve.approved \in BOOLEAN /\ fut \in Futures
            /\ fut' = SetResult(fut, serve.req, serve.approved) /\ UNCHANGED prod
        BY <1>0, <3>1 DEF AuditWritten, IInv, ServeInv, TypeOK, Futures
      <4> QED BY <1>1, <4>1
    <3>2. CASE Replied \/ \E b \in BOOLEAN : AuditRaises(b)
      BY <3>2 DEF Replied, AuditRaises
    <3> QED BY <1>6, <3>1, <3>2 DEF HandlerStep
  <2> QED BY <2>1 DEF NewFutureInv
<1>7. CASE Tick
  BY <1>7 DEF Tick
<1>9. ASSUME NEW q \in Request, Cancelled(q)
      PROVE  /\ fut[r] \in {"approved", "denied", "cancelled"} => fut'[r] = fut[r]
             /\ prod'[r] = "new" => prod[r] = "new" /\ (fut[r] # "pending" => fut'[r] = fut[r])
  BY <1>0, <1>9 DEF Cancelled, TypeOK
<1>8. prod[r] = "new" => fut[r] # "pending"
  BY DEF NewFutureInv
<1> QED BY <1>4, <1>5, <1>6, <1>7, <1>8, <1>9 DEF Next

LEMMA NewFutureInvariance == Spec => []NewFutureInv
<1>1. Init => NewFutureInv
  BY DEF Init, NewFutureInv
<1>2. IInv /\ NewFutureInv /\ [Next]_vars => NewFutureInv'
  BY FuturesStand DEF NewFutureInv, vars
<1> QED BY <1>1, <1>2, Invariance, PTL DEF Spec

LEMMA ClaimsStand ==
  ASSUME IInv, Next
  PROVE  /\ audit \subseteq audit'
         /\ \A r \in Request : decider[r] # None => decider'[r] = decider[r]
<1>1. CASE \E r \in Request : ProducerStep(r) \/ Cancelled(r)
  BY <1>1 DEF ProducerStep, Register, SendOk, SendFails, Resume, TimerFires, Withdraw,
              WithdrawRecorded, Grant, Cancelled
<1>2. ASSUME NEW t \in Thread, NEW s \in Sender, NEW b \in BOOLEAN, Command(t, s, b)
      PROVE  /\ UNCHANGED audit
             /\ \A r \in Request : decider[r] # None => decider'[r] = decider[r]
  <2>1. Live(t) \in {pend[t], None}
    BY PurgeEffect DEF IInv
  <2>2. Live(t) # None => decider[Live(t)] = None
    BY <2>1 DEF IInv, PendInv
  <2> QED BY <1>2, <2>2 DEF Command, IInv, TypeOK
<1>3. CASE HandlerStep \/ Tick
  BY <1>3 DEF HandlerStep, AuditWritten, Replied, AuditRaises, Tick
<1> QED BY <1>1, <1>2, <1>3 DEF Next

\* Where a step of request r's producer takes it; no other step moves the producer.
LEMMA ProducerMoves ==
  ASSUME IInv, NEW r \in Request, ProducerStep(r)
  PROVE  \/ prod[r] = "new" /\ prod'[r] \in {"sending", "raised"}
         \/ prod[r] = "sending" /\ prod'[r] = "waiting" /\ left'[r] = Timeout
         \/ prod[r] = "sending" /\ prod'[r] = "raised"
         \/ prod[r] = "waiting" /\ prod'[r] \in {"granting", "refused", "timedOut"}
         \/ prod[r] = "timedOut" /\ prod'[r] \in {"refused", "withdrawing"}
         \/ prod[r] = "withdrawing" /\ prod'[r] = "refused"
         \/ prod[r] = "granting" /\ prod'[r] \in {"granted", "raised"}
BY DEF ProducerStep, Register, SendOk, SendFails, Resume, TimerFires, Withdraw,
       WithdrawRecorded, Grant, IInv, TypeOK

LEMMA OthersLeaveProducer ==
  ASSUME IInv, NEW r \in Request, Next, ~ProducerStep(r), ~Cancelled(r)
  PROVE  /\ prod'[r] = prod[r]
         /\ \/ left'[r] = left[r]
            \/ prod[r] = "waiting" /\ left[r] > 0 /\ left'[r] = left[r] - 1
<1>1. ASSUME NEW q \in Request, ProducerStep(q) \/ Cancelled(q)
      PROVE  prod'[r] = prod[r] /\ left'[r] = left[r]
  <2>1. q # r
    BY <1>1
  <2> QED
    BY <1>1, <2>1 DEF ProducerStep, Register, SendOk, SendFails, Resume, TimerFires, Withdraw,
                      WithdrawRecorded, Grant, Cancelled, IInv, TypeOK
<1>2. CASE HandlerStep \/ \E t \in Thread, s \in Sender, b \in BOOLEAN : Command(t, s, b)
  BY <1>2 DEF Command, HandlerStep, AuditWritten, Replied, AuditRaises
<1>3. CASE Tick
  BY <1>3 DEF Tick, IInv, TypeOK
<1> QED BY <1>1, <1>2, <1>3 DEF Next

\* The first claim, the first result and the end of a request are final, and the
\* graduation trail only grows: no later command, purge, timer or withdraw undoes a
\* decision the trail or a producer has already acted on.
THEOREM DecisionsStandHolds == Spec => [][DecisionsStand]_vars
<1>1. IInv /\ NewFutureInv /\ [Next]_vars => [DecisionsStand]_vars
  <2> SUFFICES ASSUME IInv, NewFutureInv, Next PROVE DecisionsStand
    OBVIOUS
  <2>1. ASSUME NEW r \in Request, prod[r] \in Settled PROVE prod'[r] = prod[r]
    BY <2>1, ProducerMoves, OthersLeaveProducer DEF Settled, Cancelled
  <2> QED BY <2>1, ClaimsStand, FuturesStand DEF DecisionsStand
<1> QED BY <1>1, Invariance, NewFutureInvariance, PTL DEF Spec

LEMMA RequestMoves == ASSUME IInv, NEW r \in Request, Next PROVE RequestAdvances(r)
<1> SUFFICES ASSUME prod[r] \notin Settled \cup {"new"}
             PROVE  /\ Outstanding(r)' <= Outstanding(r)
                    /\ ProducerStep(r) => Outstanding(r)' < Outstanding(r)
                    /\ Tick /\ prod[r] = "waiting" /\ left[r] > 0 =>
                         Outstanding(r)' < Outstanding(r)
  BY DEF RequestAdvances
<1>0. left[r] \in 0..Timeout /\ Timeout \in Nat
      /\ prod[r] \in {"sending", "waiting", "timedOut", "withdrawing", "granting"}
  BY ApprovalAssumption DEF IInv, TypeOK, Settled
<1>1. CASE ProducerStep(r)
  <2>1. Outstanding(r)' < Outstanding(r) /\ Outstanding(r)' <= Outstanding(r)
    BY <1>0, <1>1, ProducerMoves DEF Outstanding
  <2> QED BY <2>1
<1>3. CASE Cancelled(r)
  <2>1. prod'[r] = "cancelled"
    BY <1>3 DEF Cancelled, IInv, TypeOK
  <2> QED BY <1>0, <2>1 DEF Outstanding
<1>2. CASE ~ProducerStep(r) /\ ~Cancelled(r)
  <2>1. /\ prod'[r] = prod[r]
        /\ \/ left'[r] = left[r]
           \/ prod[r] = "waiting" /\ left[r] > 0 /\ left'[r] = left[r] - 1
    BY <1>2, OthersLeaveProducer
  <2>2. Tick /\ prod[r] = "waiting" /\ left[r] > 0 => left'[r] = left[r] - 1
    BY DEF Tick, IInv, TypeOK
  <2> QED BY <1>0, <1>2, <2>1, <2>2 DEF Outstanding
<1> QED BY <1>1, <1>2, <1>3

\* The safety half of EveryRequestSettles, for any timeout and any number of requests on
\* a thread: a request under way has a bounded number of steps and ticks ahead of it,
\* and no operator, other request or audit failure adds one.
THEOREM RequestsAdvanceHolds == Spec => [][RequestsAdvance]_vars
<1>1. IInv /\ [Next]_vars => [RequestsAdvance]_vars
  BY RequestMoves DEF RequestsAdvance
<1> QED BY <1>1, Invariance, PTL DEF Spec
=============================================================================

------------------------------ MODULE LeaseBroker ------------------------------
(***************************************************************************)
(* The credential broker of the membrane: membrane/lease.py behind the     *)
(* default-deny wrapper membrane/granted_broker.py, with the revoke        *)
(* taxonomy of membrane/revoke.py and the providers it talks to.           *)
(*                                                                         *)
(* Clients are coroutines that acquire, renew and release leases through   *)
(* one broker; Sweeper is the coroutine that runs sweep().  Every await of *)
(* a provider is split in three: the broker sends the call, the provider   *)
(* answers it, the broker's continuation consumes the answer.  Between two *)
(* of these steps anything else may run, the call may be cancelled, and    *)
(* the process may die.                                                    *)
(*                                                                         *)
(* A handle names one stateful token, so it plays the ledger's key         *)
(* "provider:handle".  Stateless providers answer mint with no handle.     *)
(***************************************************************************)
EXTENDS Integers, FiniteSets

CONSTANTS
  Client,         \* coroutines that hold leases
  Sweeper,        \* the coroutine that runs sweep()
  Provider,       \* names of providers
  Handle,         \* revoke handles the stateful providers can issue
  NoHandle,       \* Python's None where a handle is expected
  NoLease,        \* a client that holds no Lease object
  Issuer,         \* the stateful provider that issues each handle
  Stateful,       \* providers with stateful = True
  Scope,          \* scopes a client may ask for
  Privileged,     \* scopes for which requires_write_approval(scope) is True
  WriteApproved,  \* providers that are a write-approved MemoryCloudProvider
  Grants,         \* the task's GrantSet: <<provider, scope>> pairs
  TotalSeconds,   \* Budget.total_seconds of every lease
  TTLs,           \* the ttl values a client may renew with
  MaxRestarts,    \* bound on process deaths
  LedgerSurvives  \* TRUE: the next process is given the same LeaseLedger

ASSUME ConstantsAssumption ==
  /\ Sweeper \notin Client
  /\ NoHandle \notin Handle
  /\ Stateful \subseteq Provider
  /\ Issuer \in [Handle -> Stateful]
  /\ Privileged \subseteq Scope
  /\ WriteApproved \subseteq Provider
  /\ Grants \subseteq Provider \X Scope
  /\ TotalSeconds \in Nat
  /\ TTLs \subseteq Nat \ {0}
  /\ MaxRestarts \in Nat
  /\ LedgerSurvives \in BOOLEAN

VARIABLES
  token,       \* provider side: what became of each handle
  ledger,      \* LeaseLedger._open, by key
  registered,  \* keys of CredentialBroker._providers
  lease,       \* the Lease object each client holds
  draft,       \* the Lease acquire() or renew() is building
  phase,       \* where each coroutine stands
  call,        \* the provider call each coroutine awaits
  todo,        \* what is left of the sweep's snapshot of the ledger
  failed,      \* snapshot entries this sweep could not revoke (history)
  recorded,    \* handles ever passed to record() (history)
  swept,       \* handles ever in a sweep's snapshot (history)
  restarts     \* process deaths so far

vars == <<token, ledger, registered, lease, draft, phase, call,
          todo, failed, recorded, swept, restarts>>

Agent == Client \cup {Sweeper}

Lease == [provider : Provider, scope : Scope, handle : Handle \cup {NoHandle},
          spent : 0..TotalSeconds]

\* A provider call in flight: a revoke names its handle, a mint is answered with one.
Call == [op : {"none", "mint", "revoke"},
         status : {"none", "sent", "ok", "gone", "error"},
         handle : Handle \cup {NoHandle}]
NoCall == [op |-> "none", status |-> "none", handle |-> NoHandle]

ASSUME NoLeaseAssumption == NoLease \notin Lease

TypeOK ==
  /\ token \in [Handle -> {"unissued", "live", "expired", "revoked"}]
  /\ ledger \subseteq Handle
  /\ registered \subseteq Provider
  /\ lease \in [Client -> Lease \cup {NoLease}]
  /\ draft \in [Client -> Lease \cup {NoLease}]
  /\ phase \in [Agent -> {"idle", "acquire", "renew", "renewRevoke", "release",
                          "sweep", "cancelled"}]
  /\ call \in [Agent -> Call]
  /\ todo \subseteq Handle
  /\ failed \subseteq Handle
  /\ recorded \subseteq Handle
  /\ swept \subseteq Handle
  /\ restarts \in 0..MaxRestarts

Init ==
  /\ token = [h \in Handle |-> "unissued"]
  /\ ledger = {}
  /\ registered = Provider
  /\ lease = [c \in Client |-> NoLease]
  /\ draft = [c \in Client |-> NoLease]
  /\ phase = [a \in Agent |-> "idle"]
  /\ call = [a \in Agent |-> NoCall]
  /\ todo = {}
  /\ failed = {}
  /\ recorded = {}
  /\ swept = {}
  /\ restarts = 0

-----------------------------------------------------------------------------
(* Synchronous checks and ledger operations of the broker. *)

\* CredentialBroker._assert_scope_allowed: the broker's own write-lock.
ScopeAllowed(p, s) == s \in Privileged => p \in WriteApproved

\* GrantedBroker._require_grant in front of CredentialBroker's checks; an
\* unregistered provider is a KeyError.
MayMint(p, s) == <<p, s>> \in Grants /\ p \in registered /\ ScopeAllowed(p, s)

\* Budget.remaining.
Remaining(l) ==
  IF TotalSeconds >= l.spent THEN TotalSeconds - l.spent ELSE 0

\* LeaseLedger.record keeps only stateful leases with a handle.
Tracked(l) == IF l.provider \in Stateful /\ l.handle # NoHandle
              THEN {l.handle} ELSE {}

\* Mutant: any error of the provider counts as "already gone".
RevokeDoneOnAnyError(status) == status # "sent"

\* classify_revoke_error: only 404 and 410 prove the handle is gone; release()
\* and renew() treat that as a completed revoke, everything else as transient.
RevokeDone(status) == status \in {"ok", "gone"}

Mint == [op |-> "mint", status |-> "sent", handle |-> NoHandle]
Revoke(h) == [op |-> "revoke", handle |-> h, status |-> "sent"]

\* The answer that ends the call agent a awaits.
Answered(a, status, h) == [op |-> call[a].op, status |-> status, handle |-> h]
Awaits(a, op, status) == call[a].op = op /\ call[a].status = status

-----------------------------------------------------------------------------
(* The provider answers a call.  A call may fail before or after it took   *)
(* effect: in the second case the effect stands and the broker sees an     *)
(* error.  Tokens also expire on their own.                                *)

\* A stateful provider issues a fresh handle, a stateless one none.
Issues(c, h, status) ==
  /\ Awaits(c, "mint", "sent")
  /\ IF draft[c].provider \in Stateful
     THEN /\ h \in Handle
          /\ Issuer[h] = draft[c].provider
          /\ token[h] = "unissued"
          /\ token' = [token EXCEPT ![h] = "live"]
     ELSE h = NoHandle /\ UNCHANGED token
  /\ call' = [call EXCEPT ![c] = Answered(c, status,
                                  IF status = "ok" THEN h ELSE NoHandle)]
  /\ UNCHANGED <<ledger, registered, lease, draft, phase, todo, failed, recorded,
                 swept, restarts>>

\* The provider rolls the secret of a live token: same handle, renew only.
Reissues(c) ==
  /\ Awaits(c, "mint", "sent")
  /\ phase[c] = "renew"
  /\ lease[c].handle \in Handle
  /\ token[lease[c].handle] = "live"
  /\ call' = [call EXCEPT ![c] = Answered(c, "ok", lease[c].handle)]
  /\ UNCHANGED <<token, ledger, registered, lease, draft, phase, todo, failed,
                 recorded, swept, restarts>>

\* The request never took effect.
CallFails(a) ==
  /\ call[a].op # "none"
  /\ call[a].status = "sent"
  /\ call' = [call EXCEPT ![a] = Answered(a, "error", call[a].handle)]
  /\ UNCHANGED <<token, ledger, registered, lease, draft, phase, todo, failed,
                 recorded, swept, restarts>>

\* The delete takes effect; the answer may be a success or lost on the way.
Deletes(a, status) ==
  /\ Awaits(a, "revoke", "sent")
  /\ token[call[a].handle] \in {"live", "expired"}
  /\ token' = [token EXCEPT ![call[a].handle] = "revoked"]
  /\ call' = [call EXCEPT ![a] = Answered(a, status, call[a].handle)]
  /\ UNCHANGED <<ledger, registered, lease, draft, phase, todo, failed, recorded,
                 swept, restarts>>

\* 404/410: the handle does not exist any more.
AnswersGone(a) ==
  /\ Awaits(a, "revoke", "sent")
  /\ token[call[a].handle] \in {"revoked", "expired"}
  /\ call' = [call EXCEPT ![a] = Answered(a, "gone", call[a].handle)]
  /\ UNCHANGED <<token, ledger, registered, lease, draft, phase, todo, failed,
                 recorded, swept, restarts>>

Expires(h) ==
  /\ token[h] = "live"
  /\ token' = [token EXCEPT ![h] = "expired"]
  /\ UNCHANGED <<ledger, registered, lease, draft, phase, call, todo, failed,
                 recorded, swept, restarts>>

ProviderStep ==
  \/ \E c \in Client, h \in Handle \cup {NoHandle}, st \in {"ok", "error"} :
        Issues(c, h, st)
  \/ \E c \in Client : Reissues(c)
  \/ \E a \in Agent : CallFails(a) \/ AnswersGone(a)
  \/ \E a \in Agent, st \in {"ok", "error"} : Deletes(a, st)
  \/ \E h \in Handle : Expires(h)

-----------------------------------------------------------------------------
(* acquire *)

AcquireBegin(c, p, s) ==
  /\ phase[c] = "idle"
  /\ lease[c] = NoLease
  /\ MayMint(p, s)
  /\ draft' = [draft EXCEPT ![c] = [provider |-> p, scope |-> s,
                                   handle |-> NoHandle, spent |-> 0]]
  /\ call' = [call EXCEPT ![c] = Mint]
  /\ phase' = [phase EXCEPT ![c] = "acquire"]
  /\ UNCHANGED <<token, ledger, registered, lease, todo, failed, recorded, swept,
                 restarts>>

\* The Lease built around mint's answer, and its LeaseLedger.record.
Minted(c) == [draft[c] EXCEPT !.handle = call[c].handle]
Record(l) == /\ ledger' = ledger \cup Tracked(l)
             /\ recorded' = recorded \cup Tracked(l)

AcquireEnd(c) ==
  /\ phase[c] = "acquire"
  /\ call[c].status = "ok"
  /\ lease' = [lease EXCEPT ![c] = Minted(c)]
  /\ Record(Minted(c))
  /\ draft' = [draft EXCEPT ![c] = NoLease]
  /\ call' = [call EXCEPT ![c] = NoCall]
  /\ phase' = [phase EXCEPT ![c] = "idle"]
  /\ UNCHANGED <<token, registered, todo, failed, swept, restarts>>

\* mint raised inside acquire or renew: the exception reaches the client, which
\* still holds what it held.
MintRaises(c) ==
  /\ phase[c] \in {"acquire", "renew"}
  /\ call[c].status = "error"
  /\ draft' = [draft EXCEPT ![c] = NoLease]
  /\ call' = [call EXCEPT ![c] = NoCall]
  /\ phase' = [phase EXCEPT ![c] = "idle"]
  /\ UNCHANGED <<token, ledger, registered, lease, todo, failed, recorded, swept,
                 restarts>>

-----------------------------------------------------------------------------
(* renew: spend, check, mint the replacement first, record it, and only    *)
(* then revoke the old token.                                              *)

RenewBegin(c, ttl) ==
  /\ phase[c] = "idle"
  /\ lease[c] # NoLease
  /\ ttl <= Remaining(lease[c])          \* else BudgetExhausted
  /\ MayMint(lease[c].provider, lease[c].scope)
  /\ draft' = [draft EXCEPT ![c] = [lease[c] EXCEPT !.spent = @ + ttl]]
  /\ call' = [call EXCEPT ![c] = Mint]
  /\ phase' = [phase EXCEPT ![c] = "renew"]
  /\ UNCHANGED <<token, ledger, registered, lease, todo, failed, recorded, swept,
                 restarts>>

\* Mutant: the same-handle case is not recognised, so the live token is revoked.
RenewSameHandleRevokes(c) ==
  /\ phase[c] = "renew"
  /\ call[c].status = "ok"
  /\ call[c].handle = lease[c].handle /\ call[c].handle # NoHandle
  /\ draft' = [draft EXCEPT ![c] = Minted(c)]
  /\ Record(Minted(c))
  /\ call' = [call EXCEPT ![c] = Revoke(lease[c].handle)]
  /\ phase' = [phase EXCEPT ![c] = "renewRevoke"]
  /\ UNCHANGED <<token, registered, lease, todo, failed, swept, restarts>>

\* Same handle (or a stateless provider): nothing to revoke.
RenewSameHandle(c) ==
  /\ phase[c] = "renew"
  /\ call[c].status = "ok"
  /\ call[c].handle = lease[c].handle
  /\ lease' = [lease EXCEPT ![c] = Minted(c)]
  /\ Record(Minted(c))
  /\ draft' = [draft EXCEPT ![c] = NoLease]
  /\ call' = [call EXCEPT ![c] = NoCall]
  /\ phase' = [phase EXCEPT ![c] = "idle"]
  /\ UNCHANGED <<token, registered, todo, failed, swept, restarts>>

RenewMinted(c) ==
  /\ phase[c] = "renew"
  /\ call[c].status = "ok"
  /\ call[c].handle # lease[c].handle
  /\ draft' = [draft EXCEPT ![c] = Minted(c)]
  /\ Record(Minted(c))
  /\ call' = [call EXCEPT ![c] = Revoke(lease[c].handle)]
  /\ phase' = [phase EXCEPT ![c] = "renewRevoke"]
  /\ UNCHANGED <<token, registered, lease, todo, failed, swept, restarts>>

\* The old lease is forgotten only if its revoke is known to be done.
RenewEnd(c) ==
  /\ phase[c] = "renewRevoke"
  /\ call[c].status # "sent"
  /\ ledger' = IF RevokeDone(call[c].status)
               THEN ledger \ {lease[c].handle} ELSE ledger
  /\ lease' = [lease EXCEPT ![c] = draft[c]]
  /\ draft' = [draft EXCEPT ![c] = NoLease]
  /\ call' = [call EXCEPT ![c] = NoCall]
  /\ phase' = [phase EXCEPT ![c] = "idle"]
  /\ UNCHANGED <<token, registered, todo, failed, recorded, swept, restarts>>

-----------------------------------------------------------------------------
(* release: revoke a stateful token, then forget it.  A transient error    *)
(* propagates; the callers in cli/main.py and cli/doctor.py report it and  *)
(* drop the Lease object, which stays in the ledger.                       *)

ReleaseBegin(c) ==
  /\ phase[c] \in {"idle", "cancelled"}
  /\ lease[c] # NoLease
  /\ IF lease[c].provider \in Stateful
     THEN /\ lease[c].provider \in registered
          /\ call' = [call EXCEPT ![c] = Revoke(lease[c].handle)]
          /\ phase' = [phase EXCEPT ![c] = "release"]
          /\ UNCHANGED lease
     ELSE /\ lease' = [lease EXCEPT ![c] = NoLease]
          /\ phase' = [phase EXCEPT ![c] = "idle"]
          /\ UNCHANGED call
  /\ UNCHANGED <<token, ledger, registered, draft, todo, failed, recorded, swept,
                 restarts>>

ReleaseEnd(c) ==
  /\ phase[c] = "release"
  /\ call[c].status # "sent"
  /\ ledger' = IF RevokeDone(call[c].status)
               THEN ledger \ {lease[c].handle} ELSE ledger
  /\ lease' = [lease EXCEPT ![c] = NoLease]
  /\ call' = [call EXCEPT ![c] = NoCall]
  /\ phase' = [phase EXCEPT ![c] = "idle"]
  /\ UNCHANGED <<token, registered, draft, todo, failed, recorded, swept, restarts>>

\* The client's task is cancelled while it awaits a provider.  CancelledError is
\* not an Exception, so no handler of renew() or release() catches it: the ledger
\* is left alone and the replacement lease, if any, never reaches the client.
Cancel(c) ==
  /\ call[c] # NoCall
  /\ call' = [call EXCEPT ![c] = NoCall]
  /\ draft' = [draft EXCEPT ![c] = NoLease]
  /\ lease' = IF phase[c] = "release" THEN [lease EXCEPT ![c] = NoLease] ELSE lease
  /\ phase' = [phase EXCEPT ![c] = "cancelled"]
  /\ UNCHANGED <<token, ledger, registered, todo, failed, recorded, swept, restarts>>

-----------------------------------------------------------------------------
(* sweep: release every lease of a snapshot of the ledger. *)

SweepBegin ==
  /\ phase[Sweeper] = "idle"
  /\ ledger # {}
  /\ todo' = ledger
  /\ swept' = swept \cup ledger
  /\ failed' = {}
  /\ phase' = [phase EXCEPT ![Sweeper] = "sweep"]
  /\ UNCHANGED <<token, ledger, registered, lease, draft, call, recorded, restarts>>

\* Mutant: a lease of an unregistered provider is forgotten.
SweepSkipForgets(h) ==
  /\ phase[Sweeper] = "sweep"
  /\ call[Sweeper] = NoCall
  /\ h \in todo
  /\ Issuer[h] \notin registered
  /\ todo' = todo \ {h}
  /\ ledger' = ledger \ {h}
  /\ UNCHANGED <<token, registered, lease, draft, phase, call, failed, recorded,
                 swept, restarts>>

\* An unregistered provider cannot be asked: the lease stays tracked.
SweepSkip(h) ==
  /\ phase[Sweeper] = "sweep"
  /\ call[Sweeper] = NoCall
  /\ h \in todo
  /\ Issuer[h] \notin registered
  /\ todo' = todo \ {h}
  /\ failed' = failed \cup {h}
  /\ UNCHANGED <<token, ledger, registered, lease, draft, phase, call, recorded,
                 swept, restarts>>

SweepRevoke(h) ==
  /\ phase[Sweeper] = "sweep"
  /\ call[Sweeper] = NoCall
  /\ h \in todo
  /\ Issuer[h] \in registered
  /\ call' = [call EXCEPT ![Sweeper] = Revoke(h)]
  /\ UNCHANGED <<token, ledger, registered, lease, draft, phase, todo, failed,
                 recorded, swept, restarts>>

\* Mutant: a failing revoke is retried within the same sweep.
SweepRevokedRetries ==
  /\ phase[Sweeper] = "sweep"
  /\ call[Sweeper].op = "revoke"
  /\ call[Sweeper].status # "sent"
  /\ IF RevokeDone(call[Sweeper].status)
     THEN ledger' = ledger \ {call[Sweeper].handle} /\ todo' = todo \ {call[Sweeper].handle}
     ELSE UNCHANGED <<todo, ledger>>
  /\ call' = [call EXCEPT ![Sweeper] = NoCall]
  /\ UNCHANGED <<token, registered, lease, draft, phase, failed, recorded, swept, restarts>>

\* One failing revoke does not abort the sweep, and its lease is kept.
SweepRevoked ==
  /\ phase[Sweeper] = "sweep"
  /\ call[Sweeper].op = "revoke"
  /\ call[Sweeper].status # "sent"
  /\ LET h == call[Sweeper].handle
     IN /\ \/ /\ RevokeDone(call[Sweeper].status)
              /\ ledger' = ledger \ {h}
              /\ UNCHANGED failed
           \/ /\ ~RevokeDone(call[Sweeper].status)
              /\ failed' = failed \cup {h}
              /\ UNCHANGED ledger
        /\ todo' = todo \ {h}
  /\ call' = [call EXCEPT ![Sweeper] = NoCall]
  /\ UNCHANGED <<token, registered, lease, draft, phase, recorded, swept, restarts>>

SweepEnd ==
  /\ phase[Sweeper] = "sweep"
  /\ todo = {}
  /\ phase' = [phase EXCEPT ![Sweeper] = "idle"]
  /\ UNCHANGED <<token, ledger, registered, lease, draft, call, todo, failed,
                 recorded, swept, restarts>>

-----------------------------------------------------------------------------
\* The process dies and a new one builds its broker, perhaps from a registry that
\* has lost a provider.  The ledger is an attribute of the dead broker: it
\* outlives it only if the deployment hands the same object to the new one.
Restart(reg) ==
  /\ restarts < MaxRestarts
  /\ restarts' = restarts + 1
  /\ registered' = reg
  /\ ledger' = IF LedgerSurvives THEN ledger ELSE {}
  /\ lease' = [c \in Client |-> NoLease]
  /\ draft' = [c \in Client |-> NoLease]
  /\ phase' = [a \in Agent |-> "idle"]
  /\ call' = [a \in Agent |-> NoCall]
  /\ todo' = {}
  /\ failed' = {}
  /\ UNCHANGED <<token, recorded, swept>>

ClientStep(c) ==
  \/ \E p \in Provider, s \in Scope : AcquireBegin(c, p, s)
  \/ AcquireEnd(c)
  \/ MintRaises(c)
  \/ \E ttl \in TTLs : RenewBegin(c, ttl)
  \/ RenewSameHandle(c)
  \/ RenewMinted(c)
  \/ RenewEnd(c)
  \/ ReleaseBegin(c)
  \/ ReleaseEnd(c)
  \/ Cancel(c)

SweepContinues ==
  \/ \E h \in Handle : SweepSkip(h) \/ SweepRevoke(h)
  \/ SweepRevoked
  \/ SweepEnd

Next ==
  \/ ProviderStep
  \/ \E c \in Client : ClientStep(c)
  \/ SweepBegin
  \/ SweepContinues
  \/ \E reg \in SUBSET Provider : Restart(reg)

Spec == Init /\ [][Next]_vars

\* An HTTP client with a timeout always answers, and the event loop resumes a
\* coroutine whose await is over.  Nothing obliges a client to start an
\* operation, a sweep to begin, a task to be cancelled or a process to die.
Answers(a) ==
  \/ \E h \in Handle \cup {NoHandle}, st \in {"ok", "error"} : Issues(a, h, st)
  \/ CallFails(a)
  \/ AnswersGone(a)
  \/ \E st \in {"ok", "error"} : Deletes(a, st)
Resumes(c) == AcquireEnd(c) \/ MintRaises(c) \/ RenewSameHandle(c)
              \/ RenewMinted(c) \/ RenewEnd(c) \/ ReleaseEnd(c)

Fairness ==
  /\ \A a \in Agent : WF_vars(Answers(a))
  /\ \A c \in Client : WF_vars(Resumes(c))
  /\ WF_vars(SweepContinues)

FairSpec == Spec /\ Fairness

-----------------------------------------------------------------------------
(* Safety *)

\* A token the ledger ever held is dropped from it only once it is no longer
\* live: neither a lost answer, nor a misread status, nor a sweep racing a renew
\* or a release makes the broker forget a credential that still works.
NeverDropLive ==
  \A h \in recorded : token[h] = "live" => h \in ledger

\* renew() mints before it revokes: the lease a client holds, however its last
\* renewal ended, names a token the broker itself did not revoke (a sweep that
\* snapshotted it may have).
HeldLeaseNotRevoked ==
  \A c \in Client :
    (phase[c] \in {"idle", "acquire", "renew"} /\ lease[c] # NoLease
       /\ lease[c].handle # NoHandle /\ token[lease[c].handle] = "revoked")
    => lease[c].handle \in swept

-----------------------------------------------------------------------------
(* Liveness *)

\* acquire, renew, release and sweep all return, whatever the provider answers:
\* in particular a sweep does not retry a failing revoke for ever.
OperationsReturn ==
  \A a \in Agent :
    phase[a] \notin {"idle", "cancelled"} ~> phase[a] \in {"idle", "cancelled"}

-----------------------------------------------------------------------------
(* Refinement *)

Fate(h) == IF token[h] \in {"expired", "revoked"} THEN "dead" ELSE token[h]

Custody == INSTANCE TokenCustody
             WITH fate <- [h \in Handle |-> Fate(h)], tracked <- ledger

\* The broker, its clients, sweeper and providers implement TokenCustody.
ImplementsCustody == Custody!Spec

=============================================================================

--------------------------- MODULE LeaseBrokerProofs ---------------------------
(***************************************************************************)
(* For any number of clients, providers, handles and restarts: the state   *)
(* of LeaseBroker is well typed, only a sweep revokes what a client holds, *)
(* what a client holds is tracked, operations and sweeps only move on,     *)
(* and, within one process or as long as the ledger survives a restart,    *)
(* the ledger never drops a live token and the broker implements           *)
(* TokenCustody.                                                           *)
(***************************************************************************)
EXTENDS LeaseBroker, TLAPS

-----------------------------------------------------------------------------
(* The inductive invariant.                                                *)

\* Either no process dies, or the next one is given the ledger of the last.
OneLedger == LedgerSurvives \/ MaxRestarts = 0

\* The ledger of this process holds what the processes before it recorded.
SameLedger == LedgerSurvives \/ restarts = 0

\* A Lease names a handle exactly when its provider is stateful.
WellFormed(l) == l \in Lease /\ (l.provider \in Stateful <=> l.handle \in Handle)

\* How a client's phase, its pending call and its Lease objects go together.
ClientInv(c) ==
  /\ phase[c] \in {"idle", "cancelled"} <=> call[c].op = "none"
  /\ phase[c] \in {"acquire", "renew"} <=> call[c].op = "mint"
  /\ phase[c] \in {"renewRevoke", "release"} <=> call[c].op = "revoke"
  /\ phase[c] # "sweep"
  /\ lease[c] # NoLease => WellFormed(lease[c])
  /\ phase[c] \in {"renew", "renewRevoke", "release"} => lease[c] # NoLease
  /\ phase[c] \in {"acquire", "renew"} => draft[c] # NoLease
  /\ phase[c] = "renew" => draft[c].provider = lease[c].provider
  /\ phase[c] = "renewRevoke" => WellFormed(draft[c])
  /\ call[c].op = "mint" /\ call[c].status = "ok" =>
       /\ draft[c].provider \in Stateful <=> call[c].handle \in Handle
       /\ call[c].handle \in Handle => token[call[c].handle] # "unissued"
  /\ call[c].op = "revoke" => call[c].handle = lease[c].handle

\* A revoke is answered "ok" or "gone" only about a token that is dead by then.
RevokeInv ==
  \A a \in Agent : call[a].op = "revoke" =>
    /\ call[a].handle \in Handle
    /\ RevokeDone(call[a].status) => token[call[a].handle] \in {"expired", "revoked"}

SweeperInv == call[Sweeper].op \in {"none", "revoke"}

LedgerInv == \A h \in recorded : token[h] # "unissued"

IInv ==
  /\ TypeOK
  /\ \A c \in Client : ClientInv(c)
  /\ RevokeInv
  /\ SweeperInv
  /\ LedgerInv
  /\ SameLedger => NeverDropLive

-----------------------------------------------------------------------------
(* Types *)

LEMMA TypeInit == Init => TypeOK
BY ConstantsAssumption DEF Init, TypeOK, Call, NoCall, Agent

LEMMA TypeProvider == TypeOK /\ ProviderStep => TypeOK'
<1> SUFFICES ASSUME TypeOK, ProviderStep PROVE TypeOK'
  OBVIOUS
<1> USE DEF TypeOK, Agent, Call, Answered
<1>1. ASSUME NEW c \in Client, NEW h \in Handle \cup {NoHandle},
             NEW st \in {"ok", "error"}, Issues(c, h, st)
      PROVE  TypeOK'
  BY <1>1 DEF Issues
<1>2. ASSUME NEW c \in Client, Reissues(c) PROVE TypeOK'
  BY <1>2 DEF Reissues
<1>3. ASSUME NEW a \in Agent, CallFails(a) PROVE TypeOK'
  BY <1>3 DEF CallFails
<1>4. ASSUME NEW a \in Agent, AnswersGone(a) PROVE TypeOK'
  BY <1>4 DEF AnswersGone
<1>5. ASSUME NEW a \in Agent, NEW st \in {"ok", "error"}, Deletes(a, st)
      PROVE  TypeOK'
  BY <1>5 DEF Deletes
<1>6. ASSUME NEW h \in Handle, Expires(h) PROVE TypeOK'
  BY <1>6 DEF Expires
<1> QED
  BY <1>1, <1>2, <1>3, <1>4, <1>5, <1>6 DEF ProviderStep

\* A renewal spends only what the budget has left.
LEMMA SpendTyped ==
  ASSUME NEW l \in Lease, NEW ttl \in TTLs, ttl <= Remaining(l)
  PROVE  [l EXCEPT !.spent = @ + ttl] \in Lease
<1>1. l.spent \in 0..TotalSeconds /\ l.spent + ttl \in 0..TotalSeconds
  BY ConstantsAssumption DEF Lease, Remaining
<1> QED BY <1>1 DEF Lease

LEMMA TypeClient == ASSUME NEW c \in Client, TypeOK, ClientInv(c), ClientStep(c)
                    PROVE  TypeOK'
<1> USE ConstantsAssumption, NoLeaseAssumption DEF TypeOK, Agent, Call, Lease
<1>1. ASSUME NEW p \in Provider, NEW s \in Scope, AcquireBegin(c, p, s)
      PROVE  TypeOK'
  BY <1>1 DEF AcquireBegin, Mint
<1>2. CASE AcquireEnd(c)
  BY <1>2 DEF AcquireEnd, ClientInv, Minted, Record, Tracked, NoCall
<1>3. CASE MintRaises(c)
  BY <1>3 DEF MintRaises, NoCall
<1>4. ASSUME NEW ttl \in TTLs, RenewBegin(c, ttl) PROVE TypeOK'
  <2>1. call' \in [Agent -> Call]
    BY <1>4 DEF RenewBegin, Mint
  <2>2. draft' \in [Client -> Lease \cup {NoLease}]
    <3>1. [lease[c] EXCEPT !.spent = @ + ttl] \in Lease
      BY <1>4, SpendTyped DEF RenewBegin
    <3> QED BY <1>4, <3>1 DEF RenewBegin
  <2> QED BY <1>4, <2>1, <2>2 DEF RenewBegin
<1>5. CASE RenewSameHandle(c)
  BY <1>5 DEF RenewSameHandle, ClientInv, Minted, Record, Tracked, NoCall
<1>6. CASE RenewMinted(c)
  BY <1>6 DEF RenewMinted, ClientInv, Minted, Record, Tracked, Revoke
<1>7. CASE RenewEnd(c)
  BY <1>7 DEF RenewEnd, NoCall
<1>8. CASE ReleaseBegin(c)
  <2>1. /\ UNCHANGED <<token, ledger, registered, draft, todo, failed, recorded, swept, restarts>>
        /\ lease' \in {lease, [lease EXCEPT ![c] = NoLease]}
        /\ \E ph \in {"release", "idle"} : phase' = [phase EXCEPT ![c] = ph]
        /\ call' \in {call, [call EXCEPT ![c] = Revoke(lease[c].handle)]}
    BY <1>8 DEF ReleaseBegin
  <2>2. Revoke(lease[c].handle) \in Call
    <3>1. lease[c] \in Lease
      BY <1>8 DEF ReleaseBegin
    <3> QED BY <3>1 DEF Revoke
  <2>3. call' \in [Agent -> Call]
    BY <2>1, <2>2
  <2>4. /\ lease' \in [Client -> Lease \cup {NoLease}]
        /\ phase' \in [Agent -> {"idle", "acquire", "renew", "renewRevoke", "release",
                               "sweep", "cancelled"}]
    BY <2>1
  <2> QED BY <2>1, <2>3, <2>4
<1>9. CASE ReleaseEnd(c)
  BY <1>9 DEF ReleaseEnd, NoCall
<1>10. CASE Cancel(c)
  BY <1>10 DEF Cancel, NoCall
<1> QED
  BY <1>1, <1>2, <1>3, <1>4, <1>5, <1>6, <1>7, <1>8, <1>9, <1>10 DEF ClientStep

LEMMA TypeSweep == TypeOK /\ RevokeInv /\ (SweepBegin \/ SweepContinues) => TypeOK'
<1> SUFFICES ASSUME TypeOK, RevokeInv PROVE (SweepBegin \/ SweepContinues) => TypeOK'
  OBVIOUS
<1> USE DEF TypeOK, Agent, Call
<1>1. CASE SweepBegin
  BY <1>1 DEF SweepBegin
<1>2. ASSUME NEW h \in Handle, SweepSkip(h) PROVE TypeOK'
  BY <1>2 DEF SweepSkip
<1>3. ASSUME NEW h \in Handle, SweepRevoke(h) PROVE TypeOK'
  BY <1>3 DEF SweepRevoke, Revoke
<1>4. CASE SweepRevoked
  <2>1. ledger' \subseteq Handle /\ failed' \subseteq Handle /\ todo' \subseteq Handle
    BY <1>4 DEF SweepRevoked, RevokeInv
  <2>2. call' \in [Agent -> Call]
    BY <1>4 DEF SweepRevoked, NoCall
  <2> QED BY <1>4, <2>1, <2>2 DEF SweepRevoked
<1>5. CASE SweepEnd
  BY <1>5 DEF SweepEnd
<1> QED
  BY <1>1, <1>2, <1>3, <1>4, <1>5 DEF SweepContinues

LEMMA TypeRestart ==
  ASSUME TypeOK, NEW reg \in SUBSET Provider, Restart(reg) PROVE TypeOK'
BY ConstantsAssumption DEF TypeOK, Restart, Agent, Call, NoCall

-----------------------------------------------------------------------------
(* The invariant is inductive. *)

LEMMA InvInit == Init => IInv
BY TypeInit, ConstantsAssumption
   DEF Init, IInv, ClientInv, RevokeInv, SweeperInv, LedgerInv, NeverDropLive,
       NoCall, Agent

LEMMA InvProvider == IInv /\ ProviderStep => IInv'
<1> SUFFICES ASSUME IInv, ProviderStep PROVE IInv'
  OBVIOUS
<1>0. TypeOK'
  BY TypeProvider DEF IInv
<1> USE <1>0, ConstantsAssumption
<1> USE DEF IInv, TypeOK, Agent, ClientInv, RevokeInv, SweeperInv, LedgerInv,
            NeverDropLive, SameLedger, WellFormed, RevokeDone, Answered, Awaits
<1>1. ASSUME NEW c \in Client, NEW h \in Handle \cup {NoHandle},
             NEW st \in {"ok", "error"}, Issues(c, h, st)
      PROVE  IInv'
  <2>1. CASE draft[c].provider \in Stateful
    <3>1. \A d \in Client : ClientInv(d)'
      BY <1>1, <2>1 DEF Issues
    <3>2. (RevokeInv /\ SweeperInv)'
      BY <1>1, <2>1 DEF Issues
    <3>3. (LedgerInv /\ (SameLedger => NeverDropLive))'
      BY <1>1, <2>1 DEF Issues
    <3> QED BY <3>1, <3>2, <3>3
  <2>2. CASE draft[c].provider \notin Stateful
    <3>1. \A d \in Client : ClientInv(d)'
      BY <1>1, <2>2 DEF Issues
    <3>2. (RevokeInv /\ SweeperInv)'
      BY <1>1, <2>2 DEF Issues
    <3>3. (LedgerInv /\ (SameLedger => NeverDropLive))'
      BY <1>1, <2>2 DEF Issues
    <3> QED BY <3>1, <3>2, <3>3
  <2> QED BY <2>1, <2>2
<1>2. ASSUME NEW c \in Client, Reissues(c) PROVE IInv'
  <2>1. \A d \in Client : ClientInv(d)'
    BY <1>2 DEF Reissues
  <2>2. (RevokeInv /\ SweeperInv)'
    BY <1>2 DEF Reissues
  <2>3. (LedgerInv /\ (SameLedger => NeverDropLive))'
    BY <1>2 DEF Reissues
  <2> QED BY <2>1, <2>2, <2>3
<1>3. ASSUME NEW a \in Agent, CallFails(a) PROVE IInv'
  <2>1. \A d \in Client : ClientInv(d)'
    BY <1>3 DEF CallFails
  <2>2. (RevokeInv /\ SweeperInv)'
    BY <1>3 DEF CallFails
  <2>3. (LedgerInv /\ (SameLedger => NeverDropLive))'
    BY <1>3 DEF CallFails
  <2> QED BY <2>1, <2>2, <2>3
<1>4. ASSUME NEW a \in Agent, AnswersGone(a) PROVE IInv'
  <2>1. \A d \in Client : ClientInv(d)'
    BY <1>4 DEF AnswersGone
  <2>2. (RevokeInv /\ SweeperInv)'
    BY <1>4 DEF AnswersGone
  <2>3. (LedgerInv /\ (SameLedger => NeverDropLive))'
    BY <1>4 DEF AnswersGone
  <2> QED BY <2>1, <2>2, <2>3
<1>5. ASSUME NEW a \in Agent, NEW st \in {"ok", "error"}, Deletes(a, st)
      PROVE  IInv'
  <2>1. \A d \in Client : ClientInv(d)'
    BY <1>5 DEF Deletes
  <2>2. (RevokeInv /\ SweeperInv)'
    BY <1>5 DEF Deletes
  <2>3. (LedgerInv /\ (SameLedger => NeverDropLive))'
    BY <1>5 DEF Deletes
  <2> QED BY <2>1, <2>2, <2>3
<1>6. ASSUME NEW h \in Handle, Expires(h) PROVE IInv'
  <2>1. \A d \in Client : ClientInv(d)'
    BY <1>6 DEF Expires
  <2>2. (RevokeInv /\ SweeperInv)'
    BY <1>6 DEF Expires
  <2>3. (LedgerInv /\ (SameLedger => NeverDropLive))'
    BY <1>6 DEF Expires
  <2> QED BY <2>1, <2>2, <2>3
<1> HIDE DEF IInv
<1> QED
  BY <1>1, <1>2, <1>3, <1>4, <1>5, <1>6 DEF ProviderStep

\* The Lease built around an answered mint names a handle exactly when it should,
\* and the handle was issued.
LEMMA MintedLease ==
  ASSUME NEW c \in Client, IInv, call[c].op = "mint", call[c].status = "ok"
  PROVE  /\ WellFormed(Minted(c)) /\ Minted(c).provider = draft[c].provider
         /\ Minted(c).handle = call[c].handle
         /\ \A h \in Tracked(Minted(c)) : h \in Handle /\ token[h] # "unissued"
<1>0. ClientInv(c) /\ draft[c] \in Lease \cup {NoLease} /\ call[c] \in Call
  BY DEF IInv, TypeOK, Agent
<1>1. draft[c] \in Lease /\ call[c].handle \in Handle \cup {NoHandle}
  BY <1>0 DEF ClientInv, Call
<1>2. /\ Minted(c) \in Lease /\ Minted(c).provider = draft[c].provider
      /\ Minted(c).handle = call[c].handle
  BY <1>1 DEF Minted, Lease
<1>3. /\ draft[c].provider \in Stateful <=> call[c].handle \in Handle
      /\ call[c].handle \in Handle => token[call[c].handle] # "unissued"
  BY <1>0 DEF ClientInv
<1>4. \A h \in Tracked(Minted(c)) : h \in Handle /\ token[h] # "unissued"
  BY <1>1, <1>2, <1>3 DEF Tracked
<1> QED BY <1>2, <1>3, <1>4 DEF WellFormed

\* Recording a lease whose handle was issued keeps the ledger's part of the invariant.
LEMMA RecordKeeps ==
  ASSUME IInv, NEW l, Record(l), UNCHANGED <<token, restarts>>,
         \A h \in Tracked(l) : h \in Handle /\ token[h] # "unissued"
  PROVE  (LedgerInv /\ (SameLedger => NeverDropLive))'
BY DEF IInv, LedgerInv, NeverDropLive, SameLedger, Record

LEMMA InvClient == ASSUME NEW c \in Client, IInv, ClientStep(c) PROVE IInv'
<1>0. TypeOK'
  BY TypeClient DEF IInv
<1> USE <1>0, ConstantsAssumption, NoLeaseAssumption
<1> USE DEF IInv, TypeOK, Agent, ClientInv, RevokeInv, SweeperInv, LedgerInv,
            NeverDropLive, SameLedger, WellFormed, RevokeDone, Lease
<1>1. ASSUME NEW p \in Provider, NEW s \in Scope, AcquireBegin(c, p, s)
      PROVE  IInv'
  <2>1. \A d \in Client : ClientInv(d)'
    BY <1>1 DEF AcquireBegin, Mint
  <2>2. (RevokeInv /\ SweeperInv)'
    BY <1>1 DEF AcquireBegin, Mint
  <2>3. (LedgerInv /\ (SameLedger => NeverDropLive))'
    BY <1>1 DEF AcquireBegin, Mint
  <2> QED BY <2>1, <2>2, <2>3
<1>2. CASE AcquireEnd(c)
  <2>0. call[c].op = "mint" /\ call[c].status = "ok" /\ UNCHANGED <<token, restarts>>
    BY <1>2 DEF AcquireEnd
  <2>1. \A d \in Client : ClientInv(d)'
    <3>1. WellFormed(Minted(c))
      BY <2>0, MintedLease
    <3>2. /\ lease' = [lease EXCEPT ![c] = Minted(c)] /\ draft' = [draft EXCEPT ![c] = NoLease]
          /\ call' = [call EXCEPT ![c] = NoCall] /\ phase' = [phase EXCEPT ![c] = "idle"]
      BY <1>2 DEF AcquireEnd
    <3> QED BY <2>0, <3>1, <3>2 DEF NoCall
  <2>2. (RevokeInv /\ SweeperInv)'
    BY <1>2 DEF AcquireEnd, NoCall
  <2>3. (LedgerInv /\ (SameLedger => NeverDropLive))'
    BY <1>2, <2>0, MintedLease, RecordKeeps DEF AcquireEnd
  <2> QED BY <2>1, <2>2, <2>3
<1>3. CASE MintRaises(c)
  <2>1. \A d \in Client : ClientInv(d)'
    BY <1>3 DEF MintRaises, NoCall
  <2>2. (RevokeInv /\ SweeperInv)'
    BY <1>3 DEF MintRaises, NoCall
  <2>3. (LedgerInv /\ (SameLedger => NeverDropLive))'
    BY <1>3 DEF MintRaises, NoCall
  <2> QED BY <2>1, <2>2, <2>3
<1>4. ASSUME NEW ttl \in TTLs, RenewBegin(c, ttl) PROVE IInv'
  <2>0. draft'[c] # NoLease /\ draft'[c].provider = lease[c].provider
    <3>1. draft'[c] = [lease[c] EXCEPT !.spent = @ + ttl] /\ lease[c] \in Lease
      BY <1>4 DEF RenewBegin
    <3>2. draft'[c].provider = lease[c].provider
      BY <3>1
    <3>3. draft'[c] \in Lease
      BY <1>4, <3>1, SpendTyped DEF RenewBegin
    <3> QED BY <3>2, <3>3
  <2>1. \A d \in Client : ClientInv(d)'
    BY <1>4, <2>0 DEF RenewBegin, Mint
  <2>2. (RevokeInv /\ SweeperInv /\ LedgerInv /\ (SameLedger => NeverDropLive))'
    BY <1>4 DEF RenewBegin, Mint
  <2> QED BY <2>1, <2>2
<1>5. CASE RenewSameHandle(c)
  <2>0. call[c].op = "mint" /\ call[c].status = "ok" /\ UNCHANGED <<token, restarts>>
    BY <1>5 DEF RenewSameHandle
  <2>1. \A d \in Client : ClientInv(d)'
    <3>1. WellFormed(Minted(c))
      BY <2>0, MintedLease
    <3>2. /\ lease' = [lease EXCEPT ![c] = Minted(c)] /\ draft' = [draft EXCEPT ![c] = NoLease]
          /\ call' = [call EXCEPT ![c] = NoCall] /\ phase' = [phase EXCEPT ![c] = "idle"]
      BY <1>5 DEF RenewSameHandle
    <3> QED BY <2>0, <3>1, <3>2 DEF NoCall
  <2>2. (RevokeInv /\ SweeperInv)'
    BY <1>5 DEF RenewSameHandle, NoCall
  <2>3. (LedgerInv /\ (SameLedger => NeverDropLive))'
    BY <1>5, <2>0, MintedLease, RecordKeeps DEF RenewSameHandle
  <2> QED BY <2>1, <2>2, <2>3
<1>6. CASE RenewMinted(c)
  <2>0. WellFormed(draft'[c])
    <3>1. call[c].op = "mint" /\ call[c].status = "ok" /\ draft'[c] = Minted(c)
      BY <1>6 DEF RenewMinted
    <3> QED BY <3>1, MintedLease
  <2>1. \A d \in Client : ClientInv(d)'
    BY <1>6, <2>0 DEF RenewMinted, Revoke
  <2>2. (RevokeInv /\ SweeperInv)'
    <3>1. lease[c].handle \in Handle
      BY <1>6 DEF RenewMinted, Call
    <3> QED BY <1>6, <3>1 DEF RenewMinted, Revoke
  <2>3. (LedgerInv /\ (SameLedger => NeverDropLive))'
    <3>1. call[c].op = "mint" /\ call[c].status = "ok" /\ UNCHANGED <<token, restarts>>
      BY <1>6 DEF RenewMinted
    <3> QED BY <1>6, <3>1, MintedLease, RecordKeeps DEF RenewMinted
  <2> QED BY <2>1, <2>2, <2>3
<1>7. CASE RenewEnd(c)
  <2>1. \A d \in Client : ClientInv(d)'
    BY <1>7 DEF RenewEnd, NoCall
  <2>2. (RevokeInv /\ SweeperInv)'
    BY <1>7 DEF RenewEnd, NoCall
  <2>3. (LedgerInv /\ (SameLedger => NeverDropLive))'
    BY <1>7 DEF RenewEnd, NoCall
  <2> QED BY <2>1, <2>2, <2>3
<1>8. CASE ReleaseBegin(c)
  <2>1. CASE lease[c].provider \in Stateful
    <3>1. \A d \in Client : ClientInv(d)'
      BY <1>8, <2>1 DEF ReleaseBegin, Revoke
    <3>2. (RevokeInv /\ SweeperInv)'
      BY <1>8, <2>1 DEF ReleaseBegin, Revoke
    <3>3. (LedgerInv /\ (SameLedger => NeverDropLive))'
      BY <1>8, <2>1 DEF ReleaseBegin, Revoke
    <3> QED BY <3>1, <3>2, <3>3
  <2>2. CASE lease[c].provider \notin Stateful
    <3>1. \A d \in Client : ClientInv(d)'
      BY <1>8, <2>2 DEF ReleaseBegin
    <3>2. (RevokeInv /\ SweeperInv)'
      BY <1>8, <2>2 DEF ReleaseBegin
    <3>3. (LedgerInv /\ (SameLedger => NeverDropLive))'
      BY <1>8, <2>2 DEF ReleaseBegin
    <3> QED BY <3>1, <3>2, <3>3
  <2> QED BY <2>1, <2>2
<1>9. CASE ReleaseEnd(c)
  <2>1. \A d \in Client : ClientInv(d)'
    BY <1>9 DEF ReleaseEnd, NoCall
  <2>2. (RevokeInv /\ SweeperInv)'
    BY <1>9 DEF ReleaseEnd, NoCall
  <2>3. (LedgerInv /\ (SameLedger => NeverDropLive))'
    BY <1>9 DEF ReleaseEnd, NoCall
  <2> QED BY <2>1, <2>2, <2>3
<1>10. CASE Cancel(c)
  <2>1. \A d \in Client : ClientInv(d)'
    BY <1>10 DEF Cancel, NoCall
  <2>2. (RevokeInv /\ SweeperInv)'
    BY <1>10 DEF Cancel, NoCall
  <2>3. (LedgerInv /\ (SameLedger => NeverDropLive))'
    BY <1>10 DEF Cancel, NoCall
  <2> QED BY <2>1, <2>2, <2>3
<1> QED
  BY <1>1, <1>2, <1>3, <1>4, <1>5, <1>6, <1>7, <1>8, <1>9, <1>10 DEF ClientStep

LEMMA InvSweep == IInv /\ (SweepBegin \/ SweepContinues) => IInv'
<1> SUFFICES ASSUME IInv, SweepBegin \/ SweepContinues PROVE IInv'
  OBVIOUS
<1>0. TypeOK'
  BY TypeSweep DEF IInv
<1> USE <1>0, ConstantsAssumption
<1> USE DEF IInv, TypeOK, Agent, ClientInv, RevokeInv, SweeperInv, LedgerInv,
            NeverDropLive, SameLedger, WellFormed, RevokeDone
<1>1. CASE SweepBegin
  <2>1. \A d \in Client : ClientInv(d)'
    BY <1>1 DEF SweepBegin
  <2>2. (RevokeInv /\ SweeperInv)'
    BY <1>1 DEF SweepBegin
  <2>3. (LedgerInv /\ (SameLedger => NeverDropLive))'
    BY <1>1 DEF SweepBegin
  <2> QED BY <2>1, <2>2, <2>3
<1>2. ASSUME NEW h \in Handle, SweepSkip(h) PROVE IInv'
  <2>1. \A d \in Client : ClientInv(d)'
    BY <1>2 DEF SweepSkip
  <2>2. (RevokeInv /\ SweeperInv)'
    BY <1>2 DEF SweepSkip
  <2>3. (LedgerInv /\ (SameLedger => NeverDropLive))'
    BY <1>2 DEF SweepSkip
  <2> QED BY <2>1, <2>2, <2>3
<1>3. ASSUME NEW h \in Handle, SweepRevoke(h) PROVE IInv'
  <2>1. \A d \in Client : ClientInv(d)'
    BY <1>3 DEF SweepRevoke, Revoke
  <2>2. (RevokeInv /\ SweeperInv)'
    BY <1>3 DEF SweepRevoke, Revoke
  <2>3. (LedgerInv /\ (SameLedger => NeverDropLive))'
    BY <1>3 DEF SweepRevoke, Revoke
  <2> QED BY <2>1, <2>2, <2>3
<1>4. CASE SweepRevoked
  <2>1. \A d \in Client : ClientInv(d)'
    BY <1>4 DEF SweepRevoked, NoCall
  <2>2. (RevokeInv /\ SweeperInv)'
    BY <1>4 DEF SweepRevoked, NoCall
  <2>3. (LedgerInv /\ (SameLedger => NeverDropLive))'
    BY <1>4 DEF SweepRevoked, NoCall
  <2> QED BY <2>1, <2>2, <2>3
<1>5. CASE SweepEnd
  <2>1. \A d \in Client : ClientInv(d)'
    BY <1>5 DEF SweepEnd
  <2>2. (RevokeInv /\ SweeperInv)'
    BY <1>5 DEF SweepEnd
  <2>3. (LedgerInv /\ (SameLedger => NeverDropLive))'
    BY <1>5 DEF SweepEnd
  <2> QED BY <2>1, <2>2, <2>3
<1> QED
  BY <1>1, <1>2, <1>3, <1>4, <1>5 DEF SweepContinues

LEMMA InvRestart == ASSUME IInv, NEW reg \in SUBSET Provider, Restart(reg) PROVE IInv'
<1>1. TypeOK'
  BY TypeRestart DEF IInv
<1> QED
  BY <1>1, ConstantsAssumption
     DEF IInv, SameLedger, TypeOK, Restart, ClientInv, RevokeInv, SweeperInv, LedgerInv, NeverDropLive,
         NoCall, Agent

LEMMA InvStutter == IInv /\ UNCHANGED vars => IInv'
BY DEF IInv, vars, TypeOK, ClientInv, RevokeInv, SweeperInv, LedgerInv,
       NeverDropLive, SameLedger, WellFormed, RevokeDone

\* The strengthening that carries the theorems below: phases, pending calls and
\* Lease objects agree, and an answered revoke is about a dead token.
THEOREM Invariance == Spec => []IInv
<1>1. IInv /\ [Next]_vars => IInv'
  BY InvProvider, InvClient, InvSweep, InvRestart, InvStutter DEF Next, IInv
<1> QED
  BY InvInit, <1>1, PTL DEF Spec

\* Every reachable state of the broker is well typed; in particular no renewal
\* ever spends more than the approved budget.
THEOREM TypeCorrect == Spec => []TypeOK
<1>1. IInv => TypeOK
  BY DEF IInv
<1> QED
  BY Invariance, <1>1, PTL

\* The ledger misses a live stateful token it ever held only after a restart that did
\* not hand it on: no interleaving of clients and sweeps, no lost answer and no
\* cancellation makes the broker drop one.
THEOREM DropNeedsLostLedger == Spec => [](SameLedger => NeverDropLive)
<1>1. IInv => (SameLedger => NeverDropLive)
  BY DEF IInv
<1> QED
  BY Invariance, <1>1, PTL

\* So within one process, and across restarts if the deployment hands on the ledger,
\* the broker never drops a live stateful token.
THEOREM NeverDropLiveHolds == OneLedger => (Spec => []NeverDropLive)
<1> SUFFICES ASSUME OneLedger PROVE Spec => []NeverDropLive
  OBVIOUS
<1>1. IInv => NeverDropLive
  BY ConstantsAssumption DEF IInv, TypeOK, OneLedger, SameLedger
<1> QED
  BY Invariance, <1>1, PTL

-----------------------------------------------------------------------------
(* Held leases *)

\* The token of a replacement: minted, and not yet the lease of its client.
Fresh(c, h) ==
  \/ phase[c] = "renewRevoke" /\ draft[c].handle = h
  \/ call[c].op = "mint" /\ call[c].status = "ok" /\ call[c].handle = h

Holds(c, h) == (lease[c] # NoLease /\ lease[c].handle = h) \/ Fresh(c, h)

\* What a client holds and no call of its own is about to revoke.
Keeps(c, h) ==
  \/ phase[c] \in {"idle", "acquire", "renew"} /\ lease[c] # NoLease /\ lease[c].handle = h
  \/ Fresh(c, h)

\* A token has one holder, was issued before it is held, and dies in the hands of
\* its holder only by a sweep; the holder revokes a token it has replaced.
HeldInv ==
  /\ \A c, d \in Client, h \in Handle : Holds(c, h) /\ Holds(d, h) => c = d
  /\ \A c \in Client, h \in Handle : Holds(c, h) => token[h] # "unissued"
  /\ \A c \in Client, h \in Handle : Keeps(c, h) /\ token[h] = "revoked" => h \in swept
  /\ \A c \in Client : phase[c] = "renewRevoke" => draft[c].handle # lease[c].handle
  /\ todo \subseteq swept
  /\ call[Sweeper].op = "revoke" => call[Sweeper].handle \in swept

\* No step of a client gives it, or another client, a token it did not have: its
\* tokens come from the provider's answers.
LEMMA ClientGainsNothing ==
  ASSUME IInv, NEW c \in Client, ClientStep(c), NEW d \in Client, NEW h \in Handle
  PROVE  /\ Holds(d, h)' => Holds(d, h)
         /\ Keeps(d, h)' => Keeps(d, h)
<1> USE ConstantsAssumption, NoLeaseAssumption DEF Holds, Keeps, Fresh
<1>0. ClientInv(c) /\ TypeOK /\ c \in Agent /\ d \in Agent
  BY DEF IInv, Agent
<1>1. CASE c # d
  <2>1. /\ phase'[d] = phase[d] /\ call'[d] = call[d]
        /\ lease'[d] = lease[d] /\ draft'[d] = draft[d]
    BY <1>0, <1>1 DEF ClientStep, AcquireBegin, AcquireEnd, MintRaises, RenewBegin,
         RenewSameHandle, RenewMinted, RenewEnd, ReleaseBegin, ReleaseEnd, Cancel, TypeOK
  <2> QED BY <2>1
<1>2. CASE c = d
  <2> USE <1>0, <1>2 DEF TypeOK, Agent
  <2>1. ASSUME NEW p \in Provider, NEW s \in Scope, AcquireBegin(c, p, s)
        PROVE  (Holds(c, h)' => Holds(c, h)) /\ (Keeps(c, h)' => Keeps(c, h))
    BY <2>1 DEF AcquireBegin, Mint
  <2>2. CASE AcquireEnd(c) \/ RenewSameHandle(c)
    <3>1. Minted(c).handle = call[c].handle /\ call[c].op = "mint" /\ call[c].status = "ok"
      BY <2>2 DEF Minted, ClientInv, AcquireEnd, RenewSameHandle, Lease
    <3>2. /\ lease'[c] = Minted(c) /\ call'[c] = NoCall /\ phase'[c] = "idle"
      BY <2>2 DEF AcquireEnd, RenewSameHandle
    <3> QED BY <3>1, <3>2 DEF NoCall
  <2>3. CASE MintRaises(c)
    BY <2>3 DEF MintRaises, NoCall
  <2>4. ASSUME NEW ttl \in TTLs, RenewBegin(c, ttl)
        PROVE  (Holds(c, h)' => Holds(c, h)) /\ (Keeps(c, h)' => Keeps(c, h))
    BY <2>4 DEF RenewBegin, Mint
  <2>5. CASE RenewMinted(c)
    <3>1. Minted(c).handle = call[c].handle /\ call[c].op = "mint" /\ call[c].status = "ok"
      BY <2>5 DEF Minted, ClientInv, RenewMinted, Lease
    <3>2. /\ draft'[c] = Minted(c) /\ lease'[c] = lease[c]
          /\ call'[c] = Revoke(lease[c].handle) /\ phase'[c] = "renewRevoke"
      BY <2>5 DEF RenewMinted
    <3> QED BY <3>1, <3>2 DEF Revoke
  <2>6. CASE RenewEnd(c)
    BY <2>6 DEF RenewEnd, NoCall
  <2>7. CASE ReleaseBegin(c)
    <3>1. call[c].op = "none"
      BY <2>7 DEF ReleaseBegin, ClientInv
    <3>2. CASE lease[c].provider \in Stateful
      BY <2>7, <3>2 DEF ReleaseBegin, Revoke
    <3>3. CASE lease[c].provider \notin Stateful
      BY <2>7, <3>1, <3>3 DEF ReleaseBegin
    <3> QED BY <3>2, <3>3
  <2>8. CASE ReleaseEnd(c)
    BY <2>8 DEF ReleaseEnd, NoCall
  <2>9. CASE Cancel(c)
    BY <2>9 DEF Cancel, NoCall
  <2> QED BY <2>1, <2>2, <2>3, <2>4, <2>5, <2>6, <2>7, <2>8, <2>9 DEF ClientStep
<1> QED BY <1>1, <1>2

LEMMA HeldClient == ASSUME IInv, HeldInv, NEW c \in Client, ClientStep(c) PROVE HeldInv'
<1> USE ConstantsAssumption
<1>0. \A d \in Client, h \in Handle : /\ Holds(d, h)' => Holds(d, h)
                                      /\ Keeps(d, h)' => Keeps(d, h)
  BY ClientGainsNothing
<1>1. UNCHANGED <<token, swept, todo>> /\ call'[Sweeper] = call[Sweeper]
  BY DEF ClientStep, AcquireBegin, AcquireEnd, MintRaises, RenewBegin, RenewSameHandle,
         RenewMinted, RenewEnd, ReleaseBegin, ReleaseEnd, Cancel, IInv, TypeOK, Agent
<1>2. \A d \in Client : (phase[d] = "renewRevoke" => draft[d].handle # lease[d].handle)'
  <2>1. CASE RenewMinted(c)
    BY <2>1 DEF RenewMinted, Minted, IInv, TypeOK, ClientInv, Lease, HeldInv, Agent
  <2>2. CASE ~RenewMinted(c)
    BY <2>2 DEF ClientStep, AcquireBegin, AcquireEnd, MintRaises, RenewBegin, RenewSameHandle,
         RenewEnd, ReleaseBegin, ReleaseEnd, Cancel, IInv, TypeOK, Agent, HeldInv
  <2> QED BY <2>1, <2>2
<1> QED BY <1>0, <1>1, <1>2 DEF HeldInv

LEMMA HeldProvider == ASSUME IInv, HeldInv, ProviderStep PROVE HeldInv'
<1> USE ConstantsAssumption
<1>0. /\ UNCHANGED <<lease, draft, phase, todo, swept>>
      /\ \A c \in Client : ClientInv(c)
      /\ TypeOK
  BY DEF ProviderStep, Issues, Reissues, CallFails, AnswersGone, Deletes, Expires, IInv
<1>1. ASSUME NEW c \in Client, NEW h \in Handle \cup {NoHandle},
             NEW st \in {"ok", "error"}, Issues(c, h, st)
      PROVE  HeldInv'
  <2>1. \A d \in Client, k \in Handle :
          /\ Holds(d, k)' => Holds(d, k) \/ (d = c /\ k = h)
          /\ Keeps(d, k)' => Keeps(d, k) \/ (d = c /\ k = h)
    BY <1>0, <1>1 DEF Issues, Answered, Awaits, Holds, Keeps, Fresh, TypeOK, Agent
  <2>2. /\ \A k \in Handle : k # h => token'[k] = token[k]
        /\ h \in Handle => token[h] = "unissued" /\ token'[h] = "live"
        /\ call'[Sweeper] = call[Sweeper]
    BY <1>0, <1>1 DEF Issues, TypeOK, Agent
  <2> QED BY <1>0, <2>1, <2>2 DEF HeldInv
<1>2. ASSUME NEW c \in Client, Reissues(c) PROVE HeldInv'
  <2>1. \A d \in Client, k \in Handle : /\ Holds(d, k)' => Holds(d, k)
                                        /\ Keeps(d, k)' => Keeps(d, k)
    <3>1. lease[c] # NoLease /\ phase[c] = "renew"
      BY <1>0, <1>2 DEF Reissues, ClientInv
    <3> QED BY <1>0, <1>2, <3>1 DEF Reissues, Answered, Awaits, Holds, Keeps, Fresh, TypeOK, Agent
  <2>2. UNCHANGED token /\ call'[Sweeper] = call[Sweeper]
    BY <1>0, <1>2 DEF Reissues, TypeOK, Agent
  <2> QED BY <1>0, <2>1, <2>2 DEF HeldInv
<1>3. ASSUME NEW a \in Agent, CallFails(a) \/ AnswersGone(a) PROVE HeldInv'
  <2>1. /\ \A d \in Client, k \in Handle : /\ Holds(d, k)' => Holds(d, k)
                                           /\ Keeps(d, k)' => Keeps(d, k)
        /\ UNCHANGED token
    BY <1>0, <1>3 DEF CallFails, AnswersGone, Awaits, Answered, Holds, Keeps, Fresh, TypeOK, Agent
  <2>2. call'[Sweeper].op = call[Sweeper].op /\ call'[Sweeper].handle = call[Sweeper].handle
    BY <1>0, <1>3 DEF CallFails, AnswersGone, Answered, TypeOK, Agent
  <2> QED BY <1>0, <2>1, <2>2 DEF HeldInv
<1>4. ASSUME NEW a \in Agent, NEW st \in {"ok", "error"}, Deletes(a, st)
      PROVE  HeldInv'
  <2> DEFINE h == call[a].handle
  <2>1. /\ h \in Handle /\ call[a].op = "revoke"
        /\ token' = [token EXCEPT ![h] = "revoked"] /\ token[h] \in {"live", "expired"}
    BY <1>4 DEF Deletes, Awaits, IInv, RevokeInv
  <2>2. \A d \in Client, k \in Handle : /\ Holds(d, k)' => Holds(d, k)
                                        /\ Keeps(d, k)' => Keeps(d, k)
    BY <1>0, <1>4 DEF Deletes, Awaits, Answered, Holds, Keeps, Fresh, TypeOK, Agent
  <2>3. call'[Sweeper].op = call[Sweeper].op /\ call'[Sweeper].handle = call[Sweeper].handle
    BY <1>0, <1>4 DEF Deletes, Answered, TypeOK, Agent
  <2>4. CASE a = Sweeper
    BY <1>0, <2>1, <2>2, <2>3, <2>4 DEF HeldInv, TypeOK
  <2>5. CASE a \in Client
    <3>1. /\ phase[a] \in {"renewRevoke", "release"}
          /\ lease[a] # NoLease /\ h = lease[a].handle
      BY <1>0, <2>1, <2>5 DEF ClientInv
    <3>2. Holds(a, h) /\ ~Keeps(a, h)
      BY <2>1, <2>5, <3>1 DEF Holds, Keeps, Fresh, HeldInv
    <3>3. \A d \in Client : ~Keeps(d, h)
      BY <2>1, <2>5, <3>2 DEF HeldInv, Keeps, Holds
    <3> QED BY <1>0, <2>1, <2>2, <2>3, <3>3 DEF HeldInv, TypeOK
  <2> QED BY <2>4, <2>5 DEF Agent
<1>5. ASSUME NEW h \in Handle, Expires(h) PROVE HeldInv'
  <2>1. /\ token' = [token EXCEPT ![h] = "expired"] /\ UNCHANGED call
    BY <1>5 DEF Expires
  <2> QED BY <1>0, <2>1 DEF HeldInv, TypeOK, Holds, Keeps, Fresh
<1> QED BY <1>1, <1>2, <1>3, <1>4, <1>5 DEF ProviderStep

LEMMA HeldSweep == ASSUME IInv, HeldInv, SweepBegin \/ SweepContinues PROVE HeldInv'
<1> USE ConstantsAssumption
<1>1. \A d \in Client : /\ call'[d] = call[d] /\ phase'[d] = phase[d]
                        /\ lease'[d] = lease[d] /\ draft'[d] = draft[d]
  BY DEF SweepBegin, SweepContinues, SweepSkip, SweepRevoke, SweepRevoked, SweepEnd, IInv,
         TypeOK, Agent
<1>2. \A d \in Client, k \in Handle : (Holds(d, k)' <=> Holds(d, k)) /\ (Keeps(d, k)' <=> Keeps(d, k))
  BY <1>1 DEF Holds, Keeps, Fresh
<1>3. UNCHANGED token /\ swept \subseteq swept' /\ todo' \subseteq swept'
  BY DEF SweepBegin, SweepContinues, SweepSkip, SweepRevoke, SweepRevoked, SweepEnd, HeldInv
<1>4. call'[Sweeper].op = "revoke" => call'[Sweeper].handle \in swept'
  BY DEF SweepBegin, SweepContinues, SweepSkip, SweepRevoke, SweepRevoked, SweepEnd, HeldInv,
         IInv, TypeOK, Agent, Revoke, NoCall
<1> QED BY <1>1, <1>2, <1>3, <1>4 DEF HeldInv

LEMMA HeldInvariance == Spec => []HeldInv
<1>1. Init => HeldInv
  BY ConstantsAssumption DEF Init, HeldInv, Holds, Keeps, Fresh, NoCall, Agent
<1>2. IInv /\ HeldInv /\ [Next]_vars => HeldInv'
  <2> SUFFICES ASSUME IInv, HeldInv, [Next]_vars PROVE HeldInv'
    OBVIOUS
  <2>1. ASSUME NEW reg \in SUBSET Provider, Restart(reg) PROVE HeldInv'
    BY <2>1, ConstantsAssumption
       DEF Restart, HeldInv, Holds, Keeps, Fresh, NoCall, Agent
  <2>2. CASE UNCHANGED vars
    BY <2>2 DEF vars, HeldInv, Holds, Keeps, Fresh
  <2> QED BY <2>1, <2>2, HeldProvider, HeldClient, HeldSweep DEF Next
<1> QED BY <1>1, <1>2, Invariance, PTL DEF Spec

\* renew() mints before it revokes, revokes the old token and never the new, and
\* is the only holder of either: however renewals, releases, cancellations, lost
\* answers and restarts interleave, only a sweep takes a token away from a client.
THEOREM HeldLeaseNotRevokedHolds == Spec => []HeldLeaseNotRevoked
<1>1. IInv /\ HeldInv => HeldLeaseNotRevoked
  <2> SUFFICES ASSUME IInv, HeldInv, NEW c \in Client,
                      phase[c] \in {"idle", "acquire", "renew"}, lease[c] # NoLease,
                      lease[c].handle # NoHandle, token[lease[c].handle] = "revoked"
               PROVE  lease[c].handle \in swept
    BY DEF HeldLeaseNotRevoked
  <2>1. lease[c].handle \in Handle
    BY DEF IInv, TypeOK, Lease
  <2> QED BY <2>1 DEF HeldInv, Keeps
<1> QED BY <1>1, HeldInvariance, Invariance, PTL

-----------------------------------------------------------------------------
(* Refinement *)

LEMMA CustodyStutter ==
  ASSUME UNCHANGED <<token, ledger>> PROVE UNCHANGED Custody!vars
BY DEF Custody!vars, Fate

\* Recording a lease whose token was issued is a Track step or a stutter.
LEMMA CustodyTrack ==
  ASSUME IInv, NEW l \in Lease, Record(l), UNCHANGED token,
         l.handle \in Handle => token[l.handle] # "unissued"
  PROVE  [Custody!Next]_(Custody!vars)
<1>1. CASE l.handle \in Handle /\ l.provider \in Stateful
  <2>1. Custody!Track(l.handle)
    BY <1>1, ConstantsAssumption
       DEF Record, Tracked, Custody!Track, Fate, IInv, TypeOK
  <2> QED BY <1>1, <2>1 DEF Custody!Next
<1>2. CASE ~(l.handle \in Handle /\ l.provider \in Stateful)
  BY <1>2, CustodyStutter DEF Record, Tracked, Lease
<1> QED BY <1>1, <1>2

\* Forgetting after an answered revoke is a Drop step or a stutter.
LEMMA CustodyDrop ==
  ASSUME IInv, NEW a \in Agent, call[a].op = "revoke", UNCHANGED token,
         ledger' = IF RevokeDone(call[a].status)
                   THEN ledger \ {call[a].handle} ELSE ledger
  PROVE  [Custody!Next]_(Custody!vars)
<1>1. CASE RevokeDone(call[a].status)
  <2>1. call[a].handle \in Handle /\ Custody!Drop(call[a].handle)
    BY <1>1 DEF IInv, RevokeInv, TypeOK, Custody!Drop, Fate
  <2> QED BY <2>1 DEF Custody!Next
<1>2. CASE ~RevokeDone(call[a].status)
  BY <1>2, CustodyStutter
<1> QED BY <1>1, <1>2

LEMMA CustodyStep ==
  ASSUME OneLedger, IInv, [Next]_vars PROVE [Custody!Next]_(Custody!vars)
<1> USE ConstantsAssumption, NoLeaseAssumption
<1>1. CASE ProviderStep
  <2> USE DEF IInv, TypeOK
  <2>1. ASSUME NEW c \in Client, NEW h \in Handle \cup {NoHandle},
               NEW st \in {"ok", "error"}, Issues(c, h, st)
        PROVE  [Custody!Next]_(Custody!vars)
    <3>1. CASE draft[c].provider \in Stateful
      <4>1. h \in Handle /\ Custody!Issue(h)
        BY <2>1, <3>1 DEF Issues, Custody!Issue, Fate
      <4> QED BY <4>1 DEF Custody!Next
    <3>2. CASE draft[c].provider \notin Stateful
      BY <2>1, <3>2, CustodyStutter DEF Issues
    <3> QED BY <3>1, <3>2
  <2>2. ASSUME NEW c \in Client, Reissues(c) PROVE UNCHANGED Custody!vars
    BY <2>2, CustodyStutter DEF Reissues
  <2>3. ASSUME NEW a \in Agent, CallFails(a) \/ AnswersGone(a)
        PROVE  UNCHANGED Custody!vars
    BY <2>3, CustodyStutter DEF CallFails, AnswersGone
  <2>4. ASSUME NEW a \in Agent, NEW st \in {"ok", "error"}, Deletes(a, st)
        PROVE  [Custody!Next]_(Custody!vars)
    <3> DEFINE h == call[a].handle
    <3>0. h \in Handle
      BY <2>4 DEF Deletes, Awaits, RevokeInv
    <3>1. CASE token[h] = "live"
      <4>1. Custody!Die(h)
        BY <2>4, <3>0, <3>1 DEF Deletes, Custody!Die, Fate
      <4> QED BY <3>0, <4>1 DEF Custody!Next
    <3>2. CASE token[h] = "expired"
      BY <2>4, <3>0, <3>2 DEF Deletes, Fate, Custody!vars
    <3> QED BY <2>4, <3>1, <3>2 DEF Deletes
  <2>5. ASSUME NEW h \in Handle, Expires(h) PROVE [Custody!Next]_(Custody!vars)
    <3>1. Custody!Die(h)
      BY <2>5 DEF Expires, Custody!Die, Fate
    <3> QED BY <3>1 DEF Custody!Next
  <2> QED
    BY <1>1, <2>1, <2>2, <2>3, <2>4, <2>5 DEF ProviderStep
<1>2. ASSUME NEW c \in Client, ClientStep(c) PROVE [Custody!Next]_(Custody!vars)
  <2>0. ClientInv(c) /\ c \in Agent
    BY DEF IInv, Agent
  <2>1. ASSUME AcquireEnd(c) \/ RenewSameHandle(c) \/ RenewMinted(c)
        PROVE  [Custody!Next]_(Custody!vars)
    <3>1. /\ draft[c] \in Lease
          /\ Record(Minted(c))
          /\ UNCHANGED token
      BY <2>0, <2>1 DEF AcquireEnd, RenewSameHandle, RenewMinted, ClientInv, IInv, TypeOK
    <3>2. /\ call[c].handle \in Handle \cup {NoHandle}
          /\ call[c].handle \in Handle => token[call[c].handle] # "unissued"
      BY <2>0, <2>1 DEF AcquireEnd, RenewSameHandle, RenewMinted, ClientInv, IInv,
                        TypeOK, Call
    <3>3. Minted(c) \in Lease /\ Minted(c).handle = call[c].handle
      BY <3>1, <3>2 DEF Minted, Lease
    <3> QED BY <3>1, <3>2, <3>3, CustodyTrack
  <2>2. ASSUME RenewEnd(c) \/ ReleaseEnd(c) PROVE [Custody!Next]_(Custody!vars)
    <3>1. call[c].op = "revoke" /\ call[c].handle = lease[c].handle
      BY <2>0, <2>2 DEF RenewEnd, ReleaseEnd, ClientInv
    <3> QED BY <2>0, <2>2, <3>1, CustodyDrop DEF RenewEnd, ReleaseEnd
  <2>3. ASSUME \/ \E p \in Provider, s \in Scope : AcquireBegin(c, p, s)
               \/ \E ttl \in TTLs : RenewBegin(c, ttl)
               \/ MintRaises(c) \/ ReleaseBegin(c) \/ Cancel(c)
        PROVE  UNCHANGED Custody!vars
    BY <2>3, CustodyStutter
       DEF AcquireBegin, RenewBegin, MintRaises, ReleaseBegin, Cancel
  <2> QED
    BY <1>2, <2>1, <2>2, <2>3 DEF ClientStep
<1>3. CASE SweepRevoked
  <2>1. Sweeper \in Agent /\ call[Sweeper].op = "revoke"
    BY <1>3 DEF SweepRevoked, Agent
  <2> QED BY <1>3, <2>1, CustodyDrop DEF SweepRevoked
<1>4. ASSUME \/ SweepBegin \/ SweepEnd
             \/ \E h \in Handle : SweepSkip(h) \/ SweepRevoke(h)
      PROVE  UNCHANGED Custody!vars
  BY <1>4, CustodyStutter DEF SweepBegin, SweepEnd, SweepSkip, SweepRevoke
<1>5. ASSUME NEW reg \in SUBSET Provider, Restart(reg) PROVE UNCHANGED Custody!vars
  BY <1>5, CustodyStutter DEF Restart, OneLedger, IInv, TypeOK
<1>6. CASE UNCHANGED vars
  BY <1>6, CustodyStutter DEF vars
<1> QED
  BY <1>1, <1>2, <1>3, <1>4, <1>5, <1>6 DEF Next, SweepContinues

\* The broker implements TokenCustody: a token is issued once, dies once, and is
\* dropped from the ledger only when dead, for every set of clients and providers,
\* within one process or with a ledger that is handed on.
THEOREM CustodyRefinement == OneLedger => (Spec => ImplementsCustody)
<1> SUFFICES ASSUME OneLedger PROVE Spec => ImplementsCustody
  OBVIOUS
<1>1. Init => Custody!Init
  BY DEF Init, Custody!Init, Fate
<1>2. IInv /\ [Next]_vars => [Custody!Next]_(Custody!vars)
  BY CustodyStep
<1> QED
  BY <1>1, <1>2, Invariance, PTL DEF Spec, ImplementsCustody, Custody!Spec

-----------------------------------------------------------------------------
(* What a client holds is tracked, even after a restart that lost the ledger *)

\* The Lease object of client c, or the replacement its renewal has built, names h.
Named(c, h) ==
  \/ lease[c] # NoLease /\ lease[c].handle = h
  \/ phase[c] = "renewRevoke" /\ draft[c].handle = h

\* A live token some client could still use is in the ledger, so the next sweep
\* finds it: what the ledger misses are tokens nobody holds (a mint whose answer
\* never came or was cancelled, the leases of a process that lost its ledger).
HeldIsTracked ==
  \A c \in Client, h \in Handle : Named(c, h) /\ token[h] = "live" => h \in ledger

\* Forgetting a token without proof of its death takes a process death.
DropsOnlyDead ==
  \/ \E reg \in SUBSET Provider : Restart(reg)
  \/ \A h \in ledger : h \notin ledger' => token[h] \in {"expired", "revoked"}


LEMMA StepDropsDead ==
  ASSUME IInv, Next, ~\E reg \in SUBSET Provider : Restart(reg),
         NEW h \in ledger, h \notin ledger'
  PROVE  token[h] \in {"expired", "revoked"}
<1>1. CASE ProviderStep
  BY <1>1 DEF ProviderStep, Issues, Reissues, CallFails, AnswersGone, Deletes, Expires
<1>2. ASSUME NEW c \in Client, ClientStep(c) PROVE token[h] \in {"expired", "revoked"}
  <2>1. CASE RenewEnd(c) \/ ReleaseEnd(c)
    <3>1. ClientInv(c) /\ RevokeInv /\ c \in Agent
      BY DEF IInv, Agent
    <3>2. h = lease[c].handle /\ RevokeDone(call[c].status)
      BY <2>1 DEF RenewEnd, ReleaseEnd
    <3>3. call[c].op = "revoke" /\ call[c].handle = lease[c].handle
      BY <2>1, <3>1 DEF RenewEnd, ReleaseEnd, ClientInv
    <3> QED BY <3>1, <3>2, <3>3 DEF RevokeInv
  <2>2. CASE AcquireEnd(c) \/ RenewSameHandle(c) \/ RenewMinted(c)
    BY <2>2 DEF AcquireEnd, RenewSameHandle, RenewMinted, Record
  <2>3. CASE ~(\/ RenewEnd(c) \/ ReleaseEnd(c) \/ AcquireEnd(c) \/ RenewSameHandle(c)
               \/ RenewMinted(c))
    BY <1>2, <2>3 DEF ClientStep, AcquireBegin, MintRaises, RenewBegin, ReleaseBegin, Cancel
  <2> QED BY <2>1, <2>2, <2>3
<1>3. CASE SweepRevoked
  <2>1. /\ call[Sweeper].op = "revoke" /\ h = call[Sweeper].handle
        /\ RevokeDone(call[Sweeper].status)
    BY <1>3 DEF SweepRevoked
  <2> QED BY <2>1 DEF IInv, RevokeInv, Agent
<1>4. CASE SweepBegin \/ SweepEnd \/ \E k \in Handle : SweepSkip(k) \/ SweepRevoke(k)
  BY <1>4 DEF SweepBegin, SweepEnd, SweepSkip, SweepRevoke
<1> QED BY <1>1, <1>2, <1>3, <1>4 DEF Next, SweepContinues

\* release, renew and sweep drop a ledger entry only once its token is dead, whether
\* or not the ledger itself outlives the process.
THEOREM DropsOnlyDeadHolds == Spec => [][DropsOnlyDead]_vars
<1>1. IInv /\ [Next]_vars => [DropsOnlyDead]_vars
  BY StepDropsDead DEF DropsOnlyDead
<1> QED BY <1>1, Invariance, PTL DEF Spec

\* A step of a client gives it a Lease that names h only by recording h.
LEMMA NamedIsRecorded ==
  ASSUME IInv, NEW c \in Client, ClientStep(c), NEW d \in Client, NEW h \in Handle,
         Named(d, h)'
  PROVE  Named(d, h) \/ h \in ledger'
<1> USE NoLeaseAssumption DEF Named
<1>0. ClientInv(c) /\ TypeOK /\ c \in Agent /\ d \in Agent
  BY DEF IInv, Agent
<1>1. CASE c # d
  <2>1. phase'[d] = phase[d] /\ lease'[d] = lease[d] /\ draft'[d] = draft[d]
    BY <1>0, <1>1 DEF ClientStep, AcquireBegin, AcquireEnd, MintRaises, RenewBegin,
         RenewSameHandle, RenewMinted, RenewEnd, ReleaseBegin, ReleaseEnd, Cancel, TypeOK
  <2> QED BY <2>1
<1>2. CASE c = d
  <2> USE <1>0, <1>2 DEF TypeOK
  <2>1. CASE AcquireEnd(c) \/ RenewSameHandle(c) \/ RenewMinted(c)
    <3>1. /\ call[c].op = "mint" /\ call[c].status = "ok" /\ Record(Minted(c))
          /\ \/ lease'[c] = Minted(c) /\ phase'[c] = "idle"
             \/ lease'[c] = lease[c] /\ draft'[c] = Minted(c)
      BY <2>1 DEF AcquireEnd, RenewSameHandle, RenewMinted, ClientInv
    <3>2. WellFormed(Minted(c))
      BY <3>1, MintedLease
    <3>3. Minted(c).handle = h => h \in ledger'
      BY <3>1, <3>2, ConstantsAssumption DEF WellFormed, Record, Tracked
    <3> QED BY <3>1, <3>3
  <2>2. CASE RenewEnd(c)
    BY <2>2 DEF RenewEnd
  <2>3. CASE ReleaseEnd(c)
    BY <2>3 DEF ReleaseEnd
  <2>4. CASE Cancel(c)
    BY <2>4 DEF Cancel
  <2>5. CASE ReleaseBegin(c)
    BY <2>5 DEF ReleaseBegin
  <2>6. CASE MintRaises(c) \/ \E ttl \in TTLs : RenewBegin(c, ttl)
    BY <2>6 DEF MintRaises, RenewBegin
  <2>7. ASSUME NEW p \in Provider, NEW s \in Scope, AcquireBegin(c, p, s)
        PROVE  Named(d, h)
    BY <2>7 DEF AcquireBegin
  <2> QED BY <2>1, <2>2, <2>3, <2>4, <2>5, <2>6, <2>7 DEF ClientStep
<1> QED BY <1>1, <1>2

\* Every live token a client holds, or is about to hold after a renewal, is in the
\* ledger of its process, whatever earlier processes lost: a sweep's snapshot misses
\* no credential that is in use.
THEOREM HeldIsTrackedHolds == Spec => []HeldIsTracked
<1>1. Init => HeldIsTracked
  BY DEF Init, HeldIsTracked, Named
<1>2. IInv /\ HeldInv /\ HeldIsTracked /\ [Next]_vars => HeldIsTracked'
  <2> SUFFICES ASSUME IInv, HeldInv, HeldIsTracked, [Next]_vars,
                      NEW c \in Client, NEW h \in Handle,
                      Named(c, h)', token'[h] = "live"
               PROVE  h \in ledger'
    BY DEF HeldIsTracked
  <2>1. CASE ProviderStep
    <3>1. UNCHANGED <<lease, draft, phase, ledger>>
      BY <2>1 DEF ProviderStep, Issues, Reissues, CallFails, AnswersGone, Deletes, Expires
    <3>2. Named(c, h)
      BY <3>1 DEF Named
    <3>3. token[h] # "unissued"
      BY <3>2 DEF HeldInv, Holds, Fresh, Named
    <3>4. token[h] = "live"
      BY <2>1, <3>3 DEF ProviderStep, Issues, Reissues, CallFails, AnswersGone, Deletes,
                        Expires, IInv, TypeOK
    <3> QED BY <3>1, <3>2, <3>4 DEF HeldIsTracked
  <2>2. ASSUME NEW d \in Client, ClientStep(d) PROVE h \in ledger'
    <3>1. UNCHANGED token
      BY <2>2 DEF ClientStep, AcquireBegin, AcquireEnd, MintRaises, RenewBegin,
           RenewSameHandle, RenewMinted, RenewEnd, ReleaseBegin, ReleaseEnd, Cancel
    <3>2. CASE Named(c, h)
      <4>1. h \in ledger
        BY <3>1, <3>2 DEF HeldIsTracked
      <4>2. Next /\ UNCHANGED restarts
        BY <2>2 DEF Next, ClientStep, AcquireBegin, AcquireEnd, MintRaises, RenewBegin,
             RenewSameHandle, RenewMinted, RenewEnd, ReleaseBegin, ReleaseEnd, Cancel
      <4>3. ~\E reg \in SUBSET Provider : Restart(reg)
        BY <4>2 DEF Restart, IInv, TypeOK
      <4> QED BY <3>1, <4>1, <4>2, <4>3, StepDropsDead
    <3>3. CASE ~Named(c, h)
      BY <2>2, <3>3, NamedIsRecorded
    <3> QED BY <3>2, <3>3
  <2>3. CASE SweepBegin \/ SweepContinues
    <3>1. UNCHANGED <<token, lease, draft, restarts>> /\ phase'[c] = phase[c]
      BY <2>3, ConstantsAssumption
         DEF SweepBegin, SweepContinues, SweepSkip, SweepRevoke, SweepRevoked, SweepEnd,
             IInv, TypeOK, Agent
    <3>2. h \in ledger
      BY <3>1 DEF HeldIsTracked, Named
    <3>3. ~\E reg \in SUBSET Provider : Restart(reg)
      BY <3>1 DEF Restart, IInv, TypeOK
    <3> QED BY <2>3, <3>1, <3>2, <3>3, StepDropsDead DEF Next
  <2>4. ASSUME NEW reg \in SUBSET Provider, Restart(reg) PROVE FALSE
    BY <2>4 DEF Restart, Named, Agent
  <2>5. CASE UNCHANGED vars
    BY <2>5 DEF vars, HeldIsTracked, Named
  <2> QED BY <2>1, <2>2, <2>3, <2>4, <2>5 DEF Next
<1> QED BY <1>1, <1>2, HeldInvariance, Invariance, PTL DEF Spec

-----------------------------------------------------------------------------
(* The steps behind OperationsReturn *)

\* How many answers and resumptions client c's operation has still ahead of it.
Unanswered(c) == IF call[c].status = "sent" THEN 1 ELSE 0
Ahead(c) ==
  CASE phase[c] \in {"acquire", "renew"} -> 5 + Unanswered(c)
    [] phase[c] = "renewRevoke"          -> 3 + Unanswered(c)
    [] phase[c] = "release"              -> 1 + Unanswered(c)
    [] OTHER                             -> 0

\* acquire, renew and release only move on, at each answer and each resumption.
ClientAdvances(c) ==
  phase[c] \notin {"idle", "cancelled"} =>
    /\ Ahead(c)' <= Ahead(c)
    /\ Answers(c) \/ Resumes(c) => Ahead(c)' < Ahead(c)

\* What the sweeper owes the entry it is at: to ask, to wait, to take the answer.
Owed ==
  IF call[Sweeper].op = "none" THEN 2 ELSE IF call[Sweeper].status = "sent" THEN 1 ELSE 0

\* A sweep works off the snapshot it began with: whatever clients record meanwhile
\* it never grows, and no entry is taken up again once its revoke was answered.
SweepAdvances ==
  phase[Sweeper] = "sweep" =>
    \/ phase'[Sweeper] = "idle"
    \/ /\ todo' \subseteq todo
       /\ todo' = todo => Owed' <= Owed
       /\ Answers(Sweeper) \/ SweepContinues => todo' # todo \/ Owed' < Owed

OperationsAdvance == (\A c \in Client : ClientAdvances(c)) /\ SweepAdvances

\* The sweeper awaits a revoke only in a sweep, for an entry it has still to do.
SweepInv ==
  /\ phase[Sweeper] \in {"idle", "sweep"}
  /\ call[Sweeper].op = "revoke" =>
       phase[Sweeper] = "sweep" /\ call[Sweeper].handle \in todo

\* A step of a client or a provider's answer leaves the sweep where it is, but for
\* the answer to the sweeper's own call.
LEMMA OthersKeepSweep ==
  ASSUME IInv, ProviderStep \/ \E c \in Client : ClientStep(c)
  PROVE  /\ UNCHANGED todo /\ phase'[Sweeper] = phase[Sweeper]
         /\ call'[Sweeper].op = call[Sweeper].op
         /\ call'[Sweeper].handle = call[Sweeper].handle
         /\ \/ call'[Sweeper] = call[Sweeper]
            \/ call[Sweeper].status = "sent" /\ call'[Sweeper].status # "sent"
<1> USE ConstantsAssumption
<1>1. CASE ProviderStep
  <2>1. ASSUME NEW a \in Agent, CallFails(a) \/ AnswersGone(a)
               \/ \E st \in {"ok", "error"} : Deletes(a, st)
        PROVE  /\ UNCHANGED <<todo, phase>>
               /\ \E st \in {"ok", "gone", "error"} :
                     call' = [call EXCEPT ![a] = Answered(a, st, call[a].handle)]
               /\ call[a].status = "sent"
    BY <2>1 DEF CallFails, AnswersGone, Deletes, Awaits
  <2>2. ASSUME \/ \E c \in Client, h \in Handle \cup {NoHandle}, st \in {"ok", "error"} :
                     Issues(c, h, st)
               \/ \E c \in Client : Reissues(c)
               \/ \E h \in Handle : Expires(h)
        PROVE  UNCHANGED <<todo, phase>> /\ call'[Sweeper] = call[Sweeper]
    BY <2>2 DEF Issues, Reissues, Expires, IInv, TypeOK, Agent
  <2>3. CASE \E a \in Agent : CallFails(a) \/ AnswersGone(a)
               \/ \E st \in {"ok", "error"} : Deletes(a, st)
    <3>1. PICK a \in Agent : CallFails(a) \/ AnswersGone(a)
               \/ \E st \in {"ok", "error"} : Deletes(a, st)
      BY <2>3
    <3>2. /\ UNCHANGED <<todo, phase>> /\ call[a].status = "sent"
          /\ \E st \in {"ok", "gone", "error"} :
               call' = [call EXCEPT ![a] = Answered(a, st, call[a].handle)]
      BY <2>1, <3>1
    <3> QED BY <3>2 DEF Answered, IInv, TypeOK, Agent
  <2> QED BY <1>1, <2>2, <2>3 DEF ProviderStep
<1>2. ASSUME NEW c \in Client, ClientStep(c)
      PROVE  UNCHANGED todo /\ phase'[Sweeper] = phase[Sweeper]
             /\ call'[Sweeper] = call[Sweeper]
  <2>0. TypeOK /\ Sweeper \in Agent /\ Sweeper # c
    BY DEF IInv, Agent
  <2>1. CASE \/ \E p \in Provider, s \in Scope : AcquireBegin(c, p, s)
             \/ AcquireEnd(c) \/ MintRaises(c) \/ \E ttl \in TTLs : RenewBegin(c, ttl)
    BY <2>0, <2>1 DEF AcquireBegin, AcquireEnd, MintRaises, RenewBegin, TypeOK
  <2>2. CASE RenewSameHandle(c) \/ RenewMinted(c) \/ RenewEnd(c)
    BY <2>0, <2>2 DEF RenewSameHandle, RenewMinted, RenewEnd, TypeOK
  <2>3. CASE ReleaseBegin(c) \/ ReleaseEnd(c) \/ Cancel(c)
    BY <2>0, <2>3 DEF ReleaseBegin, ReleaseEnd, Cancel, TypeOK
  <2> QED BY <1>2, <2>1, <2>2, <2>3 DEF ClientStep
<1> QED BY <1>1, <1>2

LEMMA SweepInvariance == Spec => []SweepInv
<1> USE ConstantsAssumption
<1>1. Init => SweepInv
  BY DEF Init, SweepInv, NoCall, Agent
<1>2. IInv /\ SweepInv /\ [Next]_vars => SweepInv'
  <2> SUFFICES ASSUME IInv, SweepInv, [Next]_vars PROVE SweepInv'
    OBVIOUS
  <2>1. CASE ProviderStep \/ \E c \in Client : ClientStep(c)
    BY <2>1, OthersKeepSweep DEF SweepInv
  <2>2. CASE SweepBegin \/ SweepContinues
    BY <2>2 DEF SweepBegin, SweepContinues, SweepSkip, SweepRevoke, SweepRevoked, SweepEnd,
                SweepInv, SweeperInv, NoCall, Revoke, IInv, TypeOK, Agent
  <2>3. ASSUME NEW reg \in SUBSET Provider, Restart(reg) PROVE SweepInv'
    BY <2>3 DEF Restart, SweepInv, NoCall, Agent
  <2>4. CASE UNCHANGED vars
    BY <2>4 DEF vars, SweepInv
  <2> QED BY <2>1, <2>2, <2>3, <2>4 DEF Next
<1> QED BY <1>1, <1>2, Invariance, PTL DEF Spec

LEMMA SweepStepAdvances ==
  ASSUME IInv, SweepInv, SweepContinues
  PROVE  \/ phase'[Sweeper] = "idle"
         \/ todo' \subseteq todo /\ (todo' # todo \/ (Owed' < Owed /\ Owed' <= Owed))
<1> USE DEF IInv, TypeOK, Agent
<1>1. CASE \E h \in Handle : SweepSkip(h)
  BY <1>1 DEF SweepSkip
<1>2. CASE \E h \in Handle : SweepRevoke(h)
  BY <1>2 DEF SweepRevoke, Revoke, NoCall, Owed
<1>3. CASE SweepRevoked
  <2>1. call[Sweeper].handle \in todo /\ todo' = todo \ {call[Sweeper].handle}
    BY <1>3 DEF SweepRevoked, SweepInv
  <2> QED BY <2>1
<1>4. CASE SweepEnd
  BY <1>4 DEF SweepEnd
<1> QED BY <1>1, <1>2, <1>3, <1>4 DEF SweepContinues

\* The sweeper never mints, so what answers its call is a step of a provider.
LEMMA AnswersIsProviderStep == ASSUME NEW a \in Agent, Answers(a), IInv PROVE ProviderStep
<1>1. ASSUME NEW h \in Handle \cup {NoHandle}, NEW st \in {"ok", "error"}, Issues(a, h, st)
      PROVE  a \in Client
  BY <1>1 DEF Issues, Awaits, IInv, SweeperInv, Agent
<1> QED BY <1>1 DEF Answers, ProviderStep

LEMMA SweepMoves == IInv /\ SweepInv /\ [Next]_vars => (SweepAdvances \/ UNCHANGED vars)
<1> SUFFICES ASSUME IInv, SweepInv, Next, phase[Sweeper] = "sweep",
                    phase'[Sweeper] # "idle"
             PROVE  /\ todo' \subseteq todo
                    /\ todo' = todo => Owed' <= Owed
                    /\ Answers(Sweeper) \/ SweepContinues => todo' # todo \/ Owed' < Owed
  BY DEF SweepAdvances
<1>1. CASE SweepContinues
  BY <1>1, SweepStepAdvances
<1>2. CASE Answers(Sweeper) /\ ~SweepContinues
  <2>1. ProviderStep /\ call[Sweeper].status = "sent" /\ call[Sweeper].op # "none"
    BY <1>2, AnswersIsProviderStep
       DEF Answers, Issues, CallFails, AnswersGone, Deletes, Awaits, Agent
  <2>2. call'[Sweeper].op # "none" /\ call'[Sweeper].status # "sent" /\ todo' = todo
    <3>1. call'[Sweeper].status # "sent"
      BY <1>2 DEF Answers, Issues, CallFails, AnswersGone, Deletes, Answered, IInv, TypeOK, Agent
    <3> QED BY <2>1, <3>1, OthersKeepSweep
  <2> QED BY <1>2, <2>1, <2>2 DEF Owed
<1>3. CASE ~Answers(Sweeper) /\ ~SweepContinues
  <2>1. ASSUME ProviderStep \/ \E c \in Client : ClientStep(c)
        PROVE  todo' = todo /\ Owed' <= Owed
    BY <2>1, OthersKeepSweep DEF Owed
  <2>2. ~SweepBegin
    BY DEF SweepBegin
  <2>3. ASSUME NEW reg \in SUBSET Provider, Restart(reg) PROVE FALSE
    BY <2>3 DEF Restart, Agent
  <2> QED BY <1>3, <2>1, <2>2, <2>3 DEF Next
<1> QED BY <1>1, <1>2, <1>3

LEMMA ResumptionAdvances ==
  ASSUME IInv, NEW c \in Client, Resumes(c)
  PROVE  Ahead(c)' < Ahead(c) /\ Ahead(c)' <= Ahead(c)
<1>0. ClientInv(c) /\ TypeOK /\ c \in Agent
  BY DEF IInv, Agent
<1>1. /\ phase[c] \in {"acquire", "renew", "renewRevoke", "release"}
      /\ \/ phase'[c] = "idle"
         \/ phase[c] = "renew" /\ phase'[c] = "renewRevoke"
  BY <1>0 DEF Resumes, AcquireEnd, MintRaises, RenewSameHandle, RenewMinted, RenewEnd,
              ReleaseEnd, TypeOK
<1> QED BY <1>1 DEF Ahead, Unanswered

LEMMA AnswerAdvances ==
  ASSUME IInv, NEW c \in Client, Answers(c), phase[c] \notin {"idle", "cancelled"}
  PROVE  Ahead(c)' < Ahead(c) /\ Ahead(c)' <= Ahead(c)
<1>0. ClientInv(c) /\ TypeOK /\ c \in Agent
  BY DEF IInv, Agent
<1>1. UNCHANGED phase /\ call[c].status = "sent" /\ call'[c].status # "sent"
  BY <1>0 DEF Answers, Issues, CallFails, AnswersGone, Deletes, Awaits, Answered, TypeOK
<1>2. phase[c] \in {"acquire", "renew", "renewRevoke", "release"}
  BY <1>0 DEF ClientInv, TypeOK
<1> QED BY <1>1, <1>2 DEF Ahead, Unanswered

\* A step that neither answers nor resumes client c's operation leaves it where it
\* is, cancels it, or is the provider rolling the secret of its token.
LEMMA OthersLeaveClient ==
  ASSUME IInv, NEW c \in Client, Next, ~Answers(c), ~Resumes(c),
         phase[c] \notin {"idle", "cancelled"}
  PROVE  \/ phase'[c] = phase[c] /\ call'[c] = call[c]
         \/ phase'[c] = phase[c] /\ call'[c].status # "sent"
         \/ phase'[c] \in {"idle", "cancelled"}
<1> USE ConstantsAssumption
<1>0. TypeOK /\ c \in Agent
  BY DEF IInv, Agent
<1>1. CASE ProviderStep
  <2>1. ASSUME NEW d \in Client, NEW h \in Handle \cup {NoHandle},
               NEW st \in {"ok", "error"}, Issues(d, h, st)
        PROVE  phase'[c] = phase[c] /\ call'[c] = call[c]
    <3>1. d # c
      BY <2>1 DEF Answers
    <3> QED BY <1>0, <2>1, <3>1 DEF Issues, TypeOK
  <2>2. ASSUME NEW d \in Client, Reissues(d)
        PROVE  \/ phase'[c] = phase[c] /\ call'[c] = call[c]
               \/ phase'[c] = phase[c] /\ call'[c].status # "sent"
    BY <1>0, <2>2 DEF Reissues, Answered, TypeOK
  <2>3. ASSUME NEW a \in Agent, CallFails(a) \/ AnswersGone(a)
               \/ \E st \in {"ok", "error"} : Deletes(a, st)
        PROVE  phase'[c] = phase[c] /\ call'[c] = call[c]
    <3>1. a # c
      BY <2>3 DEF Answers
    <3> QED BY <1>0, <2>3, <3>1 DEF CallFails, AnswersGone, Deletes, TypeOK
  <2>4. ASSUME NEW h \in Handle, Expires(h)
        PROVE  phase'[c] = phase[c] /\ call'[c] = call[c]
    BY <2>4 DEF Expires
  <2> QED BY <1>1, <2>1, <2>2, <2>3, <2>4 DEF ProviderStep
<1>2. ASSUME NEW d \in Client, ClientStep(d)
      PROVE  \/ phase'[c] = phase[c] /\ call'[c] = call[c]
             \/ phase'[c] \in {"idle", "cancelled"}
  <2>1. CASE d # c
    <3>1. CASE \/ \E p \in Provider, s \in Scope : AcquireBegin(d, p, s)
               \/ AcquireEnd(d) \/ MintRaises(d) \/ \E ttl \in TTLs : RenewBegin(d, ttl)
      BY <1>0, <2>1, <3>1 DEF AcquireBegin, AcquireEnd, MintRaises, RenewBegin, TypeOK
    <3>2. CASE RenewSameHandle(d) \/ RenewMinted(d) \/ RenewEnd(d)
      BY <1>0, <2>1, <3>2 DEF RenewSameHandle, RenewMinted, RenewEnd, TypeOK
    <3>3. CASE ReleaseBegin(d) \/ ReleaseEnd(d) \/ Cancel(d)
      BY <1>0, <2>1, <3>3 DEF ReleaseBegin, ReleaseEnd, Cancel, TypeOK
    <3> QED BY <1>2, <3>1, <3>2, <3>3 DEF ClientStep
  <2>2. CASE d = c
    <3>1. Cancel(c)
      BY <1>2, <2>2 DEF ClientStep, Resumes, AcquireBegin, RenewBegin, ReleaseBegin
    <3> QED BY <1>0, <3>1 DEF Cancel, TypeOK
  <2> QED BY <2>1, <2>2
<1>3. CASE SweepBegin \/ SweepContinues
  BY <1>0, <1>3 DEF SweepBegin, SweepContinues, SweepSkip, SweepRevoke, SweepRevoked,
                    SweepEnd, TypeOK, Agent
<1>4. ASSUME NEW reg \in SUBSET Provider, Restart(reg) PROVE phase'[c] = "idle"
  BY <1>0, <1>4 DEF Restart
<1> QED BY <1>1, <1>2, <1>3, <1>4 DEF Next

LEMMA ClientMoves ==
  ASSUME IInv, NEW c \in Client, Next
  PROVE  ClientAdvances(c)
<1> SUFFICES ASSUME phase[c] \notin {"idle", "cancelled"}
             PROVE  /\ Ahead(c)' <= Ahead(c)
                    /\ Answers(c) \/ Resumes(c) => Ahead(c)' < Ahead(c)
  BY DEF ClientAdvances
<1>1. CASE Answers(c) \/ Resumes(c)
  BY <1>1, AnswerAdvances, ResumptionAdvances
<1>2. CASE ~Answers(c) /\ ~Resumes(c)
  <2>1. phase[c] \in {"acquire", "renew", "renewRevoke", "release"}
    BY DEF IInv, TypeOK, ClientInv, Agent
  <2>2. \/ phase'[c] = phase[c] /\ call'[c] = call[c]
        \/ phase'[c] = phase[c] /\ call'[c].status # "sent"
        \/ phase'[c] \in {"idle", "cancelled"}
    BY <1>2, OthersLeaveClient
  <2>3. Ahead(c)' <= Ahead(c)
    BY <2>1, <2>2 DEF Ahead, Unanswered
  <2> QED BY <1>2, <2>3
<1> QED BY <1>1, <1>2

\* The safety half of OperationsReturn: whatever providers answer and in whatever order,
\* each answer and each resumption brings its operation nearer to its end and no other
\* step takes it back.  A sweep of finitely many entries asks once for each: no failing
\* revoke is retried and no lease recorded meanwhile is added.
THEOREM OperationsAdvanceHolds == Spec => [][OperationsAdvance]_vars
<1>1. IInv /\ SweepInv /\ [Next]_vars => [OperationsAdvance]_vars
  BY ClientMoves, SweepMoves DEF OperationsAdvance
<1> QED BY <1>1, Invariance, SweepInvariance, PTL DEF Spec
=============================================================================

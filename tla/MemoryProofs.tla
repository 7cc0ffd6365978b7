---------------------------- MODULE MemoryProofs ----------------------------
(***************************************************************************)
(* For any number of memories, sessions and runs: MemoryBackbone is well   *)
(* typed, only vetted text grounds a run, the provenance trail is          *)
(* complete, a finished cascade left nothing derived directly from its     *)
(* source, and a failed one left the next all it needs.                    *)
(***************************************************************************)
EXTENDS MemoryBackbone, TLAPS

-----------------------------------------------------------------------------
(* The inductive invariant *)

\* A memory that grounded something was trusted then; it is trusted or erased now,
\* and it was vetted.
Once(m) == tier[m] \in {"trusted", "erased"} /\ m \in vetted

\* Everything recorded about a memory is about one that was once trusted.
TrustInv ==
  /\ \A m \in Mem : tier[m] = "trusted" => m \in vetted
  /\ \A s \in Session, m \in Mem :
       m \in held[s] \/ m \in know[s] \/ <<m, s>> \in trail => Once(m)
  /\ \A x \in Mem, m \in Mem : m \in src[x] => Once(m)
  /\ \A m \in ranked : tier[m] = "trusted"
  /\ \A m \in cascaded : tier[m] = "erased"

\* An idle session knows nothing; a contained cascade has only idle sessions.
IdleInv ==
  /\ \A s \in Session : at[s] = "idle" => know[s] = {}
  /\ casc.of # NoMem => casc.of \in Live
  /\ contained /\ casc.of # NoMem => \A s \in Session : at[s] = "idle"

\* A summary of s other than the source holds text of the source of the cascade.
SummaryLeft(s) == \E x \in IdsWithTag(s) : x # casc.of /\ casc.of \in src[x]

\* How far a contained cascade has come: sessions it has done, or has not to do,
\* hold nothing of its source and no captured tiers because of it.
CascadeInv ==
  contained /\ casc.of # NoMem =>
    \A s \in Session :
      /\ s \in logged /\ s \notin casc.todo => casc.of \notin held[s]
      /\ s \in logged /\ s \notin casc.todo /\ s # casc.cur => ~SummaryLeft(s)
      /\ <<casc.of, s>> \in trail /\ s \in attested => s \in casc.todo \/ s = casc.cur

IInv == /\ TypeOK /\ TrustInv /\ IdleInv /\ CascadeInv
        /\ TrailComplete /\ DirectErasure /\ TrustHasEvidence

-----------------------------------------------------------------------------

LEMMA InvInit == Init => IInv
BY MaxRunsAssumption
   DEF Init, IInv, TypeOK, Cascades, TrustInv, Once, IdleInv, CascadeInv, TrailComplete,
       DirectErasure, TrustHasEvidence, DerivedFrom, IdsWithTag, Live, NoCascade

\* HostRemembers: a free id is nowhere referred to, so a new memory disturbs nothing.
LEMMA InvHostRemembers ==
  ASSUME IInv, NEW x \in Mem, NEW t \in {"trusted", "quarantine"}, HostRemembers(x, t)
  PROVE  IInv'
<1> USE NoMemAssumption, NoSessionAssumption, MaxRunsAssumption
    DEF IInv, TypeOK, Cascades, memVars, logVars, runVars, cascVars,
        HostRemembers, Remember, Free
<1>1. TypeOK'
  OBVIOUS
<1>2. TrustInv'
  BY DEF TrustInv, Once
<1>3. IdleInv'
  BY DEF IdleInv, Live
<1>4. CascadeInv'
  BY DEF CascadeInv, SummaryLeft, IdsWithTag, IdleInv, Live
<1>5. TrailComplete'
  BY DEF TrailComplete, DerivedFrom, IdsWithTag, Live, TrustInv, Once
<1>6. DirectErasure'
  BY DEF DirectErasure, DerivedFrom, IdsWithTag, Live, TrustInv
<1>7. TrustHasEvidence'
  BY DEF TrustHasEvidence
<1> QED
  BY <1>1, <1>2, <1>3, <1>4, <1>5, <1>6, <1>7

\* AgentRemembers: the new memory is quarantined and has no session's text as its source.
LEMMA InvAgentRemembers ==
  ASSUME IInv, NEW x \in Mem, NEW t \in {"trusted", "quarantine"},
         NEW g \in Session \union {NoSession}, AgentRemembers(x, t, g)
  PROVE  IInv'
<1> USE NoMemAssumption, NoSessionAssumption, MaxRunsAssumption
    DEF IInv, TypeOK, Cascades, memVars, logVars, runVars, cascVars,
        AgentRemembers, Remember, Free
<1>1. TypeOK'
  OBVIOUS
<1>2. TrustInv'
  BY DEF TrustInv, Once
<1>3. IdleInv'
  BY DEF IdleInv, Live
<1>4. CascadeInv'
  BY DEF CascadeInv, SummaryLeft, IdsWithTag, IdleInv, Live
<1>5. TrailComplete'
  BY DEF TrailComplete, DerivedFrom, IdsWithTag, Live, TrustInv, Once
<1>6. DirectErasure'
  BY DEF DirectErasure, DerivedFrom, IdsWithTag, Live, TrustInv
<1>7. TrustHasEvidence'
  BY DEF TrustHasEvidence
<1> QED
  BY <1>1, <1>2, <1>3, <1>4, <1>5, <1>6, <1>7

\* Promote: only the tier of existing memories changes; the ids become vetted.
LEMMA InvPromote ==
  ASSUME IInv, NEW B \in SUBSET Mem, Promote(B)
  PROVE  IInv'
<1> USE NoMemAssumption, NoSessionAssumption, MaxRunsAssumption
    DEF IInv, TypeOK, Cascades, memVars, logVars, runVars, cascVars,
        Promote, Live, Free
<1>1. TypeOK'
  OBVIOUS
<1>2. TrustInv'
  BY DEF TrustInv, Once
<1>3. IdleInv'
  BY DEF IdleInv
<1>4. CascadeInv'
  BY DEF CascadeInv, SummaryLeft, IdsWithTag, IdleInv
<1>5. TrailComplete'
  BY DEF TrailComplete, DerivedFrom, IdsWithTag
<1>6. DirectErasure'
  BY DEF DirectErasure, DerivedFrom, IdsWithTag
<1>7. TrustHasEvidence'
  BY DEF TrustHasEvidence
<1> QED
  BY <1>1, <1>2, <1>3, <1>4, <1>5, <1>6, <1>7

\* Ground: the bundle is trusted and, with the log, recorded in the same step.
LEMMA InvGround ==
  ASSUME IInv, NEW s \in Session, NEW R \in SUBSET Mem, NEW p \in BOOLEAN, Ground(s, R, p)
  PROVE  IInv'
<1> USE NoMemAssumption, NoSessionAssumption, MaxRunsAssumption
    DEF IInv, TypeOK, Cascades, memVars, logVars, runVars, cascVars,
        Ground, RecordGrounding, Trusted, NoCascade
<1>1. TypeOK'
  OBVIOUS
<1>2. TrustInv'
  BY DEF TrustInv, Once
<1>3. IdleInv'
  BY DEF IdleInv, Live
<1>4. CascadeInv'
  BY DEF CascadeInv, SummaryLeft, IdsWithTag, IdleInv, Live
<1>5. TrailComplete'
  BY DEF TrailComplete, DerivedFrom, IdsWithTag, Live
<1>6. DirectErasure'
  BY DEF DirectErasure, DerivedFrom, IdsWithTag, Live, TrustInv
<1>7. TrustHasEvidence'
  <2>1. /\ trail \subseteq trail' /\ UNCHANGED contained
        /\ \A r \in attested' : r \in attested \/ (r = s /\ R # {} /\ R \X {s} \subseteq trail')
    <3>1. trail' = trail \union (R \X {s}) \/ (UNCHANGED <<trail, attested>>)
      BY Zenon
    <3>2. UNCHANGED contained
      BY Zenon
    <3> HIDE DEF IInv, TypeOK
    <3>3. \A r \in attested' : r \in attested \/ (r = s /\ R # {} /\ trail' = trail \union (R \X {s}))
      <4>1. CASE R = {}
        BY <4>1
      <4>2. CASE R # {}
        BY <4>2
      <4> QED BY <4>1, <4>2
    <3> QED BY <3>1, <3>2, <3>3, Zenon
  <2>2. TrustHasEvidence
    BY Zenon
  <2> QED BY <2>1, <2>2 DEF TrustHasEvidence
<1> QED
  BY <1>1, <1>2, <1>3, <1>4, <1>5, <1>6, <1>7

\* Load: the run takes over what the checkpoint held.
LEMMA InvLoad ==
  ASSUME IInv, NEW s \in Session, Load(s)
  PROVE  IInv'
<1> USE NoMemAssumption, NoSessionAssumption, MaxRunsAssumption
    DEF IInv, TypeOK, Cascades, memVars, logVars, runVars, cascVars,
        Load
<1>1. TypeOK'
  OBVIOUS
<1>2. TrustInv'
  BY DEF TrustInv, Once
<1>3. IdleInv'
  BY DEF IdleInv, Live
<1>4. CascadeInv'
  BY DEF CascadeInv, SummaryLeft, IdsWithTag, IdleInv, Live
<1>5. TrailComplete'
  BY DEF TrailComplete, DerivedFrom, IdsWithTag, Live
<1>6. DirectErasure'
  BY DEF DirectErasure, DerivedFrom, IdsWithTag, Live
<1>7. TrustHasEvidence'
  BY DEF TrustHasEvidence
<1> QED
  BY <1>1, <1>2, <1>3, <1>4, <1>5, <1>6, <1>7

\* Saved: the checkpoint takes over what the run knows.
LEMMA InvSaved ==
  ASSUME IInv, NEW s \in Session, Saved(s)
  PROVE  IInv'
<1> USE NoMemAssumption, NoSessionAssumption, MaxRunsAssumption
    DEF IInv, TypeOK, Cascades, memVars, logVars, runVars, cascVars,
        Saved
<1>1. TypeOK'
  OBVIOUS
<1>2. TrustInv'
  BY DEF TrustInv, Once
<1>3. IdleInv'
  BY DEF IdleInv, Live
<1>4. CascadeInv'
  BY DEF CascadeInv, SummaryLeft, IdsWithTag, IdleInv, Live
<1>5. TrailComplete'
  BY DEF TrailComplete, DerivedFrom, IdsWithTag, Live
<1>6. DirectErasure'
  BY DEF DirectErasure, DerivedFrom, IdsWithTag, Live
<1>7. TrustHasEvidence'
  BY DEF TrustHasEvidence
<1> QED
  BY <1>1, <1>2, <1>3, <1>4, <1>5, <1>6, <1>7

\* RunFails: a run that ends only forgets.
LEMMA InvRunFails ==
  ASSUME IInv, NEW s \in Session, RunFails(s)
  PROVE  IInv'
<1> USE NoMemAssumption, NoSessionAssumption, MaxRunsAssumption
    DEF IInv, TypeOK, Cascades, memVars, logVars, runVars, cascVars,
        RunFails, RunOver
<1>1. TypeOK'
  OBVIOUS
<1>2. TrustInv'
  BY DEF TrustInv, Once
<1>3. IdleInv'
  BY DEF IdleInv, Live
<1>4. CascadeInv'
  BY DEF CascadeInv, SummaryLeft, IdsWithTag, IdleInv, Live
<1>5. TrailComplete'
  BY DEF TrailComplete, DerivedFrom, IdsWithTag, Live
<1>6. DirectErasure'
  BY DEF DirectErasure, DerivedFrom, IdsWithTag, Live
<1>7. TrustHasEvidence'
  BY DEF TrustHasEvidence
<1> QED
  BY <1>1, <1>2, <1>3, <1>4, <1>5, <1>6, <1>7

\* The end of a run, whatever of its trail was graded: the summary is tagged with the
\* session whose trail covers its text.
LEMMA InvFinished ==
  ASSUME IInv, NEW s \in Session, NEW x \in Mem \union {NoMem}, Finished(s, x),
         ranked' \subseteq ranked \union Gradable(s), judged' \subseteq Session
  PROVE  IInv'
<1> USE NoMemAssumption, NoSessionAssumption, MaxRunsAssumption
    DEF IInv, TypeOK, Cascades, memVars, logVars, runVars, cascVars,
        Finished, Remember, Gradable, RunOver, Free, MemoriesFor, Live
<1>1. TypeOK'
  <2>1. ranked' \subseteq Mem
    BY ranked' \subseteq ranked \union Gradable(s)
  <2>2. tier' \in [Mem -> {"free", "trusted", "quarantine", "erased"}]
    OBVIOUS
  <2>3. tag' \in [Mem -> Session \union {NoSession}] /\ src' \in [Mem -> SUBSET Mem]
    OBVIOUS
  <2>4. prov' \subseteq Session /\ know' \in [Session -> SUBSET Mem]
    OBVIOUS
  <2>5. at' \in [Session -> {"idle", "load", "drive", "saved"}] /\ judged' \subseteq Session
    OBVIOUS
  <2>6. UNCHANGED <<vetted, cascaded, trail, attested, logged, held, runs, casc, contained>>
    OBVIOUS
  <2> QED
    BY <2>1, <2>3, <2>4, <2>5, <2>6, <2>2
<1>2. TrustInv'
  <2>1. /\ \A m \in Mem : tier[m] \in {"trusted", "erased"} => tier'[m] = tier[m]
        /\ \A m \in Mem : tier'[m] = "trusted" => tier[m] = "trusted"
    OBVIOUS
  <2>2. \A y \in Mem, m \in Mem : m \in src'[y] => m \in src[y] \/ m \in know[s]
    OBVIOUS
  <2>3. \A m \in ranked' : m \in ranked \/ m \in Gradable(s)
    BY ranked' \subseteq ranked \union Gradable(s)
  <2>4. \A r \in Session, m \in Mem : m \in know'[r] => m \in know[r]
    OBVIOUS
  <2>5. /\ UNCHANGED <<held, trail, vetted, cascaded>>
        /\ \A m \in Mem : m \in vetted => m \in vetted'
    OBVIOUS
  <2>6. TrustInv
    OBVIOUS
  <2>7. ranked \subseteq Mem
    OBVIOUS
  <2> HIDE DEF IInv, TypeOK, Finished, Remember, Gradable, RunOver, Free, MemoriesFor, Live
  <2>8. \A m \in Mem : Once(m) => Once(m)'
    BY <2>1, <2>5 DEF Once
  <2>9. (\A m \in Mem : tier[m] = "trusted" => m \in vetted)'
    BY <2>1, <2>5, <2>6 DEF TrustInv
  <2>10. \A r \in Session, m \in Mem : m \in held[r] \/ m \in know[r] \/ <<m, r>> \in trail => Once(m)
    BY <2>6 DEF TrustInv
  <2>11. \A m \in ranked : m \in Mem /\ tier[m] = "trusted"
    BY <2>6, <2>7 DEF TrustInv
  <2>12. \A m \in Gradable(s) : m \in Mem /\ tier[m] = "trusted"
    BY <2>10 DEF Gradable, MemoriesFor, Live, Once
  <2>13. \A m \in ranked' : tier'[m] = "trusted"
    BY <2>1, <2>3, <2>11, <2>12
  <2>14. \A y \in Mem, m \in Mem : m \in src'[y] => Once(m)
    BY <2>2, <2>6, <2>10 DEF TrustInv
  <2>15. \A m \in cascaded : tier'[m] = "erased"
    <3>1. \A m \in cascaded : m \in Mem /\ tier[m] = "erased"
      BY <2>6 DEF TrustInv, IInv, TypeOK
    <3> QED BY <2>1, <3>1
  <2> QED
    BY <2>13, <2>4, <2>5, <2>8, <2>9, <2>10, <2>14, <2>15 DEF TrustInv
<1>3. IdleInv'
  BY DEF IdleInv
<1>4. CascadeInv'
  BY DEF CascadeInv, SummaryLeft, IdsWithTag, IdleInv
<1>5. TrailComplete'
  BY DEF TrailComplete, DerivedFrom, IdsWithTag, TrustInv, Once
<1>6. DirectErasure'
  BY DEF DirectErasure, DerivedFrom, IdsWithTag, TrustInv, Once
<1>7. TrustHasEvidence'
  BY DEF TrustHasEvidence
<1> QED
  BY <1>1, <1>2, <1>3, <1>4, <1>5, <1>6, <1>7

LEMMA InvFinish ==
  ASSUME IInv, NEW s \in Session, NEW x \in Mem \union {NoMem},
         Finish(s, x) \/ FinishVerified(s, x) \/ FinishLosing(s, x)
  PROVE  IInv'
<1>1. Finished(s, x) /\ ranked' \subseteq ranked \union Gradable(s) /\ judged' \subseteq Session
  BY DEF IInv, TypeOK, Finish, FinishVerified, FinishLosing, Reinforced
<1> QED
  BY <1>1, InvFinished

\* CascadeBegin: by TrailComplete no session outside the list holds text of it.
LEMMA InvCascadeBegin ==
  ASSUME IInv, NEW m \in Mem, CascadeBegin(m)
  PROVE  IInv'
<1> USE NoMemAssumption, NoSessionAssumption, MaxRunsAssumption
    DEF IInv, TypeOK, Cascades, memVars, logVars, runVars, cascVars,
        CascadeBegin, CascadeStart, SessionsFor, NoCascade
<1>1. TypeOK'
  OBVIOUS
<1>2. TrustInv'
  BY DEF TrustInv, Once
<1>3. IdleInv'
  BY DEF IdleInv, Live
<1>4. CascadeInv'
  BY DEF CascadeInv, SummaryLeft, IdsWithTag, IdleInv, Live, TrailComplete, DerivedFrom
<1>5. TrailComplete'
  BY DEF TrailComplete, DerivedFrom, IdsWithTag, Live
<1>6. DirectErasure'
  BY DEF DirectErasure, DerivedFrom, IdsWithTag, Live
<1>7. TrustHasEvidence'
  BY DEF TrustHasEvidence
<1> QED
  BY <1>1, <1>2, <1>3, <1>4, <1>5, <1>6, <1>7

\* CascadeUnused: by TrailComplete a memory without a trail has nothing derived from it.
LEMMA InvCascadeUnused ==
  ASSUME IInv, NEW m \in Mem, CascadeUnused(m)
  PROVE  IInv'
<1> USE NoMemAssumption, NoSessionAssumption, MaxRunsAssumption
    DEF IInv, TypeOK, Cascades, memVars, logVars, runVars, cascVars,
        CascadeUnused, CascadeStart, NoCascade, Forget
<1>1. TypeOK'
  OBVIOUS
<1>2. TrustInv'
  BY DEF TrustInv, Once
<1>3. IdleInv'
  BY DEF IdleInv, Live
<1>4. CascadeInv'
  BY DEF CascadeInv, SummaryLeft, IdsWithTag, IdleInv, Live
<1>5. TrailComplete'
  BY DEF TrailComplete, DerivedFrom, IdsWithTag, Live
<1>6. DirectErasure'
  <2>1. \A s \in Session : <<m, s>> \notin trail
    BY DEF SessionsFor
  <2>2. \A s \in logged : ~DerivedFrom(s, m)
    BY <2>1 DEF TrailComplete
  <2> QED
    BY <2>2 DEF DirectErasure, DerivedFrom, IdsWithTag, Live
<1>7. TrustHasEvidence'
  BY DEF TrustHasEvidence
<1> QED
  BY <1>1, <1>2, <1>3, <1>4, <1>5, <1>6, <1>7

\* CascadeDelete: the checkpoint of the session in hand goes.
LEMMA InvCascadeDelete ==
  ASSUME IInv, NEW s \in Session, CascadeDelete(s)
  PROVE  IInv'
<1> USE NoMemAssumption, NoSessionAssumption, MaxRunsAssumption
    DEF IInv, TypeOK, Cascades, memVars, logVars, runVars, cascVars,
        CascadeDelete
<1>1. TypeOK'
  OBVIOUS
<1>2. TrustInv'
  BY DEF TrustInv, Once
<1>3. IdleInv'
  BY DEF IdleInv, Live
<1>4. CascadeInv'
  BY DEF CascadeInv, SummaryLeft, IdsWithTag, IdleInv, Live
<1>5. TrailComplete'
  BY DEF TrailComplete, DerivedFrom, IdsWithTag, Live
<1>6. DirectErasure'
  BY DEF DirectErasure, DerivedFrom, IdsWithTag, Live
<1>7. TrustHasEvidence'
  BY DEF TrustHasEvidence
<1> QED
  BY <1>1, <1>2, <1>3, <1>4, <1>5, <1>6, <1>7

\* CascadeForget: the session in hand is done.
LEMMA InvCascadeForget ==
  ASSUME IInv, CascadeForget
  PROVE  IInv'
<1> USE NoMemAssumption, NoSessionAssumption, MaxRunsAssumption
    DEF IInv, TypeOK, Cascades, memVars, logVars, runVars, cascVars,
        CascadeForget, Forget, Derived, IdsWithTag, Live
<1>1. TypeOK'
  OBVIOUS
<1>2. TrustInv'
  BY DEF TrustInv, Once
<1>3. IdleInv'
  BY DEF IdleInv
<1>4. CascadeInv'
  BY DEF CascadeInv, SummaryLeft, IdleInv
<1>5. TrailComplete'
  BY DEF TrailComplete, DerivedFrom
<1>6. DirectErasure'
  BY DEF DirectErasure, DerivedFrom
<1>7. TrustHasEvidence'
  BY DEF TrustHasEvidence
<1> QED
  BY <1>1, <1>2, <1>3, <1>4, <1>5, <1>6, <1>7

\* CascadeEnd: CascadeInv covers all other sessions, this step the last one.
LEMMA InvCascadeEnd ==
  ASSUME IInv, CascadeEnd
  PROVE  IInv'
<1> USE NoMemAssumption, NoSessionAssumption, MaxRunsAssumption
    DEF IInv, TypeOK, Cascades, memVars, logVars, runVars, cascVars,
        CascadeEnd, Forget, Derived, IdsWithTag, Live, NoCascade
<1>1. TypeOK'
  OBVIOUS
<1>2. TrustInv'
  BY DEF TrustInv, Once
<1>3. IdleInv'
  BY DEF IdleInv
<1>4. CascadeInv'
  BY DEF CascadeInv, SummaryLeft, IdleInv
<1>5. TrailComplete'
  BY DEF TrailComplete, DerivedFrom
<1>6. DirectErasure'
  <2> SUFFICES ASSUME contained, NEW m \in cascaded \union {casc.of}, NEW s \in logged
               PROVE  ~DerivedFrom(s, m)'
    BY DEF DirectErasure
  <2>1. CASE m = casc.of
    BY <2>1 DEF CascadeInv, SummaryLeft, IdleInv, DerivedFrom, IdsWithTag, Live
  <2>2. CASE m \in cascaded
    BY <2>2 DEF DirectErasure, DerivedFrom, IdsWithTag, Live
  <2> QED
    BY <2>1, <2>2
<1>7. TrustHasEvidence'
  BY DEF TrustHasEvidence, CascadeInv
<1> QED
  BY <1>1, <1>2, <1>3, <1>4, <1>5, <1>6, <1>7

\* CascadeFails: the memory still exists, so its trail is complete for the next attempt.
LEMMA InvCascadeFails ==
  ASSUME IInv, CascadeFails
  PROVE  IInv'
<1> USE NoMemAssumption, NoSessionAssumption, MaxRunsAssumption
    DEF IInv, TypeOK, Cascades, memVars, logVars, runVars, cascVars,
        CascadeFails, NoCascade
<1>1. TypeOK'
  OBVIOUS
<1>2. TrustInv'
  BY DEF TrustInv, Once
<1>3. IdleInv'
  BY DEF IdleInv, Live
<1>4. CascadeInv'
  BY DEF CascadeInv, SummaryLeft, IdsWithTag, IdleInv, Live
<1>5. TrailComplete'
  BY DEF TrailComplete, DerivedFrom, IdsWithTag, Live
<1>6. DirectErasure'
  BY DEF DirectErasure, DerivedFrom, IdsWithTag, Live
<1>7. TrustHasEvidence'
  BY DEF TrustHasEvidence
<1> QED
  BY <1>1, <1>2, <1>3, <1>4, <1>5, <1>6, <1>7

\* Restart: sessions with artifacts from before are no longer under the log.
LEMMA InvRestart ==
  ASSUME IInv, Restart
  PROVE  IInv'
<1> USE NoMemAssumption, NoSessionAssumption, MaxRunsAssumption
    DEF IInv, TypeOK, Cascades, memVars, logVars, runVars, cascVars,
        Restart, NoCascade, IdsWithTag, Live
<1>1. TypeOK'
  OBVIOUS
<1>2. TrustInv'
  BY DEF TrustInv, Once
<1>3. IdleInv'
  BY DEF IdleInv
<1>4. CascadeInv'
  BY DEF CascadeInv, SummaryLeft, IdleInv
<1>5. TrailComplete'
  BY DEF TrailComplete, DerivedFrom
<1>6. DirectErasure'
  BY DEF DirectErasure, DerivedFrom
<1>7. TrustHasEvidence'
  BY DEF TrustHasEvidence
<1> QED
  BY <1>1, <1>2, <1>3, <1>4, <1>5, <1>6, <1>7

LEMMA InvStutter ==
  ASSUME IInv, UNCHANGED vars
  PROVE  IInv'
<1> USE DEF IInv, vars, memVars, logVars, runVars, cascVars
<1>1. TypeOK' /\ TrustInv' /\ IdleInv'
  BY DEF TypeOK, TrustInv, Once, IdleInv, Live
<1>2. CascadeInv'
  BY DEF CascadeInv, SummaryLeft, IdsWithTag, Live
<1>3. TrailComplete' /\ DirectErasure' /\ TrustHasEvidence'
  BY DEF TrailComplete, DirectErasure, TrustHasEvidence, DerivedFrom, IdsWithTag, Live
<1> QED
  BY <1>1, <1>2, <1>3

\* The strengthening behind the theorems below: what grounded anything was vetted
\* and is in the trail, and a cascade has cleaned every session it is past.
THEOREM Invariance == Spec => []IInv
<1>1. IInv /\ [Next]_vars => IInv'
  <2> SUFFICES ASSUME IInv, [Next]_vars PROVE IInv'
    OBVIOUS
  <2>1. CASE Writes
    BY <2>1, InvHostRemembers, InvAgentRemembers, InvPromote DEF Writes
  <2>2. CASE Runs
    BY <2>2, InvGround, InvLoad, InvSaved, InvRunFails, InvFinish DEF Runs
  <2>3. CASE Cascade
    BY <2>3, InvCascadeBegin, InvCascadeUnused, InvCascadeDelete, InvCascadeForget,
       InvCascadeEnd, InvCascadeFails DEF Cascade
  <2> QED
    BY <2>1, <2>2, <2>3, InvRestart, InvStutter DEF Next
<1> QED
  BY InvInit, <1>1, PTL DEF Spec

-----------------------------------------------------------------------------

\* The backbone stays well typed, and a cascade is open exactly while it has a
\* session to visit, through failed deletes and restarts.
THEOREM TypeCorrect == Spec => []TypeOK
<1>1. IInv => TypeOK
  BY DEF IInv
<1> QED
  BY Invariance, <1>1, PTL

\* No text reaches a prompt, a checkpoint or a summary unless the host wrote it as
\* trusted or the operator approved it.
THEOREM OnlyVettedGroundsHolds == Spec => []OnlyVettedGrounds
<1>1. IInv => OnlyVettedGrounds
  BY DEF IInv, TypeOK, TrustInv, Once, OnlyVettedGrounds, DerivedFrom, IdsWithTag, Live
<1> QED
  BY Invariance, <1>1, PTL

\* Whatever runs, cascades and failures did, every artifact made under the log
\* from an existing memory is reachable from that memory's provenance entry.
THEOREM TrailCompleteHolds == Spec => []TrailComplete
<1>1. IInv => TrailComplete
  BY DEF IInv
<1> QED
  BY Invariance, <1>1, PTL

\* If runs are stopped first, a finished cascade has removed, for good, every
\* artifact made under the log directly from its source.
THEOREM DirectErasureHolds == Spec => []DirectErasure
<1>1. IInv => DirectErasure
  BY DEF IInv
<1> QED
  BY Invariance, <1>1, PTL

\* If runs are stopped first, a session counts as grounded on trusted input only
\* while the log has a memory that grounded it.
THEOREM TrustHasEvidenceHolds == Spec => []TrustHasEvidence
<1>1. IInv => TrustHasEvidence
  BY DEF IInv
<1> QED
  BY Invariance, <1>1, PTL

\* Feedback never ranks a quarantined or erased memory.
THEOREM RankedIsTrustedHolds == Spec => []RankedIsTrusted
<1>1. IInv => RankedIsTrusted
  BY DEF IInv, TypeOK, TrustInv, RankedIsTrusted, Trusted
<1> QED
  BY Invariance, <1>1, PTL

\* Once a verdict was recorded without a failing write, no erasure, cascade, promotion
\* or run of another session takes the record of a memory that still exists.
THEOREM VerdictReachesAllHolds == Spec => []VerdictReachesAll
<1>1. Init => VerdictReachesAll
  BY DEF Init, VerdictReachesAll
<1>2. IInv /\ VerdictReachesAll /\ [Next]_vars => VerdictReachesAll'
  <2> SUFFICES ASSUME IInv, VerdictReachesAll, [Next]_vars PROVE VerdictReachesAll'
    OBVIOUS
  <2> USE DEF VerdictReachesAll, MemoriesFor, Live
  <2>1. ASSUME NEW s \in Session,
               judged' \subseteq judged \union {s}, s \in judged' => Gradable(s) \subseteq ranked',
               ranked \subseteq ranked', trail' = trail,
               \A m \in Mem, r \in Session : <<m, r>> \in trail /\ m \in Live' => m \in Live
        PROVE  VerdictReachesAll'
    BY <2>1 DEF Gradable, IInv, TypeOK
  <2>2. ASSUME UNCHANGED <<trail, judged, ranked>>,
               \A m \in Mem, r \in Session : <<m, r>> \in trail /\ m \in Live' => m \in Live
        PROVE  VerdictReachesAll'
    BY <2>2 DEF IInv, TypeOK
  <2>3. ASSUME NEW X, Forget(X), trail' \subseteq trail, judged' = judged
        PROVE  VerdictReachesAll'
    BY <2>3 DEF Forget, IInv, TypeOK
  <2>4. \A m \in Mem, r \in Session : <<m, r>> \in trail => tier[m] \in {"trusted", "erased"}
    BY DEF IInv, TrustInv, Once
  <2>5. CASE Writes
    BY <2>2, <2>4, <2>5
       DEF Writes, HostRemembers, AgentRemembers, Promote, Remember, Free, runVars, logVars,
           IInv, TypeOK
  <2>6. CASE Runs
    <3>1. ASSUME NEW s \in Session, NEW x \in Mem \union {NoMem}, Finished(s, x)
          PROVE  /\ trail' = trail
                 /\ \A m \in Mem, r \in Session : <<m, r>> \in trail /\ m \in Live' => m \in Live
      BY <2>4, <3>1 DEF Finished, Remember, Free, logVars, IInv, TypeOK
    <3>2. ASSUME NEW s \in Session, NEW x \in Mem \union {NoMem},
                 Finish(s, x) \/ FinishLosing(s, x)
          PROVE  VerdictReachesAll'
      <4>1. ranked \subseteq ranked' /\ judged' = judged /\ Finished(s, x)
        BY <3>2 DEF Finish, FinishLosing
      <4> QED
        BY <3>1, <4>1 DEF IInv, TypeOK
    <3>3. ASSUME NEW s \in Session, NEW x \in Mem \union {NoMem}, FinishVerified(s, x)
          PROVE  VerdictReachesAll'
      <4>1. ranked' = ranked \union Gradable(s) /\ judged' = judged \union {s} /\ Finished(s, x)
        BY <3>3 DEF FinishVerified, Reinforced
      <4> QED
        BY <2>1, <3>1, <4>1
    <3>4. ASSUME NEW s \in Session, NEW R \in SUBSET Mem, NEW p \in BOOLEAN, Ground(s, R, p)
          PROVE  VerdictReachesAll'
      BY <3>4 DEF Ground, RecordGrounding, memVars, logVars, IInv, TypeOK
    <3>5. ASSUME NEW s \in Session, Load(s) \/ Saved(s) \/ RunFails(s)
          PROVE  VerdictReachesAll'
      BY <3>5 DEF Load, Saved, RunFails, memVars, logVars
    <3> QED
      BY <2>6, <3>2, <3>3, <3>4, <3>5 DEF Runs
  <2>7. CASE Cascade
    BY <2>2, <2>3, <2>7
       DEF Cascade, CascadeBegin, CascadeUnused, CascadeDelete, CascadeForget, CascadeEnd,
           CascadeFails, memVars, logVars, runVars
  <2>8. CASE Restart
    BY <2>8 DEF Restart
  <2>9. CASE UNCHANGED vars
    BY <2>9 DEF vars, memVars, logVars, runVars
  <2> QED
    BY <2>5, <2>6, <2>7, <2>8, <2>9 DEF Next
<1> QED
  BY Invariance, <1>1, <1>2, PTL DEF Spec

-----------------------------------------------------------------------------
(* What a cascade that fails leaves to the next one *)

\* The log loses an entry only with its memory or with its process, and no step
\* brings an erased memory back: what a failed cascade did not reach, the next one of
\* the same source still finds.
ErasureGoesOn ==
  /\ \A m \in Mem, s \in Session :
       <<m, s>> \in trail /\ <<m, s>> \notin trail' => tier'[m] = "erased" \/ Restart
  /\ \A m \in Mem : tier[m] = "erased" => tier'[m] = "erased"

LEMMA WritesGoOn == ASSUME TypeOK, Writes PROVE ErasureGoesOn
<1>1. ASSUME NEW x \in Mem, NEW t \in {"trusted", "quarantine"},
             NEW g \in Session \union {NoSession}, Remember(x, t, g, {}), UNCHANGED trail
      PROVE  ErasureGoesOn
  BY <1>1 DEF ErasureGoesOn, TypeOK, Remember, Free
<1>2. ASSUME NEW B \in SUBSET Mem, Promote(B)
      PROVE  ErasureGoesOn
  BY <1>2 DEF ErasureGoesOn, TypeOK, Promote, Live, logVars
<1>3. ASSUME NEW x \in Mem, NEW t \in {"trusted", "quarantine"}, HostRemembers(x, t)
      PROVE  ErasureGoesOn
  BY <1>1, <1>3 DEF HostRemembers, logVars
<1>4. ASSUME NEW x \in Mem, NEW t \in {"trusted", "quarantine"},
             NEW g \in Session \union {NoSession}, AgentRemembers(x, t, g)
      PROVE  ErasureGoesOn
  BY <1>1, <1>4 DEF AgentRemembers, logVars
<1> QED
  BY <1>2, <1>3, <1>4 DEF Writes

LEMMA RunsGoOn == ASSUME TypeOK, Runs PROVE ErasureGoesOn
<1>1. ASSUME NEW s \in Session, NEW x \in Mem \union {NoMem}, Finished(s, x)
      PROVE  ErasureGoesOn
  BY <1>1 DEF ErasureGoesOn, TypeOK, Finished, Remember, Free, logVars
<1>2. ASSUME NEW s \in Session, NEW R \in SUBSET Mem, NEW p \in BOOLEAN, Ground(s, R, p)
      PROVE  ErasureGoesOn
  BY <1>2 DEF ErasureGoesOn, Ground, RecordGrounding, memVars
<1>3. ASSUME UNCHANGED <<tier, trail>> PROVE ErasureGoesOn
  BY <1>3 DEF ErasureGoesOn
<1> QED
  BY <1>1, <1>2, <1>3
     DEF Runs, Load, Saved, RunFails, Finish, FinishVerified, FinishLosing, memVars, logVars

LEMMA CascadeGoesOn == ASSUME TypeOK, Cascade PROVE ErasureGoesOn
<1>1. ASSUME NEW X \in SUBSET Mem, Forget(X), NEW m \in X, trail' = {p \in trail : p[1] # m}
      PROVE  ErasureGoesOn
  BY <1>1 DEF ErasureGoesOn, TypeOK, Forget
<1>2. ASSUME NEW X \in SUBSET Mem, Forget(X), UNCHANGED trail
      PROVE  ErasureGoesOn
  BY <1>2 DEF ErasureGoesOn, TypeOK, Forget
<1>3. \A s : Derived(s) \subseteq Mem
  BY DEF Derived, IdsWithTag, Live
<1>4. CASE CascadeEnd
  <2>1. casc.of \in Mem
    BY <1>4 DEF CascadeEnd, TypeOK, Cascades
  <2> QED
    BY <1>1, <1>3, <1>4, <2>1 DEF CascadeEnd
<1>5. CASE CascadeForget
  BY <1>2, <1>3, <1>5 DEF CascadeForget
<1>6. ASSUME NEW m \in Mem, CascadeUnused(m) PROVE ErasureGoesOn
  BY <1>2, <1>6 DEF CascadeUnused, logVars
<1>7. ASSUME UNCHANGED <<tier, trail>> PROVE ErasureGoesOn
  BY <1>7 DEF ErasureGoesOn
<1> QED
  BY <1>4, <1>5, <1>6, <1>7
     DEF Cascade, CascadeBegin, CascadeDelete, CascadeFails, memVars, logVars

\* The order of forget_cascade holds of every step: the provenance entry goes with
\* the memory it is about and never before, so a cascade whose delete raised can be
\* asked for again and loses no session, and a memory id that is erased stays erased
\* (forget_cascade, forget_memory, promote).
THEOREM ErasureGoesOnHolds == Spec => [][ErasureGoesOn]_vars
<1>1. TypeOK /\ [Next]_vars => [ErasureGoesOn]_vars
  <2> SUFFICES ASSUME TypeOK, Next PROVE ErasureGoesOn
    OBVIOUS
  <2>1. CASE Restart
    BY <2>1 DEF ErasureGoesOn, Restart, memVars
  <2> QED
    BY <2>1, WritesGoOn, RunsGoOn, CascadeGoesOn DEF Next
<1> QED
  BY <1>1, TypeCorrect, PTL DEF Spec
=============================================================================

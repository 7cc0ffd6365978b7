--------------------------- MODULE MemoryBackbone ---------------------------
(***************************************************************************)
(* The memory backbone inside one host process at a time: memories with a  *)
(* trust tier (mcp/memory_cloud.py, memory_sqlite.py), runs grounded on    *)
(* them (patterns/continuity.py), the provenance log and the erasure       *)
(* cascade (patterns/erasure.py), and reinforcement by a verdict the agent *)
(* cannot give (patterns/reinforce.py, measure.py).                        *)
(*                                                                         *)
(* An action is what the code does between two awaits that can suspend:    *)
(* the store of checkpoints and the brain suspend, the local and sqlite    *)
(* memory clients do not.  Text is abstracted to where it came from:       *)
(* held[s] and src[x] name the memories whose text was put in the prompts  *)
(* behind the checkpoint of s and behind the summary x.                    *)
(***************************************************************************)
EXTENDS Naturals

CONSTANTS Mem,        \* memory ids, never reused (itertools.count, AUTOINCREMENT)
          Session,
          NoMem, NoSession,
          MaxRuns     \* bound: runs started in a behaviour

ASSUME NoMemAssumption == NoMem \notin Mem
ASSUME NoSessionAssumption == NoSession \notin Session
ASSUME MaxRunsAssumption == MaxRuns \in Nat

VARIABLES
  tier,       \* Memory.trust_tier of each id; "free" before remember, "erased" after forget
  tag,        \* the session:<id> tag of a memory, or NoSession
  src,        \* the memories whose text a summary was derived from
  ranked,     \* memories with a record in the feedback lane
  vetted,     \* history: ids the host wrote as trusted or the operator approved
  trail,      \* ProvenanceLog._by_memory, as pairs <<memory, session>>
  attested,   \* sessions with an entry in ProvenanceLog._tiers_by_session
  logged,     \* history: sessions all of whose artifacts were made under this log
  held,       \* what the saved checkpoint of a session was derived from
  at,         \* where the run of a session is
  prov,       \* sessions whose current run was given the log
  know,       \* the memories whose text the current run has seen
  casc,       \* the cascade in progress: its source, sessions left, checkpoint being deleted
  cascaded,   \* history: sources of completed cascades
  judged,     \* history: sessions whose last run's verdict was recorded, no write failing
  runs,       \* runs started, up to MaxRuns
  contained   \* the operator stops all runs before an erasure (docs/operations.md)

memVars  == <<tier, tag, src, ranked, vetted>>
logVars  == <<trail, attested, logged>>
runVars  == <<held, at, prov, know, judged, runs>>
cascVars == <<casc, cascaded, contained>>
vars == <<memVars, logVars, runVars, cascVars>>

NoCascade == [of |-> NoMem, todo |-> {}, cur |-> NoSession]

Free    == {m \in Mem : tier[m] = "free"}
Live    == {m \in Mem : tier[m] \in {"trusted", "quarantine"}}
Trusted == {m \in Mem : tier[m] = "trusted"}

SessionsFor(m) == {s \in Session : <<m, s>> \in trail}
MemoriesFor(s) == {m \in Mem : <<m, s>> \in trail}
IdsWithTag(s)  == {x \in Live : tag[x] = s}

Init ==
  /\ tier = [m \in Mem |-> "free"]
  /\ tag = [m \in Mem |-> NoSession]
  /\ src = [m \in Mem |-> {}]
  /\ ranked = {} /\ vetted = {}
  /\ trail = {} /\ attested = {} /\ logged = Session
  /\ held = [s \in Session |-> {}]
  /\ at = [s \in Session |-> "idle"]
  /\ prov = {}
  /\ know = [s \in Session |-> {}]
  /\ judged = {} /\ runs = 0
  /\ casc = NoCascade /\ cascaded = {}
  /\ contained \in BOOLEAN

-----------------------------------------------------------------------------
(* Memory writes.                                                          *)

Remember(x, t, g, S) ==
  /\ x \in Free
  /\ tier' = [tier EXCEPT ![x] = t]
  /\ tag' = [tag EXCEPT ![x] = g]
  /\ src' = [src EXCEPT ![x] = S]

\* The host stores knowledge of its own, or ingests foreign text in quarantine.
HostRemembers(x, t) ==
  /\ Remember(x, t, NoSession, {})
  /\ vetted' = IF t = "trusted" THEN vetted \union {x} ELSE vetted
  /\ UNCHANGED <<ranked, logVars, runVars, cascVars>>

\* Mutant: the confined client honours the tier its caller asks for.
AgentRemembersAsAsked(x, t, g) ==
  /\ \E s \in Session : at[s] = "drive"
  /\ Remember(x, t, g, {})
  /\ UNCHANGED <<ranked, vetted, logVars, runVars, cascVars>>

\* An agent writes through QuarantinedMemoryClient: the tier it asks for is
\* ignored, the tags it gives are not.
AgentRemembers(x, t, g) ==
  /\ \E s \in Session : at[s] = "drive"
  /\ Remember(x, "quarantine", g, {})
  /\ UNCHANGED <<ranked, vetted, logVars, runVars, cascVars>>

\* An approved proposal promotes its ids one by one; an id that is gone by now
\* raises KeyError, is logged and skipped.
Promote(B) ==
  /\ B # {} /\ B \intersect Free = {}
  /\ tier' = [m \in Mem |-> IF m \in B \intersect Live THEN "trusted" ELSE tier[m]]
  /\ vetted' = vetted \union B
  /\ UNCHANGED <<tag, src, ranked, logVars, runVars, cascVars>>

-----------------------------------------------------------------------------
(* A run: bootstrap, load, drive, save, remember, reinforce.               *)

\* The log notes who fed the session, and the tiers: all trusted, so one bit.
RecordGrounding(s, R) ==
  /\ trail' = trail \union (R \X {s})
  /\ attested' = IF R = {} THEN attested ELSE attested \union {s}

\* The bootstrap bundle R holds trusted memories only, pinned ones and recalled
\* ones.  `run` records it in the log; the REPL and the cockpit pass none.
Ground(s, R, p) ==
  /\ at[s] = "idle"
  /\ R \subseteq Trusted
  /\ contained => casc = NoCascade
  /\ runs < MaxRuns /\ runs' = runs + 1
  /\ at' = [at EXCEPT ![s] = "load"]
  /\ know' = [know EXCEPT ![s] = R]
  /\ judged' = judged \ {s}
  /\ IF p THEN /\ prov' = prov \union {s}
               /\ RecordGrounding(s, R)
               /\ UNCHANGED logged
          ELSE /\ logged' = logged \ {s}
               /\ UNCHANGED <<prov, trail, attested>>
  /\ UNCHANGED <<memVars, held, cascVars>>

\* drive_task loads the checkpoint once; a resumed brain continues what it knew.
Load(s) ==
  /\ at[s] = "load"
  /\ at' = [at EXCEPT ![s] = "drive"]
  /\ know' = [know EXCEPT ![s] = @ \union held[s]]
  /\ UNCHANGED <<memVars, logVars, held, prov, judged, runs, cascVars>>

\* DoneEvent came and the store has the new checkpoint.
Saved(s) ==
  /\ at[s] = "drive"
  /\ at' = [at EXCEPT ![s] = "saved"]
  /\ held' = [held EXCEPT ![s] = know[s]]
  /\ UNCHANGED <<memVars, logVars, prov, know, judged, runs, cascVars>>

RunOver(s) ==
  /\ at' = [at EXCEPT ![s] = "idle"]
  /\ prov' = prov \ {s}
  /\ know' = [know EXCEPT ![s] = {}]
  /\ UNCHANGED <<held, runs>>

\* A corrupt checkpoint, a brain error, no DoneEvent, or a save that raised
\* before or after it took effect: the run ends without summary and verdict.
RunFails(s) ==
  /\ at[s] # "idle"
  /\ RunOver(s)
  /\ UNCHANGED <<judged, memVars, logVars, cascVars>>

Gradable(s) == MemoriesFor(s) \intersect Live

\* Mutant: has_memory is not asked, so record_feedback raises at the first memory of the
\* trail that is gone, and reinforce_after_run logs it: the later ones get no record.
ReinforcedUnchecked(s) ==
  IF MemoriesFor(s) \subseteq Live THEN {ranked \union Gradable(s)}
  ELSE {ranked \union S : S \in SUBSET Gradable(s)}

\* What the feedback lane may hold after a verdict: every memory of the session's trail
\* that still exists gets a record.
Reinforced(s) == {ranked \union Gradable(s)}

\* remember_outcome writes the summary to quarantine, tagged with the session
\* (x = NoMem: the write failed and was logged), and the run is over.
Finished(s, x) ==
  /\ at[s] = "saved"
  /\ IF x = NoMem THEN UNCHANGED <<tier, tag, src>>
                  ELSE Remember(x, "quarantine", s, know[s])
  /\ RunOver(s)
  /\ UNCHANGED <<vetted, logVars, cascVars>>

\* No check is configured, or it cannot run: nothing is ranked.
Finish(s, x) == Finished(s, x) /\ UNCHANGED <<ranked, judged>>

\* The check's verdict on a run that was given the log is recorded for its trail.
FinishVerified(s, x) ==
  /\ s \in prov
  /\ Finished(s, x)
  /\ ranked' \in Reinforced(s)
  /\ judged' = judged \union {s}

\* A write of the feedback itself raises (a locked database): the memories before it in
\* the trail have their record, it and those after it get none.
FinishLosing(s, x) ==
  /\ s \in prov
  /\ Finished(s, x)
  /\ \E S \in SUBSET Gradable(s) : S # Gradable(s) /\ ranked' = ranked \union S
  /\ UNCHANGED judged

-----------------------------------------------------------------------------
(* forget_cascade.                                                         *)

\* Mutant: the feedback lane keeps the records of what is erased.
ForgetKeepsFeedback(X) ==
  /\ tier' = [m \in Mem |-> IF m \in X THEN "erased" ELSE tier[m]]
  /\ UNCHANGED ranked

\* forget: the memory goes, and its records in the feedback lane.
Forget(X) ==
  /\ tier' = [m \in Mem |-> IF m \in X THEN "erased" ELSE tier[m]]
  /\ ranked' = ranked \ X

\* Mutant: only summaries nobody promoted yet count as derived.
DerivedInQuarantine(s) == {x \in IdsWithTag(s) : tier[x] = "quarantine"} \ {casc.of}

\* The summaries of a session that the cascade forgets; its source goes last.
Derived(s) == IdsWithTag(s) \ {casc.of}

CascadeStart(m) ==
  /\ casc = NoCascade
  /\ m \in Live               \* else KeyError before anything is touched
  /\ contained => \A s \in Session : at[s] = "idle"

\* Mutant: the log entry goes first, not last.
CascadeBeginDropsTrail(m) ==
  /\ CascadeStart(m)
  /\ SessionsFor(m) # {}
  /\ casc' = [of |-> m, todo |-> SessionsFor(m), cur |-> NoSession]
  /\ trail' = {p \in trail : p[1] # m}
  /\ UNCHANGED <<memVars, attested, logged, runVars, cascaded, contained>>

CascadeBegin(m) ==
  /\ CascadeStart(m)
  /\ SessionsFor(m) # {}
  /\ casc' = [of |-> m, todo |-> SessionsFor(m), cur |-> NoSession]
  /\ UNCHANGED <<memVars, logVars, runVars, cascaded, contained>>

\* No session consumed the memory: nothing suspends and the source is forgotten.
CascadeUnused(m) ==
  /\ CascadeStart(m)
  /\ SessionsFor(m) = {}
  /\ Forget({m})
  /\ cascaded' = cascaded \union {m}
  /\ UNCHANGED <<tag, src, vetted, logVars, runVars, casc, contained>>

\* The store deletes the checkpoint of the next session.
CascadeDelete(s) ==
  /\ casc.cur = NoSession /\ s \in casc.todo
  /\ held' = [held EXCEPT ![s] = {}]
  /\ casc' = [casc EXCEPT !.cur = s, !.todo = @ \ {s}]
  /\ UNCHANGED <<memVars, logVars, at, prov, know, judged, runs, cascaded, contained>>

\* The cascade goes on after a delete: summaries and captured tiers go.
CascadeForget ==
  /\ casc.cur # NoSession /\ casc.todo # {}
  /\ Forget(Derived(casc.cur))
  /\ attested' = attested \ {casc.cur}
  /\ casc' = [casc EXCEPT !.cur = NoSession]
  /\ UNCHANGED <<tag, src, vetted, trail, logged, runVars, cascaded, contained>>

\* After the last session the source and its entry in the log go too.
CascadeEnd ==
  /\ casc.cur # NoSession /\ casc.todo = {}
  /\ Forget(Derived(casc.cur) \union {casc.of})
  /\ attested' = attested \ {casc.cur}
  /\ trail' = {p \in trail : p[1] # casc.of}
  /\ casc' = NoCascade
  /\ cascaded' = cascaded \union {casc.of}
  /\ UNCHANGED <<tag, src, vetted, logged, runVars, contained>>

\* A delete raises CheckpointError, with or without effect: the cascade stops.
CascadeFails ==
  /\ casc # NoCascade
  /\ casc' = NoCascade
  /\ UNCHANGED <<memVars, logVars, runVars, cascaded, contained>>

\* A new process: memories (sqlite) and checkpoints (files) are durable, the log is
\* an object of the process that made it.
Restart ==
  /\ trail' = {} /\ attested' = {}
  /\ logged' = {s \in Session : held[s] = {} /\ IdsWithTag(s) = {}}
  /\ at' = [s \in Session |-> "idle"]
  /\ prov' = {} /\ judged' = {}
  /\ know' = [s \in Session |-> {}]
  /\ casc' = NoCascade
  /\ UNCHANGED <<memVars, held, runs, cascaded, contained>>

-----------------------------------------------------------------------------
Writes == \/ \E x \in Mem, t \in {"trusted", "quarantine"} : HostRemembers(x, t)
          \/ \E x \in Mem, t \in {"trusted", "quarantine"}, g \in Session \union {NoSession} :
               AgentRemembers(x, t, g)
          \/ \E B \in SUBSET Mem : Promote(B)

Runs == \E s \in Session :
          \/ \E R \in SUBSET Mem, p \in BOOLEAN : Ground(s, R, p)
          \/ Load(s) \/ Saved(s) \/ RunFails(s)
          \/ \E x \in Mem \union {NoMem} :
               Finish(s, x) \/ FinishVerified(s, x) \/ FinishLosing(s, x)

Cascade == \/ \E m \in Mem : CascadeBegin(m) \/ CascadeUnused(m)
           \/ \E s \in Session : CascadeDelete(s)
           \/ CascadeForget \/ CascadeEnd \/ CascadeFails

Next == Writes \/ Runs \/ Cascade \/ Restart

Spec == Init /\ [][Next]_vars
-----------------------------------------------------------------------------
Cascades == [of : Mem \union {NoMem}, todo : SUBSET Session,
             cur : Session \union {NoSession}]

\* Every variable has its type, and a cascade has a source exactly as long as it
\* has a session to visit.
TypeOK ==
  /\ tier \in [Mem -> {"free", "trusted", "quarantine", "erased"}]
  /\ tag \in [Mem -> Session \union {NoSession}]
  /\ src \in [Mem -> SUBSET Mem]
  /\ ranked \subseteq Mem /\ vetted \subseteq Mem /\ cascaded \subseteq Mem
  /\ trail \subseteq Mem \X Session
  /\ attested \subseteq Session /\ logged \subseteq Session /\ prov \subseteq Session
  /\ judged \subseteq Session
  /\ held \in [Session -> SUBSET Mem] /\ know \in [Session -> SUBSET Mem]
  /\ runs \in 0..MaxRuns
  /\ at \in [Session -> {"idle", "load", "drive", "saved"}]
  /\ casc \in Cascades /\ contained \in BOOLEAN
  /\ (casc.of = NoMem) = (casc.todo = {} /\ casc.cur = NoSession)

\* An artifact of s, its checkpoint, its run or a summary it left, holds text of m.
DerivedFrom(s, m) ==
  \/ m \in held[s] \union know[s]
  \/ \E x \in IdsWithTag(s) : m \in src[x]

\* Only text the host wrote as trusted or the operator approved ever reaches a
\* prompt, a checkpoint or a summary: an agent cannot feed its own writes, or
\* those of an earlier run, back into a later run (ground_prompt's trusted_only,
\* QuarantinedMemoryClient, remember_outcome).
OnlyVettedGrounds ==
  \A s \in Session, m \in Mem : DerivedFrom(s, m) => m \in vetted

\* The trail is complete: for every session whose runs had the log, an artifact
\* holding text of a memory that still exists is reachable from that memory,
\* whatever runs, cascades and failures did before (record_grounding,
\* sessions_for, forget_memory).
TrailComplete ==
  \A s \in logged, m \in Live : DerivedFrom(s, m) => <<m, s>> \in trail

\* forget_cascade is complete for direct derivations: once it returned, possibly
\* after failed attempts, no checkpoint and no summary made under the log from
\* the text of its source is left or comes back, if runs were stopped first.
DirectErasure ==
  contained => \A m \in cascaded, s \in logged : ~DerivedFrom(s, m)

\* A session's input counts as trusted only on recorded grounding: a cascade
\* that takes the record takes the captured tiers too (tiers_for: "no
\* provenance -> not trusted").
TrustHasEvidence ==
  contained => \A s \in attested : \E m \in Mem : <<m, s>> \in trail

\* Feedback is recorded only for existing memories of the trusted tier: a verdict
\* never ranks a quarantined write, and forget leaves no feedback behind
\* (OutcomeReinforcer.reinforce, forget).
RankedIsTrusted == ranked \subseteq Trusted

\* A memory erased while the run it grounded was under way, as the summary of another
\* session a cascade reached, costs the run's other memories nothing: unless a write
\* failed, the verdict stays on record for every memory of the session's trail that
\* still exists, until the session runs again (OutcomeReinforcer.reinforce, forget).
VerdictReachesAll == \A s \in judged : MemoriesFor(s) \intersect Live \subseteq ranked

\* What docs/operations.md asks of an erasure: it reaches derived artifacts,
\* those derived through a promoted summary of a run on the memory included.
ErasureComplete ==
  contained => \A m \in cascaded, s \in logged, x \in Mem :
                 ~(DerivedFrom(s, x) /\ m \in src[x] /\ tag[x] \in logged)

=============================================================================

---------------------------- MODULE PreflightProofs ----------------------------
(***************************************************************************)
(* What happens before an agent acts, proved for any registry and host,    *)
(* any subtree, any caps and any finite allowlists:                        *)
(*                                                                         *)
(*  - what doctor reported still describes a host that did not change, and *)
(*    how far a run came says what it passed (RunInv);                     *)
(*  - the walk: the entries looked at are closed under "parent", and every *)
(*    directory among them is on the stack, untouched, or scanned (WalkInv *)
(*    with the set S of Seen).  An empty stack and listing then leave no   *)
(*    entry out, by the least entry missed;                                *)
(*  - the label: splitting what was joined gives the words back, as no     *)
(*    accepted host has a comma, a space or a second normal form           *)
(*    (LabelRoundTrip).                                                    *)
(*                                                                         *)
(* DepthOf and Join are recursive functions.  What they compute is proved  *)
(* from the least counterexample (LeastNatural), the existence of the      *)
(* function first.                                                         *)
(***************************************************************************)
EXTENDS Preflight, FiniteSetTheorems, SequenceTheorems, TLAPS

-----------------------------------------------------------------------------
(* Credentials: doctor and run *)

\* What doctor reported still describes a host that did not change.
ReportInv ==
  (report # NoReport /\ ~stale) =>
    LET names == IF world.file = "absent" THEN {} ELSE DOMAIN world.registry IN
    IF world.file # "absent" /\ ~Loads THEN report.exit = 2
    ELSE /\ report.exit # 2
         /\ report.memory = IF host.memory THEN "ok" ELSE "fail"
         /\ report.brain = CheckBrain
         /\ report.provider = [n \in names |-> CheckProvider(SpecOf(n))]

\* How far a run came says what it has passed, and what ended it that it failed.
PassedInv ==
  /\ stage = "idle" => grants = {} /\ built = {} /\ minted = {}
  /\ stage # "ended" => why = "none"
  /\ stage \notin {"idle", "ended"} => BackendKnown
  /\ stage \notin {"idle", "gate", "ended"} => host.memory
  /\ stage \in {"build", "mint"} \/ built # {} => Loads /\ grants \subseteq DOMAIN world.registry
  /\ stage \in {"load", "build", "mint"} => grants # {}
  /\ stage \in {"gate", "load"} => built = {}
  /\ stage \in {"gate", "load", "build"} => minted = {}
  /\ stage = "running" => BrainBuilds

EndedInv ==
  /\ why = "backend" => ~BackendKnown
  /\ why = "memory" => ~host.memory
  /\ why = "registry" => ~Loads
  /\ why = "secret" => /\ Loads /\ grants \subseteq DOMAIN world.registry
                       /\ \E n \in grants : Build(SpecOf(n)) = "secret"
  /\ why = "brain" => BackendKnown /\ ~BrainBuilds

\* What was built could be built, and is minted once everything granted is.
BuiltInv ==
  /\ \A n \in built : Build(SpecOf(n)) = "built"
  /\ stage = "mint" \/ minted # {} => built = grants
  /\ stage \in {"brain", "running"} => minted = grants

RunInv == ProvidersTypeOK /\ ReportInv /\ PassedInv /\ EndedInv /\ BuiltInv

\* Doctor and a run start with nothing reported, granted, built or minted.
LEMMA RunInitInv == ASSUME NEW w \in Worlds \cup {IdleWorld}, ProvidersStart(w) PROVE RunInv
BY ProvidersAssumption, IdleAssumption
   DEF ProvidersStart, host, brain, RunInv, ProvidersTypeOK, ReportInv, PassedInv, EndedInv, BuiltInv

\* The outcomes of building one provider, and of doctor's check of one.
LEMMA BuildOutcome ==
  ASSUME NEW t PROVE Build(t) \in {"secret", "factory", "consent", "built"}
BY DEF Build

LEMMA CheckProviderOutcome == ASSUME NEW t PROVE CheckProvider(t) \in Verdict
BY DEF CheckProvider, Verdict

\* doctor's report describes the host it looked at.
LEMMA DoctorKeeps ==
  ASSUME RunInv, NEW probe \in BOOLEAN, NEW mint \in {"ok", "fail"}, Doctor(probe, mint)
  PROVE  RunInv'
<1> USE DEF RunInv, host, brain
<1>1. UNCHANGED <<world, stale, stage, why, grants, built, minted>>
  BY DEF Doctor
<1>2. (PassedInv /\ EndedInv /\ BuiltInv)'
  <2>1. PassedInv'
    BY <1>1 DEF PassedInv, Loads, BackendKnown, BrainBuilds, SpecOf, Build, Resolves
  <2>2. EndedInv'
    BY <1>1 DEF EndedInv, Loads, BackendKnown, BrainBuilds, SpecOf, Build, Resolves
  <2>3. BuiltInv'
    BY <1>1 DEF BuiltInv, SpecOf, Build, Resolves
  <2> QED BY <2>1, <2>2, <2>3
<1>3. ReportInv'
  <2>1. /\ CheckBrain' = CheckBrain /\ (Loads' <=> Loads)
        /\ \A n : CheckProvider(SpecOf(n))' = CheckProvider(SpecOf(n))
    BY <1>1 DEF Loads, SpecOf, CheckBrain, BackendKnown, CheckProvider, Resolves
  <2> QED BY <1>1, <2>1 DEF Doctor, ReportInv
<1>4. ProvidersTypeOK'
  BY <1>1, CheckProviderOutcome DEF Doctor, ProvidersTypeOK
<1> QED BY <1>2, <1>3, <1>4

\* A host that changes makes the report stale, and only between runs.
LEMMA HostChangeKeeps ==
  ASSUME RunInv, NEW suf \in Suffix, NEW v \in {"good", "unset"}, HostChanges(suf, v)
  PROVE  RunInv'
<1> USE DEF RunInv, host, brain
<1>1. WorldOK(world')
  <2>1. host \in Host
    BY DEF ProvidersTypeOK, WorldOK
  <2>2. [host EXCEPT !.value[suf] = v] \in Host /\ [host EXCEPT !.keyring = ~@] \in Host
    BY <2>1 DEF Host
  <2> QED BY <2>2 DEF HostChanges, ProvidersTypeOK, WorldOK
<1>2. stale' /\ stage = "idle" /\ UNCHANGED <<report, stage, why, grants, built, minted>>
  BY DEF HostChanges
<1> QED BY <1>1, <1>2 DEF ProvidersTypeOK, ReportInv, PassedInv, EndedInv, BuiltInv

RunStep ==
  \/ \E g \in SUBSET Provider : RunStart(g)
  \/ Gate \/ LoadRegistry \/ MintRaises \/ MakeBrain
  \/ \E n \in Provider : BuildOne(n) \/ MintOne(n)

\* Each step of a run, in the order the command takes them.
LEMMA RunKeeps == ASSUME RunInv, RunStep PROVE RunInv'
<1> USE DEF RunInv, host, brain
<1>1. UNCHANGED <<world, stale, report>>
  BY DEF RunStep, RunStart, Gate, LoadRegistry, MintRaises, MakeBrain, BuildOne, MintOne
<1>2. ReportInv'
  <2>1. /\ CheckBrain' = CheckBrain /\ (Loads' <=> Loads)
        /\ \A n : CheckProvider(SpecOf(n))' = CheckProvider(SpecOf(n))
    BY <1>1 DEF Loads, SpecOf, CheckBrain, BackendKnown, CheckProvider, Resolves
  <2> QED BY <1>1, <2>1 DEF ReportInv
<1>3. /\ (BackendKnown' <=> BackendKnown) /\ (BrainBuilds' <=> BrainBuilds) /\ (Loads' <=> Loads)
      /\ \A n : Build(SpecOf(n))' = Build(SpecOf(n))
  BY <1>1 DEF BackendKnown, BrainBuilds, Loads, Build, SpecOf, Resolves
<1>4. WorldOK(world)' /\ stale' \in BOOLEAN
  BY <1>1 DEF ProvidersTypeOK
<1> USE <1>1, <1>3 DEF ProvidersTypeOK, PassedInv, EndedInv, BuiltInv
<1>5. ASSUME NEW g \in SUBSET Provider, RunStart(g) PROVE RunInv'
  BY <1>2, <1>4, <1>5 DEF RunStart, Ends
<1>6. CASE Gate
  BY <1>2, <1>4, <1>6 DEF Gate, Ends
<1>7. CASE LoadRegistry
  BY <1>2, <1>4, <1>7 DEF LoadRegistry, Ends
<1>8. CASE MintRaises
  BY <1>2, <1>4, <1>8 DEF MintRaises, Ends
<1>9. CASE MakeBrain
  BY <1>2, <1>4, <1>9 DEF MakeBrain, Ends
<1>10. ASSUME NEW n \in Provider, BuildOne(n) PROVE RunInv'
  <2>1. CASE Build(SpecOf(n)) = "built"
    BY <1>2, <1>4, <1>10, <2>1 DEF BuildOne
  <2>2. CASE Build(SpecOf(n)) # "built"
    BY <1>2, <1>4, <1>10, <2>2, BuildOutcome DEF BuildOne, Ends
  <2> QED BY <2>1, <2>2
<1>11. ASSUME NEW n \in Provider, MintOne(n) PROVE RunInv'
  BY <1>2, <1>4, <1>11 DEF MintOne
<1> QED BY <1>5, <1>6, <1>7, <1>8, <1>9, <1>10, <1>11 DEF RunStep

\* What doctor said and what the run met are read off the same tables.
LEMMA RunImplies == ASSUME RunInv PROVE DoctorPredictsRun /\ MintedIsSanctioned
<1> USE DEF RunInv, host, brain
<1>1. MintedIsSanctioned
  <2>1. ASSUME NEW n \in minted
        PROVE  /\ Cardinality(SpecOf(n).refs) <= 1 /\ SpecOf(n).extra = "none"
               /\ SpecOf(n).kind = "static_env" => SpecOf(n).consent = "yes"
    <3>1. Parses(SpecOf(n)) /\ Build(SpecOf(n)) = "built"
      BY <2>1 DEF ProvidersTypeOK, PassedInv, BuiltInv, Loads, SpecOf
    <3>2. SpecOf(n).kind = "static_env" => SpecOf(n).consent = "yes"
      BY <3>1 DEF Build
    <3>3. SpecOf(n).extra = "none"
      BY <3>1 DEF Parses, Build, KindSchema, Schema, Kind
    <3> QED BY <3>1, <3>2, <3>3 DEF Parses
  <2> QED BY <2>1 DEF MintedIsSanctioned, BuiltInv
<1>2. ASSUME report # NoReport, ~stale, report.exit # 2
      PROVE  /\ report.memory = IF host.memory THEN "ok" ELSE "fail"
             /\ report.brain = CheckBrain
             /\ DOMAIN report.provider \subseteq DOMAIN world.registry
             /\ \A n \in DOMAIN report.provider : report.provider[n] = CheckProvider(SpecOf(n))
             /\ Loads => DOMAIN report.provider = DOMAIN world.registry
  BY <1>2 DEF ReportInv, Loads
<1>3. ASSUME report # NoReport, ~stale, report.exit = 2 PROVE ~Loads
  BY <1>3 DEF ReportInv
<1>4. ASSUME NEW n \in grants, Loads, grants \subseteq DOMAIN world.registry,
             CheckProvider(SpecOf(n)) = "fail"
      PROVE  Build(SpecOf(n)) = "secret"
  <2>1. Parses(SpecOf(n))
    BY <1>4 DEF Loads, SpecOf
  <2>2. \E suf \in SpecOf(n).refs : ~Resolves(SpecOf(n), suf)
    <3>1. SpecOf(n).refs \in SUBSET Suffix
      BY <1>4 DEF ProvidersTypeOK, WorldOK, SpecOf, Table
    <3>2. Cardinality(SpecOf(n).refs) <= 1 /\ (KindSchema[SpecOf(n).kind].needs => SpecOf(n).refs # {})
      BY <2>1 DEF Parses
    <3>3. Cardinality(SpecOf(n).refs) \in Nat
      <4>1. IsFiniteSet(Suffix)
        <5>1. IsFiniteSet({"_env"})
          BY FS_Singleton
        <5>2. IsFiniteSet({"_env"} \cup {"_file"})
          BY <5>1, FS_AddElement
        <5>3. IsFiniteSet(({"_env"} \cup {"_file"}) \cup {"_keyring"})
          BY <5>2, FS_AddElement
        <5>4. Suffix = ({"_env"} \cup {"_file"}) \cup {"_keyring"}
          BY DEF Suffix
        <5> QED BY <5>3, <5>4
      <4> QED BY <3>1, <4>1, FS_Subset, FS_CardinalityType
    <3> QED BY <1>4, <3>1, <3>2, <3>3 DEF CheckProvider
  <2> QED BY <2>2 DEF Build
<1>5. ASSUME report # NoReport, ~stale, report.exit # 2
      PROVE  /\ \A n \in grants \cap DOMAIN report.provider : report.provider[n] = "fail" => minted = {}
             /\ why = "secret" => \E n \in grants \cap DOMAIN report.provider :
                  \/ report.provider[n] = "fail"
                  \/ report.provider[n] = "warn" /\ SpecOf(n).refs = {"_keyring"}
  <2>1. ASSUME NEW n \in grants \cap DOMAIN report.provider, report.provider[n] = "fail", minted # {}
        PROVE  FALSE
    <3>1. built = grants /\ built # {} /\ Loads /\ grants \subseteq DOMAIN world.registry
      BY <2>1 DEF BuiltInv, PassedInv, ProvidersTypeOK
    <3>2. Build(SpecOf(n)) = "built"
      BY <2>1, <3>1 DEF BuiltInv
    <3>3. Build(SpecOf(n)) = "secret"
      BY <1>2, <1>4, <1>5, <2>1, <3>1
    <3> QED BY <3>2, <3>3
  <2>2. ASSUME why = "secret"
        PROVE  \E n \in grants \cap DOMAIN report.provider :
                  \/ report.provider[n] = "fail"
                  \/ report.provider[n] = "warn" /\ SpecOf(n).refs = {"_keyring"}
    <3>1. PICK n \in grants : Build(SpecOf(n)) = "secret"
      BY <2>2 DEF EndedInv
    <3>2. n \in DOMAIN report.provider /\ report.provider[n] = CheckProvider(SpecOf(n))
      BY <1>2, <1>5, <2>2 DEF EndedInv
    <3>3. \E suf \in SpecOf(n).refs : ~Resolves(SpecOf(n), suf)
      BY <3>1 DEF Build
    <3> QED BY <3>2, <3>3 DEF CheckProvider
  <2> QED BY <2>1, <2>2
<1>6. DoctorPredictsRun
  <2> SUFFICES ASSUME report # NoReport, ~stale PROVE
        /\ report.exit = 2 => minted = {} /\ (grants # {} => stage # "running")
        /\ why = "registry" => report.exit = 2 \/ world.file = "absent"
        /\ report.exit # 2 =>
             /\ report.memory = "fail" <=> ~host.memory
             /\ why = "memory" => report.memory = "fail"
             /\ stage = "running" => report.memory = "ok" /\ (report.brain = "fail" => ~brain.cli)
             /\ why = "backend" => report.brain = "fail"
             /\ why = "brain" => report.brain = "fail"
                                 \/ (report.brain = "warn" /\ brain.selector = "kagura-brain")
    BY <1>5 DEF DoctorPredictsRun
  <2>1. report.exit = 2 => minted = {} /\ (grants # {} => stage # "running")
    BY <1>3 DEF PassedInv, BuiltInv, ProvidersTypeOK
  <2>2. why = "registry" => report.exit = 2 \/ world.file = "absent"
    BY DEF EndedInv, ReportInv
  <2>3. ASSUME report.exit # 2
        PROVE  /\ report.memory = "fail" <=> ~host.memory
               /\ why = "memory" => report.memory = "fail"
               /\ stage = "running" => report.memory = "ok"
    BY <1>2, <2>3 DEF EndedInv, PassedInv
  <2>4. ASSUME report.exit # 2
        PROVE  /\ stage = "running" => (report.brain = "fail" => ~brain.cli)
               /\ why = "backend" => report.brain = "fail"
               /\ why = "brain" => report.brain = "fail"
                                 \/ (report.brain = "warn" /\ brain.selector = "kagura-brain")
    <3>1. report.brain = CheckBrain
      BY <1>2, <2>4
    <3>2. brain.selector \in {"sdk", "kagura-brain", "typo"}
      BY DEF ProvidersTypeOK, WorldOK, Host, Brain
    <3> QED BY <3>1, <3>2 DEF EndedInv, PassedInv, CheckBrain, BackendKnown, BrainBuilds
  <2> QED BY <2>1, <2>2, <2>3, <2>4
<1> QED BY <1>1, <1>6

-----------------------------------------------------------------------------
(* Mounts: the walk *)

\* Every set of naturals with a member has a least one.
LEMMA LeastNatural ==
  ASSUME NEW T, T \subseteq Nat, T # {}
  PROVE  \E x \in T : \A y \in T : x <= y
<1>1. PICK x \in T : \A y \in T : ~(<<y, x>> \in OpToRel(<, Nat))
  BY NatLessThanWellFounded, WFMin
<1>2. ASSUME NEW y \in T PROVE x <= y
  <2>1. ~(y < x)
    BY <1>1 DEF OpToRel
  <2> QED BY <2>1
<1> QED BY <1>2

\* A subtree lists a directory before what is in it.
TreeOK ==
  /\ tree \in Seq([parent : 0..MaxNodes, kind : EntryKind]) /\ Len(tree) <= MaxNodes
  /\ \A i \in 1..Len(tree) : /\ tree[i].parent < i
                             /\ tree[i].parent > 0 => tree[tree[i].parent].kind = "dir"
  /\ mount.source # "dir" => tree = <<>>

\* An entry's directory comes before it.
LEMMA TreeEntry ==
  ASSUME TreeOK, NEW i \in 1..Len(tree)
  PROVE  /\ tree[i].parent \in 0..(i - 1) /\ tree[i].kind \in EntryKind
         /\ i \in Nat /\ Len(tree) \in Nat /\ i <= Len(tree)
<1> DEFINE Entry == [parent : 0..MaxNodes, kind : EntryKind]
<1>0. tree \in Seq(Entry)
  BY DEF TreeOK
<1>1. tree[i] \in Entry /\ Len(tree) \in Nat
  <2> HIDE DEF Entry
  <2> QED BY <1>0
<1>2. tree[i].parent \in Nat /\ tree[i].parent < i /\ i \in Nat
  BY <1>1, LauncherAssumption DEF TreeOK
<1> QED BY <1>1, <1>2

\* Some function on the first n entries is their depth.
DepthUpTo(n, f) ==
  /\ f \in [0..n -> Nat]
  /\ \A i \in 0..n : f[i] = (IF i = 0 THEN 0 ELSE f[tree[i].parent] + 1) /\ f[i] <= i

\* There is such a function, for any number of entries: the first number without
\* one would have one, from the function for the number before.
LEMMA DepthExists ==
  ASSUME TreeOK, NEW n \in 0..Len(tree) PROVE \E f : DepthUpTo(n, f)
<1> DEFINE Bad == {k \in 0..Len(tree) : ~\E f : DepthUpTo(k, f)}
<1>0. Len(tree) \in Nat
  BY DEF TreeOK
<1> SUFFICES ASSUME Bad # {} PROVE FALSE
  BY <1>0
<1>1. PICK k \in Bad : \A j \in Bad : k <= j
  <2>1. Bad \subseteq Nat
    BY <1>0
  <2> HIDE DEF Bad
  <2> QED BY <2>1, LeastNatural
<1>2. CASE k = 0
  <2>1. DepthUpTo(0, [i \in 0..0 |-> 0])
    BY DEF DepthUpTo
  <2> QED BY <1>2, <2>1
<1>3. CASE k > 0
  <2>1. k - 1 \in 0..Len(tree) /\ k \in 1..Len(tree) /\ k - 1 \notin Bad
    BY <1>0, <1>1, <1>3
  <2>2. PICK f : DepthUpTo(k - 1, f)
    BY <2>1
  <2> DEFINE g == [i \in 0..k |-> IF i = k THEN f[tree[k].parent] + 1 ELSE f[i]]
  <2>3. /\ tree[k].parent \in 0..(k - 1)
        /\ \A i \in 1..(k - 1) : tree[i].parent \in 0..(k - 1) /\ tree[i].parent < i
    BY <2>1, <1>0, TreeEntry
  <2>4. /\ f \in [0..(k - 1) -> Nat]
        /\ \A i \in 0..(k - 1) : f[i] = (IF i = 0 THEN 0 ELSE f[tree[i].parent] + 1) /\ f[i] <= i
    BY <2>2 DEF DepthUpTo
  <2>5. g \in [0..k -> Nat]
    BY <1>3, <2>1, <2>3, <2>4
  <2>6. \A i \in 0..(k - 1) : g[i] = f[i]
    BY <1>3, <2>1
  <2>7. g[k] = f[tree[k].parent] + 1 /\ k \in Nat
    BY <2>1, <1>0
  <2>8. ASSUME NEW i \in 0..k
        PROVE  g[i] = (IF i = 0 THEN 0 ELSE g[tree[i].parent] + 1) /\ g[i] <= i
    <3> HIDE DEF g
    <3>1. CASE i = k
      BY <1>3, <2>3, <2>4, <2>6, <2>7, <3>1
    <3>2. CASE i # k
      <4>1. i \in 0..(k - 1)
        BY <2>7, <3>2
      <4> QED BY <2>3, <2>4, <2>6, <4>1
    <3> QED BY <3>1, <3>2
  <2>9. DepthUpTo(k, g)
    <3> HIDE DEF g
    <3> QED BY <2>5, <2>8 DEF DepthUpTo
  <2> QED BY <2>9
<1> QED BY <1>0, <1>1, <1>2, <1>3

\* DepthOf is what its definition says.
LEMMA DepthFact ==
  ASSUME TreeOK
  PROVE  /\ DepthOf[0] = 0
         /\ \A i \in 1..Len(tree) : DepthOf[i] = DepthOf[tree[i].parent] + 1
         /\ \A i \in 0..Len(tree) : DepthOf[i] \in Nat /\ DepthOf[i] <= i
<1>0. Len(tree) \in Nat
  BY DEF TreeOK
<1>1. PICK f : DepthUpTo(Len(tree), f)
  BY <1>0, DepthExists
<1>2. f = [i \in 0..Len(tree) |-> IF i = 0 THEN 0 ELSE f[tree[i].parent] + 1]
  BY <1>1 DEF DepthUpTo
<1>3. DepthOf = [i \in 0..Len(tree) |-> IF i = 0 THEN 0 ELSE DepthOf[tree[i].parent] + 1]
  BY <1>2, Zenon DEF DepthOf
<1>4. DepthOf[0] = 0 /\ \A i \in 1..Len(tree) : DepthOf[i] = DepthOf[tree[i].parent] + 1
  BY <1>0, <1>3
<1> DEFINE Bad == {i \in 0..Len(tree) : ~(DepthOf[i] \in Nat /\ DepthOf[i] <= i)}
<1>5. Bad = {}
  <2> SUFFICES ASSUME Bad # {} PROVE FALSE
    OBVIOUS
  <2>1. PICK k \in Bad : \A j \in Bad : k <= j
    <3>1. Bad \subseteq Nat
      BY <1>0
    <3> HIDE DEF Bad
    <3> QED BY <3>1, LeastNatural
  <2>2. CASE k = 0
    BY <1>4, <2>2
  <2>3. CASE k # 0
    <3>1. k \in 1..Len(tree) /\ tree[k].parent \in 0..Len(tree) /\ tree[k].parent < k
      <4>1. k \in 1..Len(tree)
        BY <1>0, <2>3
      <4> QED BY <4>1, TreeEntry
    <3>2. tree[k].parent \notin Bad
      BY <1>0, <2>1, <3>1
    <3>3. DepthOf[tree[k].parent] \in Nat /\ DepthOf[tree[k].parent] <= tree[k].parent
      BY <3>1, <3>2
    <3> QED BY <1>4, <3>1, <3>3
  <2> QED BY <2>2, <2>3
<1> QED BY <1>4, <1>5

WalkTypeOK ==
  /\ mount \in [source : Source, within : BOOLEAN, target : BOOLEAN]
  /\ TreeOK
  /\ phase \in {"new", "walk", "unsafe", "clean", "valid", "running", "refused"}
  /\ stack \in Seq((0..Len(tree)) \X (0..Len(tree)))
  /\ listing \subseteq 1..Len(tree)
  /\ depth \in 0..MaxDepth
  /\ entries \in 0..MaxEntries

\* S is what the walk has looked at.  The directories in it, and the source, are
\* on the stack or scanned, and everything else is below one on the stack or in
\* the listing.
Dirs(S) == {0} \cup {i \in S : tree[i].kind \in {"dir", "locked"}}
OnStack(d) == \E k \in 1..Len(stack) : stack[k][1] = d
Scanned(S, d) ==
  ~Locked(d) /\ DepthOf[d] <= MaxDepth /\ Children(d) \subseteq S \cup listing

StackInv(S) ==
  \A k \in 1..Len(stack) :
    /\ stack[k][1] \in Dirs(S) /\ stack[k][2] = DepthOf[stack[k][1]]
    /\ Children(stack[k][1]) \cap (S \cup listing) = {}
    /\ \A j \in 1..Len(stack) : stack[j][1] = stack[k][1] => j = k

Seen(S) ==
  /\ S \cap listing = {} /\ entries = Cardinality(S)
  /\ \A i \in S : tree[i].kind \in {"file", "dir", "locked", "symlink"}
  /\ \A i \in S \cup listing : tree[i].parent \in S \cup {0}
  /\ \A i \in listing : DepthOf[i] = depth + 1
  /\ StackInv(S)
  /\ \A d \in Dirs(S) : OnStack(d) \/ Scanned(S, d)

WalkInv ==
  /\ phase = "new" => stack = <<>> /\ listing = {} /\ depth = 0 /\ entries = 0
  /\ phase = "walk" => \E S \in SUBSET (1..Len(tree)) : Seen(S)

LEMMA Caps == MaxNodes \in Nat /\ MaxEntries \in Nat /\ MaxDepth \in Nat
BY LauncherAssumption

LEMMA TreeDomain == ASSUME TreeOK PROVE DOMAIN tree = 1..Len(tree) /\ Len(tree) \in Nat
BY DEF TreeOK

LEMMA SeenFinite ==
  ASSUME TreeOK, NEW S \in SUBSET (1..Len(tree))
  PROVE  /\ IsFiniteSet(S) /\ Cardinality(S) \in Nat /\ Cardinality(S) <= Len(tree)
         /\ Cardinality(S) = Len(tree) => S = 1..Len(tree)
<1>1. Len(tree) \in Nat
  BY TreeDomain
<1>2. IsFiniteSet(1..Len(tree)) /\ Cardinality(1..Len(tree)) = Len(tree)
  BY <1>1, FS_Interval
<1>3. /\ IsFiniteSet(S) /\ Cardinality(S) <= Cardinality(1..Len(tree))
      /\ Cardinality(1..Len(tree)) = Cardinality(S) => 1..Len(tree) = S
  BY <1>2, FS_Subset
<1> QED BY <1>2, <1>3, FS_CardinalityType

\* The walk starts at the source.
LEMMA WalkBegins == ASSUME WalkTypeOK, WalkInv, Resolve PROVE WalkTypeOK' /\ WalkInv'
<1> USE Caps
<1>0. /\ UNCHANGED <<mount, tree, listing, depth, entries>> /\ phase = "new" /\ TreeOK
      /\ Len(tree) \in Nat
  BY TreeDomain DEF Resolve, WalkTypeOK
<1>1. TreeOK'
  BY <1>0 DEF TreeOK
<1>2. CASE stack' = stack /\ phase' \in {"refused", "clean"}
  BY <1>0, <1>1, <1>2 DEF WalkTypeOK, WalkInv
<1>3. CASE stack' = <<<<0, 0>>>> /\ phase' = "walk"
  <2>1. <<0, 0>> \in (0..Len(tree)) \X (0..Len(tree))
    BY <1>0
  <2>2. WalkTypeOK'
    BY <1>0, <1>1, <1>3, <2>1 DEF WalkTypeOK
  <2>3. DepthOf' = DepthOf /\ DepthOf[0] = 0
    <3>1. DepthOf' = DepthOf
      BY <1>0 DEF DepthOf
    <3> QED BY <1>0, <3>1, DepthFact
  <2>4. Len(stack') = 1 /\ stack'[1] = <<0, 0>>
    BY <1>3
  <2>5. entries' = 0 /\ listing' = {} /\ Cardinality({}) = 0
    BY <1>0, FS_EmptySet DEF WalkInv
  <2>6. Seen({})'
    BY <2>3, <2>4, <2>5 DEF Seen, StackInv, Dirs, OnStack
  <2> QED BY <1>3, <2>2, <2>6 DEF WalkInv
<1> QED BY <1>2, <1>3 DEF Resolve

LEMMA DepthStays == ASSUME UNCHANGED tree PROVE DepthOf' = DepthOf
BY DEF DepthOf

\* The directory taken next, and the stack it leaves.
LEMMA StackTop ==
  ASSUME WalkTypeOK, stack # <<>>
  PROVE  /\ Len(stack) \in Nat \ {0}
         /\ stack[Len(stack)][1] \in 0..Len(tree) /\ stack[Len(stack)][2] \in Nat
         /\ SubSeq(stack, 1, Len(stack) - 1) \in Seq((0..Len(tree)) \X (0..Len(tree)))
         /\ Len(SubSeq(stack, 1, Len(stack) - 1)) = Len(stack) - 1
         /\ \A k \in 1..(Len(stack) - 1) : SubSeq(stack, 1, Len(stack) - 1)[k] = stack[k]
<1> DEFINE Item == (0..Len(tree)) \X (0..Len(tree))
<1>1. stack \in Seq(Item)
  BY DEF WalkTypeOK
<1>2. /\ Len(stack) \in Nat \ {0} /\ stack[Len(stack)] \in Item
      /\ SubSeq(stack, 1, Len(stack) - 1) \in Seq(Item)
      /\ Len(SubSeq(stack, 1, Len(stack) - 1)) = Len(stack) - 1
      /\ \A k \in 1..(Len(stack) - 1) : SubSeq(stack, 1, Len(stack) - 1)[k] = stack[k]
  <2> HIDE DEF Item
  <2>1. Len(stack) \in Nat \ {0} /\ \A k \in 1..Len(stack) : stack[k] \in Item
    BY <1>1, EmptySeq, ElementOfSeq
  <2>2. \A k \in 1..(Len(stack) - 1) : stack[k] \in Item
    BY <2>1
  <2>3. /\ SubSeq(stack, 1, Len(stack) - 1) \in Seq(Item)
        /\ Len(SubSeq(stack, 1, Len(stack) - 1)) =
             IF 1 <= Len(stack) - 1 THEN (Len(stack) - 1) - 1 + 1 ELSE 0
        /\ \A k \in 1..((Len(stack) - 1) - 1 + 1) :
             SubSeq(stack, 1, Len(stack) - 1)[k] = stack[1 + k - 1]
    <3>1. Len(stack) - 1 \in Int
      BY <2>1
    <3> QED BY <2>2, <3>1, SubSeqProperties
  <2>4. Len(SubSeq(stack, 1, Len(stack) - 1)) = Len(stack) - 1
    <3> DEFINE n == Len(stack)
               l == Len(SubSeq(stack, 1, Len(stack) - 1))
    <3>1. n \in Nat \ {0} /\ l = IF 1 <= n - 1 THEN (n - 1) - 1 + 1 ELSE 0
      BY <2>1, <2>3
    <3> HIDE DEF n, l
    <3>2. l = n - 1
      BY <3>1
    <3> QED BY <3>2 DEF n, l
  <2>5. ASSUME NEW k \in 1..(Len(stack) - 1) PROVE SubSeq(stack, 1, Len(stack) - 1)[k] = stack[k]
    <3>1. k \in 1..((Len(stack) - 1) - 1 + 1) /\ 1 + k - 1 = k
      BY <2>1
    <3> QED BY <2>3, <3>1
  <2> QED BY <2>1, <2>3, <2>4, <2>5
<1> QED BY <1>2

\* Opening a directory: it leaves the stack, and its entries are the listing.
LEMMA OpenKeeps == ASSUME WalkTypeOK, WalkInv, Open PROVE WalkTypeOK' /\ WalkInv'
<1> USE Caps
<1> DEFINE top == stack[Len(stack)]
<1>0. /\ UNCHANGED <<mount, tree, entries>> /\ phase = "walk" /\ listing = {} /\ stack # <<>>
      /\ TreeOK /\ TreeOK' /\ DOMAIN tree = 1..Len(tree)
  BY TreeDomain DEF Open, WalkTypeOK, TreeOK, walkVars
<1>1. CASE phase' = "unsafe" /\ UNCHANGED walkVars
  BY <1>0, <1>1 DEF WalkTypeOK, WalkInv, walkVars
<1>2. CASE ~(phase' = "unsafe" /\ UNCHANGED walkVars)
  <2>1. /\ ~(top[2] > MaxDepth) /\ ~Locked(top[1])
        /\ stack' = SubSeq(stack, 1, Len(stack) - 1)
        /\ listing' = Children(top[1]) /\ depth' = top[2] /\ phase' = "walk"
    BY <1>0, <1>2 DEF Open
  <2>2. /\ Len(stack) \in Nat \ {0} /\ top[1] \in 0..Len(tree) /\ top[2] \in Nat
        /\ stack' \in Seq((0..Len(tree)) \X (0..Len(tree))) /\ Len(stack') = Len(stack) - 1
        /\ \A k \in 1..Len(stack') : stack'[k] = stack[k]
    BY <1>0, <2>1, StackTop
  <2>3. listing' \subseteq 1..Len(tree) /\ depth' \in 0..MaxDepth
    BY <1>0, <2>1, <2>2 DEF Children
  <2>4. WalkTypeOK'
    BY <1>0, <2>1, <2>2, <2>3 DEF WalkTypeOK
  <2>5. PICK S \in SUBSET (1..Len(tree)) : Seen(S)
    BY <1>0 DEF WalkInv
  <2>6. DepthOf' = DepthOf
    BY <1>0, DepthStays
  <2>7. top[1] \in Dirs(S) /\ top[2] = DepthOf[top[1]] /\ Children(top[1]) \cap S = {}
    <3>1. StackInv(S) /\ Len(stack) \in 1..Len(stack)
      BY <2>2, <2>5 DEF Seen
    <3>2. Children(top[1]) \cap (S \cup listing) = {}
      BY <3>1 DEF StackInv
    <3> QED BY <3>1, <3>2 DEF StackInv
  <2>8. \A k \in 1..Len(stack') : stack[k][1] # top[1]
    <3> HIDE DEF top
    <3>1. StackInv(S)
      BY <2>5 DEF Seen
    <3>2. \A i, j \in 1..Len(stack) : i # j => stack[i][1] # stack[j][1]
      BY <3>1 DEF StackInv
    <3>3. \A k \in 1..Len(stack') : k \in 1..Len(stack) /\ k # Len(stack) /\ Len(stack) \in 1..Len(stack)
      BY <2>2
    <3> QED BY <3>2, <3>3 DEF top
  <2>9. \A i \in listing' : tree[i].parent = top[1] /\ DepthOf[i] = depth' + 1
    <3> SUFFICES ASSUME NEW i \in listing' PROVE tree[i].parent = top[1] /\ DepthOf[i] = depth' + 1
      OBVIOUS
    <3>1. i \in 1..Len(tree) /\ tree[i].parent = top[1]
      BY <2>1, <2>3 DEF Children
    <3> QED BY <1>0, <2>1, <2>7, <3>1, DepthFact
  <2>10. \A d : Children(d)' = Children(d) /\ (Locked(d)' <=> Locked(d))
    BY <1>0 DEF Children, Locked
  <2>11. StackInv(S)'
    <3> SUFFICES ASSUME NEW k \in 1..Len(stack')
                 PROVE  /\ stack[k][1] \in Dirs(S) /\ stack[k][2] = DepthOf[stack[k][1]]
                        /\ Children(stack[k][1]) \cap (S \cup listing') = {}
                        /\ \A j \in 1..Len(stack') : stack[j][1] = stack[k][1] => j = k
      BY <1>0, <2>2, <2>6, <2>10 DEF StackInv, Dirs
    <3>1. k \in 1..Len(stack) /\ \A j \in 1..Len(stack') : j \in 1..Len(stack)
      BY <2>2
    <3>2. Children(stack[k][1]) \cap listing' = {}
      BY <2>1, <2>8 DEF Children
    <3> QED BY <2>5, <3>1, <3>2 DEF Seen, StackInv
  <2>12. ASSUME NEW d \in Dirs(S) PROVE OnStack(d)' \/ Scanned(S, d)'
    <3>1. CASE d = top[1]
      BY <2>1, <2>2, <2>6, <2>7, <2>10, <3>1 DEF Scanned
    <3>2. CASE d # top[1] /\ OnStack(d)
      <4>1. PICK k \in 1..Len(stack) : stack[k][1] = d
        BY <3>2 DEF OnStack
      <4>2. k \in 1..Len(stack')
        BY <2>2, <3>2, <4>1
      <4> QED BY <2>2, <4>1, <4>2 DEF OnStack
    <3>3. CASE Scanned(S, d)
      BY <1>0, <2>6, <2>10, <3>3 DEF Scanned
    <3> QED BY <2>5, <3>1, <3>2, <3>3 DEF Seen
  <2>13. top[1] \in S \cup {0}
    BY <2>7 DEF Dirs
  <2>14. Seen(S)'
    BY <1>0, <2>1, <2>5, <2>6, <2>7, <2>9, <2>11, <2>12, <2>13 DEF Seen, Dirs
  <2> QED BY <1>0, <2>1, <2>4, <2>14 DEF WalkInv
<1> QED BY <1>1, <1>2

\* Looking at an entry: it joins S, and is on the stack if it is a directory.
LEMMA LookKeeps == ASSUME WalkTypeOK, WalkInv, NEW i \in 1..MaxNodes, Look(i)
                   PROVE  WalkTypeOK' /\ WalkInv'
<1> USE Caps
<1>0. /\ UNCHANGED <<mount, tree>> /\ phase = "walk" /\ i \in listing
      /\ TreeOK /\ TreeOK' /\ DOMAIN tree = 1..Len(tree) /\ Len(tree) \in Nat
  BY TreeDomain DEF Look, WalkTypeOK, TreeOK, walkVars
<1>1. CASE phase' = "unsafe" /\ UNCHANGED walkVars
  BY <1>0, <1>1 DEF WalkTypeOK, WalkInv, walkVars
<1>2. CASE ~(phase' = "unsafe" /\ UNCHANGED walkVars)
  <2>1. /\ entries # MaxEntries /\ tree[i].kind \notin {"socket", "device", "opaque"}
        /\ entries' = entries + 1 /\ listing' = listing \ {i}
        /\ stack' = IF tree[i].kind \in {"dir", "locked"} THEN Append(stack, <<i, depth + 1>>)
                    ELSE stack
        /\ phase' = "walk" /\ depth' = depth
    BY <1>0, <1>2 DEF Look
  <2>2. i \in 1..Len(tree) /\ tree[i].kind \in EntryKind
    BY <1>0, TreeEntry DEF WalkTypeOK
  <2>3. /\ stack' \in Seq((0..Len(tree)) \X (0..Len(tree)))
        /\ Len(stack) \in Nat
        /\ \A k \in 1..Len(stack) : k \in 1..Len(stack') /\ stack'[k] = stack[k]
        /\ tree[i].kind \notin {"dir", "locked"} => Len(stack') = Len(stack)
        /\ tree[i].kind \in {"dir", "locked"} =>
             Len(stack') = Len(stack) + 1 /\ stack'[Len(stack')] = <<i, depth + 1>>
    <3> DEFINE Item == (0..Len(tree)) \X (0..Len(tree))
    <3>0. depth + 1 \in 0..Len(tree)
      <4>1. DepthOf[i] = depth + 1 /\ i \in 0..Len(tree)
        BY <1>0, <2>2 DEF WalkInv, Seen
      <4>2. DepthOf[i] \in Nat /\ DepthOf[i] <= i
        BY <1>0, <4>1, DepthFact
      <4> QED BY <1>0, <4>1, <4>2
    <3>1. <<i, depth + 1>> \in Item /\ stack \in Seq(Item)
      BY <2>2, <3>0 DEF WalkTypeOK
    <3> DEFINE item == <<i, depth + 1>>
    <3>2. /\ Len(stack) \in Nat
          /\ Append(stack, item) \in Seq(Item) /\ Len(Append(stack, item)) = Len(stack) + 1
          /\ \A k \in 1..Len(stack) : Append(stack, item)[k] = stack[k]
          /\ Append(stack, item)[Len(stack) + 1] = item
      <4> HIDE DEF Item, item
      <4> QED BY <3>1, AppendProperties, LenProperties DEF item
    <3> HIDE DEF Item, item
    <3>3. stack' = (IF tree[i].kind \in {"dir", "locked"} THEN Append(stack, item) ELSE stack)
      BY <2>1 DEF item
    <3>4. stack' \in Seq((0..Len(tree)) \X (0..Len(tree)))
      BY <3>1, <3>2, <3>3 DEF Item
    <3>5. ASSUME NEW k \in 1..Len(stack) PROVE k \in 1..Len(stack') /\ stack'[k] = stack[k]
      BY <3>2, <3>3
    <3>6. tree[i].kind \notin {"dir", "locked"} => Len(stack') = Len(stack)
      BY <3>3
    <3>7. tree[i].kind \in {"dir", "locked"} =>
            Len(stack') = Len(stack) + 1 /\ stack'[Len(stack')] = item
      BY <3>2, <3>3
    <3> QED BY <3>2, <3>4, <3>5, <3>6, <3>7 DEF item
  <2>4. WalkTypeOK'
    BY <1>0, <2>1, <2>3 DEF WalkTypeOK
  <2>5. PICK S \in SUBSET (1..Len(tree)) : Seen(S)
    BY <1>0 DEF WalkInv
  <2> DEFINE R == S \cup {i}
  <2>6. /\ DepthOf' = DepthOf
        /\ \A d : Children(d)' = Children(d) /\ (Locked(d)' <=> Locked(d))
    BY <1>0, DepthStays DEF Children, Locked
  <2>7. /\ i \notin S /\ i # 0 /\ R \cup listing' = S \cup listing /\ R \cap listing' = {}
        /\ DepthOf[i] = depth + 1 /\ R \in SUBSET (1..Len(tree))
    <3>1. S \cap listing = {} /\ DepthOf[i] = depth + 1 /\ i \in listing
      BY <1>0, <2>5 DEF Seen
    <3>2. i \notin S /\ i # 0 /\ R \in SUBSET (1..Len(tree))
      BY <2>2, <2>5, <3>1
    <3>3. R \cup listing' = S \cup listing /\ R \cap listing' = {}
      BY <2>1, <3>1
    <3> QED BY <3>1, <3>2, <3>3
  <2>8. Cardinality(R) = entries'
    BY <1>0, <2>1, <2>5, <2>7, SeenFinite, FS_AddElement DEF Seen
  <2>9. /\ Dirs(R)' = IF tree[i].kind \in {"dir", "locked"} THEN Dirs(S) \cup {i} ELSE Dirs(S)
        /\ i \notin Dirs(S)
    BY <1>0, <2>7 DEF Dirs
  <2>10. \A k \in 1..Len(stack) :
           /\ stack[k][1] \in Dirs(S) /\ stack[k][2] = DepthOf[stack[k][1]]
           /\ Children(stack[k][1]) \cap (S \cup listing) = {}
           /\ \A j \in 1..Len(stack) : stack[j][1] = stack[k][1] => j = k
    BY <2>5 DEF Seen, StackInv
  <2>11. Children(i) \cap (S \cup listing) = {}
    BY <2>5, <2>7 DEF Seen, Children
  <2>12. StackInv(R)'
    <3> HIDE DEF R
    <3>1. CASE tree[i].kind \notin {"dir", "locked"}
      <4>1. Len(stack') = Len(stack) /\ \A k \in 1..Len(stack') : stack'[k] = stack[k]
        BY <2>3, <3>1
      <4>2. Dirs(R)' = Dirs(S)
        BY <2>9, <3>1
      <4>3. ASSUME NEW k \in 1..Len(stack')
            PROVE  /\ stack'[k][1] \in Dirs(R)' /\ stack'[k][2] = DepthOf[stack'[k][1]]
                   /\ Children(stack'[k][1]) \cap (S \cup listing) = {}
                   /\ \A j \in 1..Len(stack') : stack'[j][1] = stack'[k][1] => j = k
        <5>1. k \in 1..Len(stack) /\ stack'[k] = stack[k]
          BY <4>1
        <5>2. \A j \in 1..Len(stack') : stack'[j][1] = stack[k][1] => j = k
          BY <2>10, <4>1, <5>1
        <5> QED BY <2>10, <4>2, <5>1, <5>2
      <4> QED BY <2>6, <2>7, <4>3 DEF StackInv
    <3>2. CASE tree[i].kind \in {"dir", "locked"}
      <4>1. /\ Len(stack') = Len(stack) + 1 /\ stack'[Len(stack')] = <<i, depth + 1>>
            /\ \A k \in 1..Len(stack') : k # Len(stack') => k \in 1..Len(stack) /\ stack'[k] = stack[k]
        <5>1. Len(stack') = Len(stack) + 1 /\ stack'[Len(stack')] = <<i, depth + 1>>
          BY <2>3, <3>2
        <5>2. ASSUME NEW k \in 1..Len(stack'), k # Len(stack')
              PROVE  k \in 1..Len(stack) /\ stack'[k] = stack[k]
          <6>1. k \in 1..Len(stack)
            BY <2>3, <5>1, <5>2
          <6> QED BY <2>3, <6>1
        <5> QED BY <5>1, <5>2
      <4>2. \A k \in 1..Len(stack) : stack[k][1] # i
        BY <2>9, <2>10
      <4>3. ASSUME NEW k \in 1..Len(stack')
            PROVE  /\ stack'[k][1] \in Dirs(R)' /\ stack'[k][2] = DepthOf[stack'[k][1]]
                   /\ Children(stack'[k][1]) \cap (S \cup listing) = {}
                   /\ \A j \in 1..Len(stack') : stack'[j][1] = stack'[k][1] => j = k
        <5>1. CASE k = Len(stack')
          <6>1. stack'[k] = <<i, depth + 1>>
            BY <4>1, <5>1
          <6>2. \A j \in 1..Len(stack') : stack'[j][1] = i => j = k
            BY <4>1, <4>2, <5>1
          <6> QED BY <2>7, <2>9, <2>11, <3>2, <6>1, <6>2
        <5>2. CASE k # Len(stack')
          <6>1. k \in 1..Len(stack) /\ stack'[k] = stack[k] /\ stack[k][1] # i
            BY <4>1, <4>2, <5>2
          <6>2. \A j \in 1..Len(stack') : stack'[j][1] = stack[k][1] => j = k
            BY <2>10, <4>1, <6>1
          <6> QED BY <2>9, <2>10, <3>2, <6>1, <6>2
        <5> QED BY <5>1, <5>2
      <4> QED BY <2>6, <2>7, <4>3 DEF StackInv
    <3> QED BY <3>1, <3>2
  <2>13. ASSUME NEW d \in Dirs(R)' PROVE OnStack(d)' \/ Scanned(R, d)'
    <3>1. CASE d = i
      <4>1. tree[i].kind \in {"dir", "locked"}
        BY <2>9, <3>1
      <4>2. Len(stack') \in 1..Len(stack') /\ stack'[Len(stack')][1] = i
        BY <2>3, <4>1
      <4> QED BY <3>1, <4>2 DEF OnStack
    <3>2. CASE d # i
      <4>1. d \in Dirs(S)
        BY <2>9, <3>2
      <4>2. CASE OnStack(d)
        BY <2>3, <4>2 DEF OnStack
      <4>3. CASE Scanned(S, d)
        BY <2>6, <2>7, <4>3 DEF Scanned
      <4> QED BY <2>5, <4>1, <4>2, <4>3 DEF Seen
    <3> QED BY <3>1, <3>2
  <2>14. /\ \A j \in R : tree[j].kind \in {"file", "dir", "locked", "symlink"}
         /\ \A j \in R \cup listing' : tree[j].parent \in R \cup {0}
         /\ \A j \in listing' : DepthOf[j] = depth' + 1
    <3>1. tree[i].kind \in {"file", "dir", "locked", "symlink"}
      BY <2>1, <2>2 DEF EntryKind
    <3> QED BY <2>1, <2>5, <2>7, <3>1 DEF Seen
  <2>15. Seen(R)'
    <3> HIDE DEF R
    <3> QED BY <1>0, <2>6, <2>7, <2>8, <2>12, <2>13, <2>14 DEF Seen
  <2> HIDE DEF R
  <2> QED BY <1>0, <2>1, <2>4, <2>7, <2>15 DEF WalkInv
<1> QED BY <1>1, <1>2

\* When nothing is left to look at, everything was looked at.
LEMMA WalkComplete ==
  ASSUME WalkTypeOK, NEW S \in SUBSET (1..Len(tree)), Seen(S), listing = {}, stack = <<>>
  PROVE  TreeIsSafe
<1> USE Caps
<1>0. TreeOK /\ DOMAIN tree = 1..Len(tree) /\ Len(tree) \in Nat
  BY TreeDomain DEF WalkTypeOK
<1>1. \A d \in Dirs(S) : Scanned(S, d)
  BY DEF Seen, OnStack
<1>2. S = 1..Len(tree)
  <2> DEFINE Missed == (1..Len(tree)) \ S
  <2> SUFFICES ASSUME Missed # {} PROVE FALSE
    OBVIOUS
  <2>1. PICK k \in Missed : \A j \in Missed : k <= j
    <3>1. Missed \subseteq Nat
      BY <1>0
    <3> HIDE DEF Missed
    <3> QED BY <3>1, LeastNatural
  <2>2. tree[k].parent \in 0..(k - 1) /\ k \in Nat /\ k <= Len(tree)
    BY <1>0, TreeEntry
  <2>3. tree[k].parent \in Dirs(S)
    <3>1. CASE tree[k].parent = 0
      BY <3>1 DEF Dirs
    <3>2. CASE tree[k].parent # 0
      <4>1. tree[k].parent \in S
        BY <1>0, <2>1, <2>2, <3>2
      <4>2. tree[tree[k].parent].kind = "dir"
        BY <1>0, <2>1, <2>2, <3>2 DEF TreeOK
      <4> QED BY <4>1, <4>2 DEF Dirs
    <3> QED BY <3>1, <3>2
  <2>4. k \in S
    BY <1>0, <1>1, <2>1, <2>3 DEF Scanned, Children
  <2> QED BY <2>4
<1>3. Len(tree) <= MaxEntries
  <2>1. Cardinality(1..Len(tree)) = Len(tree)
    <3>1. Cardinality(1..Len(tree)) = IF 1 > Len(tree) THEN 0 ELSE Len(tree) - 1 + 1
      BY <1>0, FS_Interval
    <3> QED BY <1>0, <3>1
  <2> QED BY <1>2, <2>1 DEF Seen, WalkTypeOK
<1>4. mount.source # "lockedDir"
  BY <1>1 DEF Dirs, Scanned, Locked
<1>5. ASSUME NEW i \in 1..Len(tree)
      PROVE  tree[i].kind \in {"file", "dir", "symlink"} /\ (tree[i].kind = "dir" => DepthOf[i] <= MaxDepth)
  <2>1. tree[i].kind \in {"file", "dir", "locked", "symlink"} /\ i # 0
    BY <1>0, <1>2 DEF Seen
  <2>2. CASE tree[i].kind \in {"dir", "locked"}
    <3>1. Scanned(S, i)
      BY <1>1, <1>2, <2>2 DEF Dirs
    <3> QED BY <2>1, <2>2, <3>1 DEF Scanned, Locked
  <2> QED BY <2>1, <2>2
<1> QED BY <1>0, <1>3, <1>4, <1>5 DEF TreeIsSafe

\* A walk that stops has met something unsafe.
LEMMA WalkRefuses ==
  ASSUME WalkTypeOK, WalkInv, phase = "walk", phase' = "unsafe",
         Open \/ \E i \in 1..MaxNodes : Look(i)
  PROVE  ~TreeIsSafe
<1> USE Caps
<1>0. TreeOK /\ DOMAIN tree = 1..Len(tree) /\ Len(tree) \in Nat
  BY TreeDomain DEF WalkTypeOK
<1>1. PICK S \in SUBSET (1..Len(tree)) : Seen(S)
  BY DEF WalkInv
<1>2. CASE Open
  <2> DEFINE top == stack[Len(stack)]
  <2>1. stack # <<>> /\ (top[2] > MaxDepth \/ Locked(top[1]))
    BY <1>2 DEF Open
  <2>2. Len(stack) \in Nat \ {0} /\ top[1] \in 0..Len(tree)
    BY <2>1, StackTop
  <2>3. top[1] \in Dirs(S) /\ top[2] = DepthOf[top[1]]
    BY <1>1, <2>2 DEF Seen, StackInv
  <2>4. CASE top[1] = 0
    BY <1>0, <2>1, <2>3, <2>4, DepthFact DEF TreeIsSafe, Locked
  <2>5. CASE top[1] # 0
    <3>1. top[1] \in 1..Len(tree) /\ tree[top[1]].kind \in {"dir", "locked"}
      BY <2>3, <2>5 DEF Dirs
    <3>2. top[2] \in Nat
      BY <1>0, <2>2, <2>3, DepthFact
    <3>3. CASE top[2] > MaxDepth /\ tree[top[1]].kind = "dir"
      BY <1>0, <2>3, <3>1, <3>2, <3>3 DEF TreeIsSafe
    <3>4. CASE tree[top[1]].kind = "locked"
      BY <1>0, <3>1, <3>4 DEF TreeIsSafe
    <3>5. top[2] > MaxDepth \/ tree[top[1]].kind = "locked"
      BY <2>1, <2>5 DEF Locked
    <3> QED BY <3>1, <3>3, <3>4, <3>5
  <2> QED BY <2>4, <2>5
<1>3. ASSUME NEW i \in 1..MaxNodes, Look(i) PROVE ~TreeIsSafe
  <2>1. i \in listing /\ (entries = MaxEntries \/ tree[i].kind \in {"socket", "device", "opaque"})
    BY <1>3 DEF Look
  <2>2. i \in 1..Len(tree) /\ i \notin S
    BY <1>1, <2>1 DEF WalkTypeOK, Seen
  <2>3. CASE entries = MaxEntries
    <3>1. S \cup {i} \in SUBSET (1..Len(tree)) /\ IsFiniteSet(S)
      BY <1>0, <2>2, SeenFinite
    <3>2. Cardinality(S \cup {i}) = Cardinality(S) + 1
      BY <2>2, <3>1, FS_AddElement
    <3>3. Cardinality(S \cup {i}) <= Len(tree) /\ Cardinality(S) = MaxEntries
      BY <1>0, <1>1, <2>3, <3>1, SeenFinite DEF Seen
    <3> QED BY <1>0, <3>2, <3>3 DEF TreeIsSafe
  <2>4. CASE tree[i].kind \in {"socket", "device", "opaque"}
    BY <1>0, <2>2, <2>4 DEF TreeIsSafe
  <2> QED BY <2>1, <2>3, <2>4
<1> QED BY <1>2, <1>3
-----------------------------------------------------------------------------
(* Egress: text *)

\* A text as a function.
LEMMA TextFacts ==
  ASSUME NEW s \in Seq(Char)
  PROVE  /\ Len(s) \in Nat /\ DOMAIN s = 1..Len(s) /\ (s # <<>> <=> Len(s) > 0)
         /\ \A i \in 1..Len(s) : s[i] \in Char
<1>1. Len(s) \in Nat /\ DOMAIN s = 1..Len(s)
  BY LenProperties
<1>2. \A i \in 1..Len(s) : s[i] \in Char
  BY ElementOfSeq
<1>3. s # <<>> <=> Len(s) > 0
  BY <1>1, EmptySeq
<1> QED BY <1>1, <1>2, <1>3

\* What is cut out of a text.
LEMMA Cut ==
  ASSUME NEW s \in Seq(Char), NEW m \in Nat \ {0}, NEW n \in Nat, n <= Len(s)
  PROVE  /\ SubSeq(s, m, n) \in Seq(Char)
         /\ Len(SubSeq(s, m, n)) = IF m <= n THEN n - m + 1 ELSE 0
         /\ \A i \in 1..(n - m + 1) : SubSeq(s, m, n)[i] = s[m + i - 1]
<1>1. \A i \in m..n : s[i] \in Char
  BY TextFacts
<1> QED BY <1>1, SubSeqProperties

\* A bounded set of naturals has a greatest member.
LEMMA GreatestNatural ==
  ASSUME NEW n \in Nat, NEW T \in SUBSET (1..n), T # {}
  PROVE  \E x \in T : \A y \in T : x >= y
<1> DEFINE U == {n - i : i \in T}
<1>1. U \subseteq Nat /\ U # {}
  <2>1. \A i \in T : n - i \in Nat
    OBVIOUS
  <2> QED BY <2>1
<1>2. PICK u \in U : \A v \in U : u <= v
  <2> HIDE DEF U
  <2> QED BY <1>1, LeastNatural
<1>3. PICK x \in T : u = n - x
  OBVIOUS
<1>4. ASSUME NEW y \in T PROVE x >= y
  <2>1. u <= n - y
    BY <1>2
  <2> QED BY <1>3, <2>1
<1> QED BY <1>4

\* strip and _normalize_host return text.
LEMMA StripText == ASSUME NEW s \in Seq(Char) PROVE Strip(s) \in Seq(Char)
<1> DEFINE ink == {i \in 1..Len(s) : s[i] # Space}
           a == CHOOSE i \in ink : \A j \in ink : i <= j
           b == CHOOSE i \in ink : \A j \in ink : i >= j
<1>0. Len(s) \in Nat /\ ink \in SUBSET (1..Len(s))
  BY TextFacts
<1>1. CASE ink = {}
  BY <1>1, EmptySeq DEF Strip
<1>2. CASE ink # {}
  <2>1. a \in ink /\ b \in ink
    <3>1. (\E i \in ink : \A j \in ink : i <= j) /\ (\E i \in ink : \A j \in ink : i >= j)
      <4> HIDE DEF ink
      <4>1. ink \subseteq Nat
        BY <1>0
      <4> QED BY <1>0, <1>2, <4>1, LeastNatural, GreatestNatural
    <3> HIDE DEF ink
    <3> QED BY <3>1
  <2>2. a \in Nat \ {0} /\ b \in Nat /\ b <= Len(s)
    <3> HIDE DEF a, b, ink
    <3> QED BY <1>0, <2>1
  <2>3. Strip(s) = SubSeq(s, a, b)
    BY <1>2 DEF Strip
  <2> HIDE DEF a, b, ink
  <2> QED BY <2>2, <2>3, Cut
<1> QED BY <1>1, <1>2

\* A text without spaces is left alone.
LEMMA StripPlain == ASSUME NEW s \in Seq(Char), ~Has(s, Space) PROVE Strip(s) = s
<1> DEFINE ink == {i \in 1..Len(s) : s[i] # Space}
           a == CHOOSE i \in ink : \A j \in ink : i <= j
           b == CHOOSE i \in ink : \A j \in ink : i >= j
<1> DEFINE n == Len(s)
<1>0. n \in Nat /\ ink = 1..n
  BY TextFacts DEF Has
<1> HIDE DEF n
<1>1. CASE n = 0
  <2>1. Strip(s) = IF ink = {} THEN <<>> ELSE SubSeq(s, a, b)
    BY DEF Strip
  <2> HIDE DEF ink, a, b
  <2>2. ink = {}
    BY <1>0, <1>1
  <2>3. s = <<>>
    BY <1>1, TextFacts DEF n
  <2> QED BY <2>1, <2>2, <2>3
<1>2. CASE n > 0
  <2>1. a = 1 /\ b = n
    <3> HIDE DEF ink
    <3>1. 1 \in ink /\ n \in ink /\ \A j \in ink : 1 <= j /\ n >= j /\ j \in Nat
      BY <1>0, <1>2
    <3>2. a \in ink /\ \A j \in ink : a <= j
      BY <3>1
    <3>3. b \in ink /\ \A j \in ink : b >= j
      BY <3>1
    <3> HIDE DEF a, b
    <3> QED BY <1>0, <3>1, <3>2, <3>3
  <2>2. Strip(s) = IF ink = {} THEN <<>> ELSE SubSeq(s, a, b)
    BY DEF Strip
  <2> HIDE DEF a, b, ink
  <2>3. ink # {}
    <3>1. 1 \in ink
      BY <1>0, <1>2
    <3> QED BY <3>1
  <2> QED BY <2>1, <2>2, <2>3, SubSeqFull DEF n
<1> QED BY <1>0, <1>1, <1>2

\* The first place of a character that occurs.
LEMMA FirstPlace ==
  ASSUME NEW s \in Seq(Char), NEW c, Has(s, c)
  PROVE  (CHOOSE i \in 1..Len(s) : s[i] = c /\ \A j \in 1..(i - 1) : s[j] # c) \in 1..Len(s)
<1> DEFINE T == {i \in 1..Len(s) : s[i] = c}
<1>1. T \subseteq Nat /\ T # {} /\ Len(s) \in Nat
  BY TextFacts DEF Has
<1>2. PICK x \in T : \A y \in T : x <= y
  <2> HIDE DEF T
  <2> QED BY <1>1, LeastNatural
<1>3. x \in 1..Len(s) /\ s[x] = c /\ \A j \in 1..(x - 1) : s[j] # c
  <2>1. ASSUME NEW j \in 1..(x - 1), s[j] = c PROVE FALSE
    <3>1. j \in T /\ j < x
      BY <1>1, <2>1
    <3> QED BY <1>1, <1>2, <3>1
  <2> QED BY <2>1
<1> QED BY <1>3

LEMMA NormalText == ASSUME NEW raw \in Seq(Char) PROVE NormalizeHost(raw) \in Seq(Char)
<1> DEFINE t == Strip(raw)
           s == [i \in 1..Len(t) |-> Lowered[t[i]]]
           at(c) == CHOOSE i \in 1..Len(s) : s[i] = c /\ \A j \in 1..(i - 1) : s[j] # c
<1>1. t \in Seq(Char)
  BY StripText
<1>2. s \in Seq(Char)
  <2>1. Len(t) \in Nat /\ \A i \in 1..Len(t) : Lowered[t[i]] \in Char
    <3>1. \A c \in Char : Lowered[c] \in Char
      BY DEF Lowered, Char
    <3> HIDE DEF t
    <3> QED BY <1>1, <3>1, TextFacts
  <2> HIDE DEF t
  <2> QED BY <2>1
<1>3. \A c : Has(s, c) => at(c) \in 1..Len(s)
  <2> HIDE DEF s
  <2> QED BY <1>2, FirstPlace
<1>4. Count(s, ":") = 1 => Has(s, ":")
  <2>1. ASSUME ~Has(s, ":") PROVE Count(s, ":") = 0
    <3>1. {i \in 1..Len(s) : s[i] = ":"} = {}
      BY <2>1 DEF Has
    <3> HIDE DEF s
    <3> QED BY <3>1, FS_EmptySet DEF Count
  <2> QED BY <2>1
<1>5. ASSUME NEW c, Has(s, c) PROVE /\ SubSeq(s, 2, at(c) - 1) \in Seq(Char)
                                    /\ SubSeq(s, 1, at(c) - 1) \in Seq(Char)
  <2>1. at(c) \in 1..Len(s)
    BY <1>3, <1>5
  <2> HIDE DEF s, at
  <2>2. at(c) - 1 \in Nat /\ at(c) - 1 <= Len(s)
    BY <1>2, <2>1, TextFacts
  <2> QED BY <1>2, <2>2, Cut
<1>6. NormalizeHost(raw) = CASE s # <<>> /\ s[1] = "[" -> IF Has(s, "]") THEN SubSeq(s, 2, at("]") - 1) ELSE s
    [] s # <<>> /\ s[1] # "[" /\ Count(s, ":") = 1 -> SubSeq(s, 1, at(":") - 1)
    [] OTHER -> s
  BY DEF NormalizeHost
<1> HIDE DEF s, at
<1> QED BY <1>2, <1>4, <1>5, <1>6
\* A piece is between one cut and the next.
LEMMA SplitMember ==
  ASSUME NEW s, NEW x
  PROVE  x \in Split(s) <=> \E p, q \in Cuts(s) : NextCut(s, p, q) /\ x = SubSeq(s, p + 1, q - 1)
<1> DEFINE C == Cuts(s)
           P == {p \in C \X C : NextCut(s, p[1], p[2])}
<1>1. x \in Split(s) <=> \E p \in P : x = SubSeq(s, p[1] + 1, p[2] - 1)
  BY DEF Split
<1> HIDE DEF C
<1>2. (\E p \in P : x = SubSeq(s, p[1] + 1, p[2] - 1)) <=>
        \E p, q \in C : NextCut(s, p, q) /\ x = SubSeq(s, p + 1, q - 1)
  <2>1. ASSUME NEW p \in P, x = SubSeq(s, p[1] + 1, p[2] - 1)
        PROVE  \E a, b \in C : NextCut(s, a, b) /\ x = SubSeq(s, a + 1, b - 1)
    BY <2>1
  <2>2. ASSUME NEW a \in C, NEW b \in C, NextCut(s, a, b), x = SubSeq(s, a + 1, b - 1)
        PROVE  \E p \in P : x = SubSeq(s, p[1] + 1, p[2] - 1)
    <3>1. <<a, b>> \in P /\ <<a, b>>[1] = a /\ <<a, b>>[2] = b
      BY <2>2
    <3> HIDE DEF P
    <3> QED BY <2>2, <3>1
  <2> QED BY <2>1, <2>2
<1> QED BY <1>1, <1>2 DEF C

LEMMA CutFacts ==
  ASSUME NEW s \in Seq(Char)
  PROVE  \A c \in Cuts(s) : c \in Nat /\ c <= Len(s) + 1
BY TextFacts DEF Cuts

\* Two texts that agree between two places give the same piece.
LEMMA SamePiece ==
  ASSUME NEW s \in Seq(Char), NEW t \in Seq(Char), NEW m \in Nat \ {0}, NEW n \in Nat,
         n <= Len(s), n <= Len(t), \A i \in m..n : s[i] = t[i]
  PROVE  SubSeq(s, m, n) = SubSeq(t, m, n)
<1> DEFINE a == SubSeq(s, m, n)
           b == SubSeq(t, m, n)
<1>1. /\ a \in Seq(Char) /\ Len(a) = (IF m <= n THEN n - m + 1 ELSE 0)
      /\ \A i \in 1..(n - m + 1) : a[i] = s[m + i - 1]
  BY Cut
<1>2. /\ b \in Seq(Char) /\ Len(b) = (IF m <= n THEN n - m + 1 ELSE 0)
      /\ \A i \in 1..(n - m + 1) : b[i] = t[m + i - 1]
  BY Cut
<1>3. ASSUME NEW i \in 1..Len(a) PROVE a[i] = b[i]
  <2> HIDE DEF a, b
  <2>1. i \in 1..(n - m + 1) /\ m + i - 1 \in m..n
    BY <1>1
  <2> QED BY <1>1, <1>2, <2>1
<1> HIDE DEF a, b
<1>4. a = b
  BY <1>1, <1>2, <1>3, SeqEqual
<1> QED BY <1>4 DEF a, b

\* A word without a comma is its only piece.
LEMMA SplitPlain == ASSUME NEW w \in Seq(Char), ~Has(w, Comma) PROVE Split(w) = {w}
<1>1. Len(w) \in Nat
  BY TextFacts
<1>2. Cuts(w) = {0, Len(w) + 1}
  BY DEF Cuts, Has
<1>3. \A p, q \in Cuts(w) : NextCut(w, p, q) <=> p = 0 /\ q = Len(w) + 1
  BY <1>1, <1>2 DEF NextCut
<1>4. SubSeq(w, 0 + 1, (Len(w) + 1) - 1) = w
  <2>1. 0 + 1 = 1 /\ (Len(w) + 1) - 1 = Len(w)
    BY <1>1
  <2> QED BY <2>1, SubSeqFull
<1>5. ASSUME NEW x PROVE x \in Split(w) <=> x = w
  <2>1. x \in Split(w) <=> \E p, q \in Cuts(w) : NextCut(w, p, q) /\ x = SubSeq(w, p + 1, q - 1)
    BY SplitMember
  <2>2. ASSUME x \in Split(w) PROVE x = w
    <3>1. PICK p, q \in Cuts(w) : NextCut(w, p, q) /\ x = SubSeq(w, p + 1, q - 1)
      BY <2>1, <2>2
    <3>2. p = 0 /\ q = Len(w) + 1
      BY <1>3, <3>1
    <3> QED BY <1>4, <3>1, <3>2
  <2>3. ASSUME x = w PROVE x \in Split(w)
    <3>1. 0 \in Cuts(w) /\ Len(w) + 1 \in Cuts(w)
      BY <1>2
    <3>2. NextCut(w, 0, Len(w) + 1)
      BY <1>3, <3>1
    <3> QED BY <1>4, <2>1, <2>3, <3>1, <3>2
  <2> QED BY <2>2, <2>3
<1> QED BY <1>5

\* One more word after a comma is one more piece.
LEMMA SplitOneMore ==
  ASSUME NEW s \in Seq(Char), NEW w \in Seq(Char), ~Has(w, Comma)
  PROVE  /\ s \o <<Comma>> \o w \in Seq(Char) /\ s \o <<Comma>> \o w # <<>>
         /\ Split(s \o <<Comma>> \o w) = Split(s) \cup {w}
<1> DEFINE t == s \o <<Comma>> \o w
           n == Len(s)
           l == Len(w)
           m == Len(t)
<1>1. /\ n \in Nat /\ l \in Nat /\ t \in Seq(Char) /\ m = n + 1 + l
      /\ \A i \in 1..n : t[i] = s[i]
      /\ t[n + 1] = Comma
      /\ \A i \in 1..l : t[n + 1 + i] = w[i]
  <2> DEFINE c == <<Comma>>
             u == s \o c
  <2>1. c \in Seq(Char) /\ Len(c) = 1 /\ c[1] = Comma
    BY DEF Char
  <2>2. n \in Nat /\ l \in Nat
    BY TextFacts
  <2> HIDE DEF c
  <2>3. /\ u \in Seq(Char) /\ Len(u) = n + 1
        /\ \A i \in 1..(n + 1) : u[i] = IF i <= n THEN s[i] ELSE c[i - n]
    <3>1. /\ u \in Seq(Char) /\ Len(u) = Len(s) + Len(c)
          /\ \A i \in 1..(Len(s) + Len(c)) : u[i] = IF i <= Len(s) THEN s[i] ELSE c[i - Len(s)]
      BY <2>1, ConcatProperties
    <3> HIDE DEF u
    <3> QED BY <2>1, <3>1
  <2>4. t = u \o w
    BY DEF c
  <2> HIDE DEF u, t
  <2>5. /\ t \in Seq(Char) /\ Len(t) = (n + 1) + l
        /\ \A i \in 1..((n + 1) + l) : t[i] = IF i <= n + 1 THEN u[i] ELSE w[i - (n + 1)]
    <3>1. /\ t \in Seq(Char) /\ Len(t) = Len(u) + Len(w)
          /\ \A i \in 1..(Len(u) + Len(w)) : t[i] = IF i <= Len(u) THEN u[i] ELSE w[i - Len(u)]
      BY <2>3, <2>4, ConcatProperties
    <3> QED BY <2>3, <3>1
  <2> HIDE DEF n, l
  <2>6. \A i \in 1..n : t[i] = s[i]
    BY <2>2, <2>3, <2>5
  <2>7. t[n + 1] = Comma
    <3>1. n + 1 \in 1..((n + 1) + l) /\ n + 1 \in 1..(n + 1) /\ ~(n + 1 <= n) /\ (n + 1) - n = 1
      BY <2>2
    <3> QED BY <2>1, <2>3, <2>5, <3>1
  <2>8. ASSUME NEW i \in 1..l PROVE t[n + 1 + i] = w[i]
    <3>1. n + 1 + i \in 1..((n + 1) + l) /\ ~(n + 1 + i <= n + 1) /\ (n + 1 + i) - (n + 1) = i
      BY <2>2
    <3> QED BY <2>5, <3>1
  <2> QED BY <2>2, <2>5, <2>6, <2>7, <2>8
<1>2. Cuts(t) = Cuts(s) \cup {m + 1}
  <2>1. Cuts(t) = {0, m + 1} \cup {i \in 1..m : t[i] = Comma}
    BY DEF Cuts
  <2>2. Cuts(s) = {0, n + 1} \cup {i \in 1..n : s[i] = Comma}
    BY DEF Cuts
  <2> HIDE DEF t, n, m
  <2>3. ASSUME NEW i \in 1..m PROVE t[i] = Comma <=> (i = n + 1 \/ (i \in 1..n /\ s[i] = Comma))
    <3>1. CASE i <= n
      BY <1>1, <3>1
    <3>2. CASE i = n + 1
      BY <1>1, <3>2
    <3>3. CASE i > n + 1
      <4>1. i - (n + 1) \in 1..l /\ i = n + 1 + (i - (n + 1))
        BY <1>1, <3>3
      <4>2. t[i] = w[i - (n + 1)]
        BY <1>1, <4>1
      <4>3. w[i - (n + 1)] # Comma
        BY <4>1 DEF Has
      <4> QED BY <1>1, <3>3, <4>2, <4>3
    <3> QED BY <1>1, <3>1, <3>2, <3>3
  <2>4. n + 1 \in 1..m /\ 1..n \subseteq 1..m
    BY <1>1
  <2> QED BY <2>1, <2>2, <2>3, <2>4
<1>3. \A c \in Cuts(s) : c \in Nat /\ c <= n + 1
  BY CutFacts
<1>4. n + 1 \in Cuts(s)
  BY DEF Cuts
<1> HIDE DEF t, n, m, l
<1>5. \A p, q \in Cuts(s) : /\ NextCut(t, p, q) <=> NextCut(s, p, q)
                            /\ NextCut(s, p, q) => SubSeq(t, p + 1, q - 1) = SubSeq(s, p + 1, q - 1)
  <2> SUFFICES ASSUME NEW p \in Cuts(s), NEW q \in Cuts(s)
               PROVE  /\ NextCut(t, p, q) <=> NextCut(s, p, q)
                      /\ NextCut(s, p, q) => SubSeq(t, p + 1, q - 1) = SubSeq(s, p + 1, q - 1)
    OBVIOUS
  <2>1. NextCut(t, p, q) <=> NextCut(s, p, q)
    BY <1>1, <1>2, <1>3 DEF NextCut
  <2>2. ASSUME NextCut(s, p, q) PROVE SubSeq(t, p + 1, q - 1) = SubSeq(s, p + 1, q - 1)
    <3>1. p + 1 \in Nat \ {0} /\ q - 1 \in Nat /\ q - 1 <= n /\ q - 1 <= m
      BY <1>1, <1>3, <2>2 DEF NextCut
    <3>2. \A i \in (p + 1)..(q - 1) : t[i] = s[i]
      BY <1>1, <1>3, <3>1
    <3> QED BY <1>1, <3>1, <3>2, SamePiece DEF n, m
  <2> QED BY <2>1, <2>2
<1>6. \A p \in Cuts(t) : NextCut(t, p, m + 1) <=> p = n + 1
  BY <1>1, <1>2, <1>3, <1>4 DEF NextCut
<1>7. SubSeq(t, (n + 1) + 1, (m + 1) - 1) = w
  <2> DEFINE x == SubSeq(t, (n + 1) + 1, (m + 1) - 1)
  <2>1. (n + 1) + 1 \in Nat \ {0} /\ (m + 1) - 1 \in Nat /\ (m + 1) - 1 <= m
    BY <1>1
  <2>2. /\ x \in Seq(Char)
        /\ Len(x) = IF (n + 1) + 1 <= (m + 1) - 1 THEN ((m + 1) - 1) - ((n + 1) + 1) + 1 ELSE 0
        /\ \A i \in 1..(((m + 1) - 1) - ((n + 1) + 1) + 1) : x[i] = t[((n + 1) + 1) + i - 1]
    BY <1>1, <2>1, Cut DEF m
  <2> HIDE DEF x
  <2>3. Len(x) = l
    BY <1>1, <2>2
  <2>4. ASSUME NEW i \in 1..l PROVE x[i] = w[i]
    <3>1. i \in 1..(((m + 1) - 1) - ((n + 1) + 1) + 1) /\ ((n + 1) + 1) + i - 1 = n + 1 + i
      BY <1>1
    <3> QED BY <1>1, <2>2, <3>1
  <2>5. x = w
    BY <2>2, <2>3, <2>4, SeqEqual DEF l
  <2> QED BY <2>5 DEF x
<1>8. \A p \in Cuts(t) : ~NextCut(t, m + 1, p)
  BY <1>1, <1>2, <1>3 DEF NextCut
<1>9. ASSUME NEW x PROVE x \in Split(t) <=> x \in Split(s) \/ x = w
  <2>1. x \in Split(t) <=> \E p, q \in Cuts(t) : NextCut(t, p, q) /\ x = SubSeq(t, p + 1, q - 1)
    BY SplitMember
  <2>2. x \in Split(s) <=> \E p, q \in Cuts(s) : NextCut(s, p, q) /\ x = SubSeq(s, p + 1, q - 1)
    BY SplitMember
  <2>3. ASSUME NEW p \in Cuts(t), NEW q \in Cuts(t), NextCut(t, p, q), x = SubSeq(t, p + 1, q - 1)
        PROVE  x \in Split(s) \/ x = w
    <3>1. CASE q = m + 1
      BY <1>6, <1>7, <2>3, <3>1
    <3>2. CASE q # m + 1
      <4>1. p \in Cuts(s) /\ q \in Cuts(s)
        BY <1>2, <1>8, <2>3, <3>2
      <4> QED BY <1>5, <2>2, <2>3, <4>1
    <3> QED BY <3>1, <3>2
  <2>4. ASSUME x \in Split(s) PROVE x \in Split(t)
    <3>1. PICK p, q \in Cuts(s) : NextCut(s, p, q) /\ x = SubSeq(s, p + 1, q - 1)
      BY <2>2, <2>4
    <3>2. NextCut(t, p, q) /\ x = SubSeq(t, p + 1, q - 1) /\ p \in Cuts(t) /\ q \in Cuts(t)
      BY <1>2, <1>5, <3>1
    <3> QED BY <2>1, <3>2
  <2>5. x = w => x \in Split(t)
    <3>1. n + 1 \in Cuts(t) /\ m + 1 \in Cuts(t) /\ NextCut(t, n + 1, m + 1)
      BY <1>2, <1>4, <1>6
    <3> QED BY <1>7, <2>1, <3>1
  <2> QED BY <2>1, <2>3, <2>4, <2>5
<1>10. t # <<>>
  BY <1>1, TextFacts DEF m
<1>11. Split(t) = Split(s) \cup {w}
  BY <1>9
<1> QED BY <1>1, <1>10, <1>11 DEF t

-----------------------------------------------------------------------------
(* Egress: the label *)

Word(w) == w \in Seq(Char) /\ w # <<>> /\ ~Has(w, Comma)

\* Some function joins the first n words.
JoinUpTo(hosts, n, f) ==
  /\ f \in [0..n -> Seq(Char)]
  /\ \A k \in 0..n :
       f[k] = IF k = 0 THEN <<>>
              ELSE IF k = 1 THEN hosts[1] ELSE f[k - 1] \o <<Comma>> \o hosts[k]

\* There is such a function for any number of words.
LEMMA JoinExists ==
  ASSUME NEW N \in Nat, NEW hosts, \A i \in 1..N : Word(hosts[i])
  PROVE  \E f : JoinUpTo(hosts, N, f)
<1> DEFINE Bad == {k \in 0..N : ~\E f : JoinUpTo(hosts, k, f)}
<1> SUFFICES ASSUME Bad # {} PROVE FALSE
  OBVIOUS
<1>1. PICK k \in Bad : \A j \in Bad : k <= j
  <2>1. Bad \subseteq Nat
    OBVIOUS
  <2> HIDE DEF Bad
  <2> QED BY <2>1, LeastNatural
<1>2. CASE k = 0
  <2>1. <<>> \in Seq(Char)
    BY EmptySeq
  <2>2. JoinUpTo(hosts, 0, [i \in 0..0 |-> <<>>])
    BY <2>1 DEF JoinUpTo
  <2> QED BY <1>2, <2>2
<1>3. CASE k # 0
  <2>1. k - 1 \in 0..N /\ k \in 1..N /\ k - 1 \notin Bad /\ k \in Nat
    BY <1>1, <1>3
  <2>2. PICK f : JoinUpTo(hosts, k - 1, f)
    BY <2>1
  <2> DEFINE last == IF k = 1 THEN hosts[1] ELSE f[k - 1] \o <<Comma>> \o hosts[k]
             g == [i \in 0..k |-> IF i = k THEN last ELSE f[i]]
  <2>3. /\ f \in [0..(k - 1) -> Seq(Char)]
        /\ \A i \in 0..(k - 1) :
             f[i] = IF i = 0 THEN <<>>
                    ELSE IF i = 1 THEN hosts[1] ELSE f[i - 1] \o <<Comma>> \o hosts[i]
    BY <2>2 DEF JoinUpTo
  <2>4. last \in Seq(Char)
    <3>1. f[k - 1] \in Seq(Char) /\ Word(hosts[k])
      BY <2>1, <2>3
    <3>2. f[k - 1] \o <<Comma>> \o hosts[k] \in Seq(Char)
      BY <3>1, SplitOneMore DEF Word
    <3> QED BY <3>1, <3>2 DEF Word
  <2> HIDE DEF last
  <2>5. g \in [0..k -> Seq(Char)] /\ g[k] = last /\ \A i \in 0..(k - 1) : g[i] = f[i]
    BY <2>1, <2>3, <2>4
  <2>6. ASSUME NEW i \in 0..k
        PROVE  g[i] = IF i = 0 THEN <<>>
                      ELSE IF i = 1 THEN hosts[1] ELSE g[i - 1] \o <<Comma>> \o hosts[i]
    <3> HIDE DEF g
    <3>1. CASE i = k
      <4>1. k - 1 \in 0..(k - 1)
        BY <2>1
      <4>2. g[k - 1] = f[k - 1]
        BY <2>5, <4>1
      <4> QED BY <1>3, <2>5, <3>1, <4>2 DEF last
    <3>2. CASE i # k
      <4>1. i \in 0..(k - 1) /\ (i # 0 => i - 1 \in 0..(k - 1))
        BY <2>1, <3>2
      <4> QED BY <2>3, <2>5, <4>1
    <3> QED BY <3>1, <3>2
  <2>7. JoinUpTo(hosts, k, g)
    <3> HIDE DEF g
    <3> QED BY <2>5, <2>6 DEF JoinUpTo
  <2> QED BY <2>7
<1> QED BY <1>2, <1>3

\* The words of a list come back from the text that joins them.
LEMMA JoinSplits ==
  ASSUME NEW hosts, Len(hosts) \in Nat \ {0}, \A i \in 1..Len(hosts) : Word(hosts[i])
  PROVE  /\ Join(hosts) \in Seq(Char) /\ Join(hosts) # <<>>
         /\ Split(Join(hosts)) = {hosts[i] : i \in 1..Len(hosts)}
<1> DEFINE N == Len(hosts)
<1>1. PICK f : JoinUpTo(hosts, N, f)
  BY JoinExists
<1>2. f = [n \in 0..N |-> IF n = 0 THEN <<>>
             ELSE IF n = 1 THEN hosts[1] ELSE f[n - 1] \o <<Comma>> \o hosts[n]]
  BY <1>1 DEF JoinUpTo
<1>3. \E g : /\ g = [n \in 0..N |-> IF n = 0 THEN <<>>
                       ELSE IF n = 1 THEN hosts[1] ELSE g[n - 1] \o <<Comma>> \o hosts[n]]
             /\ Join(hosts) = g[N]
  BY <1>2, Zenon DEF Join
<1>4. PICK g : /\ g = [n \in 0..N |-> IF n = 0 THEN <<>>
                       ELSE IF n = 1 THEN hosts[1] ELSE g[n - 1] \o <<Comma>> \o hosts[n]]
               /\ Join(hosts) = g[N]
  BY <1>3
<1>5. /\ N \in Nat \ {0} /\ g[1] = hosts[1]
      /\ \A n \in 2..N : g[n] = g[n - 1] \o <<Comma>> \o hosts[n]
  <2>1. N \in Nat \ {0}
    OBVIOUS
  <2> HIDE DEF N
  <2>2. \A n \in 0..N : g[n] = IF n = 0 THEN <<>>
                       ELSE IF n = 1 THEN hosts[1] ELSE g[n - 1] \o <<Comma>> \o hosts[n]
    BY <1>4, Zenon
  <2>3. g[1] = hosts[1]
    <3>1. 1 \in 0..N /\ 1 # 0
      BY <2>1
    <3> QED BY <2>2, <3>1, Zenon
  <2>4. ASSUME NEW n \in 2..N PROVE g[n] = g[n - 1] \o <<Comma>> \o hosts[n]
    <3>1. n \in 0..N /\ n # 0 /\ n # 1
      BY <2>1
    <3> QED BY <2>2, <3>1, Zenon
  <2> QED BY <2>1, <2>3, <2>4
<1> DEFINE Good(k) == /\ g[k] \in Seq(Char) /\ g[k] # <<>>
                      /\ Split(g[k]) = {hosts[i] : i \in 1..k}
           Bad == {k \in 1..N : ~Good(k)}
<1>6. Bad = {}
  <2> SUFFICES ASSUME Bad # {} PROVE FALSE
    OBVIOUS
  <2>1. PICK k \in Bad : \A j \in Bad : k <= j
    <3>1. Bad \subseteq Nat
      BY <1>5
    <3> HIDE DEF Bad
    <3> QED BY <3>1, LeastNatural
  <2>2. k \in 1..N /\ Word(hosts[k]) /\ ~Good(k)
    OBVIOUS
  <2>3. CASE k = 1
    <3>1. Split(g[1]) = {hosts[1]} /\ Word(g[1])
      BY <1>5, <2>2, <2>3, SplitPlain DEF Word
    <3>2. {hosts[i] : i \in 1..1} = {hosts[1]}
      OBVIOUS
    <3> QED BY <2>2, <2>3, <3>1, <3>2 DEF Word
  <2>4. CASE k # 1
    <3>1. k \in 2..N /\ k - 1 \in 1..N /\ k - 1 \notin Bad
      <4> HIDE DEF N, Bad, Good
      <4> QED BY <1>5, <2>1, <2>2, <2>4
    <3>2. Good(k - 1) /\ g[k] = g[k - 1] \o <<Comma>> \o hosts[k]
      BY <1>5, <3>1
    <3>3. /\ g[k] \in Seq(Char) /\ g[k] # <<>>
          /\ Split(g[k]) = {hosts[i] : i \in 1..(k - 1)} \cup {hosts[k]}
      BY <2>2, <3>2, SplitOneMore DEF Word
    <3>4. {hosts[i] : i \in 1..(k - 1)} \cup {hosts[k]} = {hosts[i] : i \in 1..k}
      <4>1. 1..k = 1..(k - 1) \cup {k}
        BY <3>1
      <4> QED BY <4>1
    <3> QED BY <2>2, <3>3, <3>4
  <2> QED BY <2>3, <2>4
<1>7. Good(N)
  <2>1. N \in 1..N
    <3> HIDE DEF N
    <3> QED BY <1>5
  <2> QED BY <1>6, <2>1
<1> QED BY <1>4, <1>7

\* The fixed order of a finite set lists all of it.
LEMMA SetToSeqEnumerates ==
  ASSUME NEW P, IsFiniteSet(P), P # {}
  PROVE  /\ Len(SetToSeq(P)) \in Nat \ {0}
         /\ {SetToSeq(P)[i] : i \in 1..Len(SetToSeq(P))} = P
<1> DEFINE n == Cardinality(P)
           f == SetToSeq(P)
<1>1. n \in Nat /\ n # 0 /\ ExistsBijection(1..n, P)
  BY FS_CardinalityType, FS_EmptySet
<1>2. PICK b : b \in Bijection(1..n, P)
  BY <1>1 DEF ExistsBijection
<1>3. b \in [1..n -> P] /\ IsInjective(b)
  BY <1>2 DEF Bijection, Injection, IsInjective
<1>4. f \in [1..n -> P] /\ IsInjective(f)
  BY <1>3 DEF SetToSeq
<1> HIDE DEF f
<1>5. f \in Injection(1..n, P)
  BY <1>4 DEF Injection, IsInjective
<1>6. f \in Surjection(1..n, P)
  <2>1. IsFiniteSet(1..n) /\ Cardinality(1..n) = n
    <3>1. IsFiniteSet(1..n) /\ Cardinality(1..n) = IF 1 > n THEN 0 ELSE n - 1 + 1
      BY <1>1, FS_Interval
    <3> HIDE DEF n
    <3> QED BY <1>1, <3>1
  <2> QED BY <1>5, <2>1, FS_Injection
<1>7. {f[i] : i \in 1..n} = P
  BY <1>4, <1>6 DEF Surjection
<1>8. Len(f) = n
  BY <1>1, <1>4
<1> QED BY <1>1, <1>7, <1>8 DEF f

\* The label of an accepted allowlist gives its policy back.
LEMMA LabelRoundTrip ==
  ASSUME NEW l, l \subseteq Seq(Char), IsFiniteSet(l), l # {}, Accepted(l)
  PROVE  /\ Label(Policy(l)) \in Seq(Char) /\ Label(Policy(l)) # <<>>
         /\ PolicyFromLabel(Label(Policy(l))) = Policy(l)
<1> DEFINE P == Policy(l)
           hosts == SetToSeq(P)
<1>1. IsFiniteSet(P) /\ P # {}
  <2> DEFINE f == [e \in l |-> NormalizeHost(e)]
  <2>1. f \in Surjection(l, P)
    BY DEF Surjection, Policy
  <2>2. P # {}
    BY DEF Policy
  <2> HIDE DEF P, f
  <2> QED BY <2>1, <2>2, FS_Surjection
<1>2. ASSUME NEW h \in P PROVE Word(h) /\ ~Has(h, Space) /\ NormalizeHost(h) = h /\ Accepts(h)
  <2>1. PICK e \in l : h = NormalizeHost(e)
    BY DEF Policy
  <2>2. h \in Seq(Char)
    BY <2>1, NormalText
  <2>3. Accepts(e)
    BY DEF Accepted
  <2>4. /\ h # <<>> /\ h[1] # "." /\ NormalizeHost(h) = h
        /\ \A c \in {"*", "[", "]", Comma, Space} : ~Has(h, c)
    BY <2>1, <2>3 DEF Accepts
  <2>5. Accepts(h)
    BY <2>4 DEF Accepts
  <2> QED BY <2>2, <2>4, <2>5 DEF Word
<1> HIDE DEF P
<1>3. Len(hosts) \in Nat \ {0} /\ {hosts[i] : i \in 1..Len(hosts)} = P
  BY <1>1, SetToSeqEnumerates
<1>4. \A i \in 1..Len(hosts) : Word(hosts[i])
  BY <1>2, <1>3
<1> HIDE DEF hosts
<1>5. Join(hosts) \in Seq(Char) /\ Join(hosts) # <<>> /\ Split(Join(hosts)) = P
  BY <1>3, <1>4, JoinSplits
<1>6. Label(P) = Join(hosts)
  BY DEF Label, hosts
<1>7. {Strip(part) : part \in P} \ {<<>>} = P
  <2>1. \A h \in P : Strip(h) = h /\ h # <<>>
    BY <1>2, StripPlain DEF Word
  <2> QED BY <2>1
<1>8. Accepted(P)
  BY <1>2 DEF Accepted
<1>9. Policy(P) = P
  BY <1>2 DEF Policy
<1>10. PolicyFromLabel(Label(P)) = P
  BY <1>5, <1>6, <1>7, <1>8, <1>9 DEF PolicyFromLabel
<1> QED BY <1>5, <1>6, <1>10 DEF P


-----------------------------------------------------------------------------
(* The launch *)

\* What the checks have passed, and what is made of it.
GateInv ==
  /\ allow \subseteq Seq(Char) /\ IsFiniteSet(allow)
  /\ phase \in {"valid", "running"} => Accepted(allow)
  /\ phase # "running" => env = <<>> /\ args = Sealed /\ proxy = None
  /\ phase = "running" =>
       /\ args = IF allow = {} THEN Sealed
                 ELSE [network |-> "agent-egress", label |-> Label(Policy(allow))]
       /\ env \in {<<>>, <<"caller">>, <<"membrane">>, <<"caller", "membrane">>}
       /\ allow # {} => env \in {<<"membrane">>, <<"caller", "membrane">>}
  /\ proxy # None =>
       /\ proxy.static \in Statics /\ proxy.line \in Line
       /\ proxy.tunnel = IsAllowed(PolicyFromLabel(proxy.static), proxy.line)

LaunchInv == WalkTypeOK /\ WalkInv /\ WalkIsExact /\ GateInv

\* A launch starts with a well-formed subtree and nothing granted.
LEMMA LaunchBegins == ASSUME LaunchInit PROVE LaunchInv
<1> USE LauncherAssumption
<1> DEFINE Entry == [parent : 0..MaxNodes, kind : EntryKind]
<1>1. PICK n \in 0..MaxNodes : tree \in [1..n -> Entry]
  BY DEF LaunchInit, Trees
<1>2. \A i \in DOMAIN tree : tree[i].parent < i /\ (tree[i].parent > 0 => tree[tree[i].parent].kind = "dir")
  BY DEF LaunchInit, Trees
<1>3. tree \in Seq(Entry) /\ Len(tree) = n /\ DOMAIN tree = 1..n
  <2> HIDE DEF Entry
  <2> QED BY <1>1
<1>4. TreeOK
  BY <1>1, <1>2, <1>3 DEF TreeOK, LaunchInit
<1>5. WalkTypeOK
  <2>1. <<>> \in Seq((0..Len(tree)) \X (0..Len(tree)))
    BY EmptySeq
  <2> QED BY <1>4, <2>1 DEF WalkTypeOK, LaunchInit
<1>6. WalkInv /\ WalkIsExact
  BY DEF WalkInv, WalkIsExact, LaunchInit
<1>7. GateInv
  BY FS_EmptySet DEF GateInv, LaunchInit
<1> QED BY <1>5, <1>6, <1>7 DEF LaunchInv

\* Whether a subtree is safe does not change during a launch.
LEMMA SafeStays == ASSUME UNCHANGED <<mount, tree>> PROVE TreeIsSafe' <=> TreeIsSafe
BY DepthStays DEF TreeIsSafe

\* The steps after the walk leave what it knows alone.
LEMMA WalkStays ==
  ASSUME WalkTypeOK, WalkInv, UNCHANGED <<mount, tree, walkVars>>,
         phase' \in {"unsafe", "clean", "valid", "running", "refused"} \/ phase' = phase
  PROVE  WalkTypeOK' /\ WalkInv'
<1>1. UNCHANGED <<mount, tree, stack, listing, depth, entries>> /\ DepthOf' = DepthOf
  BY DepthStays DEF walkVars
<1>2. TreeOK' /\ WalkTypeOK'
  BY <1>1 DEF TreeOK, WalkTypeOK
<1>3. \A S : Seen(S) => Seen(S)'
  BY <1>1 DEF Seen, StackInv, Dirs, OnStack, Scanned, Locked, Children
<1>4. WalkInv'
  BY <1>1, <1>3 DEF WalkInv
<1> QED BY <1>2, <1>4

LEMMA LaunchStutters == ASSUME LaunchInv, UNCHANGED launchVars PROVE LaunchInv'
<1>1. /\ UNCHANGED <<mount, tree, walkVars, phase, allow, env, args, proxy>>
  BY DEF launchVars
<1>2. WalkTypeOK' /\ WalkInv'
  BY <1>1, WalkStays DEF LaunchInv
<1>3. WalkIsExact'
  BY <1>1, SafeStays DEF LaunchInv, WalkIsExact
<1>4. GateInv'
  BY <1>1 DEF LaunchInv, GateInv
<1> QED BY <1>2, <1>3, <1>4 DEF LaunchInv

LEMMA CallerFirst == <<"caller">> \o <<"membrane">> = <<"caller", "membrane">>
<1> DEFINE W == {"caller", "membrane"}
           a == <<"caller">>
           b == <<"membrane">>
           c == <<"caller", "membrane">>
<1>1. /\ a \in Seq(W) /\ b \in Seq(W) /\ c \in Seq(W) /\ Len(a) = 1 /\ Len(b) = 1
      /\ Len(c) = 2 /\ a[1] = c[1] /\ b[1] = c[2]
  OBVIOUS
<1> HIDE DEF W, a, b, c
<1>2. /\ a \o b \in Seq(W) /\ Len(a \o b) = Len(a) + Len(b)
      /\ \A i \in 1..(Len(a) + Len(b)) : (a \o b)[i] = IF i <= Len(a) THEN a[i] ELSE b[i - Len(a)]
  BY <1>1, ConcatProperties
<1>3. Len(a \o b) = 2 /\ (a \o b)[1] = c[1] /\ (a \o b)[2] = c[2]
  BY <1>1, <1>2
<1>4. \A i \in 1..Len(a \o b) : (a \o b)[i] = c[i]
  BY <1>3
<1>5. a \o b = c
  BY <1>1, <1>2, <1>3, <1>4, SeqEqual
<1> QED BY <1>5 DEF a, b, c

\* One step of a launch.
LEMMA LaunchKeeps == ASSUME LaunchInv, LaunchNext PROVE LaunchInv'
<1> USE LauncherAssumption
<1>0. WalkTypeOK /\ WalkInv /\ WalkIsExact /\ GateInv
  BY DEF LaunchInv
<1>1. UNCHANGED <<mount, tree>> /\ (TreeIsSafe' <=> TreeIsSafe)
  <2>1. UNCHANGED <<mount, tree>>
    BY DEF LaunchNext, Resolve, Walk, Open, Walked, Look, CheckEgress, DockerRunArgs, Unconfined, ProxyAsks
  <2> QED BY <2>1, SafeStays
<1>2. CASE Resolve
  <2>1. WalkTypeOK' /\ WalkInv'
    BY <1>0, <1>2, WalkBegins
  <2>2. phase = "new" /\ phase' \in {"refused", "walk", "clean"} /\ UNCHANGED <<allow, env, args, proxy>>
    BY <1>2 DEF Resolve
  <2>3. GateInv'
    BY <1>0, <2>2 DEF GateInv
  <2>4. ASSUME phase' = "clean" PROVE TreeIsSafe
    <3>1. mount.source = "other"
      BY <1>0, <1>2, <2>4 DEF Resolve, WalkTypeOK
    <3>2. tree = <<>>
      BY <1>0, <3>1 DEF WalkTypeOK, TreeOK
    <3> QED BY <3>1, <3>2 DEF TreeIsSafe
  <2>5. WalkIsExact'
    BY <1>1, <2>2, <2>4 DEF WalkIsExact
  <2> QED BY <2>1, <2>3, <2>5 DEF LaunchInv
<1>3. CASE Walk
  <2>1. phase = "walk" /\ phase' \in {"walk", "unsafe", "clean"} /\ UNCHANGED <<allow, env, args, proxy>>
    BY <1>3 DEF Walk, Open, Walked, Look, walkVars
  <2>2. GateInv'
    BY <1>0, <2>1 DEF GateInv
  <2>3. CASE Walked
    <3>1. WalkTypeOK' /\ WalkInv'
      BY <1>0, <1>1, <2>1, <2>3, WalkStays DEF Walked
    <3>2. PICK S \in SUBSET (1..Len(tree)) : Seen(S)
      BY <1>0, <2>1 DEF WalkInv
    <3>3. TreeIsSafe /\ phase' = "clean"
      BY <1>0, <2>3, <3>2, WalkComplete DEF Walked
    <3>4. WalkIsExact'
      BY <1>1, <3>3 DEF WalkIsExact
    <3> QED BY <2>2, <3>1, <3>4 DEF LaunchInv
  <2>4. CASE Open \/ \E i \in 1..MaxNodes : Look(i)
    <3>1. WalkTypeOK' /\ WalkInv'
      BY <1>0, <2>4, OpenKeeps, LookKeeps
    <3>2. phase' \in {"walk", "unsafe"}
      BY <2>1, <2>4 DEF Open, Look
    <3>3. phase' = "unsafe" => ~TreeIsSafe
      BY <1>0, <2>1, <2>4, WalkRefuses
    <3>4. WalkIsExact'
      BY <1>1, <3>2, <3>3 DEF WalkIsExact
    <3> QED BY <2>2, <3>1, <3>4 DEF LaunchInv
  <2> QED BY <1>3, <2>3, <2>4 DEF Walk
<1>4. ASSUME NEW l \in Allowlists, CheckEgress(l) PROVE LaunchInv'
  <2>1. /\ phase = "clean" /\ allow' = l /\ phase' = (IF Accepted(l) THEN "valid" ELSE "refused")
        /\ UNCHANGED <<env, args, proxy>> /\ UNCHANGED walkVars
    BY <1>4 DEF CheckEgress
  <2>2. WalkTypeOK' /\ WalkInv'
    BY <1>0, <1>1, <2>1, WalkStays
  <2>3. WalkIsExact'
    BY <1>0, <1>1, <2>1 DEF WalkIsExact
  <2>4. GateInv'
    BY <1>0, <2>1 DEF GateInv
  <2> QED BY <2>2, <2>3, <2>4 DEF LaunchInv
<1>5. ASSUME NEW own \in BOOLEAN, DockerRunArgs(own) PROVE LaunchInv'
  <2>1. /\ phase = "valid" /\ phase' = "running" /\ UNCHANGED <<allow, proxy>> /\ UNCHANGED walkVars
        /\ args' = IF allow = {} THEN Sealed
                   ELSE [network |-> "agent-egress", label |-> Label(Policy(allow))]
    BY <1>5 DEF DockerRunArgs
  <2>2. WalkTypeOK' /\ WalkInv'
    BY <1>0, <1>1, <2>1, WalkStays
  <2>3. WalkIsExact'
    BY <1>0, <1>1, <2>1 DEF WalkIsExact
  <2>4. /\ env' \in {<<>>, <<"caller">>, <<"membrane">>, <<"caller", "membrane">>}
        /\ allow # {} => env' \in {<<"membrane">>, <<"caller", "membrane">>}
    <3>1. /\ <<"caller">> \o <<"membrane">> = <<"caller", "membrane">>
          /\ <<>> \o <<"membrane">> = <<"membrane">> /\ <<"caller">> \o <<>> = <<"caller">>
          /\ <<>> \o <<>> = <<>>
      <4> DEFINE W == {"caller", "membrane"}
      <4>1. <<"caller">> \in Seq(W) /\ <<"membrane">> \in Seq(W) /\ <<>> \in Seq(W)
        OBVIOUS
      <4>2. <<"caller">> \o <<"membrane">> = <<"caller", "membrane">>
        BY CallerFirst
      <4> HIDE DEF W
      <4> QED BY <4>1, <4>2, ConcatEmptySeq
    <3>2. env' = (IF own THEN <<"caller">> ELSE <<>>) \o (IF allow = {} THEN <<>> ELSE <<"membrane">>)
      BY <1>5 DEF DockerRunArgs
    <3>3. CASE own /\ allow = {}
      BY <3>1, <3>2, <3>3
    <3>4. CASE own /\ allow # {}
      BY <3>1, <3>2, <3>4
    <3>5. CASE ~own /\ allow = {}
      BY <3>1, <3>2, <3>5
    <3>6. CASE ~own /\ allow # {}
      BY <3>1, <3>2, <3>6
    <3> QED BY <3>3, <3>4, <3>5, <3>6
  <2>5. GateInv'
    BY <1>0, <2>1, <2>4 DEF GateInv
  <2> QED BY <2>2, <2>3, <2>5 DEF LaunchInv
<1>6. CASE Unconfined
  <2>1. phase = "valid" /\ phase' = "refused" /\ UNCHANGED <<allow, env, args, proxy>> /\ UNCHANGED walkVars
    BY <1>6 DEF Unconfined
  <2>2. WalkTypeOK' /\ WalkInv'
    BY <1>0, <1>1, <2>1, WalkStays
  <2>3. WalkIsExact'
    BY <2>1 DEF WalkIsExact
  <2>4. GateInv'
    BY <1>0, <2>1 DEF GateInv
  <2> QED BY <2>2, <2>3, <2>4 DEF LaunchInv
<1>7. ASSUME NEW line \in Line, NEW static \in Statics, ProxyAsks(line, static) PROVE LaunchInv'
  <2>1. /\ phase = "running" /\ UNCHANGED <<allow, env, args, phase>> /\ UNCHANGED walkVars
        /\ proxy' = [static |-> static, line |-> line,
                     tunnel |-> IsAllowed(PolicyFromLabel(static), line)]
    BY <1>7 DEF ProxyAsks
  <2>2. WalkTypeOK' /\ WalkInv'
    BY <1>0, <1>1, <2>1, WalkStays
  <2>3. WalkIsExact'
    BY <1>0, <1>1, <2>1 DEF WalkIsExact
  <2>4. GateInv'
    <3>1. /\ proxy'.static \in Statics /\ proxy'.line \in Line
          /\ proxy'.tunnel = IsAllowed(PolicyFromLabel(proxy'.static), proxy'.line)
      BY <2>1
    <3> QED BY <1>0, <2>1, <3>1 DEF GateInv
  <2> QED BY <2>2, <2>3, <2>4 DEF LaunchInv
<1> QED BY <1>2, <1>3, <1>4, <1>5, <1>6, <1>7 DEF LaunchNext

\* The launch invariant is enough.
LEMMA LaunchImplies ==
  ASSUME LaunchInv PROVE LaunchTypeOK /\ WalkIsExact /\ LabelReadsBack /\ SealedOrProxied
<1> USE LauncherAssumption
<1>0. WalkTypeOK /\ WalkInv /\ WalkIsExact /\ GateInv /\ TreeOK
  BY DEF LaunchInv, WalkTypeOK
<1>1. allow # {} /\ Accepted(allow) =>
        /\ Label(Policy(allow)) \in Seq(Char) /\ Label(Policy(allow)) # <<>>
        /\ PolicyFromLabel(Label(Policy(allow))) = Policy(allow)
  BY <1>0, LabelRoundTrip DEF GateInv
<1>2. LabelReadsBack
  <2>1. phase = "running" /\ allow # {} => PolicyFromLabel(args.label) = Policy(allow)
    BY <1>0, <1>1 DEF GateInv
  <2>2. ASSUME proxy # None, proxy.tunnel
        PROVE  \E part \in Split(proxy.static) :
                  NormalizeHost(Strip(part)) = NormalizeHost(proxy.line.target)
    <3>1. NormalizeHost(proxy.line.target) \in PolicyFromLabel(proxy.static)
      BY <1>0, <2>2 DEF GateInv, IsAllowed, Decide
    <3>2. PICK e \in {Strip(part) : part \in Split(proxy.static)} :
             NormalizeHost(e) = NormalizeHost(proxy.line.target)
      BY <3>1 DEF PolicyFromLabel, Policy
    <3> QED BY <3>2
  <2> QED BY <2>1, <2>2 DEF LabelReadsBack
<1>3. SealedOrProxied
  <2> SUFFICES ASSUME phase = "running"
               PROVE  IF allow = {} THEN args.network = "none" /\ args.label = None
                      ELSE /\ args.network = "agent-egress"
                           /\ args.label # None /\ args.label # <<>>
                           /\ env[Len(env)] = "membrane"
    BY DEF SealedOrProxied
  <2>1. CASE allow = {}
    BY <1>0, <2>1 DEF GateInv, Sealed
  <2>2. CASE allow # {}
    <3>1. args.network = "agent-egress" /\ args.label # None /\ args.label # <<>>
      BY <1>0, <1>1, <2>2 DEF GateInv
    <3>2. CASE env = <<"membrane">>
      BY <2>2, <3>1, <3>2
    <3>3. CASE env = <<"caller", "membrane">>
      <4>1. Len(env) = 2 /\ env[2] = "membrane"
        BY <3>3
      <4> QED BY <2>2, <3>1, <4>1
    <3> QED BY <1>0, <2>2, <3>2, <3>3 DEF GateInv
  <2> QED BY <2>1, <2>2
<1>4. LaunchTypeOK
  <2>1. /\ mount \in [source : Source, within : BOOLEAN, target : BOOLEAN]
        /\ Len(tree) <= MaxNodes /\ allow \subseteq Seq(Char)
        /\ phase \in {"new", "walk", "unsafe", "clean", "valid", "running", "refused"}
        /\ listing \subseteq DOMAIN tree /\ depth \in 0..MaxDepth /\ entries \in 0..MaxEntries
    BY <1>0, TreeDomain DEF WalkTypeOK, TreeOK, GateInv
  <2>2. stack \in Seq((0..MaxNodes) \X (0..MaxNodes))
    <3>1. (0..Len(tree)) \X (0..Len(tree)) \subseteq (0..MaxNodes) \X (0..MaxNodes)
      BY <1>0, <2>1, TreeDomain
    <3>2. stack \in Seq((0..Len(tree)) \X (0..Len(tree)))
      BY <1>0 DEF WalkTypeOK
    <3> DEFINE A == (0..Len(tree)) \X (0..Len(tree))
               B == (0..MaxNodes) \X (0..MaxNodes)
    <3> HIDE DEF A, B
    <3>3. A \subseteq B /\ stack \in Seq(A)
      BY <3>1, <3>2 DEF A, B
    <3>4. stack \in Seq(B)
      BY <3>3, SeqMonotonic
    <3> QED BY <3>4 DEF B
  <2>3. env \in Seq({"caller", "membrane"}) /\ Len(env) <= 2
    <3>1. env \in {<<>>, <<"caller">>, <<"membrane">>, <<"caller", "membrane">>}
      BY <1>0 DEF GateInv
    <3>2. CASE env = <<>>
      BY <3>2
    <3>3. CASE env = <<"caller">>
      BY <3>3
    <3>4. CASE env = <<"membrane">>
      BY <3>4
    <3>5. CASE env = <<"caller", "membrane">>
      BY <3>5
    <3> QED BY <3>1, <3>2, <3>3, <3>4, <3>5
  <2>4. proxy = None \/ (/\ proxy.tunnel \in BOOLEAN /\ proxy.line.target \in Targets
                        /\ proxy.static \in Statics)
    <3> SUFFICES ASSUME proxy # None
                 PROVE  /\ proxy.tunnel \in BOOLEAN /\ proxy.line.target \in Targets
                        /\ proxy.static \in Statics
      OBVIOUS
    <3>1. /\ proxy.line \in Line /\ proxy.static \in Statics
          /\ proxy.tunnel = IsAllowed(PolicyFromLabel(proxy.static), proxy.line)
      BY <1>0 DEF GateInv
    <3>2. proxy.line.target \in Targets
      BY <3>1 DEF Line
    <3>3. IsAllowed(PolicyFromLabel(proxy.static), proxy.line) \in BOOLEAN
      BY DEF IsAllowed
    <3> QED BY <3>1, <3>2, <3>3
  <2>5. /\ args.network \in {"none", "agent-egress"}
        /\ args.label = None \/ args.label \in Seq(Char)
    BY <1>0, <1>1 DEF GateInv, Sealed
  <2> QED BY <2>1, <2>2, <2>3, <2>4, <2>5 DEF LaunchTypeOK
<1> QED BY <1>0, <1>2, <1>3, <1>4

-----------------------------------------------------------------------------
(* The two together *)

PreflightInv == LaunchInv /\ RunInv

LEMMA PreflightBegins == Init => PreflightInv
<1> SUFFICES ASSUME Init PROVE PreflightInv
  OBVIOUS
<1>1. LaunchInv
  BY LaunchBegins DEF Init
<1>2. RunInv
  BY RunInitInv DEF Init
<1> QED BY <1>1, <1>2 DEF PreflightInv

LEMMA RunStutters == ASSUME RunInv, UNCHANGED providerVars PROVE RunInv'
<1> USE DEF host, brain
<1>1. UNCHANGED <<world, stale, report, stage, why, grants, built, minted>>
  BY DEF providerVars
<1>2. /\ CheckBrain' = CheckBrain /\ (Loads' <=> Loads)
      /\ \A n : CheckProvider(SpecOf(n))' = CheckProvider(SpecOf(n))
  BY <1>1 DEF Loads, SpecOf, CheckBrain, BackendKnown, CheckProvider, Resolves
<1>3. /\ (BackendKnown' <=> BackendKnown) /\ (BrainBuilds' <=> BrainBuilds)
      /\ \A n : Build(SpecOf(n))' = Build(SpecOf(n))
  BY <1>1 DEF BackendKnown, BrainBuilds, Build, SpecOf, Resolves
<1>4. ProvidersTypeOK'
  BY <1>1 DEF RunInv, ProvidersTypeOK
<1>5. ReportInv'
  BY <1>1, <1>2 DEF RunInv, ReportInv
<1>6. (PassedInv /\ EndedInv /\ BuiltInv)'
  BY <1>1, <1>2, <1>3 DEF RunInv, PassedInv, EndedInv, BuiltInv
<1> QED BY <1>4, <1>5, <1>6 DEF RunInv

LEMMA PreflightKeeps == PreflightInv /\ [Next]_vars => PreflightInv'
<1> SUFFICES ASSUME PreflightInv, [Next]_vars PROVE PreflightInv'
  OBVIOUS
<1>0. LaunchInv /\ RunInv
  BY DEF PreflightInv
<1>1. CASE LaunchNext /\ UNCHANGED providerVars
  BY <1>0, <1>1, LaunchKeeps, RunStutters DEF PreflightInv
<1>2. CASE ProvidersNext /\ UNCHANGED launchVars
  <2>1. RunInv'
    <3>1. CASE RunStep
      BY <1>0, <3>1, RunKeeps
    <3> QED BY <1>0, <1>2, <3>1, DoctorKeeps, HostChangeKeeps DEF ProvidersNext, RunStep
  <2> QED BY <1>0, <1>2, <2>1, LaunchStutters DEF PreflightInv
<1>3. CASE UNCHANGED vars
  BY <1>0, <1>3, LaunchStutters, RunStutters DEF PreflightInv, vars
<1> QED BY <1>1, <1>2, <1>3 DEF Next

LEMMA PreflightAlways == Spec => []PreflightInv
BY PreflightBegins, PreflightKeeps, PTL DEF Spec

\* Every variable of a launch, of doctor and of a run keeps its type: no walk
\* counts past its cap, and no label is anything but text.
THEOREM TypeCorrect == Spec => []TypeOK
<1>1. PreflightInv => TypeOK
  BY LaunchImplies DEF PreflightInv, RunInv, TypeOK
<1> QED BY <1>1, PreflightAlways, PTL

\* _subtree_special_file_reason clears a subtree exactly when all of it is safe and
\* within the caps, whatever its shape and the order its entries come in.
THEOREM WalkIsExactHolds == Spec => []WalkIsExact
<1>1. PreflightInv => WalkIsExact
  BY DEF PreflightInv, LaunchInv
<1> QED BY <1>1, PreflightAlways, PTL

\* What policy_from_label reads back from a label made by as_label is what
\* EgressPolicy accepted, whatever the allowlist.  Of the shipped proxy, which does
\* not read the label, it says only that it tunnels to hosts its own list names.
THEOREM LabelReadsBackHolds == Spec => []LabelReadsBack
<1>1. PreflightInv => LabelReadsBack
  BY LaunchImplies DEF PreflightInv
<1> QED BY <1>1, PreflightAlways, PTL

\* docker_run_args gives a container no network, or the proxy's network, a label
\* that is not empty and proxy variables the caller cannot override.
THEOREM SealedOrProxiedHolds == Spec => []SealedOrProxied
<1>1. PreflightInv => SealedOrProxied
  BY LaunchImplies DEF PreflightInv
<1> QED BY <1>1, PreflightAlways, PTL

\* For every registry and every host that did not change since: no credential is
\* minted and no brain started against a failed check of doctor's (but for the
\* kagura-brain's missing command), and a run that its registry, memory, backend or
\* a secret ended had been reported, as a failure or as the warning named there.  What else
\* may end a run (factory, consent, mode, plan, mint) is not constrained.
THEOREM DoctorPredictsRunHolds == Spec => []DoctorPredictsRun
<1>1. PreflightInv => DoctorPredictsRun
  BY RunImplies DEF PreflightInv
<1> QED BY <1>1, PreflightAlways, PTL

\* No credential is minted from a table that the parser or the consent rule
\* should have refused.
THEOREM MintedIsSanctionedHolds == Spec => []MintedIsSanctioned
<1>1. PreflightInv => MintedIsSanctioned
  BY RunImplies DEF PreflightInv
<1> QED BY <1>1, PreflightAlways, PTL

=============================================================================

------------------------------ MODULE Providers ------------------------------
(***************************************************************************)
(* The provider registry, its secret references and the two commands that  *)
(* read them: `doctor`, which predicts a run, and the provisioning part of *)
(* `run` (membrane/registry.py, registry_io.py, secret_source.py,          *)
(* cloud_transports.py, cli/doctor.py, cli/main.py).  Between the two the  *)
(* host may change.                                                        *)
(*                                                                         *)
(* A provider's table is abstracted to what the code tells apart: whether  *)
(* its required fields are there, one field that does not belong, which    *)
(* references it sets and how they look, and the consent flag.             *)
(***************************************************************************)
EXTENDS Naturals, FiniteSets

CONSTANTS Provider,  \* provider names; numbers, so that they sort
          Worlds,    \* the registries and hosts considered
          NoReport

Suffix == {"_env", "_file", "_keyring"}

\* _KIND_FIELDS: whether the one secret is required, the variants it takes,
\* whether there is an optional field that narrows what is minted (a region, a
\* lifetime, a zone, a context) and whether the consent flag belongs.
Schema(needs, suffixes, narrows, consents) ==
  [needs |-> needs, suffixes |-> suffixes, narrows |-> narrows, consents |-> consents]
KindSchema ==
  [aws_sts           |-> Schema(FALSE, Suffix, TRUE, FALSE),
   gcp_impersonation |-> Schema(FALSE, Suffix, TRUE, FALSE),
   github_app        |-> Schema(TRUE, Suffix, FALSE, FALSE),
   cloudflare        |-> Schema(TRUE, Suffix, TRUE, FALSE),
   memory_cloud      |-> Schema(TRUE, Suffix, TRUE, FALSE),
   static_env        |-> Schema(TRUE, {"_env"}, FALSE, TRUE)]
Kind == DOMAIN KindSchema

Table ==
  [kind : Kind \cup {"unknown"},
   required : {"set", "empty", "missing"},
   extra : {"none", "narrowing", "inline", "unknown"},
   refs : SUBSET Suffix,
   shape : {"good", "bad", "noSlash"},   \* "bad" is caught by the parser
   consent : {"absent", "yes", "no", "mistyped"}]

\* The environment's choice of a brain, and what is installed for it.
Brain ==
  [selector : {"sdk", "kagura-brain", "typo"}, backend : {"claude", "codex", "typo"},
   mode : {"good", "typo"}, sdk : BOOLEAN, extra : BOOLEAN, cli : BOOLEAN,
   auth : {"key", "subscription", "none"},
   byo : SUBSET {"endpoint", "key"}, local : BOOLEAN]

Host ==
  [value : [Suffix -> {"good", "blank", "unset"}], keyring : BOOLEAN, memory : BOOLEAN,
   docker : BOOLEAN, egress : {"absent", "open", "sealed"},
   image : {"absent", "floating", "pinned"}, brain : Brain]

\* A registry file with its tables by name, and the host it is on.
WorldOK(w) ==
  /\ w.file \in {"absent", "broken", "read"} /\ w.host \in Host
  /\ DOMAIN w.registry \subseteq Provider
  /\ \A n \in DOMAIN w.registry : w.registry[n] \in Table

ASSUME ProvidersAssumption == Provider \subseteq Nat /\ \A w \in Worlds : WorldOK(w)

VARIABLES
  world,   \* [file, registry: its tables by name, host]
  stale,   \* the host changed after doctor looked
  report,  \* doctor's report, or NoReport
  stage,   \* where the run stands
  why,     \* what ended it
  grants,  \* providers its --grant options name
  built,   \* live providers of the broker being built
  minted   \* providers a credential was minted from

providerVars == <<world, stale, report, stage, why, grants, built, minted>>

host  == world.host
brain == world.host.brain

-----------------------------------------------------------------------------
(* parse_registry *)

\* _parse_one takes the table: a known kind, no field that is inline or unknown,
\* the required ones there, a consent that is a boolean, and at most one
\* well-shaped reference, one if the secret is required.
Parses(t) ==
  /\ t.kind \in Kind
  /\ LET s == KindSchema[t.kind] IN
     /\ t.extra = "none" \/ (t.extra = "narrowing" /\ s.narrows)
     /\ t.consent # "absent" => s.consents
     /\ t.refs \subseteq s.suffixes
     /\ t.required = "set"
     /\ t.consent # "mistyped"
     /\ Cardinality(t.refs) <= 1
     /\ t.refs # {} => t.shape # "bad"
     /\ s.needs => t.refs # {}

\* load_registry: one bad table refuses the file.
Loads == world.file = "read" /\ \A n \in DOMAIN world.registry : Parses(world.registry[n])
SpecOf(n) == world.registry[n]

-----------------------------------------------------------------------------
(* Secret references and the broker *)

\* resolve_secret_field: the reference of that suffix yields a non-blank secret;
\* a keychain entry needs both halves of its name and the optional package.
Resolves(t, suf) ==
  /\ host.value[suf] = "good"
  /\ suf = "_keyring" => t.shape # "noSlash" /\ host.keyring

\* Mutant: the optional fields are not looked at.
BuildIgnoring(t) ==
  IF \E suf \in t.refs : ~Resolves(t, suf) THEN "secret"
  ELSE CASE t.kind \in {"aws_sts", "gcp_impersonation"} /\ t.refs # {} -> "factory"
         [] t.kind \in {"cloudflare", "memory_cloud"} -> "factory"
         [] t.kind = "static_env" /\ t.consent # "yes" -> "consent"
         [] OTHER -> "built"

\* _resolve_spec_secrets, then _default_factory: what becomes of one spec.
Build(t) ==
  IF \E suf \in t.refs : ~Resolves(t, suf) THEN "secret"
  ELSE CASE t.kind \in {"aws_sts", "gcp_impersonation"}
              /\ (t.refs # {} \/ t.extra = "narrowing") -> "factory"
         [] t.kind \in {"cloudflare", "memory_cloud"} -> "factory"
         [] t.kind = "static_env" /\ t.consent # "yes" -> "consent"
         [] OTHER -> "built"

-----------------------------------------------------------------------------
(* The brain *)

\* resolve_brain_backend, resolve_kagura_brain_backend, resolve_permission_mode.
BackendKnown == /\ brain.selector # "typo"
                /\ brain.selector = "kagura-brain" => brain.backend # "typo"
ModeKnown == brain.selector = "sdk" => brain.mode = "good"

\* make_brain does not raise: the SDK, or the brain package with an endpoint and a
\* key together or neither, and a local provider only for codex without endpoint.
BrainBuilds ==
  IF brain.selector = "sdk" THEN brain.sdk
  ELSE /\ brain.extra
       /\ brain.byo \in {{}, {"endpoint", "key"}}
       /\ brain.local => brain.backend = "codex" /\ "endpoint" \notin brain.byo

-----------------------------------------------------------------------------
(* doctor *)

Verdict == {"ok", "warn", "fail"}

\* Mutant: the check ignores which backend is selected.
CheckBrainSdkOnly ==
  IF ~brain.sdk THEN "fail" ELSE IF brain.auth = "subscription" THEN "ok" ELSE "warn"

\* check_brain under run_doctor; a key overrides the subscription.
CheckBrain ==
  IF ~BackendKnown THEN "fail"
  ELSE IF brain.selector = "kagura-brain"
       THEN IF brain.extra /\ brain.cli THEN "warn" ELSE "fail"
       ELSE IF ~brain.sdk THEN "fail"
            ELSE IF brain.auth = "subscription" THEN "ok" ELSE "warn"

\* check_provider: a keychain reference cannot be judged without the package.
CheckProvider(t) ==
  IF Cardinality(t.refs) > 1 \/ (t.refs = {} /\ KindSchema[t.kind].needs) THEN "fail"
  ELSE IF t.refs = {"_keyring"} /\ ~host.keyring THEN "warn"
  ELSE IF \E suf \in t.refs : ~Resolves(t, suf) THEN "fail" ELSE "ok"

\* The other checks: docker, the egress network and the proxy's image, and the
\* backends, which warns of keychain references without the package.
CheckHost ==
  {IF host.docker THEN "ok" ELSE "fail",
   CASE host.egress = "absent" -> "warn" [] host.egress = "open" -> "fail" [] OTHER -> "ok",
   IF host.image = "pinned" THEN "ok" ELSE "warn"}
CheckBackends(names) ==
  IF ~host.keyring /\ \E n \in names : "_keyring" \in world.registry[n].refs
  THEN "warn" ELSE "ok"

\* _run_probes on one provider; `mint` is what the mint and the revocation do.
ProbeVerdict(t, mint) ==
  IF t.kind \notin {"aws_sts", "memory_cloud"} THEN "warn"
  ELSE IF Build(t) # "built" THEN "fail" ELSE mint

OverallStatus(verdicts) ==
  IF "fail" \in verdicts THEN "fail" ELSE IF "warn" \in verdicts THEN "warn" ELSE "ok"

\* The doctor command: no registry file is no registry, one that does not load
\* ends it with 2; otherwise the exit code is the overall verdict's.
Doctor(probe, mint) ==
  LET names == IF world.file = "absent" THEN {} ELSE DOMAIN world.registry
      provider == [n \in names |-> CheckProvider(SpecOf(n))]
      memory == IF host.memory THEN "ok" ELSE "fail"
      all == {memory, CheckBrain, CheckBackends(names)} \cup CheckHost
               \cup {provider[n] : n \in names}
               \cup {ProbeVerdict(SpecOf(n), mint) : n \in IF probe THEN names ELSE {}}
      refused == world.file # "absent" /\ ~Loads IN
  /\ stage = "idle" /\ report = NoReport
  /\ report' = IF refused THEN [exit |-> 2]
               ELSE [exit |-> IF OverallStatus(all) = "fail" THEN 4 ELSE 0,
                     memory |-> memory, brain |-> CheckBrain, provider |-> provider]
  /\ UNCHANGED <<world, stale, stage, why, grants, built, minted>>

\* What a reference names is set or removed after doctor looked, or the
\* keychain package installed or removed.
HostChanges(suf, v) ==
  /\ stage = "idle" /\ report # NoReport /\ ~stale
  /\ \E h \in {[host EXCEPT !.value[suf] = v], [host EXCEPT !.keyring = ~@]} :
       world' = [file |-> world.file, registry |-> world.registry, host |-> h]
  /\ stale' = TRUE
  /\ UNCHANGED <<report, stage, why, grants, built, minted>>

-----------------------------------------------------------------------------
(* run, up to its brain *)

Ends(reason) == stage' = "ended" /\ why' = reason

\* main validates the backend and the permission mode first.
RunStart(g) ==
  /\ stage = "idle"
  /\ grants' = g
  /\ CASE ~BackendKnown -> Ends("backend")
       [] BackendKnown /\ ~ModeKnown -> Ends("mode")
       [] OTHER -> stage' = "gate" /\ UNCHANGED why
  /\ UNCHANGED <<world, stale, report, built, minted>>

\* _run_task: the memory gate, then the registry and plan_granted_specs, which a
\* run without grants does not read.
Gate ==
  /\ stage = "gate"
  /\ CASE ~host.memory -> Ends("memory")
       [] host.memory /\ grants = {} -> stage' = "brain" /\ UNCHANGED why
       [] OTHER -> stage' = "load" /\ UNCHANGED why
  /\ UNCHANGED <<world, stale, report, grants, built, minted>>

LoadRegistry ==
  /\ stage = "load"
  /\ CASE ~Loads -> Ends("registry")
       [] Loads /\ ~(grants \subseteq DOMAIN world.registry) -> Ends("plan")
       [] OTHER -> stage' = "build" /\ UNCHANGED why
  /\ UNCHANGED <<world, stale, report, grants, built, minted>>

\* build_broker takes the next granted spec, in the order of the names; the first
\* that cannot be built ends the run.
BuildOne(n) ==
  /\ stage = "build" /\ n \in grants \ built
  /\ \A m \in grants \ built : n <= m
  /\ IF Build(SpecOf(n)) = "built"
     THEN /\ built' = built \cup {n}
          /\ stage' = IF built' = grants THEN "mint" ELSE "build"
          /\ UNCHANGED why
     ELSE Ends(Build(SpecOf(n))) /\ UNCHANGED built
  /\ UNCHANGED <<world, stale, report, grants, minted>>

\* broker.acquire for the next grant, if the mint does not raise.
MintOne(n) ==
  /\ stage = "mint" /\ n \in built \ minted
  /\ \A m \in built \ minted : n <= m
  /\ minted' = minted \cup {n}
  /\ stage' = IF minted' = built THEN "brain" ELSE "mint"
  /\ UNCHANGED <<world, stale, report, why, grants, built>>

MintRaises ==
  /\ stage = "mint"
  /\ Ends("mint")
  /\ UNCHANGED <<world, stale, report, grants, built, minted>>

MakeBrain ==
  /\ stage = "brain"
  /\ IF BrainBuilds THEN stage' = "running" /\ UNCHANGED why ELSE Ends("brain")
  /\ UNCHANGED <<world, stale, report, grants, built, minted>>

-----------------------------------------------------------------------------

ProvidersStart(w) ==
  /\ world = w
  /\ stale = FALSE /\ report = NoReport
  /\ stage = "idle" /\ why = "none" /\ grants = {} /\ built = {} /\ minted = {}

ProvidersNext ==
  \/ \E probe \in BOOLEAN, mint \in {"ok", "fail"} : Doctor(probe, mint)
  \/ \E suf \in Suffix, v \in {"good", "unset"} : HostChanges(suf, v)
  \/ \E g \in SUBSET Provider : RunStart(g)
  \/ Gate \/ LoadRegistry \/ MintRaises \/ MakeBrain
  \/ \E n \in Provider : BuildOne(n) \/ MintOne(n)

-----------------------------------------------------------------------------

ProvidersTypeOK ==
  /\ WorldOK(world)
  /\ stale \in BOOLEAN
  /\ report # NoReport =>
       /\ report.exit \in {0, 2, 4}
       /\ report.exit # 2 =>
            \A n \in DOMAIN report.provider : report.provider[n] \in Verdict
  /\ stage \in {"idle", "gate", "load", "build", "mint", "brain", "running", "ended"}
  /\ why \in {"none", "backend", "mode", "memory", "registry", "plan", "secret",
              "factory", "consent", "mint", "brain"}
  /\ grants \subseteq Provider /\ built \subseteq grants /\ minted \subseteq built

\* What doctor says of the registry, the memory, the backend and the secrets agrees
\* with the run, on a host that did not change in between: one of these that it
\* reports failed keeps a run from minting or from starting, and a run that one of
\* these ends was reported so.  The exceptions are the code's own: a keychain
\* reference without the package and the kagura-brain's configuration are
\* warnings, and its missing command is a failure that a run does not meet before
\* its first query.  Nothing is said of a run that the mode, the plan, the factory, the
\* consent rule, a mint or the network ends: doctor does not look at them, so a
\* clean report is no promise that a run starts.
DoctorPredictsRun ==
  (report # NoReport /\ ~stale) =>
    /\ report.exit = 2 => minted = {} /\ (grants # {} => stage # "running")
    /\ why = "registry" => report.exit = 2 \/ world.file = "absent"
    /\ report.exit # 2 =>
         /\ report.memory = "fail" <=> ~host.memory
         /\ why = "memory" => report.memory = "fail"
         /\ stage = "running" => report.memory = "ok" /\ (report.brain = "fail" => ~brain.cli)
         /\ why = "backend" => report.brain = "fail"
         /\ why = "brain" => report.brain = "fail"
                             \/ (report.brain = "warn" /\ brain.selector = "kagura-brain")
         /\ \A n \in grants \cap DOMAIN report.provider :
              report.provider[n] = "fail" => minted = {}
         /\ why = "secret" => \E n \in grants \cap DOMAIN report.provider :
                                \/ report.provider[n] = "fail"
                                \/ report.provider[n] = "warn" /\ SpecOf(n).refs = {"_keyring"}

\* Nothing is minted unless everything granted was built, what is minted is what
\* the operator declared (from one reference at most, none of the narrowing fields
\* dropped on the way, a standing secret only with consent), and the brain never
\* starts with fewer credentials than were granted.
MintedIsSanctioned ==
  /\ minted # {} => built = grants
  /\ stage \in {"brain", "running"} => minted = grants
  /\ \A n \in minted :
       /\ Cardinality(SpecOf(n).refs) <= 1 /\ SpecOf(n).extra = "none"
       /\ SpecOf(n).kind = "static_env" => SpecOf(n).consent = "yes"
=============================================================================

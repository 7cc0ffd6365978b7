------------------------------- MODULE Launcher -------------------------------
(***************************************************************************)
(* One launch of a container (membrane/launcher.py, membrane/runtime.py):  *)
(* the mount is validated and its subtree walked, the egress allowlist is  *)
(* checked, the docker arguments are made.  Then the egress proxy decides  *)
(* on the container's request: by the allowlist it was deployed with, for  *)
(* it never looks at the label the launcher stamped.  A step is one        *)
(* directory or one entry of the walk, or one of the checks before and     *)
(* after it.                                                               *)
(***************************************************************************)
EXTENDS Egress

CONSTANTS MaxNodes,    \* bound: entries below the mount source
          MaxEntries,  \* _MAX_SUBTREE_ENTRIES
          MaxDepth,    \* _MAX_SUBTREE_DEPTH
          Allowlists,  \* the egress allowlists considered
          Targets,     \* the hosts a container asks the proxy for
          Statics,     \* values of EGRESS_ALLOWLIST the proxy is deployed with
          None

ASSUME LauncherAssumption ==
  /\ MaxNodes \in Nat /\ MaxEntries \in Nat /\ MaxDepth \in Nat
  /\ \A l \in Allowlists : l \subseteq Seq(Char) /\ IsFiniteSet(l)
  /\ Targets \subseteq Seq(Char) /\ Statics \subseteq Seq(Char) /\ None \notin Seq(Char)

\* What a mount source resolves to: a listed control socket, another unix socket,
\* a name in *.sock that cannot be stat'd, a path that cannot be resolved, a
\* directory, one that cannot be listed, or anything else (a file, a missing path).
Source == {"control", "socket", "namedSock", "broken", "dir", "lockedDir", "other"}

\* Entry i of a subtree: its directory (0 is the source) and what it is.
\* "opaque" cannot be stat'd, "locked" is a directory that cannot be listed.
EntryKind == {"file", "dir", "locked", "socket", "device", "opaque", "symlink"}
Trees ==
  {t \in UNION {[1..n -> [parent : 0..MaxNodes, kind : EntryKind]] : n \in 0..MaxNodes} :
     \A i \in DOMAIN t : t[i].parent < i /\ (t[i].parent > 0 => t[t[i].parent].kind = "dir")}

VARIABLES
  mount,    \* [source, within: inside the project root, target: a plain absolute path]
  tree,     \* the subtree of a directory
  allow,    \* spec.egress_allow
  env,      \* the proxy variable of the container: each -e in turn
  phase,    \* where the launch stands
  stack,    \* directories to scan, with their depth; the last is next
  listing,  \* entries of the directory being scanned that were not looked at yet
  depth,    \* its depth
  entries,  \* entries seen so far
  args,     \* the docker arguments that differ: network, label
  proxy     \* what the proxy made of the container's request: [static, line, tunnel]

walkVars   == <<stack, listing, depth, entries>>
launchVars == <<mount, tree, allow, env, phase, walkVars, args, proxy>>

Sealed == [network |-> "none", label |-> None]

LaunchTypeOK ==
  /\ mount \in [source : Source, within : BOOLEAN, target : BOOLEAN]
  /\ Len(tree) <= MaxNodes
  /\ allow \subseteq Seq(Char)
  /\ env \in Seq({"caller", "membrane"}) /\ Len(env) <= 2
  /\ phase \in {"new", "walk", "unsafe", "clean", "valid", "running", "refused"}
  /\ stack \in Seq((0..MaxNodes) \X (0..MaxNodes))
  /\ listing \subseteq DOMAIN tree
  /\ depth \in 0..MaxDepth
  /\ entries \in 0..MaxEntries
  /\ proxy = None \/ (/\ proxy.tunnel \in BOOLEAN /\ proxy.line.target \in Targets
                     /\ proxy.static \in Statics)
  /\ args.network \in {"none", "agent-egress"} /\ (args.label = None \/ args.label \in Seq(Char))

LaunchInit ==
  /\ mount \in [source : Source, within : BOOLEAN, target : BOOLEAN]
  /\ tree \in Trees /\ (mount.source # "dir" => tree = <<>>)
  /\ allow = {} /\ env = <<>> /\ phase = "new"
  /\ stack = <<>> /\ listing = {} /\ depth = 0 /\ entries = 0
  /\ args = Sealed /\ proxy = None

-----------------------------------------------------------------------------
(* validate_spec: the mount *)

\* The target, then the source itself, then the project root; any error while
\* the path is resolved is a refusal too.
MountAllowed ==
  /\ mount.target
  /\ mount.source \in {"dir", "lockedDir", "other"}
  /\ mount.within

Resolve ==
  /\ phase = "new"
  /\ CASE ~MountAllowed -> phase' = "refused" /\ UNCHANGED stack
       [] MountAllowed /\ mount.source # "other" -> phase' = "walk" /\ stack' = <<<<0, 0>>>>
       [] OTHER -> phase' = "clean" /\ UNCHANGED stack
  /\ UNCHANGED <<mount, tree, allow, env, listing, depth, entries, args, proxy>>

Locked(d) == IF d = 0 THEN mount.source = "lockedDir" ELSE tree[d].kind = "locked"
Children(d) == {i \in DOMAIN tree : tree[i].parent = d}

\* _subtree_special_file_reason takes the next directory of its stack.
Open ==
  LET top == stack[Len(stack)] IN
  /\ phase = "walk" /\ listing = {} /\ stack # <<>>
  /\ IF top[2] > MaxDepth \/ Locked(top[1])
     THEN phase' = "unsafe" /\ UNCHANGED walkVars
     ELSE /\ stack' = SubSeq(stack, 1, Len(stack) - 1)
          /\ listing' = Children(top[1]) /\ depth' = top[2]
          /\ UNCHANGED <<phase, entries>>
  /\ UNCHANGED <<mount, tree, allow, env, args, proxy>>

\* Mutant: an entry that cannot be inspected is passed over.
LookLenient(i) ==
  /\ phase = "walk" /\ i \in listing
  /\ IF entries = MaxEntries \/ tree[i].kind \in {"socket", "device"}
     THEN phase' = "unsafe" /\ UNCHANGED walkVars
     ELSE /\ entries' = entries + 1 /\ listing' = listing \ {i}
          /\ stack' = IF tree[i].kind \in {"dir", "locked"} THEN Append(stack, <<i, depth + 1>>)
                      ELSE stack
          /\ UNCHANGED <<phase, depth>>
  /\ UNCHANGED <<mount, tree, allow, env, args, proxy>>

\* Mutant: the cap is not enforced.
LookUnbounded(i) ==
  /\ phase = "walk" /\ i \in listing
  /\ IF tree[i].kind \in {"socket", "device", "opaque"}
     THEN phase' = "unsafe" /\ UNCHANGED walkVars
     ELSE /\ entries' = entries + 1 /\ listing' = listing \ {i}
          /\ stack' = IF tree[i].kind \in {"dir", "locked"} THEN Append(stack, <<i, depth + 1>>)
                      ELSE stack
          /\ UNCHANGED <<phase, depth>>
  /\ UNCHANGED <<mount, tree, allow, env, args, proxy>>

\* It looks at one entry: symbolic links are not followed, directories pushed.
Look(i) ==
  /\ phase = "walk" /\ i \in listing
  /\ IF entries = MaxEntries \/ tree[i].kind \in {"socket", "device", "opaque"}
     THEN phase' = "unsafe" /\ UNCHANGED walkVars
     ELSE /\ entries' = entries + 1 /\ listing' = listing \ {i}
          /\ stack' = IF tree[i].kind \in {"dir", "locked"} THEN Append(stack, <<i, depth + 1>>)
                      ELSE stack
          /\ UNCHANGED <<phase, depth>>
  /\ UNCHANGED <<mount, tree, allow, env, args, proxy>>

Walked ==
  /\ phase = "walk" /\ listing = {} /\ stack = <<>>
  /\ phase' = "clean"
  /\ UNCHANGED <<mount, tree, allow, env, walkVars, args, proxy>>

-----------------------------------------------------------------------------
(* The allowlist, the arguments, the proxy *)

CheckEgress(l) ==
  /\ phase = "clean"
  /\ allow' = l
  /\ phase' = IF Accepted(l) THEN "valid" ELSE "refused"
  /\ UNCHANGED <<mount, tree, env, walkVars, args, proxy>>

\* Mutant: the membrane's variables come first.
DockerRunArgsCallerLast(own) ==
  /\ phase = "valid"
  /\ phase' = "running"
  /\ args' = IF allow = {} THEN Sealed
             ELSE [network |-> "agent-egress", label |-> Label(Policy(allow))]
  /\ env' = (IF allow = {} THEN <<>> ELSE <<"membrane">>) \o (IF own THEN <<"caller">> ELSE <<>>)
  /\ UNCHANGED <<mount, tree, allow, walkVars, proxy>>

\* docker_run_args: no egress, no network; otherwise the proxy's network, the
\* run's own label and, after what the caller sets, the proxy variables.
DockerRunArgs(own) ==
  /\ phase = "valid"
  /\ phase' = "running"
  /\ args' = IF allow = {} THEN Sealed
             ELSE [network |-> "agent-egress", label |-> Label(Policy(allow))]
  /\ env' = (IF own THEN <<"caller">> ELSE <<>>) \o (IF allow = {} THEN <<>> ELSE <<"membrane">>)
  /\ UNCHANGED <<mount, tree, allow, walkVars, proxy>>

\* _seccomp_profile refuses "unconfined".
Unconfined ==
  /\ phase = "valid"
  /\ phase' = "refused"
  /\ UNCHANGED <<mount, tree, allow, env, walkVars, args, proxy>>

\* proxy.py, _handle: the container's first request is decided by the allowlist in
\* the proxy's environment.  _allowlist_for_source has the container's address and
\* returns that list for each of them: the label is not looked up.
ProxyAsks(line, static) ==
  /\ phase = "running" /\ args.network # "none" /\ proxy = None
  /\ proxy' = [static |-> static, line |-> line,
               tunnel |-> IsAllowed(PolicyFromLabel(static), line)]
  /\ UNCHANGED <<mount, tree, allow, env, phase, walkVars, args>>

Line == [connect : BOOLEAN, hasTarget : BOOLEAN, target : Targets]

Walk == Open \/ Walked \/ \E i \in 1..MaxNodes : Look(i)

LaunchNext ==
  \/ Resolve \/ Walk
  \/ \E l \in Allowlists : CheckEgress(l)
  \/ \E own \in BOOLEAN : DockerRunArgs(own)
  \/ Unconfined
  \/ \E line \in Line, static \in Statics : ProxyAsks(line, static)

-----------------------------------------------------------------------------

\* What the walk has to find out, on the whole tree: nothing in it is a socket, a
\* device, or an entry that cannot be inspected or listed, and it is within caps.
DepthOf[i \in 0..Len(tree)] == IF i = 0 THEN 0 ELSE DepthOf[tree[i].parent] + 1
TreeIsSafe ==
  /\ mount.source # "lockedDir"
  /\ \A i \in DOMAIN tree : tree[i].kind \in {"file", "dir", "symlink"}
  /\ Len(tree) <= MaxEntries
  /\ \A i \in DOMAIN tree : tree[i].kind = "dir" => DepthOf[i] <= MaxDepth

\* The bounded walk is exact: it clears a subtree if and only if the whole of it
\* is safe and within the caps, and nothing is launched on one it did not clear.
WalkIsExact ==
  /\ phase \in {"clean", "valid", "running"} => TreeIsSafe
  /\ phase = "unsafe" => ~TreeIsSafe

\* The label says what the gate accepted: as_label, read by the policy_from_label
\* of a proxy that would look it up, gives the policy back host by host.  The proxy
\* that is shipped tunnels only to a host that an entry of its own list names.
LabelReadsBack ==
  /\ phase = "running" /\ allow # {} => PolicyFromLabel(args.label) = Policy(allow)
  /\ proxy # None /\ proxy.tunnel =>
       \E part \in Split(proxy.static) :
          NormalizeHost(Strip(part)) = NormalizeHost(proxy.line.target)

\* A container without granted egress has no network.  One with it joins the
\* proxy's network alone, carries a label that is not empty, and the proxy variable
\* docker ends up with is the membrane's.  What the proxy lets through is not said
\* here: it does not read the label.
SealedOrProxied ==
  phase = "running" =>
    IF allow = {} THEN args.network = "none" /\ args.label = None
    ELSE /\ args.network = "agent-egress"
         /\ args.label # None /\ args.label # <<>>
         /\ env[Len(env)] = "membrane"
=============================================================================

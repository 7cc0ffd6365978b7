-------------------------------- MODULE Egress --------------------------------
(***************************************************************************)
(* The egress allowlist (membrane/egress.py, membrane/egress_proxy.py).    *)
(* The launcher accepts an allowlist and stamps it on the container as a   *)
(* label; policy_from_label reads such a text back.  The proxy that is     *)
(* shipped applies it to the allowlist of its environment instead.  What   *)
(* the two sides must agree on is what the conversions make of an entry,   *)
(* so text is a sequence of characters here.                               *)
(***************************************************************************)
EXTENDS Naturals, Sequences, FiniteSets, SequencesExt

\* The characters the code tells apart: a letter in both cases, the ones with a
\* meaning in a host or in a label, the wildcard and the space.
Space == " "
Comma == ","
Char == {"a", "A", ":", "[", "]", Comma, "*", ".", Space}
Lowered == [c \in Char |-> IF c = "A" THEN "a" ELSE c]

Has(s, c) == \E i \in 1..Len(s) : s[i] = c
Count(s, c) == Cardinality({i \in 1..Len(s) : s[i] = c})

\* str.strip
Strip(s) ==
  LET ink == {i \in 1..Len(s) : s[i] # Space} IN
  IF ink = {} THEN <<>>
  ELSE SubSeq(s, CHOOSE i \in ink : \A j \in ink : i <= j,
                 CHOOSE i \in ink : \A j \in ink : i >= j)

\* _normalize_host: strip, lower, drop the port; a bracketed literal keeps what
\* its brackets hold, a bare one with several colons is left alone.
NormalizeHost(raw) ==
  LET s == [i \in 1..Len(Strip(raw)) |-> Lowered[Strip(raw)[i]]]
      at(c) == CHOOSE i \in 1..Len(s) : s[i] = c /\ \A j \in 1..(i - 1) : s[j] # c IN
  CASE s # <<>> /\ s[1] = "[" -> IF Has(s, "]") THEN SubSeq(s, 2, at("]") - 1) ELSE s
    [] s # <<>> /\ s[1] # "[" /\ Count(s, ":") = 1 -> SubSeq(s, 1, at(":") - 1)
    [] OTHER -> s

\* Mutant: one normalisation is taken to be enough.
AcceptsUnstable(entry) ==
  LET h == NormalizeHost(entry) IN
  /\ h # <<>> /\ h[1] # "."
  /\ \A c \in {"*", "[", "]", Comma, Space} : ~Has(h, c)

\* EgressPolicy.__init__ takes the entry: a plain host that a second
\* normalisation leaves alone, with no character a label would read otherwise.
Accepts(entry) ==
  LET h == NormalizeHost(entry) IN
  /\ h # <<>> /\ h[1] # "."
  /\ \A c \in {"*", "[", "]", Comma, Space} : ~Has(h, c)
  /\ NormalizeHost(h) = h

\* EgressPolicy(allow): one bad entry refuses the whole list.
Accepted(entries) == \A e \in entries : Accepts(e)
Policy(entries) == {NormalizeHost(e) : e \in entries}

\* decide: the host asked for, in the same normal form, is listed.
Decide(policy, host) == NormalizeHost(host) \in policy

\* str.join with a comma.
Join(hosts) ==
  LET upTo[n \in 0..Len(hosts)] ==
        IF n = 0 THEN <<>>
        ELSE IF n = 1 THEN hosts[1] ELSE upTo[n - 1] \o <<Comma>> \o hosts[n]
  IN upTo[Len(hosts)]

\* as_label: the hosts joined with commas, in a fixed order.
Label(policy) == Join(SetToSeq(policy))

\* str.split(","): what is between one cut and the next.
Cuts(s) == {0, Len(s) + 1} \cup {i \in 1..Len(s) : s[i] = Comma}
NextCut(s, a, b) == a < b /\ \A c \in Cuts(s) : ~(a < c /\ c < b)
Split(s) ==
  {SubSeq(s, p[1] + 1, p[2] - 1) : p \in {p \in Cuts(s) \X Cuts(s) : NextCut(s, p[1], p[2])}}

\* policy_from_label: no label, a blank one, or one EgressPolicy refuses allows
\* nothing.
PolicyFromLabel(label) ==
  LET hosts == {Strip(part) : part \in Split(label)} \ {<<>>} IN
  IF Accepted(hosts) THEN Policy(hosts) ELSE {}

\* is_allowed: a request line that parse_connect_host cannot read (another method,
\* no target) is denied; `line` stands for its words.
IsAllowed(policy, line) == line.connect /\ line.hasTarget /\ Decide(policy, line.target)
=============================================================================

----------------------------- MODULE MCPreflight -----------------------------
(* Subtrees of up to three entries against caps of two entries and depth     *)
(* one; every allowlist of one short text and many of two; three lists the   *)
(* proxy is deployed with; every table with at most one thing wrong on every *)
(* state of the host's secrets, pairs of plain tables, and every brain       *)
(* configuration.                                                            *)
EXTENDS Preflight

Texts(c, n) == UNION {[1..k -> c] : k \in 0..n}
MCAllowlists ==
  {{e} : e \in Texts(Char \ {"*"}, 3)} \cup {{<<"*">>}, {<<"[", "a", ":", "]">>}, {<<"[", "a", ":", "a", "]">>}, {}}
    \cup {{e, f} : e, f \in Texts({"a", ":", ",", " "}, 2)}
MCStatics == {<<"a", ",", "A">>, <<" ", "a", ":", "a">>, <<"*">>}
MCTargets == {<<"a">>, <<"A", ":", "a">>, <<"a", ":", "a", ":">>}

GoodBrain ==
  [selector |-> "sdk", backend |-> "claude", mode |-> "good", sdk |-> TRUE, extra |-> TRUE,
   cli |-> TRUE, auth |-> "subscription", byo |-> {}, local |-> FALSE]
GoodHost ==
  [value |-> [s \in Suffix |-> "good"], keyring |-> TRUE, memory |-> TRUE, docker |-> TRUE,
   egress |-> "sealed", image |-> "pinned", brain |-> GoodBrain]

Usual(kind) == IF kind = "static_env" THEN "yes" ELSE "absent"
Oddities(t) == {x \in {<<1, t.required # "set">>, <<2, t.extra # "none">>, <<3, t.shape # "good">>,
                       <<4, t.consent # Usual(t.kind)>>} : x[2]}
OddTables == {t \in Table : Cardinality(Oddities(t)) <= 1}
PlainTables == {t \in Table : /\ t.kind \in {"aws_sts", "github_app", "static_env"}
                              /\ Oddities(t) = {} /\ Cardinality(t.refs) <= 1}
Brains == {b \in Brain : /\ b.selector = "sdk" => b.extra /\ b.cli /\ b.byo = {} /\ ~b.local
                         /\ b.selector # "sdk" => b.sdk /\ b.mode = "good" /\ b.auth = "key"}
SecretHosts == {[GoodHost EXCEPT !.value = v, !.keyring = k] :
                  v \in {[s \in Suffix |-> "good"], [s \in Suffix |-> "blank"],
                         [s \in Suffix |-> IF s = "_env" THEN "good" ELSE "unset"]},
                  k \in BOOLEAN}

MCWorlds ==
  {[file |-> "read", host |-> h, registry |-> [n \in {1} |-> t]] :
     h \in SecretHosts, t \in OddTables}
  \cup {[file |-> "read", host |-> h, registry |-> (1 :> t) @@ (2 :> u)] :
     h \in SecretHosts, t \in PlainTables, u \in PlainTables}
  \cup {[file |-> "absent", host |-> [GoodHost EXCEPT !.brain = b], registry |-> <<>>] :
     b \in Brains}
  \cup {[file |-> f, registry |-> <<>>,
         host |-> [GoodHost EXCEPT !.memory = m, !.docker = d, !.egress = e, !.image = i]] :
     f \in {"absent", "broken"}, m \in BOOLEAN, d \in BOOLEAN,
     e \in {"absent", "open", "sealed"}, i \in {"absent", "floating", "pinned"}}
MCIdleWorld == [file |-> "absent", host |-> GoodHost, registry |-> <<>>]
=============================================================================

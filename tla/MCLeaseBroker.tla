---- MODULE MCLeaseBroker ----
(* LeaseBroker on two clients, the stateful Cloudflare provider and the     *)
(* stateless memory provider, of which only the read scope is granted.      *)
EXTENDS LeaseBroker, TLC

CONSTANTS c1, c2, h1, h2

MCIssuer == [h \in Handle |-> "cloudflare"]
MCGrants == {<<"cloudflare", "zone">>, <<"memory", "memory:read">>, <<"memory", "memory:write">>}
HandleSymmetry == Permutations(Handle)
ClientSymmetry == Permutations(Client) \cup HandleSymmetry
====

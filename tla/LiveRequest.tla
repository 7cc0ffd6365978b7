----------------------------- MODULE LiveRequest -----------------------------
(***************************************************************************)
(* One request of BearerJsonClient (eval/bootstrap_live.py): the loop of   *)
(* _request_sync as a state machine of its own.  A step is one trip to the *)
(* memory cloud; what the trip meets is its answer.                        *)
(*                                                                         *)
(* The loop catches HTTPError and URLError.  URLError is a connection that *)
(* never carried the request; a connection lost while the answer is read   *)
(* raises neither, so the request fails without a retry.                   *)
(***************************************************************************)
EXTENDS Naturals

CONSTANTS Retries,     \* BearerJsonClient._retries
          Refreshing   \* a token_provider is given

ASSUME RetriesAssumption == Retries \in Nat
ASSUME RefreshingAssumption == Refreshing \in BOOLEAN

\* What one trip can meet: a success; a success whose body is not what the caller
\* asked for, of a request the server did not carry out or did; a 401; a 5xx or a
\* connection that was refused; a 5xx for a request the server carried out; any
\* other failure (another 4xx, no token, an answer lost or garbled), before or after
\* the server carried it out.
Answer == {"ok", "mismatch", "mismatchLate", "expired", "failed", "failedLate", "lost", "lostLate"}
TookEffect == {"ok", "mismatchLate", "failedLate", "lostLate"}
Succeeds == {"ok", "mismatch"}

Request == [st : {"idle", "running", "ok", "mismatch", "raised"},
            attempt : 0..Retries, refreshed : BOOLEAN]
NoRequest  == [st |-> "idle", attempt |-> 0, refreshed |-> FALSE]
NewRequest == [NoRequest EXCEPT !.st = "running"]
Result(st) == [NoRequest EXCEPT !.st = st]

\* What request returns for a 2xx.
Returned == [a \in {"ok", "mismatch", "mismatchLate"} |-> IF a = "ok" THEN "ok" ELSE "mismatch"]

\* Mutant: the transient budget is not consumed.
AfterTripForever(r, a) ==
  CASE a \in DOMAIN Returned -> Result(Returned[a])
    [] a = "expired" /\ Refreshing /\ ~r.refreshed -> [r EXCEPT !.refreshed = TRUE]
    [] a \in {"failed", "failedLate"} /\ Retries > 0 -> r
    [] OTHER -> Result("raised")

\* A 401 is answered by one forced refresh, on top of the transient budget; a
\* 5xx and a refused connection consume the budget; anything else is raised.
AfterTrip(r, a) ==
  CASE a \in DOMAIN Returned -> Result(Returned[a])
    [] a = "expired" /\ Refreshing /\ ~r.refreshed -> [r EXCEPT !.refreshed = TRUE]
    [] a \in {"failed", "failedLate"} /\ r.attempt < Retries
         -> [r EXCEPT !.attempt = @ + 1]
    [] OTHER -> Result("raised")
=============================================================================

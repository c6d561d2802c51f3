--------------------------- MODULE CircuitBreaker ---------------------------
(***************************************************************************)
(* What the circuit breaker promises: a request is given an endpoint only  *)
(* while fewer than Threshold checks of it failed since the last success.  *)
(* It knows nothing of storage, listings, write-backs or handlers.         *)
(***************************************************************************)
EXTENDS Naturals

CONSTANTS Endpoint, Request, Threshold

VARIABLES
  failed,    \* failed checks of each endpoint since its last success, capped
  selected   \* the pairs of a request and the endpoint it was given

Init ==
  /\ failed = [e \in Endpoint |-> 0]
  /\ selected = {}

CheckSucceeds(e) ==
  /\ failed' = [failed EXCEPT ![e] = 0]
  /\ UNCHANGED selected

CheckFails(e) ==
  /\ failed[e] < Threshold
  /\ failed' = [failed EXCEPT ![e] = @ + 1]
  /\ UNCHANGED selected

Select(r, e) ==
  /\ failed[e] < Threshold
  /\ \A other \in Endpoint : <<r, other>> \notin selected
  /\ selected' = selected \cup {<<r, e>>}
  /\ UNCHANGED failed

Next ==
  \E e \in Endpoint :
    \/ CheckSucceeds(e)
    \/ CheckFails(e)
    \/ \E r \in Request : Select(r, e)

Spec == Init /\ [][Next]_<<failed, selected>>
=============================================================================

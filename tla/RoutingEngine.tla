---------------------------- MODULE RoutingEngine ----------------------------
(***************************************************************************)
(* The routing engine (src/router/mod.rs): which endpoints are candidates, *)
(* their score, and which of them a strategy may return.                   *)
(***************************************************************************)
EXTENDS Storage

CONSTANTS
  Strategies,   \* the strategies a run's calls ask for
  UsizeMax      \* the largest value of the AtomicUsize

ASSUME UsizeAssumption == UsizeMax \in Nat

VARIABLE round_robin_index

RoutingStrategy == {"score", "weighted_random", "round_robin"}
ASSUME StrategiesAssumption == Strategies \subseteq RoutingStrategy

CIRCUIT_BREAKER_THRESHOLD == 3

\* Mutant of is_open_circuit: above the threshold instead of at it.
is_open_circuit_above(e) == e.failures > CIRCUIT_BREAKER_THRESHOLD

is_open_circuit(e) == e.failures >= CIRCUIT_BREAKER_THRESHOLD

IsCandidate(e, kind) ==
  /\ e # Absent
  /\ e.kind = kind
  /\ e.health \in {"healthy", "degraded"}
  /\ ~is_open_circuit(e)

Candidates(kind) == {id \in ServerId : IsCandidate(servers[id], kind)}

HealthPenalty ==
  [healthy |-> 0, degraded |-> 40, unknown |-> 80, unhealthy |-> 120]

\* route_score in twentieths of a point, so that it is an integer.
route_score(e) ==
  20 * (e.weight - e.errors - 15 * e.failures - HealthPenalty[e.health]) - e.latency

BestScored(ids) ==
  {id \in ids : \A other \in ids : route_score(servers[other]) <= route_score(servers[id])}

\* A listing has no fixed order (HashMap::values, SELECT without ORDER BY), so
\* ties of the score and the position the counter selects may be any candidate;
\* a weighted draw gives every candidate a share of at least one.
Selectable(kind, strategy) ==
  IF strategy = "score" THEN BestScored(Candidates(kind)) ELSE Candidates(kind)

\* fetch_add on the shared counter wraps at the width of usize.
CountSelection(strategy) ==
  round_robin_index' = IF strategy = "round_robin"
                       THEN (round_robin_index + 1) % (UsizeMax + 1)
                       ELSE round_robin_index
=============================================================================

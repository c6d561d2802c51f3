--------------------------- MODULE MCControlPlane ---------------------------
(* Values of the constants of ControlPlane for TLC.                         *)
EXTENDS ControlPlane, TLC

Endpoint(kind, http, object, failures, weight) ==
  [kind |-> kind, http |-> http, health |-> "unknown", weight |-> weight,
   object |-> object, failures |-> failures, latency |-> DefaultLatency, errors |-> 0]

\* One ordinary LLM endpoint.
OneEndpoint == {Endpoint("llm", TRUE, TRUE, 0, 50)}

\* Next to it one whose metadata is not an object, so that nothing is counted.
OpaqueEndpoint == {Endpoint("llm", TRUE, FALSE, 0, 50)}
OneAndOpaque == OneEndpoint \cup OpaqueEndpoint

\* An MCP endpoint, one registered with an open breaker, and one without a URL
\* to probe.
OpenAndOthers ==
  {Endpoint("mcp", TRUE, TRUE, 0, 50), Endpoint("llm", TRUE, TRUE, 3, 50),
   Endpoint("llm", FALSE, TRUE, 0, 50)}

\* What probes are answered: anything; a success or nothing; MCP endpoints so, and
\* LLM endpoints always with a success.
AnyResponses == [kind \in ProviderKind |-> Response]
UpOrDown == [kind \in ProviderKind |-> {"success", "no_answer"}]
SteadyLlm == [mcp |-> {"success", "no_answer"}, llm |-> {"success"}]

Symmetry == Permutations(Call) \cup Permutations(ServerId)
=============================================================================

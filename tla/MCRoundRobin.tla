---------------------------- MODULE MCRoundRobin ----------------------------
(* Values of the constants of RoundRobin for TLC.                           *)
EXTENDS RoundRobin

BothKinds == {"mcp", "llm"}
Endpoints == {"m1", "m2", "l1", "l2", "l3"}

\* Three LLM endpoints one of which may drop out or change its place, and two
\* MCP endpoints.
ChangingListings ==
  [mcp |-> {<<"m1", "m2">>},
   llm |-> {<<"l1", "l2", "l3">>, <<"l3", "l1", "l2">>, <<"l1", "l2">>}]

\* Two endpoints of each kind that never change.
FixedListings == [mcp |-> {<<"m1", "m2">>}, llm |-> {<<"l1", "l2">>}]
=============================================================================

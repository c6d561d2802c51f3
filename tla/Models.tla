------------------------------- MODULE Models -------------------------------
(***************************************************************************)
(* The domain model shared by every component (src/models/mod.rs).         *)
(*                                                                         *)
(* An endpoint keeps what the router, the health worker and the API read:  *)
(*   kind      the provider kind it was registered with                    *)
(*   http      whether endpoint_url starts with http:// or https://        *)
(*   health    the HealthState last written                                *)
(*   weight    the administrator's priority                                *)
(*   object    whether the metadata value is a JSON object                 *)
(*   failures  metadata.consecutive_failures as as_u64().unwrap_or(0)      *)
(*   latency   metadata.last_latency_ms as as_f64().unwrap_or(500.0)       *)
(*   errors    metadata.error_rate, in per cent, absent meaning 0          *)
(* Name, URL text, API key and time stamps decide nothing here and are     *)
(* left out. Metadata that is not an object has no keys, so its three      *)
(* readings are the defaults.                                              *)
(***************************************************************************)
EXTENDS Integers

CONSTANTS
  ServerId,   \* the UUIDs that registrations may draw
  Absent,     \* the value of "no endpoint" and "no id"
  U64Max      \* the largest value of the u64 failure counter

ProviderKind == {"mcp", "llm"}
HealthState  == {"healthy", "unhealthy", "degraded", "unknown"}

DefaultLatency == 500

ServerEndpoint ==
  [kind: ProviderKind, http: BOOLEAN, health: HealthState, weight: Nat,
   object: BOOLEAN, failures: 0 .. U64Max, latency: Nat, errors: Nat]

\* What POST /servers may be asked to register: an endpoint of unknown health.
CreateServerRequest ==
  {e \in ServerEndpoint :
     /\ e.health = "unknown"
     /\ ~e.object => /\ e.failures = 0
                     /\ e.latency = DefaultLatency
                     /\ e.errors = 0}

\* The part of an endpoint only the administrator decides.
Config(e) == <<e.kind, e.http, e.weight, e.object, e.errors>>

ASSUME U64Assumption == U64Max \in Nat
ASSUME AbsentAssumption == Absent \notin ServerEndpoint /\ Absent \notin ServerId
=============================================================================

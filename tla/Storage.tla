------------------------------- MODULE Storage -------------------------------
(***************************************************************************)
(* The Storage trait (src/storage/mod.rs) with its two implementations:    *)
(*   InMemory  HashMap and Vecs behind tokio RwLocks. Every operation      *)
(*             takes one lock and never awaits while it holds it, so it is *)
(*             one step, and it never fails.                               *)
(*   Postgres  one autocommitted statement per operation, one step as      *)
(*             well. Any statement may fail, and a connection lost after   *)
(*             the commit makes the caller see an error although the       *)
(*             statement took effect ("lost_ack"). routing_history         *)
(*             references servers ON DELETE CASCADE.                       *)
(* A routing decision or audit record is identified by the call that       *)
(* wrote it, as each draws a fresh UUID or is pushed on a Vec nobody       *)
(* reorders. The operations that only read are the plain use of servers.   *)
(***************************************************************************)
EXTENDS Models

CONSTANTS
  Backend,   \* "InMemory" or "Postgres"
  Call       \* the management calls of a behaviour

ASSUME BackendAssumption == Backend \in {"InMemory", "Postgres"}

VARIABLES
  servers,           \* the endpoint stored under each id, or Absent
  routing_history,   \* set of RoutingDecision
  audit_logs         \* set of AuditLog

storageVars == <<servers, routing_history, audit_logs>>

RoutingDecision == [call: Call, server: ServerId]
AuditLog ==
  [action: {"server.create", "server.delete", "route.request"},
   call: Call, server: ServerId]

StorageTypeOK ==
  /\ servers \in [ServerId -> ServerEndpoint \cup {Absent}]
  /\ routing_history \subseteq RoutingDecision
  /\ audit_logs \subseteq AuditLog

EmptyStorage ==
  /\ servers = [id \in ServerId |-> Absent]
  /\ routing_history = {}
  /\ audit_logs = {}

\* How one storage operation may end for its caller.
Results == IF Backend = "Postgres" THEN {"ok", "err", "lost_ack"} ELSE {"ok"}

TakesEffect(res) == res # "err"

upsert_server(id, server, res) ==
  /\ servers' = IF TakesEffect(res) THEN [servers EXCEPT ![id] = server] ELSE servers
  /\ UNCHANGED <<routing_history, audit_logs>>

\* Mutant of delete_server: the in-memory store drops the decisions as well.
delete_server_cascading(id, res) ==
  /\ servers' = IF TakesEffect(res) THEN [servers EXCEPT ![id] = Absent] ELSE servers
  /\ routing_history' = IF TakesEffect(res)
                        THEN {d \in routing_history : d.server # id}
                        ELSE routing_history
  /\ UNCHANGED audit_logs

\* A missing row is no error. Only the database forgets the decisions too.
delete_server(id, res) ==
  /\ servers' = IF TakesEffect(res) THEN [servers EXCEPT ![id] = Absent] ELSE servers
  /\ routing_history' =
       IF TakesEffect(res) /\ Backend = "Postgres"
       THEN {d \in routing_history : d.server # id}
       ELSE routing_history
  /\ UNCHANGED audit_logs

\* The foreign key makes the insert fail once the endpoint is gone.
record_routing_decision(d, res) ==
  /\ Backend = "Postgres" /\ servers[d.server] = Absent => res = "err"
  /\ routing_history' =
       IF TakesEffect(res) THEN routing_history \cup {d} ELSE routing_history
  /\ UNCHANGED <<servers, audit_logs>>

record_audit_log(log, res) ==
  /\ audit_logs' = IF TakesEffect(res) THEN audit_logs \cup {log} ELSE audit_logs
  /\ UNCHANGED <<servers, routing_history>>

\* What the next process finds: an in-memory store starts empty.
ReopenStorage ==
  IF Backend = "InMemory"
  THEN /\ servers' = [id \in ServerId |-> Absent]
       /\ routing_history' = {}
       /\ audit_logs' = {}
  ELSE UNCHANGED storageVars
=============================================================================

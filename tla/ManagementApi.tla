---------------------------- MODULE ManagementApi ----------------------------
(***************************************************************************)
(* The handlers of the management API that change state (src/api/mod.rs):  *)
(* POST /servers, DELETE /servers/{id} and POST /route, of calls that      *)
(* passed the authentication and role middleware. A handler is the         *)
(* sequence of its awaits: what it does from one await to the next is one  *)
(* step, and every other task may run in between. The read-only handlers   *)
(* change nothing and are left out.                                        *)
(***************************************************************************)
EXTENDS RoutingEngine

CONSTANT CreateRequests   \* the endpoints a run registers

ASSUME CreateRequestsAssumption == CreateRequests \subseteq CreateServerRequest

VARIABLE calls   \* what each call has done, kept after its answer

apiVars == <<round_robin_index, calls>>

Pending == {"record", "audit", "lookup", "forward"}

CallState ==
  [pc: {"idle", "done", "dropped"} \cup Pending,
   op: {"none", "server.create", "server.delete", "route.request"},
   server: ServerId \cup {Absent},
   status: {0, 200, 201, 204, 500, 502, 503}]

ApiTypeOK ==
  /\ round_robin_index \in 0 .. UsizeMax
  /\ calls \in [Call -> CallState]

ApiInit ==
  /\ round_robin_index = 0
  /\ calls = [c \in Call |->
                [pc |-> "idle", op |-> "none", server |-> Absent, status |-> 0]]

\* The handler awaits its next operation, or has answered.
At(pc, op, id) == [pc |-> pc, op |-> op, server |-> id, status |-> 0]
Answer(op, id, status) == [pc |-> "done", op |-> op, server |-> id, status |-> status]

\* Mutant of Created: an id may be drawn again.
CreatedNever(id) == FALSE

Created(id) == \E c \in Call : calls[c].op = "server.create" /\ calls[c].server = id
DeleteIssued(id) == \E c \in Call : calls[c].op = "server.delete" /\ calls[c].server = id

\* Mutant of AfterWrite: a failed write is ignored.
AfterWriteIgnoringError(op, id, res) == At("audit", op, id)

\* The match on the result of the upsert or the delete.
AfterWrite(op, id, res) ==
  IF res = "ok" THEN At("audit", op, id) ELSE Answer(op, id, 500)

\* Mutants of AfterRecord: a failed record is ignored; the audit is left out.
AfterRecordIgnoringError(call, res) == [call EXCEPT !.pc = "audit"]
AfterRecordUnaudited(call, res) ==
  IF res = "ok" THEN [call EXCEPT !.pc = "lookup"] ELSE Answer(call.op, call.server, 503)

\* The match on the router's decision.
AfterRecord(call, res) ==
  IF res = "ok" THEN [call EXCEPT !.pc = "audit"] ELSE Answer(call.op, call.server, 503)

------------------------------------------------------------------------------
\* create_server up to the upsert; Uuid::new_v4 repeats no id.
CreateServer(c) ==
  /\ calls[c].pc = "idle"
  /\ \E id \in ServerId, server \in CreateRequests, res \in Results :
       /\ ~Created(id)
       /\ upsert_server(id, server, res)
       /\ calls' = [calls EXCEPT ![c] = AfterWrite("server.create", id, res)]
  /\ UNCHANGED round_robin_index

\* delete_server up to the delete, of an id some registration drew. Deleting an
\* id twice stands for deleting any id that is not stored.
DeleteServer(c) ==
  /\ calls[c].pc = "idle"
  /\ \E id \in ServerId, res \in Results :
       /\ Created(id)
       /\ delete_server(id, res)
       /\ calls' = [calls EXCEPT ![c] = AfterWrite("server.delete", id, res)]
  /\ UNCHANGED round_robin_index

\* route: list, filter and select. Nothing is awaited between the listing's
\* arrival and the selection, and the selection reads the listing only.
RouteRequest(c) ==
  /\ calls[c].pc = "idle"
  /\ \E kind \in ProviderKind, strategy \in Strategies :
       \E id \in Selectable(kind, strategy) :
         /\ CountSelection(strategy)
         /\ calls' = [calls EXCEPT ![c] = At("record", "route.request", id)]
  /\ UNCHANGED storageVars

\* No candidate of the kind, or the listing failed.
RouteUnavailable(c) ==
  /\ calls[c].pc = "idle"
  /\ "err" \in Results \/ \E kind \in ProviderKind : Candidates(kind) = {}
  /\ calls' = [calls EXCEPT ![c] = Answer("route.request", Absent, 503)]
  /\ UNCHANGED <<storageVars, round_robin_index>>

\* The last await of select_score, select_weighted_random, select_round_robin.
RecordDecision(c) ==
  /\ calls[c].pc = "record"
  /\ \E res \in Results :
       /\ record_routing_decision([call |-> c, server |-> calls[c].server], res)
       /\ calls' = [calls EXCEPT ![c] = AfterRecord(@, res)]
  /\ UNCHANGED round_robin_index

AfterAudit(call) ==
  CASE call.op = "server.create" -> Answer(call.op, call.server, 201)
    [] call.op = "server.delete" -> Answer(call.op, call.server, 204)
    [] OTHER -> At("lookup", call.op, call.server)

\* record_audit: an error is logged and the handler goes on all the same.
RecordAudit(c) ==
  /\ calls[c].pc = "audit"
  /\ \E res \in Results :
       record_audit_log([action |-> calls[c].op, call |-> c,
                         server |-> calls[c].server], res)
  /\ calls' = [calls EXCEPT ![c] = AfterAudit(@)]
  /\ UNCHANGED round_robin_index

\* get_server: the endpoint as it is now. A call without a message is answered,
\* one with a message is forwarded.
LookUpOutcomes(call) ==
  (IF servers[call.server] = Absent
   THEN {Answer(call.op, call.server, 503)}
   ELSE {Answer(call.op, call.server, 200), At("forward", call.op, call.server)})
  \cup {Answer(call.op, call.server, 500) : res \in Results \cap {"err"}}

LookUp(c) ==
  /\ calls[c].pc = "lookup"
  /\ \E next \in LookUpOutcomes(calls[c]) : calls' = [calls EXCEPT ![c] = next]
  /\ UNCHANGED <<storageVars, round_robin_index>>

\* providers::forward: a text, or an error or the end of the 60 seconds.
Forward(c) ==
  /\ calls[c].pc = "forward"
  /\ \E status \in {200, 502} :
       calls' = [calls EXCEPT ![c] = Answer(@.op, @.server, status)]
  /\ UNCHANGED <<storageVars, round_robin_index>>

\* The client closes the connection: the server drops the handler at its await.
ClientGone(c) ==
  /\ calls[c].pc \in Pending
  /\ calls' = [calls EXCEPT ![c].pc = "dropped"]
  /\ UNCHANGED <<storageVars, round_robin_index>>

ApiStep(c) ==
  \/ CreateServer(c)
  \/ DeleteServer(c)
  \/ RouteRequest(c)
  \/ RouteUnavailable(c)
  \/ RecordDecision(c)
  \/ RecordAudit(c)
  \/ LookUp(c)
  \/ Forward(c)
  \/ ClientGone(c)

\* The calls in flight end with the process; the new engine counts from zero.
DropCalls ==
  /\ round_robin_index' = 0
  /\ calls' = [c \in Call |-> IF calls[c].pc \in Pending
                              THEN [calls[c] EXCEPT !.pc = "dropped"]
                              ELSE calls[c]]
=============================================================================

------------------------- MODULE ControlPlaneProofs -------------------------
(***************************************************************************)
(* Theorems about ControlPlane for every value of its constants.           *)
(***************************************************************************)
EXTENDS ControlPlane, TLAPS

------------------------------------------------------------------------------
(***************************************************************************)
(* Typing.                                                                 *)
(***************************************************************************)

\* What a probe records is an endpoint again.
LEMMA CheckedType ==
  ASSUME NEW e \in ServerEndpoint, NEW check \in HealthChecks(e)
  PROVE  /\ check.health \in HealthState
         /\ Checked(e, check) \in ServerEndpoint
<1>1. check.health \in HealthState /\ check.latency \in Nat
  BY LatenciesAssumption DEF HealthChecks, HealthState, ServerEndpoint
<1>2. e.failures \in 0 .. U64Max /\ U64Max \in Nat
  BY U64Assumption DEF ServerEndpoint
<1>3. NextFailures(e.failures, check.health) \in 0 .. U64Max
  BY <1>2 DEF NextFailures
<1>4. Checked(e, check) \in ServerEndpoint
  BY <1>1, <1>3 DEF Checked, ServerEndpoint
<1> QED BY <1>1, <1>4

\* Every registration is an endpoint.
LEMMA RequestType == CreateRequests \subseteq ServerEndpoint
BY CreateRequestsAssumption DEF CreateServerRequest

\* The storage operations keep the storage's types.
LEMMA StorageStepType ==
  ASSUME StorageTypeOK, NEW res, NEW id \in ServerId
  PROVE  /\ \A e \in ServerEndpoint : upsert_server(id, e, res) => StorageTypeOK'
         /\ delete_server(id, res) => StorageTypeOK'
         /\ \A d \in RoutingDecision : record_routing_decision(d, res) => StorageTypeOK'
         /\ \A log \in AuditLog : record_audit_log(log, res) => StorageTypeOK'
<1>1. \A e \in ServerEndpoint : upsert_server(id, e, res) => StorageTypeOK'
  BY DEF StorageTypeOK, upsert_server
<1>2. delete_server(id, res) => StorageTypeOK'
  BY DEF StorageTypeOK, delete_server
<1>3. \A d \in RoutingDecision : record_routing_decision(d, res) => StorageTypeOK'
  BY DEF StorageTypeOK, record_routing_decision
<1>4. \A log \in AuditLog : record_audit_log(log, res) => StorageTypeOK'
  BY DEF StorageTypeOK, record_audit_log
<1> QED BY <1>1, <1>2, <1>3, <1>4
\* The records a handler goes through are of type CallState.
LEMMA CallRecordsType ==
  ASSUME NEW id \in ServerId \cup {Absent}, 
         NEW op \in {"server.create", "server.delete", "route.request"}
  PROVE  /\ \A pc \in Pending : At(pc, op, id) \in CallState
         /\ \A status \in {200, 201, 204, 500, 502, 503} : Answer(op, id, status) \in CallState
BY DEF At, Answer, CallState, Pending

\* A handler's step keeps the types.
LEMMA ApiStepType ==
  ASSUME TypeOK, CallsWellFormed, NEW c \in Call, ApiStep(c),
         UNCHANGED <<workerVars, restarts>>
  PROVE  TypeOK'
<1> USE DEF TypeOK
<1>0. WorkerTypeOK' /\ restarts' \in 0 .. MaxRestarts
  BY DEF WorkerTypeOK, workerVars
<1>1. SUFFICES StorageTypeOK' /\ ApiTypeOK'
  BY <1>0
<1>2. /\ calls[c] \in CallState
      /\ calls \in [Call -> CallState]
      /\ round_robin_index \in 0 .. UsizeMax
  BY DEF ApiTypeOK
<1>3. calls[c].pc \in Pending =>
        /\ calls[c].op \in {"server.create", "server.delete", "route.request"}
        /\ calls[c].server \in ServerId
  BY <1>2 DEF CallsWellFormed, CallState
<1>4. UNCHANGED storageVars => StorageTypeOK'
  BY DEF StorageTypeOK, storageVars
<1>5. CASE CreateServer(c)
  <2>1. PICK id \in ServerId, server \in CreateRequests, res \in Results :
          /\ upsert_server(id, server, res)
          /\ calls' = [calls EXCEPT ![c] = IF res = "ok"
                                           THEN At("audit", "server.create", id)
                                           ELSE Answer("server.create", id, 500)]
          /\ UNCHANGED round_robin_index
    BY <1>5 DEF CreateServer, AfterWrite
  <2>2. StorageTypeOK'
    BY <2>1, RequestType, StorageStepType
  <2>3. ApiTypeOK'
    BY <1>2, <2>1, CallRecordsType DEF ApiTypeOK, Pending
  <2> QED BY <2>2, <2>3
<1>6. CASE DeleteServer(c)
  <2>1. PICK id \in ServerId, res \in Results :
          /\ delete_server(id, res)
          /\ calls' = [calls EXCEPT ![c] = IF res = "ok"
                                           THEN At("audit", "server.delete", id)
                                           ELSE Answer("server.delete", id, 500)]
          /\ UNCHANGED round_robin_index
    BY <1>6 DEF DeleteServer, AfterWrite
  <2>2. StorageTypeOK'
    BY <2>1, StorageStepType
  <2>3. ApiTypeOK'
    BY <1>2, <2>1, CallRecordsType DEF ApiTypeOK, Pending
  <2> QED BY <2>2, <2>3
<1>7. CASE RouteRequest(c)
  <2>1. PICK kind \in ProviderKind, strategy \in Strategies :
          \E id \in Selectable(kind, strategy) :
            /\ CountSelection(strategy)
            /\ calls' = [calls EXCEPT ![c] = At("record", "route.request", id)]
    BY <1>7 DEF RouteRequest
  <2>2. Selectable(kind, strategy) \subseteq ServerId
    BY DEF Selectable, BestScored, Candidates
  <2>3. round_robin_index' \in 0 .. UsizeMax
    BY <1>2, <2>1, UsizeAssumption DEF CountSelection
  <2>4. ApiTypeOK'
    BY <1>2, <2>1, <2>2, <2>3, CallRecordsType DEF ApiTypeOK, Pending
  <2> QED BY <1>4, <1>7, <2>4 DEF RouteRequest
<1>8. CASE RouteUnavailable(c)
  BY <1>2, <1>4, <1>8, CallRecordsType DEF RouteUnavailable, ApiTypeOK
<1>9. CASE RecordDecision(c)
  <2>1. PICK res \in Results :
          /\ record_routing_decision([call |-> c, server |-> calls[c].server], res)
          /\ calls' = [calls EXCEPT ![c] = IF res = "ok"
                                           THEN [@ EXCEPT !.pc = "audit"]
                                           ELSE Answer(@.op, @.server, 503)]
    BY <1>9 DEF RecordDecision, AfterRecord
  <2>2. calls[c].pc \in Pending
    BY <1>9 DEF RecordDecision, Pending, AfterRecord
  <2>3. StorageTypeOK'
    BY <1>3, <2>1, <2>2, StorageStepType DEF RoutingDecision
  <2>4. [calls[c] EXCEPT !.pc = "audit"] \in CallState
    BY <1>2 DEF CallState, Pending
  <2>5. Answer(calls[c].op, calls[c].server, 503) \in CallState
    BY <1>3, <2>2, CallRecordsType
  <2>6. ApiTypeOK'
    BY <1>2, <1>9, <2>1, <2>4, <2>5 DEF ApiTypeOK, RecordDecision, AfterRecord
  <2> QED BY <2>3, <2>6
<1>10. CASE RecordAudit(c)
  <2>1. calls[c].pc \in Pending
    BY <1>10 DEF RecordAudit, Pending
  <2>2. [action |-> calls[c].op, call |-> c, server |-> calls[c].server] \in AuditLog
    BY <1>3, <2>1 DEF AuditLog
  <2>3. StorageTypeOK'
    BY <1>3, <1>10, <2>1, <2>2, StorageStepType DEF RecordAudit
  <2>4. AfterAudit(calls[c]) \in CallState
    BY <1>3, <2>1, CallRecordsType DEF AfterAudit, Pending
  <2>5. ApiTypeOK'
    BY <1>2, <1>10, <2>4 DEF RecordAudit, ApiTypeOK
  <2> QED BY <2>3, <2>5
<1>11. CASE LookUp(c)
  <2>1. calls[c].pc \in Pending
    BY <1>11 DEF LookUp, Pending
  <2>2. LookUpOutcomes(calls[c]) \subseteq CallState
    BY <1>3, <2>1, CallRecordsType DEF LookUpOutcomes, Pending
  <2>3. ApiTypeOK'
    BY <1>2, <1>11, <2>2 DEF LookUp, ApiTypeOK
  <2> QED BY <1>4, <1>11, <2>3 DEF LookUp
<1>12. CASE Forward(c)
  <2>1. calls[c].pc \in Pending
    BY <1>12 DEF Forward, Pending
  <2>2. ApiTypeOK'
    BY <1>2, <1>3, <1>12, <2>1, CallRecordsType DEF Forward, ApiTypeOK
  <2> QED BY <1>4, <1>12, <2>2 DEF Forward
<1>13. CASE ClientGone(c)
  <2>1. [calls[c] EXCEPT !.pc = "dropped"] \in CallState
    BY <1>2 DEF CallState
  <2>2. ApiTypeOK'
    BY <1>2, <1>13, <2>1 DEF ClientGone, ApiTypeOK
  <2> QED BY <1>4, <1>13, <2>2 DEF ClientGone
<1> QED
  BY <1>5, <1>6, <1>7, <1>8, <1>9, <1>10, <1>11, <1>12, <1>13 DEF ApiStep

\* The worker's step keeps the types.
LEMMA WorkerStepType ==
  ASSUME TypeOK, WritingWellFormed, WorkerStep, UNCHANGED <<apiVars, restarts>>
  PROVE  TypeOK'
<1> USE DEF TypeOK
<1>0. ApiTypeOK' /\ restarts' \in 0 .. MaxRestarts
  BY DEF ApiTypeOK, apiVars
<1>1. UNCHANGED storageVars => StorageTypeOK'
  BY DEF StorageTypeOK, storageVars
<1>2. \A rest : AfterEntry(rest) \in WorkerState
  BY DEF AfterEntry, WorkerState
<1>3. \A n \in 0 .. StreakCap, health \in HealthState : NextStreak(n, health) \in 0 .. StreakCap
  BY DEF NextStreak, StreakCap
<1>4. CASE ListForSweep
  BY <1>0, <1>1, <1>2, <1>4 DEF ListForSweep, StorageTypeOK, WorkerTypeOK
<1>5. CASE ListFails \/ WakeUp
  BY <1>0, <1>1, <1>5 DEF ListFails, WakeUp, WorkerTypeOK, WorkerState
<1>6. ASSUME NEW id \in ServerId, ProbeAndWrite(id)
      PROVE  TypeOK'
  <2>1. PICK check \in HealthChecks(sweep[id]) :
          sweep' = [sweep EXCEPT ![id] = Checked(sweep[id], check)]
    BY <1>6 DEF ProbeAndWrite
  <2>2. Checked(sweep[id], check) \in ServerEndpoint
    BY <1>6, CheckedType DEF ProbeAndWrite, WorkerTypeOK
  <2> QED BY <1>0, <1>1, <1>6, <2>1, <2>2 DEF ProbeAndWrite, WorkerTypeOK, WorkerState
<1>7. ASSUME NEW id \in ServerId, ProbeAndSkip(id)
      PROVE  TypeOK'
  <2>1. PICK check \in HealthChecks(sweep[id]) :
          streak' = [streak EXCEPT ![id] = NextStreak(@, check.health)]
    BY <1>7 DEF ProbeAndSkip, Remaining
  <2>2. check.health \in HealthState
    BY <1>7, CheckedType DEF ProbeAndSkip, WorkerTypeOK, Remaining
  <2> QED BY <1>0, <1>1, <1>2, <1>3, <1>7, <2>1, <2>2 DEF ProbeAndSkip, WorkerTypeOK,
                                                          Remaining
<1>8. ASSUME NEW id \in ServerId, ProbeAndPanic(id)
      PROVE  TypeOK'
  BY <1>0, <1>1, <1>8 DEF ProbeAndPanic, WorkerTypeOK, WorkerState, EmptySweep
<1>9. ASSUME NEW id \in ServerId, NEW res \in Results, WriteBack(id, res)
      PROVE  TypeOK'
  <2>1. sweep[id] \in ServerEndpoint
    BY <1>9 DEF WriteBack, WritingWellFormed, WorkerTypeOK, Remaining
  <2>2. StorageTypeOK'
    BY <1>9, <2>1, StorageStepType DEF WriteBack, Remaining
  <2>3. sweep[id].health \in HealthState
    BY <2>1 DEF ServerEndpoint
  <2> QED BY <1>0, <1>2, <1>3, <1>9, <2>2, <2>3 DEF WriteBack, WorkerTypeOK, Remaining
<1> QED
  BY <1>4, <1>5, <1>6, <1>7, <1>8, <1>9 DEF WorkerStep
\* The end of a process and the start of the next keep the types.
LEMMA RestartType == ASSUME TypeOK, Restart PROVE TypeOK'
<1>1. StorageTypeOK'
  BY DEF TypeOK, Restart, ReopenStorage, StorageTypeOK, storageVars
<1>2. ApiTypeOK'
  BY UsizeAssumption DEF TypeOK, Restart, DropCalls, ApiTypeOK, CallState
<1>3. WorkerTypeOK'
  BY DEF TypeOK, Restart, RestartWorker, WorkerTypeOK, WorkerState, EmptySweep
<1>4. restarts' \in 0 .. MaxRestarts
  BY MaxRestartsAssumption DEF TypeOK, Restart
<1> QED BY <1>1, <1>2, <1>3, <1>4 DEF TypeOK

------------------------------------------------------------------------------
(***************************************************************************)
(* The handlers' steps preserve the invariant.                             *)
(***************************************************************************)

\* A step changes the record of its own call, whose operation and endpoint stay
\* what they are once it runs.
LEMMA ApiStepShape ==
  ASSUME TypeOK, CallsWellFormed, NEW c \in Call, ApiStep(c)
  PROVE  /\ calls' = [calls EXCEPT ![c] = calls'[c]]
         /\ calls[c].pc # "idle" => /\ calls'[c].op = calls[c].op
                                   /\ calls'[c].server = calls[c].server
<1>1. calls \in [Call -> CallState]
  BY DEF TypeOK, ApiTypeOK
<1>2. CASE CreateServer(c) \/ DeleteServer(c) \/ RouteRequest(c) \/ RouteUnavailable(c)
  BY <1>1, <1>2 DEF CreateServer, DeleteServer, RouteRequest, RouteUnavailable, AfterWrite
<1>3. CASE RecordDecision(c)
  BY <1>1, <1>3 DEF RecordDecision, Answer, CallState, AfterRecord
<1>4. CASE RecordAudit(c)
  BY <1>1, <1>4 DEF RecordAudit, AfterAudit, Answer, At
<1>5. CASE LookUp(c)
  BY <1>1, <1>5 DEF LookUp, LookUpOutcomes, Answer, At
<1>6. CASE Forward(c)
  BY <1>1, <1>6 DEF Forward, Answer
<1>7. CASE ClientGone(c)
  BY <1>1, <1>7 DEF ClientGone, CallState
<1> QED BY <1>2, <1>3, <1>4, <1>5, <1>6, <1>7 DEF ApiStep

\* What was registered or asked to be deleted remains so.
LEMMA RequestsRemain ==
  ASSUME TypeOK, CallsWellFormed, NEW c \in Call, ApiStep(c), NEW id \in ServerId
  PROVE  /\ Created(id) => Created(id)'
         /\ DeleteIssued(id) => DeleteIssued(id)'
<1>1. calls \in [Call -> CallState]
  BY DEF TypeOK, ApiTypeOK
<1>2. \A d \in Call : calls[d].op # "none" => /\ calls'[d].op = calls[d].op
                                             /\ calls'[d].server = calls[d].server
  <2>1. SUFFICES ASSUME NEW d \in Call, calls[d].op # "none"
                 PROVE  /\ calls'[d].op = calls[d].op
                        /\ calls'[d].server = calls[d].server
    OBVIOUS
  <2>2. CASE d = c
    BY <2>1, <2>2, ApiStepShape DEF CallsWellFormed
  <2>3. CASE d # c
    BY <1>1, <2>3, ApiStepShape
  <2> QED BY <2>2, <2>3
<1> QED BY <1>2 DEF Created, DeleteIssued

\* A handler's step keeps the calls well formed.
LEMMA ApiStepCalls ==
  ASSUME TypeOK, CallsWellFormed, NEW c \in Call, ApiStep(c)
  PROVE  CallsWellFormed'
<1>1. calls \in [Call -> CallState] /\ Absent \notin ServerId
  BY AbsentAssumption DEF TypeOK, ApiTypeOK
<1> DEFINE WellFormed(r) ==
      /\ r.pc = "idle" => r.op = "none" /\ r.status = 0
      /\ r.pc \in Pending => r.op # "none" /\ r.server \in ServerId /\ r.status = 0
      /\ r.pc = "record" => r.op = "route.request"
      /\ r.status = 201 => r.op = "server.create"
      /\ r.op = "server.create" => r.server \in ServerId
<1>2. WellFormed(calls[c])
  BY DEF CallsWellFormed
<1>3. SUFFICES WellFormed(calls'[c])
  <2>1. ASSUME NEW d \in Call, d # c PROVE calls'[d] = calls[d]
    BY <1>1, <2>1, ApiStepShape
  <2>2. \A d \in Call : WellFormed(calls'[d])
    BY <1>3, <2>1 DEF CallsWellFormed
  <2> QED BY <2>2 DEF CallsWellFormed
<1>4. CASE CreateServer(c) \/ DeleteServer(c)
  BY <1>1, <1>4 DEF CreateServer, DeleteServer, At, Answer, Pending, AfterWrite
<1>5. CASE RouteRequest(c)
  BY <1>1, <1>5 DEF RouteRequest, Selectable, BestScored, Candidates, At, Pending
<1>6. CASE RouteUnavailable(c)
  BY <1>1, <1>6 DEF RouteUnavailable, Answer, Pending
<1>7. CASE RecordDecision(c)
  BY <1>1, <1>2, <1>7 DEF RecordDecision, Answer, Pending, CallState, AfterRecord
<1>8. CASE RecordAudit(c)
  BY <1>1, <1>2, <1>8 DEF RecordAudit, AfterAudit, At, Answer, Pending
<1>9. CASE LookUp(c)
  BY <1>1, <1>2, <1>9 DEF LookUp, LookUpOutcomes, At, Answer, Pending
<1>10. CASE Forward(c)
  BY <1>1, <1>2, <1>10 DEF Forward, Answer, Pending
<1>11. CASE ClientGone(c)
  BY <1>1, <1>2, <1>11 DEF ClientGone, Pending, CallState
<1> QED
  BY <1>4, <1>5, <1>6, <1>7, <1>8, <1>9, <1>10, <1>11 DEF ApiStep

\* Only a registration and a deletion change the endpoints.
LEMMA ApiStepServers ==
  ASSUME NEW c \in Call, ApiStep(c)
  PROVE  CreateServer(c) \/ DeleteServer(c) \/ UNCHANGED servers
BY DEF ApiStep, RouteRequest, RouteUnavailable, RecordDecision, RecordAudit, LookUp,
       Forward, ClientGone, storageVars, record_routing_decision, record_audit_log,
       AfterRecord

\* A handler's step leaves the worker's listing current.
LEMMA ApiStepSnapshot ==
  ASSUME IInv, NEW c \in Call, ApiStep(c), UNCHANGED <<workerVars, restarts>>
  PROVE  KnownCreated' /\ WritingWellFormed' /\ SnapshotCurrent'
<1> USE DEF IInv
<1>1. /\ servers \in [ServerId -> ServerEndpoint \cup {Absent}]
      /\ calls \in [Call -> CallState]
  BY DEF TypeOK, StorageTypeOK, ApiTypeOK
<1>2. UNCHANGED <<worker, sweep, writing, streak>>
  BY DEF workerVars
<1>3. \A id \in ServerId : Created(id) => Created(id)'
  BY RequestsRemain
<1>4. CASE CreateServer(c)
  <2>1. PICK id \in ServerId, server \in CreateRequests, res \in Results :
          /\ ~Created(id)
          /\ upsert_server(id, server, res)
          /\ calls' = [calls EXCEPT ![c] = IF res = "ok"
                                           THEN At("audit", "server.create", id)
                                           ELSE Answer("server.create", id, 500)]
    BY <1>4 DEF CreateServer, AfterWrite
  <2>2. \A other \in ServerId : other # id => servers'[other] = servers[other]
    BY <1>1, <2>1 DEF upsert_server
  <2>3. sweep[id] = Absent /\ servers[id] = Absent /\ streak[id] <= 0
    BY <2>1 DEF KnownCreated, TypeOK, WorkerTypeOK
  <2>4. Created(id)'
    BY <1>1, <2>1 DEF Created, At, Answer
  <2>5. writing # id
    BY <2>3, AbsentAssumption DEF WritingWellFormed
  <2>6. writing \in ServerId \cup {Absent}
    BY DEF TypeOK, WorkerTypeOK
  <2>7. KnownCreated'
    BY <1>2, <1>3, <2>2, <2>4 DEF KnownCreated
  <2>8. WritingWellFormed'
    BY <1>2, <2>2, <2>5, <2>6 DEF WritingWellFormed, Stored
  <2>9. SnapshotCurrent'
    BY <1>2, <2>2, <2>3 DEF SnapshotCurrent
  <2> QED BY <2>7, <2>8, <2>9
<1>5. CASE DeleteServer(c)
  <2>1. \A id \in ServerId : servers'[id] # Absent => servers'[id] = servers[id]
    BY <1>1, <1>5 DEF DeleteServer, delete_server, AfterWrite
  <2>2. writing \in ServerId \cup {Absent}
    BY DEF TypeOK, WorkerTypeOK
  <2> QED
    BY <1>2, <1>3, <2>1, <2>2 DEF KnownCreated, WritingWellFormed, SnapshotCurrent, Stored
<1>6. CASE UNCHANGED servers
  BY <1>2, <1>3, <1>6 DEF KnownCreated, WritingWellFormed, SnapshotCurrent, Stored
<1> QED BY <1>4, <1>5, <1>6, ApiStepServers
\* A handler's step keeps what the audit log says true, and what it is about to
\* say.
LEMMA ApiStepAudit ==
  ASSUME IInv, NEW c \in Call, ApiStep(c), UNCHANGED <<workerVars, restarts>>
  PROVE  PendingAuditBacked' /\ CreatedPersists' /\ AuditBacked'
<1> USE DEF IInv
<1>1. /\ servers \in [ServerId -> ServerEndpoint \cup {Absent}]
      /\ calls \in [Call -> CallState]
      /\ audit_logs \subseteq AuditLog
  BY DEF TypeOK, StorageTypeOK, ApiTypeOK
<1>2. \A d \in Call \ {c} : calls'[d] = calls[d]
  BY <1>1, ApiStepShape
<1>3. /\ UNCHANGED restarts
      /\ \A id \in ServerId : DeleteIssued(id) => DeleteIssued(id)'
  BY RequestsRemain
<1>4. \A id \in ServerId : Stored(id) => Stored(id)' \/ DeleteIssued(id)'
  <2>1. CASE CreateServer(c)
    BY <1>1, <2>1, RequestType, AbsentAssumption DEF CreateServer, upsert_server, Stored,
                                                     AfterWrite
  <2>2. CASE DeleteServer(c)
    BY <1>1, <2>2 DEF DeleteServer, delete_server, Stored, DeleteIssued, At, Answer,
                      AfterWrite
  <2> QED BY <2>1, <2>2, ApiStepServers DEF Stored
<1>5. \A d \in routing_history :
        d \in routing_history' \/ (Backend = "Postgres" /\ DeleteIssued(d.server)')
  <2>1. CASE DeleteServer(c)
    BY <1>1, <2>1 DEF DeleteServer, delete_server, DeleteIssued, At, Answer, AfterWrite
  <2>2. CASE RecordDecision(c)
    BY <2>2 DEF RecordDecision, record_routing_decision, AfterRecord
  <2>3. CASE ~DeleteServer(c) /\ ~RecordDecision(c)
    BY <2>3 DEF ApiStep, CreateServer, upsert_server, RouteRequest, RouteUnavailable,
                RecordAudit, record_audit_log, LookUp, Forward, ClientGone, storageVars,
                AfterWrite
  <2> QED BY <2>1, <2>2, <2>3
<1> DEFINE Backed(id) == Stored(id) \/ DeleteIssued(id)
           InHistory(d, id) ==
             \/ [call |-> d, server |-> id] \in routing_history
             \/ Backend = "Postgres" /\ DeleteIssued(id)
<1>6. \A id \in ServerId : Backed(id) => Backed(id)'
  BY <1>3, <1>4
<1>7. \A d \in Call, id \in ServerId : InHistory(d, id) => InHistory(d, id)'
  BY <1>3, <1>5
<1>8. ASSUME calls'[c].pc = "audit"
      PROVE  (/\ calls[c].op = "server.create" => Backed(calls[c].server)
              /\ calls[c].op = "route.request" => InHistory(c, calls[c].server))'
  <2>1. CASE CreateServer(c)
    BY <1>1, <1>8, <2>1, RequestType, AbsentAssumption
    DEF CreateServer, upsert_server, TakesEffect, Stored, At, Answer, AfterWrite
  <2>2. CASE DeleteServer(c)
    BY <1>1, <1>8, <2>2 DEF DeleteServer, At, Answer, AfterWrite
  <2>3. CASE RecordDecision(c)
    BY <1>1, <1>8, <2>3 DEF RecordDecision, record_routing_decision, TakesEffect, Answer,
                            CallState, CallsWellFormed, AfterRecord
  <2>4. CASE RouteRequest(c) \/ RouteUnavailable(c)
    BY <1>1, <1>8, <2>4 DEF RouteRequest, RouteUnavailable, At, Answer
  <2>5. CASE RecordAudit(c) \/ LookUp(c) \/ Forward(c) \/ ClientGone(c)
    BY <1>1, <1>8, <2>5 DEF RecordAudit, AfterAudit, LookUp, LookUpOutcomes, Forward,
                            ClientGone, At, Answer, CallState
  <2> QED BY <2>1, <2>2, <2>3, <2>4, <2>5 DEF ApiStep
<1>9. PendingAuditBacked'
  <2>1. ASSUME NEW d \in Call \ {c}, calls'[d].pc = "audit"
        PROVE  (/\ calls[d].op = "server.create" => Backed(calls[d].server)
                /\ calls[d].op = "route.request" => InHistory(d, calls[d].server))'
    BY <1>2, <1>6, <1>7, <2>1 DEF PendingAuditBacked, CallsWellFormed, Pending
  <2> QED BY <1>8, <2>1 DEF PendingAuditBacked
<1>10. CreatedPersists'
  <2>1. SUFFICES ASSUME NEW d \in Call, calls'[d].op = "server.create", calls'[d].status = 201
                 PROVE  (Backed(calls[d].server) \/ (Backend = "InMemory" /\ restarts > 0))'
    BY DEF CreatedPersists, Stored
  <2>2. CASE d # c
    BY <1>2, <1>3, <1>6, <2>1, <2>2 DEF CreatedPersists, CallsWellFormed, Stored
  <2>3. CASE d = c /\ calls[c].status = 201
    <3>1. calls[c].op = "server.create" /\ calls'[c].server = calls[c].server
      BY <1>1, <2>3, ApiStepShape DEF CallsWellFormed
    <3> QED BY <1>3, <1>6, <2>3, <3>1 DEF CreatedPersists, CallsWellFormed, Stored
  <2>4. CASE d = c /\ calls[c].status # 201
    <3>1. RecordAudit(c)
      BY <1>1, <2>1, <2>4 DEF ApiStep, CreateServer, DeleteServer, RouteRequest,
         RouteUnavailable, RecordDecision, LookUp, LookUpOutcomes, Forward, ClientGone,
         At, Answer, CallState, AfterWrite, AfterRecord
    <3>2. calls[c].pc = "audit" /\ calls[c].op = "server.create" /\ calls'[c].server = calls[c].server
      BY <1>1, <2>1, <2>4, <3>1, ApiStepShape DEF RecordAudit
    <3> QED BY <1>6, <2>4, <3>2 DEF PendingAuditBacked, CallsWellFormed
  <2> QED BY <2>2, <2>3, <2>4
<1>11. AuditBacked'
  <2> DEFINE LogBacked(log) ==
        /\ log.action = "server.create" => Backed(log.server)
        /\ log.action = "route.request" => InHistory(log.call, log.server)
  <2>1. \A log \in audit_logs : LogBacked(log)
    BY DEF AuditBacked, Stored
  <2>2. \A log \in AuditLog : LogBacked(log) => LogBacked(log)'
    BY <1>6, <1>7 DEF AuditLog
  <2>3. \A log \in audit_logs : LogBacked(log)'
    BY <1>1, <2>1, <2>2
  <2>4. CASE RecordAudit(c)
    <3> DEFINE new == [action |-> calls[c].op, call |-> c, server |-> calls[c].server]
    <3>1. audit_logs' \subseteq audit_logs \cup {new}
      BY <2>4 DEF RecordAudit, record_audit_log
    <3>2. LogBacked(new)
      BY <2>4 DEF RecordAudit, PendingAuditBacked
    <3>3. new \in AuditLog
      BY <1>1, <2>4 DEF RecordAudit, CallsWellFormed, Pending, AuditLog, CallState
    <3>4. \A log \in audit_logs' : LogBacked(log)'
      BY <2>2, <2>3, <3>1, <3>2, <3>3
    <3> QED BY <3>4 DEF AuditBacked, Stored
  <2>5. CASE ~RecordAudit(c)
    <3>1. UNCHANGED audit_logs
      BY <2>5 DEF ApiStep, CreateServer, upsert_server, DeleteServer, delete_server,
                  RouteRequest, RouteUnavailable, RecordDecision, record_routing_decision,
                  LookUp, Forward, ClientGone, storageVars, AfterWrite, AfterRecord
    <3> QED BY <2>3, <3>1 DEF AuditBacked, Stored
  <2> QED BY <2>4, <2>5
<1> QED BY <1>9, <1>10, <1>11
------------------------------------------------------------------------------
(***************************************************************************)
(* The worker's steps and a restart preserve the invariant.                *)
(***************************************************************************)

\* A check changes nothing of the configuration.
LEMMA CheckedConfig ==
  ASSUME NEW e \in ServerEndpoint, NEW check
  PROVE  Config(Checked(e, check)) = Config(e)
BY DEF Checked, Config, ServerEndpoint

\* The worker's step leaves what remains of its listing current.
LEMMA WorkerStepSnapshot ==
  ASSUME IInv, WorkerStep, UNCHANGED <<apiVars, restarts>>
  PROVE  KnownCreated' /\ WritingWellFormed' /\ SnapshotCurrent'
<1> USE DEF IInv
<1>1. /\ servers \in [ServerId -> ServerEndpoint \cup {Absent}]
      /\ sweep \in [ServerId -> ServerEndpoint \cup {Absent}]
      /\ streak \in [ServerId -> 0 .. StreakCap]
      /\ writing \in ServerId \cup {Absent}
      /\ Absent \notin ServerEndpoint /\ Absent \notin ServerId
  BY AbsentAssumption DEF TypeOK, StorageTypeOK, WorkerTypeOK
<1>2. \A id \in ServerId : Created(id)' <=> Created(id)
  BY DEF Created, apiVars
<1>3. \A rest : AfterEntry(rest) # "store"
  BY DEF AfterEntry
<1>4. CASE ListForSweep
  BY <1>1, <1>2, <1>3, <1>4
  DEF ListForSweep, KnownCreated, WritingWellFormed, SnapshotCurrent, Stored, storageVars
<1>5. CASE ListFails \/ WakeUp
  BY <1>1, <1>2, <1>5
  DEF ListFails, WakeUp, KnownCreated, WritingWellFormed, SnapshotCurrent, Stored, storageVars
<1>6. ASSUME NEW id \in ServerId, ProbeAndWrite(id)
      PROVE  KnownCreated' /\ WritingWellFormed' /\ SnapshotCurrent'
  <2>1. PICK check \in HealthChecks(sweep[id]) :
          sweep' = [sweep EXCEPT ![id] = Checked(sweep[id], check)]
    BY <1>6 DEF ProbeAndWrite
  <2>2. /\ sweep[id] # Absent /\ sweep[id] \in ServerEndpoint
        /\ writing = Absent /\ writing' = id /\ worker' = "store"
        /\ UNCHANGED <<servers, streak>>
    BY <1>1, <1>6 DEF ProbeAndWrite, WritingWellFormed, storageVars
  <2>3. /\ Checked(sweep[id], check) \in ServerEndpoint
        /\ Config(Checked(sweep[id], check)) = Config(sweep[id])
    BY <2>2, CheckedType, CheckedConfig
  <2>4. sweep'[id] = Checked(sweep[id], check) /\ \A other \in ServerId \ {id} : sweep'[other] = sweep[other]
    BY <1>1, <2>1
  <2>5. KnownCreated'
    BY <1>2, <2>2, <2>4 DEF KnownCreated
  <2>6. servers[id] # Absent => servers[id] = sweep[id]
    BY <1>1, <2>2 DEF SnapshotCurrent
  <2>7. WritingWellFormed'
    BY <1>1, <2>2, <2>3, <2>4, <2>6 DEF WritingWellFormed, Stored
  <2>8. SnapshotCurrent'
    BY <1>1, <2>2, <2>4 DEF SnapshotCurrent
  <2> QED BY <2>5, <2>7, <2>8
<1>7. ASSUME NEW id \in ServerId, ProbeAndSkip(id)
      PROVE  KnownCreated' /\ WritingWellFormed' /\ SnapshotCurrent'
  <2>1. /\ worker = "probe" /\ writing = Absent /\ sweep[id] # Absent
        /\ UNCHANGED <<servers, writing>>
        /\ worker' # "store"
        /\ sweep' = [sweep EXCEPT ![id] = Absent]
        /\ \A other \in ServerId \ {id} : streak'[other] = streak[other]
    BY <1>1, <1>3, <1>7 DEF ProbeAndSkip, WritingWellFormed, storageVars, Remaining
  <2> QED BY <1>1, <1>2, <2>1 DEF KnownCreated, WritingWellFormed, SnapshotCurrent
<1>8. ASSUME NEW id \in ServerId, ProbeAndPanic(id)
      PROVE  KnownCreated' /\ WritingWellFormed' /\ SnapshotCurrent'
  BY <1>1, <1>2, <1>8 DEF ProbeAndPanic, KnownCreated, WritingWellFormed, SnapshotCurrent,
                          EmptySweep, storageVars
<1>9. ASSUME NEW id \in ServerId, NEW res \in Results, WriteBack(id, res)
      PROVE  KnownCreated' /\ WritingWellFormed' /\ SnapshotCurrent'
  <2>1. /\ writing = id /\ sweep[id] # Absent
        /\ writing' = Absent /\ worker' # "store"
        /\ sweep' = [sweep EXCEPT ![id] = Absent]
        /\ \A other \in ServerId \ {id} :
             streak'[other] = streak[other] /\ servers'[other] = servers[other]
    BY <1>1, <1>3, <1>9 DEF WriteBack, upsert_server, WritingWellFormed, Remaining
  <2>2. Created(id)'
    BY <1>2, <2>1 DEF KnownCreated
  <2> QED BY <1>1, <1>2, <2>1, <2>2 DEF KnownCreated, WritingWellFormed, SnapshotCurrent
<1> QED BY <1>4, <1>5, <1>6, <1>7, <1>8, <1>9 DEF WorkerStep

\* The worker removes no endpoint and writes no log.
LEMMA WorkerStepStorage ==
  ASSUME IInv, WorkerStep
  PROVE  /\ UNCHANGED <<routing_history, audit_logs>>
         /\ \A id \in ServerId : Stored(id) => Stored(id)'
<1> USE DEF IInv
<1>1. CASE UNCHANGED storageVars
  BY <1>1 DEF storageVars, Stored
<1>2. ASSUME NEW id \in ServerId, NEW res \in Results, WriteBack(id, res)
      PROVE  /\ UNCHANGED <<routing_history, audit_logs>>
             /\ \A other \in ServerId : Stored(other) => Stored(other)'
  <2>1. sweep[id] # Absent
    BY <1>2, AbsentAssumption DEF WriteBack, WritingWellFormed, Remaining
  <2> QED
    BY <1>2, <2>1 DEF WriteBack, upsert_server, Stored, TypeOK, StorageTypeOK, Remaining
<1> QED
  BY <1>1, <1>2 DEF WorkerStep, ListForSweep, ListFails, WakeUp, ProbeAndWrite,
                    ProbeAndSkip, ProbeAndPanic, Remaining

\* The worker's step preserves the invariant.
LEMMA WorkerStepInv ==
  ASSUME IInv, WorkerStep, UNCHANGED <<apiVars, restarts>>
  PROVE  IInv'
<1>1. TypeOK'
  BY WorkerStepType DEF IInv
<1>2. CallsWellFormed'
  BY DEF IInv, CallsWellFormed, apiVars
<1>3. \A id \in ServerId : DeleteIssued(id)' <=> DeleteIssued(id)
  BY DEF DeleteIssued, apiVars
<1>4. UNCHANGED <<calls, restarts, routing_history, audit_logs>>
  BY WorkerStepStorage DEF apiVars
<1>5. PendingAuditBacked'
  BY <1>3, <1>4, WorkerStepStorage
  DEF IInv, PendingAuditBacked, CallsWellFormed, Pending
<1>6. CreatedPersists'
  BY <1>3, <1>4, WorkerStepStorage DEF IInv, CreatedPersists, CallsWellFormed, Stored
<1>7. AuditBacked'
  BY <1>3, <1>4, WorkerStepStorage
  DEF IInv, AuditBacked, Stored, TypeOK, StorageTypeOK, AuditLog
<1> QED BY <1>1, <1>2, <1>5, <1>6, <1>7, WorkerStepSnapshot DEF IInv

\* The end of a process and the start of the next preserve the invariant.
LEMMA RestartInv == ASSUME IInv, Restart PROVE IInv'
<1> USE DEF IInv
<1>1. /\ calls \in [Call -> CallState]
      /\ calls' \in [Call -> CallState]
      /\ restarts \in Nat /\ restarts' = restarts + 1
  BY RestartType, MaxRestartsAssumption DEF TypeOK, ApiTypeOK, Restart
<1>2. \A c \in Call : /\ calls'[c].op = calls[c].op
                      /\ calls'[c].server = calls[c].server
                      /\ calls'[c].status = calls[c].status
                      /\ calls'[c].pc \notin Pending
                      /\ calls'[c].pc = "idle" => calls[c].pc = "idle"
  BY <1>1 DEF Restart, DropCalls, CallState, Pending
<1>3. \A id \in ServerId : /\ Created(id)' <=> Created(id)
                           /\ DeleteIssued(id)' <=> DeleteIssued(id)
  BY <1>2 DEF Created, DeleteIssued
<1>4. \A id \in ServerId : servers'[id] # Absent => servers[id] # Absent
  BY DEF Restart, ReopenStorage, storageVars
<1>5. /\ \A id \in ServerId : sweep'[id] = Absent
      /\ writing' = Absent /\ worker' = "list" /\ UNCHANGED streak
  BY DEF Restart, RestartWorker, EmptySweep
<1>6. TypeOK'
  BY RestartType
<1>7. CallsWellFormed'
  BY <1>2 DEF CallsWellFormed, Pending
<1>8. KnownCreated' /\ WritingWellFormed' /\ SnapshotCurrent'
  BY <1>3, <1>4, <1>5 DEF KnownCreated, WritingWellFormed, SnapshotCurrent
<1>9. PendingAuditBacked'
  BY <1>2 DEF PendingAuditBacked, Pending
<1>10. CASE Backend = "InMemory"
  <2>1. CreatedPersists'
    BY <1>1, <1>10 DEF CreatedPersists
  <2>2. AuditBacked'
    BY <1>10 DEF AuditBacked, Restart, ReopenStorage
  <2> QED BY <1>6, <1>7, <1>8, <1>9, <2>1, <2>2
<1>11. CASE Backend # "InMemory"
  <2>1. UNCHANGED <<servers, routing_history, audit_logs>>
    BY <1>11 DEF Restart, ReopenStorage, storageVars
  <2>2. CreatedPersists'
    BY <1>2, <1>3, <1>11, <2>1 DEF CreatedPersists, CallsWellFormed
  <2>3. AuditBacked'
    BY <1>3, <2>1 DEF AuditBacked, TypeOK, StorageTypeOK, AuditLog
  <2> QED BY <1>6, <1>7, <1>8, <1>9, <2>2, <2>3
<1> QED BY <1>10, <1>11
------------------------------------------------------------------------------
(***************************************************************************)
(* The invariant holds initially and is preserved by every step.           *)
(***************************************************************************)

LEMMA InitInv == Init => IInv
<1> SUFFICES ASSUME Init PROVE IInv
  OBVIOUS
<1> USE DEF Init
<1>1. StorageTypeOK
  BY DEF EmptyStorage, StorageTypeOK
<1>2. ApiTypeOK
  BY UsizeAssumption DEF ApiInit, ApiTypeOK, CallState
<1>3. WorkerTypeOK
  BY DEF WorkerInit, WorkerTypeOK, WorkerState, EmptySweep, StreakCap
<1>4. restarts \in 0 .. MaxRestarts
  BY MaxRestartsAssumption
<1>5. CallsWellFormed
  BY DEF ApiInit, CallsWellFormed, Pending
<1>6. KnownCreated /\ WritingWellFormed /\ SnapshotCurrent
  BY DEF EmptyStorage, WorkerInit, EmptySweep, KnownCreated, WritingWellFormed, SnapshotCurrent
<1>7. PendingAuditBacked /\ CreatedPersists /\ AuditBacked
  BY DEF ApiInit, EmptyStorage, PendingAuditBacked, CreatedPersists, AuditBacked
<1> QED BY <1>1, <1>2, <1>3, <1>4, <1>5, <1>6, <1>7 DEF IInv, TypeOK

LEMMA StepInv == IInv /\ [Next]_vars => IInv'
<1> SUFFICES ASSUME IInv, [Next]_vars PROVE IInv'
  OBVIOUS
<1>1. ASSUME NEW c \in Call, ApiStep(c), UNCHANGED <<workerVars, restarts>>
      PROVE  IInv'
  BY <1>1, ApiStepType, ApiStepCalls, ApiStepSnapshot, ApiStepAudit DEF IInv
<1>2. CASE WorkerStep /\ UNCHANGED <<apiVars, restarts>>
  BY <1>2, WorkerStepInv
<1>3. CASE Restart
  BY <1>3, RestartInv
<1>4. CASE UNCHANGED vars
  BY <1>4 DEF vars, storageVars, apiVars, workerVars, IInv, TypeOK, StorageTypeOK, ApiTypeOK,
     WorkerTypeOK, CallsWellFormed, KnownCreated, WritingWellFormed, SnapshotCurrent,
     PendingAuditBacked, CreatedPersists, AuditBacked, Created, DeleteIssued, Stored
<1> QED BY <1>1, <1>2, <1>3, <1>4 DEF Next

\* The inductive invariant holds in every reachable state, for any set of calls
\* and endpoints, either storage and any number of restarts.
THEOREM Invariance == Spec => []IInv
BY InitInv, StepInv, PTL DEF Spec

\* Every variable has its type.
THEOREM TypeCorrect == Spec => []TypeOK
<1>1. IInv => TypeOK
  BY DEF IInv
<1> QED BY <1>1, Invariance, PTL

\* No lost update: an endpoint listed by the health worker and not yet written
\* back is stored as it was listed, or deleted.
THEOREM NoLostUpdate == Spec => []SnapshotCurrent
<1>1. IInv => SnapshotCurrent
  BY DEF IInv
<1> QED BY <1>1, Invariance, PTL

\* A registration answered with 201 stays, and the audit log holds what happened.
THEOREM AnswersHold == Spec => [](CreatedPersists /\ AuditBacked)
<1>1. IInv => CreatedPersists /\ AuditBacked
  BY DEF IInv
<1> QED BY <1>1, Invariance, PTL

------------------------------------------------------------------------------
(***************************************************************************)
(* The configuration an administrator registered is never changed.         *)
(***************************************************************************)

\* How one step may change what is stored under an id: not at all, by removing
\* it, by its registration, or by the write-back of the record in hand.
LEMMA ServersStep ==
  ASSUME IInv, [Next]_vars, NEW id \in ServerId
  PROVE  \/ servers'[id] = servers[id]
         \/ servers'[id] = Absent
         \/ servers[id] = Absent /\ ~Created(id)
         \/ writing = id /\ servers'[id] = sweep[id]
<1> USE DEF IInv
<1>1. servers \in [ServerId -> ServerEndpoint \cup {Absent}]
  BY DEF TypeOK, StorageTypeOK
<1>2. ASSUME NEW c \in Call, CreateServer(c)
      PROVE  servers'[id] = servers[id] \/ (servers[id] = Absent /\ ~Created(id))
  BY <1>1, <1>2 DEF CreateServer, upsert_server, KnownCreated, AfterWrite
<1>3. ASSUME NEW c \in Call, DeleteServer(c)
      PROVE  servers'[id] = servers[id] \/ servers'[id] = Absent
  BY <1>1, <1>3 DEF DeleteServer, delete_server, AfterWrite
<1>4. ASSUME NEW other \in ServerId, NEW res \in Results, WriteBack(other, res)
      PROVE  servers'[id] = servers[id] \/ (writing = id /\ servers'[id] = sweep[id])
  BY <1>1, <1>4 DEF WriteBack, upsert_server, Remaining
<1>5. CASE WorkerStep
  BY <1>4, <1>5 DEF WorkerStep, ListForSweep, ListFails, WakeUp, ProbeAndWrite,
                    ProbeAndSkip, ProbeAndPanic, storageVars, Remaining
<1>6. CASE Restart
  BY <1>6 DEF Restart, ReopenStorage, storageVars
<1>7. CASE UNCHANGED vars
  BY <1>7 DEF vars, storageVars
<1> QED BY <1>2, <1>3, <1>5, <1>6, <1>7, ApiStepServers DEF Next

\* Neither a stale listing nor a restart changes an endpoint's configuration.
THEOREM ConfigurationKept == Spec => ConfigStable
<1>1. IInv /\ [Next]_vars =>
        [\A id \in ServerId :
           servers[id] # Absent /\ servers'[id] # Absent =>
             Config(servers'[id]) = Config(servers[id])]_vars
  <2> SUFFICES ASSUME IInv, [Next]_vars, NEW id \in ServerId,
                      servers[id] # Absent, servers'[id] # Absent
               PROVE  Config(servers'[id]) = Config(servers[id])
    OBVIOUS
  <2>1. CASE writing = id /\ servers'[id] = sweep[id]
    BY <2>1, AbsentAssumption DEF IInv, WritingWellFormed, Stored
  <2> QED BY <2>1, ServersStep
<1> QED BY <1>1, Invariance, PTL DEF Spec, ConfigStable

\* A deletion is undone by no step once no sweep holds the endpoint: registrations draw
\* other ids, and every later listing is without it (delete_server, run_once).
THEOREM DeletionFinalTheorem == Spec => DeletionFinal
<1>1. IInv /\ [Next]_vars => [\A id \in ServerId : Gone(id) => Gone(id)']_vars
  <2> SUFFICES ASSUME IInv, [Next]_vars, NEW id \in ServerId, Gone(id) PROVE Gone(id)'
    OBVIOUS
  <2>1. TypeOK /\ CallsWellFormed
    BY DEF IInv
  <2>2. Created(id) /\ servers[id] = Absent /\ sweep[id] = Absent
    BY DEF Gone, Created
  <2>3. servers'[id] = Absent
    <3>1. writing # id
      BY <2>2, AbsentAssumption DEF IInv, WritingWellFormed
    <3> QED BY <2>2, <3>1, ServersStep
  <2>4. sweep'[id] = Absent
    <3>1. sweep \in [ServerId -> ServerEndpoint \cup {Absent}]
      BY <2>1 DEF TypeOK, WorkerTypeOK
    <3>2. CASE WorkerStep
      BY <2>2, <3>1, <3>2 DEF WorkerStep, ListForSweep, ListFails, WakeUp, ProbeAndWrite,
         ProbeAndSkip, ProbeAndPanic, WriteBack, Remaining, EmptySweep
    <3>3. CASE Restart
      BY <3>3 DEF Restart, RestartWorker, EmptySweep
    <3> QED BY <2>2, <3>2, <3>3 DEF Next, vars, workerVars
  <2>5. Created(id)'
    <3>1. CASE \E c \in Call : ApiStep(c)
      BY <2>1, <2>2, <3>1, RequestsRemain
    <3>2. CASE Restart
      <4>1. \A c \in Call : calls'[c].op = calls[c].op /\ calls'[c].server = calls[c].server
        BY <2>1, <3>2 DEF Restart, DropCalls, TypeOK, ApiTypeOK, CallState
      <4> QED BY <2>2, <4>1 DEF Created
    <3>3. CASE UNCHANGED calls
      BY <2>2, <3>3 DEF Created
    <3> QED BY <3>1, <3>2, <3>3 DEF Next, vars, apiVars
  <2> QED BY <2>3, <2>4, <2>5 DEF Gone, Created
<1> QED BY <1>1, Invariance, PTL DEF Spec, DeletionFinal
------------------------------------------------------------------------------
(***************************************************************************)
(* The circuit breaker. NoWrap says that no failure counter wraps: either  *)
(* the build panics at the overflow, or no check fails at the largest      *)
(* value (FailureBound). Without it the breaker does not hold.             *)
(***************************************************************************)
NoWrap == OverflowChecks \/ FailureBound <= U64Max

\* The record after a check covers one failed check more, or the success, and
\* its counter falls only by a success.
LEMMA CheckedCovers ==
  ASSUME NoWrap, NEW e \in ServerEndpoint, NEW n \in 0 .. StreakCap, Covers(e, n),
         NEW check \in HealthChecks(e), Bounded(e, check),
         ~(Overflows(e, check) /\ OverflowChecks)
  PROVE  LET after == Checked(e, check) IN
         /\ Covers(after, NextStreak(n, after.health))
         /\ after.failures >= e.failures \/ after.health = "healthy"
<1>1. /\ e.failures \in 0 .. U64Max /\ e.object \in BOOLEAN
      /\ U64Max \in Nat /\ FailureBound \in Nat
  BY U64Assumption, FailureBoundAssumption DEF ServerEndpoint
<1>2. Checked(e, check).health = check.health /\ Checked(e, check).object = e.object
  BY DEF Checked, ServerEndpoint
<1>3. CASE e.object
  <2>1. Checked(e, check).failures = NextFailures(e.failures, check.health)
    BY <1>3 DEF Checked, ServerEndpoint
  <2>2. Failed(check.health) => e.failures < U64Max
    BY <1>1, <1>3 DEF NoWrap, Bounded, Overflows
  <2>3. Failed(check.health) => NextFailures(e.failures, check.health) = e.failures + 1
    BY <1>1, <2>2 DEF NextFailures, Failed
  <2>4. e.failures >= n
    BY <1>3 DEF Covers
  <2> QED
    BY <1>1, <1>2, <2>1, <2>3, <2>4 DEF Covers, NextStreak, NextFailures, StreakCap
<1>4. CASE ~e.object
  <2>1. Checked(e, check).failures = e.failures
    BY <1>4 DEF Checked, ServerEndpoint
  <2> QED BY <1>1, <1>2, <1>4, <2>1 DEF Covers
<1> QED BY <1>1, <1>3, <1>4

LEMMA InitCounter == Init => CounterInv
BY AbsentAssumption DEF Init, EmptyStorage, WorkerInit, EmptySweep, CounterInv, Stored

LEMMA ApiStepCounter ==
  ASSUME IInv, CounterInv, NEW c \in Call, ApiStep(c), UNCHANGED <<workerVars, restarts>>
  PROVE  CounterInv'
<1> USE DEF IInv
<1>1. /\ servers \in [ServerId -> ServerEndpoint \cup {Absent}]
      /\ streak \in [ServerId -> 0 .. StreakCap]
      /\ UNCHANGED <<worker, sweep, writing, streak>>
  BY DEF TypeOK, StorageTypeOK, WorkerTypeOK, workerVars
<1>2. CASE CreateServer(c)
  <2>1. PICK id \in ServerId, server \in CreateRequests :
          /\ ~Created(id)
          /\ servers' = servers \/ servers' = [servers EXCEPT ![id] = server]
    BY <1>2 DEF CreateServer, upsert_server, AfterWrite
  <2>2. streak[id] = 0 /\ sweep[id] = Absent /\ writing # id
    BY <1>1, <2>1, AbsentAssumption DEF KnownCreated, WritingWellFormed
  <2>3. server.failures >= 0
    BY RequestType, U64Assumption DEF ServerEndpoint
  <2>4. \A other \in ServerId : other = id \/ servers'[other] = servers[other]
    BY <1>1, <2>1
  <2>5. servers'[id] = servers[id] \/ servers'[id] = server
    BY <1>1, <2>1
  <2> QED BY <1>1, <2>2, <2>3, <2>4, <2>5 DEF CounterInv, Covers, Stored
<1>3. CASE DeleteServer(c)
  <2>1. \A id \in ServerId : servers'[id] # Absent => servers'[id] = servers[id]
    BY <1>1, <1>3 DEF DeleteServer, delete_server, AfterWrite
  <2> QED BY <1>1, <2>1 DEF CounterInv, Stored
<1>4. CASE UNCHANGED servers
  BY <1>1, <1>4 DEF CounterInv, Stored
<1> QED BY <1>2, <1>3, <1>4, ApiStepServers

LEMMA WorkerStepCounter ==
  ASSUME NoWrap, IInv, CounterInv, WorkerStep, UNCHANGED <<apiVars, restarts>>
  PROVE  CounterInv'
<1> USE DEF IInv
<1>1. /\ servers \in [ServerId -> ServerEndpoint \cup {Absent}]
      /\ sweep \in [ServerId -> ServerEndpoint \cup {Absent}]
      /\ streak \in [ServerId -> 0 .. StreakCap]
      /\ writing \in ServerId \cup {Absent}
      /\ Absent \notin ServerEndpoint /\ Absent \notin ServerId
      /\ worker # "store" => writing = Absent
  BY AbsentAssumption DEF TypeOK, StorageTypeOK, WorkerTypeOK, WritingWellFormed
<1>2. CASE ListForSweep
  BY <1>1, <1>2 DEF ListForSweep, CounterInv, Stored, storageVars
<1>3. CASE ListFails \/ WakeUp
  BY <1>1, <1>3 DEF ListFails, WakeUp, CounterInv, Stored, storageVars
<1>4. ASSUME NEW id \in ServerId, ProbeAndWrite(id)
      PROVE  CounterInv'
  <2>1. PICK check \in HealthChecks(sweep[id]) :
          /\ Bounded(sweep[id], check)
          /\ ~(Overflows(sweep[id], check) /\ OverflowChecks)
          /\ sweep' = [sweep EXCEPT ![id] = Checked(sweep[id], check)]
    BY <1>4 DEF ProbeAndWrite
  <2>2. /\ sweep[id] # Absent /\ sweep[id] \in ServerEndpoint
        /\ writing = Absent /\ writing' = id
        /\ UNCHANGED <<servers, streak>>
    BY <1>1, <1>4 DEF ProbeAndWrite, storageVars
  <2>3. Covers(sweep[id], streak[id])
    BY <1>1, <2>2 DEF CounterInv
  <2>4. /\ Covers(sweep'[id], NextStreak(streak[id], sweep'[id].health))
        /\ sweep'[id].failures >= sweep[id].failures \/ sweep'[id].health = "healthy"
    BY <1>1, <2>1, <2>2, <2>3, CheckedCovers
  <2>5. Stored(id) => servers[id] = sweep[id]
    BY <1>1, <2>2 DEF SnapshotCurrent, Stored
  <2>6. \A other \in ServerId \ {id} : sweep'[other] = sweep[other]
    BY <1>1, <2>1
  <2> QED BY <1>1, <2>2, <2>4, <2>5, <2>6 DEF CounterInv, Stored
<1>5. ASSUME NEW id \in ServerId, ProbeAndSkip(id)
      PROVE  CounterInv'
  <2>1. /\ ~sweep[id].object /\ sweep[id] # Absent
        /\ writing = Absent /\ UNCHANGED <<servers, writing>>
        /\ sweep' = [sweep EXCEPT ![id] = Absent]
        /\ \A other \in ServerId \ {id} : streak'[other] = streak[other]
    BY <1>1, <1>5 DEF ProbeAndSkip, storageVars, Remaining
  <2>2. Stored(id) => ~servers[id].object
    BY <1>1, <2>1 DEF SnapshotCurrent, Stored
  <2> QED BY <1>1, <2>1, <2>2 DEF CounterInv, Covers, Stored
<1>6. ASSUME NEW id \in ServerId, ProbeAndPanic(id)
      PROVE  CounterInv'
  BY <1>1, <1>6 DEF ProbeAndPanic, CounterInv, Stored, EmptySweep, storageVars
<1>7. ASSUME NEW id \in ServerId, NEW res \in Results, WriteBack(id, res)
      PROVE  CounterInv'
  <2>1. /\ writing = id /\ writing' = Absent
        /\ sweep' = [sweep EXCEPT ![id] = Absent]
        /\ Covers(sweep[id], NextStreak(streak[id], sweep[id].health))
    BY <1>7 DEF WriteBack, CounterInv, Remaining
  <2>2. \/ UNCHANGED <<servers, streak>>
        \/ /\ servers' = [servers EXCEPT ![id] = sweep[id]]
           /\ streak' = [streak EXCEPT ![id] = NextStreak(@, sweep[id].health)]
    BY <1>7 DEF WriteBack, upsert_server, Remaining
  <2> QED BY <1>1, <2>1, <2>2 DEF CounterInv, Stored
<1> QED BY <1>2, <1>3, <1>4, <1>5, <1>6, <1>7 DEF WorkerStep

LEMMA StepCounter == NoWrap /\ IInv /\ CounterInv /\ [Next]_vars => CounterInv'
<1> SUFFICES ASSUME NoWrap, IInv, CounterInv, [Next]_vars PROVE CounterInv'
  OBVIOUS
<1>1. ASSUME NEW c \in Call, ApiStep(c), UNCHANGED <<workerVars, restarts>>
      PROVE  CounterInv'
  BY <1>1, ApiStepCounter
<1>2. CASE WorkerStep /\ UNCHANGED <<apiVars, restarts>>
  BY <1>2, WorkerStepCounter
<1>3. CASE Restart
  BY <1>3, AbsentAssumption DEF Restart, ReopenStorage, RestartWorker, EmptySweep,
                                storageVars, CounterInv, Stored
<1>4. CASE UNCHANGED vars
  BY <1>4 DEF vars, storageVars, workerVars, CounterInv, Stored
<1> QED BY <1>1, <1>2, <1>3, <1>4 DEF Next

\* Without a wrap the counters cover the history in every reachable state.
LEMMA CounterInvariance == ASSUME NoWrap PROVE Spec => []CounterInv
<1>1. IInv /\ CounterInv /\ [Next]_vars => CounterInv'
  BY StepCounter
<1> QED BY <1>1, InitCounter, Invariance, PTL DEF Spec

\* The breaker opens: after three failed checks in a row an endpoint with object
\* metadata is no candidate, unless counters wrap.
THEOREM BreakerOpensTheorem == ASSUME NoWrap PROVE Spec => []BreakerOpens
<1>1. IInv /\ CounterInv => BreakerOpens
  BY DEF CounterInv, BreakerOpens, Covers, Stored, is_open_circuit,
         CIRCUIT_BREAKER_THRESHOLD, IInv, TypeOK, StorageTypeOK, ServerEndpoint
<1> QED BY <1>1, CounterInvariance, Invariance, PTL

\* A stored failure counter falls only by a success, unless counters wrap.
THEOREM CounterFallsTheorem == ASSUME NoWrap PROVE Spec => CounterFallsOnSuccess
<1>1. IInv /\ CounterInv /\ [Next]_vars =>
        [\A id \in ServerId :
           servers[id] # Absent /\ servers'[id] # Absent =>
             \/ servers'[id].failures >= servers[id].failures
             \/ servers'[id].health = "healthy"]_vars
  <2> SUFFICES ASSUME IInv, CounterInv, [Next]_vars, NEW id \in ServerId,
                      servers[id] # Absent, servers'[id] # Absent
               PROVE  \/ servers'[id].failures >= servers[id].failures
                      \/ servers'[id].health = "healthy"
    OBVIOUS
  <2>1. servers[id].failures \in Int
    BY U64Assumption DEF IInv, TypeOK, StorageTypeOK, ServerEndpoint
  <2>2. CASE servers'[id] = servers[id]
    BY <2>1, <2>2
  <2>3. CASE writing = id /\ servers'[id] = sweep[id]
    BY <2>3 DEF CounterInv, Stored
  <2> QED BY <2>2, <2>3, ServersStep
<1> QED BY <1>1, CounterInvariance, Invariance, PTL DEF Spec, CounterFallsOnSuccess
------------------------------------------------------------------------------
(***************************************************************************)
(* The router and the worker implement CircuitBreaker, where the counter   *)
(* does not wrap and every endpoint has object metadata.                   *)
(***************************************************************************)
OnlyObjects == \A server \in CreateRequests : server.object

ObjectInv ==
  \A id \in ServerId :
    /\ Stored(id) => servers[id].object
    /\ sweep[id] # Absent => sweep[id].object

LEMMA ObjectInvariance == ASSUME OnlyObjects PROVE Spec => []ObjectInv
<1>1. Init => ObjectInv
  BY DEF Init, EmptyStorage, WorkerInit, EmptySweep, ObjectInv, Stored
<1>2. IInv /\ ObjectInv /\ [Next]_vars => ObjectInv'
  <2> SUFFICES ASSUME IInv, ObjectInv, [Next]_vars PROVE ObjectInv'
    OBVIOUS
  <2>1. /\ servers \in [ServerId -> ServerEndpoint \cup {Absent}]
        /\ sweep \in [ServerId -> ServerEndpoint \cup {Absent}]
    BY DEF IInv, TypeOK, StorageTypeOK, WorkerTypeOK
  <2>2. ASSUME NEW c \in Call, ApiStep(c), UNCHANGED <<workerVars, restarts>>
        PROVE  ObjectInv'
    <3>1. UNCHANGED sweep
      BY <2>2 DEF workerVars
    <3>2. CASE CreateServer(c)
      BY <2>1, <3>1, <3>2, OnlyObjects DEF OnlyObjects, CreateServer, upsert_server, ObjectInv, Stored,
                                           AfterWrite
    <3>3. CASE DeleteServer(c)
      BY <2>1, <3>1, <3>3 DEF DeleteServer, delete_server, ObjectInv, Stored, AfterWrite
    <3>4. CASE UNCHANGED servers
      BY <3>1, <3>4 DEF ObjectInv, Stored
    <3> QED BY <2>2, <3>2, <3>3, <3>4, ApiStepServers
  <2>3. ASSUME NEW id \in ServerId, ProbeAndWrite(id)
        PROVE  ObjectInv'
    <3>1. PICK check \in HealthChecks(sweep[id]) :
            sweep' = [sweep EXCEPT ![id] = Checked(sweep[id], check)]
      BY <2>3 DEF ProbeAndWrite
    <3>2. sweep[id] # Absent /\ UNCHANGED servers
      BY <2>3 DEF ProbeAndWrite, storageVars
    <3>3. Checked(sweep[id], check).object = sweep[id].object
      BY <2>1, <3>2 DEF Checked, ServerEndpoint
    <3> QED BY <2>1, <3>1, <3>2, <3>3 DEF ObjectInv, Stored
  <2>4. ASSUME NEW id \in ServerId, NEW res \in Results, WriteBack(id, res), IInv
        PROVE  ObjectInv'
    <3>1. sweep[id] # Absent
      BY <2>4, AbsentAssumption DEF WriteBack, IInv, WritingWellFormed, Remaining
    <3> QED BY <2>1, <2>4, <3>1 DEF WriteBack, upsert_server, ObjectInv, Stored, Remaining
  <2>5. CASE WorkerStep
    BY <2>1, <2>3, <2>4, <2>5 DEF WorkerStep, ListForSweep, ListFails, WakeUp, ProbeAndSkip,
       ProbeAndPanic, EmptySweep, storageVars, ObjectInv, Stored, Remaining
  <2>6. CASE Restart
    BY <2>6 DEF Restart, ReopenStorage, RestartWorker, EmptySweep, storageVars, ObjectInv, Stored
  <2>7. CASE UNCHANGED vars
    BY <2>7 DEF vars, storageVars, workerVars, ObjectInv, Stored
  <2> QED BY <2>2, <2>5, <2>6, <2>7 DEF Next
<1> QED BY <1>1, <1>2, Invariance, PTL DEF Spec

\* A routing selects while the breaker is closed; no other handler's step selects.
LEMMA ApiStepRefines ==
  ASSUME IInv, CounterInv, ObjectInv, NEW c \in Call, ApiStep(c), UNCHANGED <<workerVars, restarts>>
  PROVE  Breaker!Next \/ UNCHANGED <<streak, Selections>>
<1> USE DEF IInv
<1>1. /\ calls \in [Call -> CallState]
      /\ streak \in [ServerId -> 0 .. StreakCap]
      /\ UNCHANGED streak
      /\ Absent \notin ServerId
  BY AbsentAssumption DEF TypeOK, ApiTypeOK, WorkerTypeOK, workerVars
<1>2. ASSUME calls[c].pc = "idle" => \/ calls'[c].op # "route.request"
                                   \/ calls'[c].server = Absent
      PROVE  UNCHANGED Selections
  <2>1. \A d \in Call \ {c} : calls'[d] = calls[d]
    BY <1>1, ApiStepShape
  <2>2. \A id \in ServerId :
          (calls'[c].op = "route.request" /\ calls'[c].server = id) <=>
          (calls[c].op = "route.request" /\ calls[c].server = id)
    BY <1>1, <1>2, ApiStepShape DEF CallsWellFormed
  <2>3. \A d \in Call, id \in ServerId :
          (calls'[d].op = "route.request" /\ calls'[d].server = id) <=>
          (calls[d].op = "route.request" /\ calls[d].server = id)
    BY <2>1, <2>2
  <2>4. \A s \in Call \X ServerId : s \in Selections' <=> s \in Selections
    BY <2>3 DEF Selections
  <2> QED BY <2>4 DEF Selections
<1>3. CASE RouteRequest(c)
  <2>1. PICK kind \in ProviderKind, strategy \in Strategies : 
          \E id \in Selectable(kind, strategy) :
            calls' = [calls EXCEPT ![c] = At("record", "route.request", id)]
    BY <1>3 DEF RouteRequest
  <2>2. PICK id \in Candidates(kind) : calls' = [calls EXCEPT ![c] = At("record", "route.request", id)]
    BY <2>1 DEF Selectable, BestScored
  <2>3. id \in ServerId /\ Stored(id) /\ ~is_open_circuit(servers[id])
    BY <2>2 DEF Candidates, IsCandidate, Stored
  <2>4. streak[id] < CIRCUIT_BREAKER_THRESHOLD
    <3>1. servers[id].failures \in Int
      BY <2>3, U64Assumption DEF TypeOK, StorageTypeOK, ServerEndpoint, Stored
    <3> QED BY <1>1, <2>3, <3>1 DEF CounterInv, ObjectInv, Covers, is_open_circuit,
                                   CIRCUIT_BREAKER_THRESHOLD
  <2>5. calls[c].op = "none"
    BY <1>3 DEF RouteRequest, CallsWellFormed
  <2>6. \A other \in ServerId : <<c, other>> \notin Selections
    BY <2>5 DEF Selections
  <2>7. Selections' = Selections \cup {<<c, id>>}
    <3>1. \A d \in Call \ {c} : calls'[d] = calls[d]
      BY <1>1, <2>2
    <3>2. calls'[c].op = "route.request" /\ calls'[c].server = id
      BY <1>1, <2>2 DEF At
    <3>3. \A d \in Call, other \in ServerId :
            <<d, other>> \in Selections' <=> <<d, other>> \in Selections \/ (d = c /\ other = id)
      BY <2>5, <3>1, <3>2 DEF Selections
    <3> QED BY <2>3, <3>3 DEF Selections
  <2>8. Breaker!Select(c, id)
    BY <1>1, <2>4, <2>6, <2>7 DEF Breaker!Select
  <2> QED BY <2>3, <2>8 DEF Breaker!Next
<1>4. CASE ~RouteRequest(c)
  BY <1>1, <1>2, <1>4 DEF ApiStep, CreateServer, DeleteServer, RouteUnavailable,
     RecordDecision, RecordAudit, LookUp, Forward, ClientGone, At, Answer, Pending,
                          AfterWrite, AfterRecord
<1> QED BY <1>1, <1>3, <1>4

\* A result that is dealt with is a check of the breaker's.
LEMMA WorkerStepRefines ==
  ASSUME IInv, WorkerStep, UNCHANGED <<apiVars, restarts>>
  PROVE  Breaker!Next \/ UNCHANGED <<streak, Selections>>
<1>1. UNCHANGED Selections
  BY DEF Selections, apiVars
<1>2. streak \in [ServerId -> 0 .. StreakCap]
  BY DEF IInv, TypeOK, WorkerTypeOK
<1>3. ASSUME NEW id \in ServerId, NEW health,
             streak' = [streak EXCEPT ![id] = NextStreak(@, health)]
      PROVE  Breaker!Next \/ UNCHANGED <<streak, Selections>>
  <2>1. CASE health = "healthy"
    BY <1>1, <1>3, <2>1 DEF NextStreak, Breaker!Next, Breaker!CheckSucceeds
  <2>2. CASE health # "healthy" /\ Failed(health) /\ streak[id] < StreakCap
    <3>1. Breaker!CheckFails(id)
      BY <1>1, <1>2, <1>3, <2>2
      DEF NextStreak, Breaker!CheckFails, StreakCap, CIRCUIT_BREAKER_THRESHOLD
    <3> QED BY <3>1 DEF Breaker!Next
  <2>3. CASE health # "healthy" /\ ~(Failed(health) /\ streak[id] < StreakCap)
    BY <1>1, <1>2, <1>3, <2>3 DEF NextStreak
  <2> QED BY <2>1, <2>2, <2>3
<1>4. UNCHANGED streak \/ \E id \in ServerId : \E health :
        streak' = [streak EXCEPT ![id] = NextStreak(@, health)]
  BY DEF WorkerStep, ListForSweep, ListFails, WakeUp, ProbeAndWrite, ProbeAndSkip,
         ProbeAndPanic, WriteBack, Remaining
<1> QED BY <1>1, <1>3, <1>4

\* The detailed system implements the circuit breaker: whatever the interleaving,
\* losses and restarts, a request is never given an endpoint that failed three
\* checks in a row.
THEOREM BreakerRefinement == ASSUME NoWrap, OnlyObjects PROVE Spec => BreakerSpec
<1>1. Init => Breaker!Init
  BY DEF Init, WorkerInit, ApiInit, Selections, Breaker!Init
<1>2. IInv /\ CounterInv /\ ObjectInv /\ [Next]_vars => [Breaker!Next]_<<streak, Selections>>
  <2> SUFFICES ASSUME IInv, CounterInv, ObjectInv, [Next]_vars
               PROVE  Breaker!Next \/ UNCHANGED <<streak, Selections>>
    OBVIOUS
  <2>1. CASE Restart
    BY <2>1 DEF Restart, DropCalls, RestartWorker, Selections, IInv, TypeOK, ApiTypeOK, CallState
  <2>2. CASE UNCHANGED vars
    BY <2>2 DEF vars, workerVars, apiVars, Selections
  <2> QED BY <2>1, <2>2, ApiStepRefines, WorkerStepRefines DEF Next
<1> QED
  BY <1>1, <1>2, Invariance, CounterInvariance, ObjectInvariance, PTL
  DEF Spec, BreakerSpec, Breaker!Spec
=============================================================================

---------------------------- MODULE RecordsProofs ----------------------------
(***************************************************************************)
(* Theorems about the records the answered calls leave behind (record_     *)
(* audit, record_routing_decision), over the in-memory storage; and what   *)
(* the client was told of registrations, over either.                      *)
(***************************************************************************)
EXTENDS ControlPlaneProofs

Logged(c) == [action |-> calls[c].op, call |-> c, server |-> calls[c].server] \in audit_logs
Decided(c) == [call |-> c, server |-> calls[c].server] \in routing_history

\* What a handler has recorded by each of its awaits, and by its answer.
RecordsInv ==
  restarts = 0 =>
    \A c \in Call :
      /\ calls[c].pc \in {"audit", "lookup", "forward"} /\ calls[c].op = "route.request" => Decided(c)
      /\ calls[c].pc \in {"lookup", "forward"} => Logged(c) /\ calls[c].op = "route.request"
      /\ calls[c].status \in {200, 201, 204} => Logged(c)
      /\ calls[c].status = 200 => Decided(c)

\* Over the in-memory storage every operation succeeds and no record is lost.
LEMMA MemoryKeepsRecords ==
  ASSUME Backend = "InMemory", NEW c \in Call, ApiStep(c)
  PROVE  routing_history \subseteq routing_history' /\ audit_logs \subseteq audit_logs'
BY DEF ApiStep, CreateServer, DeleteServer, RouteRequest, RouteUnavailable, RecordDecision,
       RecordAudit, LookUp, Forward, ClientGone, storageVars, upsert_server, delete_server,
       record_routing_decision, record_audit_log

\* The records of the call that takes the step.
LEMMA StepRecords ==
  ASSUME Backend = "InMemory", IInv, RecordsInv, restarts = 0, NEW c \in Call, ApiStep(c)
  PROVE  /\ calls'[c].pc \in {"audit", "lookup", "forward"} /\ calls'[c].op = "route.request" =>
              Decided(c)'
         /\ calls'[c].pc \in {"lookup", "forward"} => Logged(c)' /\ calls'[c].op = "route.request"
         /\ calls'[c].status \in {200, 201, 204} => Logged(c)'
         /\ calls'[c].status = 200 => Decided(c)'
<1> USE DEF IInv
<1>1. calls \in [Call -> CallState] /\ Results = {"ok"} /\ TakesEffect("ok")
  BY DEF TypeOK, ApiTypeOK, Results, TakesEffect
<1>2. routing_history \subseteq routing_history' /\ audit_logs \subseteq audit_logs'
  BY MemoryKeepsRecords
<1>3. CASE CreateServer(c) \/ DeleteServer(c)
  <2>1. PICK id \in ServerId, op \in {"server.create", "server.delete"} :
          calls' = [calls EXCEPT ![c] = AfterWrite(op, id, "ok")]
    BY <1>1, <1>3 DEF CreateServer, DeleteServer
  <2> QED BY <1>1, <2>1 DEF AfterWrite, At
<1>4. CASE RouteRequest(c)
  <2>1. PICK id : calls' = [calls EXCEPT ![c] = At("record", "route.request", id)]
    BY <1>4 DEF RouteRequest
  <2> QED BY <1>1, <2>1 DEF At
<1>5. CASE RouteUnavailable(c)
  BY <1>1, <1>5 DEF RouteUnavailable, Answer
<1>6. CASE RecordDecision(c)
  <2>1. /\ calls[c].pc = "record"
        /\ calls' = [calls EXCEPT ![c] = [calls[c] EXCEPT !.pc = "audit"]]
        /\ routing_history' = routing_history \cup {[call |-> c, server |-> calls[c].server]}
    BY <1>1, <1>6 DEF RecordDecision, record_routing_decision, AfterRecord
  <2>2. /\ calls'[c].pc = "audit" /\ calls'[c].server = calls[c].server
        /\ calls'[c].status = calls[c].status
    BY <1>1, <2>1 DEF CallState
  <2>3. calls'[c].status = 0
    BY <2>1, <2>2 DEF CallsWellFormed, Pending
  <2> QED BY <2>1, <2>2, <2>3 DEF Decided
<1>7. CASE RecordAudit(c)
  <2>1. /\ calls[c].pc = "audit"
        /\ calls' = [calls EXCEPT ![c] = AfterAudit(calls[c])]
        /\ audit_logs' = audit_logs \cup
             {[action |-> calls[c].op, call |-> c, server |-> calls[c].server]}
    BY <1>1, <1>7 DEF RecordAudit, record_audit_log
  <2>2. calls[c].op \in {"server.create", "server.delete", "route.request"}
    BY <1>1, <2>1 DEF CallsWellFormed, Pending, CallState
  <2>3. /\ calls'[c].op = calls[c].op /\ calls'[c].server = calls[c].server
        /\ calls'[c].pc = "lookup" => calls[c].op = "route.request"
        /\ calls'[c].pc \in {"lookup", "done"} /\ calls'[c].status # 200
    BY <1>1, <2>1, <2>2 DEF AfterAudit, At, Answer
  <2>4. Logged(c)'
    BY <2>1, <2>3 DEF Logged
  <2>5. calls[c].op = "route.request" => Decided(c)'
    BY <1>2, <2>1, <2>3 DEF RecordsInv, Decided
  <2> QED BY <2>3, <2>4, <2>5
<1>8. CASE LookUp(c) \/ Forward(c)
  <2>1. /\ calls[c].pc \in {"lookup", "forward"}
        /\ calls'[c].op = calls[c].op /\ calls'[c].server = calls[c].server
    BY <1>1, <1>8 DEF LookUp, LookUpOutcomes, Forward, At, Answer
  <2>2. calls[c].op = "route.request" /\ Logged(c) /\ Decided(c)
    BY <2>1 DEF RecordsInv
  <2>3. Logged(c)' /\ Decided(c)'
    BY <1>2, <2>1, <2>2 DEF Logged, Decided
  <2> QED BY <2>1, <2>2, <2>3
<1>9. CASE ClientGone(c)
  <2>1. calls'[c].pc = "dropped" /\ calls'[c].status = 0
    BY <1>1, <1>9 DEF ClientGone, CallsWellFormed, CallState
  <2> QED BY <2>1
<1> QED BY <1>3, <1>4, <1>5, <1>6, <1>7, <1>8, <1>9 DEF ApiStep

LEMMA RecordsStep ==
  ASSUME Backend = "InMemory", IInv, RecordsInv, [Next]_vars
  PROVE  RecordsInv'
<1> USE DEF IInv
<1>1. ASSUME NEW c \in Call, ApiStep(c), UNCHANGED <<workerVars, restarts>>, restarts = 0
      PROVE  RecordsInv'
  <2>1. ASSUME NEW d \in Call, d # c
        PROVE  /\ calls'[d] = calls[d]
               /\ Logged(d) => Logged(d)'
               /\ Decided(d) => Decided(d)'
    <3>1. calls'[d] = calls[d]
      BY <1>1, <2>1, ApiStepShape DEF TypeOK, ApiTypeOK
    <3> QED BY <1>1, <3>1, MemoryKeepsRecords DEF Logged, Decided
  <2> QED BY <1>1, <2>1, StepRecords DEF RecordsInv
<1>2. CASE WorkerStep /\ UNCHANGED <<apiVars, restarts>>
  BY <1>2, WorkerStepStorage DEF RecordsInv, Logged, Decided, apiVars
<1>3. CASE Restart
  BY <1>3 DEF Restart, RecordsInv, TypeOK
<1>4. CASE UNCHANGED vars
  BY <1>4 DEF vars, storageVars, apiVars, RecordsInv, Logged, Decided
<1> QED BY <1>1, <1>2, <1>3, <1>4 DEF Next, RecordsInv

LEMMA RecordsInvariance == ASSUME Backend = "InMemory" PROVE Spec => []RecordsInv
<1>1. Init => RecordsInv
  BY DEF Init, ApiInit, RecordsInv
<1>2. IInv /\ RecordsInv /\ [Next]_vars => RecordsInv'
  BY RecordsStep
<1> QED BY <1>1, <1>2, Invariance, PTL DEF Spec

\* Every call the in-memory storage's process answered with a success is in the
\* audit log, until the process ends with its log.
THEOREM AnsweredAuditedTheorem == ASSUME Backend = "InMemory" PROVE Spec => []AnsweredAudited
<1>1. IInv /\ RecordsInv => AnsweredAudited
  BY MaxRestartsAssumption DEF IInv, TypeOK, RecordsInv, AnsweredAudited, Logged
<1> QED BY <1>1, RecordsInvariance, Invariance, PTL

\* Every routing answered with 200 has its decision in the in-memory history,
\* whatever was deleted since, until the process ends with it.
THEOREM HistoryTraceableTheorem == ASSUME Backend = "InMemory" PROVE Spec => []HistoryTraceable
<1>1. IInv /\ RecordsInv => HistoryTraceable
  BY MaxRestartsAssumption DEF IInv, TypeOK, RecordsInv, HistoryTraceable, Decided
<1> QED BY <1>1, RecordsInvariance, Invariance, PTL

\* A registration answered with 201 stays, unless someone asked to delete it or an
\* in-memory storage went down with its process.
THEOREM CreatedPersistsTheorem == Spec => []CreatedPersists
<1>1. IInv => CreatedPersists
  BY DEF IInv
<1> QED BY <1>1, Invariance, PTL

\* Unless counters wrap, stored and listed counters cover the failed checks in a
\* row, also across lost write-backs, revivals and restarts.
THEOREM CounterTheorem == ASSUME NoWrap PROVE Spec => []CounterInv
BY CounterInvariance
=============================================================================

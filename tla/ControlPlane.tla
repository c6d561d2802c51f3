---------------------------- MODULE ControlPlane ----------------------------
(***************************************************************************)
(* The process main.rs starts: the management API and the health worker    *)
(* share one storage (and the router reads it). The process ends when the  *)
(* MCP client closes stdin; a later start finds what the storage kept.     *)
(***************************************************************************)
EXTENDS ManagementApi, HealthWorker

CONSTANT MaxRestarts   \* bound: ends of the process in a behaviour

ASSUME MaxRestartsAssumption == MaxRestarts \in Nat

VARIABLE restarts

vars == <<storageVars, apiVars, workerVars, restarts>>

Init ==
  /\ EmptyStorage
  /\ ApiInit
  /\ WorkerInit
  /\ restarts = 0

Restart ==
  /\ restarts < MaxRestarts
  /\ restarts' = restarts + 1
  /\ ReopenStorage
  /\ DropCalls
  /\ RestartWorker

Next ==
  \/ \E c \in Call : ApiStep(c) /\ UNCHANGED <<workerVars, restarts>>
  \/ WorkerStep /\ UNCHANGED <<apiVars, restarts>>
  \/ Restart

Spec == Init /\ [][Next]_vars

(***************************************************************************)
(* The worker is one tokio task in a loop: it is polled again whenever a   *)
(* timer, a probe (3 seconds at most) or a storage operation completes.    *)
(* Listings and write-backs succeed again and again. Nothing is assumed    *)
(* of clients.                                                             *)
(***************************************************************************)
WorkerFairness ==
  /\ WF_vars(WakeUp /\ UNCHANGED <<apiVars, restarts>>)
  /\ SF_vars(ListForSweep /\ UNCHANGED <<apiVars, restarts>>)
  /\ WF_vars(/\ \E id \in ServerId : ProbeAndWrite(id) \/ ProbeAndSkip(id) \/ ProbeAndPanic(id)
             /\ UNCHANGED <<apiVars, restarts>>)
  /\ \A id \in ServerId :
       /\ WF_vars((\E res \in Results : WriteBack(id, res)) /\ UNCHANGED <<apiVars, restarts>>)
       /\ SF_vars(WriteBack(id, "ok") /\ UNCHANGED <<apiVars, restarts>>)

FairSpec == Spec /\ WorkerFairness
------------------------------------------------------------------------------
(***************************************************************************)
(* Properties.                                                             *)
(***************************************************************************)

\* Every variable has its type.
TypeOK ==
  /\ StorageTypeOK
  /\ ApiTypeOK
  /\ WorkerTypeOK
  /\ restarts \in 0 .. MaxRestarts

\* No lost update: the worker writes whole records it listed up to minutes ago,
\* and what it is about to overwrite is still what it listed. Only the worker
\* changes an endpoint, a registration never reuses an id, and no entry of a
\* sweep outlives the write-back of its endpoint.
SnapshotCurrent ==
  \A id \in ServerId :
    sweep[id] # Absent /\ servers[id] # Absent /\ id # writing => servers[id] = sweep[id]

\* The breaker opens: once three failed checks in a row of an endpoint with
\* object metadata have been dealt with, the stored counter keeps it from being
\* a candidate, whatever was deleted, revived, lost or restarted in between.
BreakerOpens ==
  \A id \in ServerId :
    servers[id] # Absent /\ servers[id].object /\ streak[id] = CIRCUIT_BREAKER_THRESHOLD =>
      is_open_circuit(servers[id])

\* A registration the client was told of stays: the endpoint is stored unless
\* someone asked to delete it, or an in-memory store went down with its process.
CreatedPersists ==
  \A c \in Call :
    calls[c].op = "server.create" /\ calls[c].status = 201 =>
      \/ servers[calls[c].server] # Absent
      \/ DeleteIssued(calls[c].server)
      \/ Backend = "InMemory" /\ restarts > 0

\* The audit log never runs ahead: a logged registration is stored and a logged
\* routing has its decision in the history, unless a deletion was asked for.
AuditBacked ==
  \A log \in audit_logs :
    /\ log.action = "server.create" =>
         servers[log.server] # Absent \/ DeleteIssued(log.server)
    /\ log.action = "route.request" =>
         \/ [call |-> log.call, server |-> log.server] \in routing_history
         \/ Backend = "Postgres" /\ DeleteIssued(log.server)

\* ROADMAP: creation, deletion and routing are recorded in the audit log. A call
\* that was answered with a success has its entry (an in-memory log ends with its
\* process). record_audit swallows the storage's error.
AnsweredAudited ==
  \A c \in Call :
    calls[c].status \in {200, 201, 204} =>
      \/ [action |-> calls[c].op, call |-> c, server |-> calls[c].server] \in audit_logs
      \/ Backend = "InMemory" /\ restarts > 0

\* ARCHITECTURE: routing_history keeps decisions traceable. The decision behind
\* every routing answered with 200 is in it (an in-memory one ends with its
\* process). The database cascades a deletion to the decisions.
HistoryTraceable ==
  \A c \in Call :
    calls[c].status = 200 =>
      \/ [call |-> c, server |-> calls[c].server] \in routing_history
      \/ Backend = "InMemory" /\ restarts > 0

\* DELETE /servers/{id} deletes: once it is answered with 204 the endpoint is not
\* stored. A write-back of a sweep listed before the deletion stores it again.
DeletedStaysDeleted ==
  \A c \in Call : calls[c].status = 204 => servers[calls[c].server] = Absent

\* The worker's whole-record write-backs never change what the administrator
\* registered: an id's configuration is the same as long as it is stored.
ConfigStable ==
  [][\A id \in ServerId :
       servers[id] # Absent /\ servers'[id] # Absent =>
         Config(servers'[id]) = Config(servers[id])]_vars

\* A stored failure counter falls only by a success: no failed check, write-back
\* of an old listing or restart lowers it. Broken where the addition wraps.
CounterFallsOnSuccess ==
  [][\A id \in ServerId :
       servers[id] # Absent /\ servers'[id] # Absent =>
         \/ servers'[id].failures >= servers[id].failures
         \/ servers'[id].health = "healthy"]_vars

\* Nobody has the endpoint any more: a registration drew its id, it is not stored, and
\* the sweep under way does not hold it.
Gone(id) ==
  /\ \E c \in Call : calls[c].op = "server.create" /\ calls[c].server = id
  /\ servers[id] = Absent
  /\ sweep[id] = Absent

\* Only the sweep that listed an endpoint before its deletion can undo it: once that
\* sweep has passed, the deletion is final, whatever is registered, retried, answered
\* with an error though it took effect, swept again or restarted.
DeletionFinal == [][\A id \in ServerId : Gone(id) => Gone(id)']_vars

\* Every registered http endpoint is judged: it does not stay of unknown health,
\* although listings and write-backs may fail and clients delete at any time.
EventuallyJudged ==
  \A id \in ServerId :
    (servers[id] # Absent /\ servers[id].http) ~>
      (servers[id] = Absent \/ servers[id].health # "unknown")

\* The breaker closes again: an http endpoint of a kind that answers every check
\* becomes a candidate for routing, whatever its counter was and others answer.
EventuallyCandidate ==
  \A id \in ServerId :
    (servers[id] # Absent /\ servers[id].http /\ Responses[servers[id].kind] = {"success"}) ~>
      (servers[id] = Absent \/ IsCandidate(servers[id], servers[id].kind))
------------------------------------------------------------------------------
(***************************************************************************)
(* What the breaker promises, apart from how: CircuitBreaker counts checks *)
(* and routes only below the threshold. Here the count is the history      *)
(* variable streak, and a selection is the route call that carries it.     *)
(***************************************************************************)
Selections ==
  {s \in Call \X ServerId :
     calls[s[1]].op = "route.request" /\ calls[s[1]].server = s[2]}

Breaker ==
  INSTANCE CircuitBreaker
    WITH Endpoint <- ServerId, Request <- Call, Threshold <- CIRCUIT_BREAKER_THRESHOLD,
         failed <- streak, selected <- Selections

\* The router and the worker together implement the circuit breaker.
BreakerSpec == Breaker!Spec
------------------------------------------------------------------------------
(***************************************************************************)
(* The inductive invariants behind the theorems of ControlPlaneProofs.     *)
(***************************************************************************)
Stored(id) == servers[id] # Absent

\* A call has an operation and an endpoint once it runs.
CallsWellFormed ==
  \A c \in Call :
    /\ calls[c].pc = "idle" => calls[c].op = "none" /\ calls[c].status = 0
    /\ calls[c].pc \in Pending => /\ calls[c].op # "none"
                                  /\ calls[c].server \in ServerId
                                  /\ calls[c].status = 0
    /\ calls[c].pc = "record" => calls[c].op = "route.request"
    /\ calls[c].status = 201 => calls[c].op = "server.create"
    /\ calls[c].op = "server.create" => calls[c].server \in ServerId

\* Nothing is known of an endpoint before its registration.
KnownCreated ==
  \A id \in ServerId :
    servers[id] # Absent \/ sweep[id] # Absent \/ streak[id] > 0 => Created(id)

\* The record about to be written back is of the endpoint that was listed.
WritingWellFormed ==
  /\ worker = "store" <=> writing # Absent
  /\ writing # Absent =>
       /\ sweep[writing] # Absent
       /\ Stored(writing) => Config(servers[writing]) = Config(sweep[writing])

\* What an audit record will say is true before it is written.
PendingAuditBacked ==
  \A c \in Call :
    calls[c].pc = "audit" =>
      /\ calls[c].op = "server.create" =>
           Stored(calls[c].server) \/ DeleteIssued(calls[c].server)
      /\ calls[c].op = "route.request" =>
           \/ [call |-> c, server |-> calls[c].server] \in routing_history
           \/ Backend = "Postgres" /\ DeleteIssued(calls[c].server)

IInv ==
  /\ TypeOK
  /\ CallsWellFormed
  /\ KnownCreated
  /\ WritingWellFormed
  /\ SnapshotCurrent
  /\ PendingAuditBacked
  /\ CreatedPersists
  /\ AuditBacked

\* The counter of a record covers n failed checks.
Covers(e, n) == e.object => e.failures >= n

\* Stored and listed counters cover the history, and the record about to be
\* written back covers it with its own check, and falls only by a success.
CounterInv ==
  \A id \in ServerId :
    /\ Stored(id) => Covers(servers[id], streak[id])
    /\ sweep[id] # Absent /\ id # writing => Covers(sweep[id], streak[id])
    /\ writing = id =>
         /\ Covers(sweep[id], NextStreak(streak[id], sweep[id].health))
         /\ Stored(id) => \/ sweep[id].failures >= servers[id].failures
                         \/ sweep[id].health = "healthy"
=============================================================================

---------------------------- MODULE HealthWorker ----------------------------
(***************************************************************************)
(* The health check worker (src/telemetry/mod.rs): one task that lists the *)
(* endpoints, probes them one after the other, writes each of them back as *)
(* a whole, and sleeps. Between the listing and the write-back every other *)
(* task may change the storage.                                            *)
(***************************************************************************)
EXTENDS Storage

CONSTANTS
  Responses,        \* what the providers of each kind may answer a probe
  Latencies,        \* the round trips a probe measures
  OverflowChecks,   \* TRUE: a build whose integer overflow panics (cargo build,
                    \* cargo test); FALSE: one where it wraps (cargo build --release)
  FailureBound      \* bound: a probe fails only while the counter is below it

Response == {"success", "other_status", "no_answer"}

ASSUME ResponsesAssumption == Responses \in [ProviderKind -> SUBSET Response]
ASSUME LatenciesAssumption == Latencies \subseteq Nat
ASSUME BuildAssumption == OverflowChecks \in BOOLEAN
ASSUME FailureBoundAssumption == FailureBound \in Nat

VARIABLES
  worker,    \* what the task does next
  sweep,     \* the endpoints of the listing not yet dealt with, as listed
  writing,   \* the endpoint just probed, whose sweep entry is the new record
  streak     \* history: failed checks since the last success, capped, as far
             \* as their results reached the storage or needed no write

workerVars == <<worker, sweep, writing, streak>>

StreakCap == 3   \* the history counts no further than the breaker's threshold

WorkerState == {"list", "probe", "store", "sleep", "dead"}
EmptySweep == [id \in ServerId |-> Absent]

WorkerTypeOK ==
  /\ worker \in WorkerState
  /\ sweep \in [ServerId -> ServerEndpoint \cup {Absent}]
  /\ writing \in ServerId \cup {Absent}
  /\ streak \in [ServerId -> 0 .. StreakCap]

WorkerInit ==
  /\ worker = "list"
  /\ sweep = EmptySweep
  /\ writing = Absent
  /\ streak = [id \in ServerId |-> 0]

\* perform_health_check: the health and the latency to record, which stays the
\* old one when the probe measured none.
HealthChecks(e) ==
  IF ~e.http THEN {[health |-> "unknown", latency |-> e.latency]}
  ELSE {[health |-> "healthy", latency |-> l] :
          l \in {m \in Latencies : "success" \in Responses[e.kind]}}
       \cup {[health |-> "degraded", latency |-> l] :
               l \in {m \in Latencies : "other_status" \in Responses[e.kind]}}
       \cup {[health |-> "unhealthy", latency |-> l] :
               l \in {m \in {e.latency} : "no_answer" \in Responses[e.kind]}}

Failed(health) == health \in {"degraded", "unhealthy"}

\* Mutants of NextFailures: a success takes back one failure; nothing resets the
\* counter; it stops one short of the threshold.
NextFailuresTakenBack(failures, health) ==
  IF health = "healthy" THEN failures - 1
  ELSE IF Failed(health) THEN failures + 1 ELSE failures
NextFailuresKept(failures, health) == IF Failed(health) THEN failures + 1 ELSE failures
NextFailuresSaturated(failures, health) ==
  IF health = "healthy" THEN 0
  ELSE IF Failed(health) /\ failures < 2 THEN failures + 1 ELSE failures

\* The addition wraps, or the step is not taken, where OverflowChecks hold.
NextFailures(failures, health) ==
  IF health = "healthy" THEN 0
  ELSE IF Failed(health) THEN (failures + 1) % (U64Max + 1)
  ELSE failures

\* Mutants of Checked: the record is rebuilt with the default weight; a failure
\* counts only when the health changes.
CheckedRebuilt(e, check) ==
  [e EXCEPT !.health = check.health, !.weight = 100,
            !.failures = IF e.object THEN NextFailures(@, check.health) ELSE @]
CheckedOnChange(e, check) ==
  IF e.object
  THEN [e EXCEPT !.health = check.health,
                 !.latency = check.latency,
                 !.failures = IF e.health = check.health THEN @ ELSE NextFailures(@, check.health)]
  ELSE [e EXCEPT !.health = check.health]

Checked(e, check) ==
  IF e.object
  THEN [e EXCEPT !.health = check.health,
                 !.latency = check.latency,
                 !.failures = NextFailures(e.failures, check.health)]
  ELSE [e EXCEPT !.health = check.health]

\* Mutant of Overflows: a wrapping addition, which never panics.
OverflowsNever(e, check) == FALSE

Overflows(e, check) == e.object /\ Failed(check.health) /\ e.failures = U64Max

NextStreak(n, health) ==
  IF health = "healthy" THEN 0
  ELSE IF Failed(health) /\ n < StreakCap THEN n + 1
  ELSE n

\* Mutant of AfterEntry: the loop ends after its first entry.
AfterEntryBreak(rest) == "sleep"

\* Where the loop goes once the remaining entries are rest.
AfterEntry(rest) == IF rest = EmptySweep THEN "sleep" ELSE "probe"

\* Mutant of Remaining: an entry whose write-back failed is kept and tried again.
RemainingRetried(id, res) == IF res = "ok" THEN [sweep EXCEPT ![id] = Absent] ELSE sweep

\* The loop goes on to the other entries, whatever came of this one.
Remaining(id, res) == [sweep EXCEPT ![id] = Absent]

Bounded(e, check) == Failed(check.health) /\ e.object => e.failures < FailureBound

------------------------------------------------------------------------------
\* list_servers: the rows of this moment, or an error and 30 seconds of sleep.
ListForSweep ==
  /\ worker = "list"
  /\ sweep' = servers
  /\ worker' = AfterEntry(servers)
  /\ UNCHANGED <<storageVars, writing, streak>>

ListFails ==
  /\ worker = "list"
  /\ "err" \in Results
  /\ worker' = "sleep"
  /\ UNCHANGED <<storageVars, sweep, writing, streak>>

\* A probed endpoint with object metadata is always written back, for its
\* last_checked_at; another one only when its health changed.
ProbeAndWrite(id) ==
  /\ worker = "probe"
  /\ sweep[id] # Absent
  /\ \E check \in HealthChecks(sweep[id]) :
       /\ Bounded(sweep[id], check)
       /\ sweep[id].object \/ check.health # sweep[id].health
       /\ ~(Overflows(sweep[id], check) /\ OverflowChecks)
       /\ sweep' = [sweep EXCEPT ![id] = Checked(sweep[id], check)]
  /\ writing' = id
  /\ worker' = "store"
  /\ UNCHANGED <<storageVars, streak>>

ProbeAndSkip(id) ==
  /\ worker = "probe"
  /\ sweep[id] # Absent
  /\ \E check \in HealthChecks(sweep[id]) :
       /\ ~sweep[id].object
       /\ check.health = sweep[id].health
       /\ streak' = [streak EXCEPT ![id] = NextStreak(@, check.health)]
  /\ sweep' = Remaining(id, "ok")
  /\ worker' = AfterEntry(sweep')
  /\ UNCHANGED <<storageVars, writing>>

\* The overflowing addition of a checked build unwinds the spawned task; the
\* process and its other tasks go on.
ProbeAndPanic(id) ==
  /\ worker = "probe"
  /\ sweep[id] # Absent
  /\ OverflowChecks
  /\ \E check \in HealthChecks(sweep[id]) :
       /\ Bounded(sweep[id], check)
       /\ Overflows(sweep[id], check)
  /\ worker' = "dead"
  /\ sweep' = EmptySweep
  /\ UNCHANGED <<storageVars, writing, streak>>

\* upsert_server of the probed record. An error is logged and the result lost.
WriteBack(id, res) ==
  /\ worker = "store"
  /\ writing = id
  /\ upsert_server(id, sweep[id], res)
  /\ streak' = IF TakesEffect(res)
               THEN [streak EXCEPT ![id] = NextStreak(@, sweep[id].health)]
               ELSE streak
  /\ sweep' = Remaining(id, res)
  /\ writing' = Absent
  /\ worker' = AfterEntry(sweep')

\* The sleep between two sweeps is over.
WakeUp ==
  /\ worker = "sleep"
  /\ worker' = "list"
  /\ UNCHANGED <<storageVars, sweep, writing, streak>>

WorkerStep ==
  \/ ListForSweep
  \/ ListFails
  \/ WakeUp
  \/ \E id \in ServerId :
       \/ ProbeAndWrite(id)
       \/ ProbeAndSkip(id)
       \/ ProbeAndPanic(id)
       \/ \E res \in Results : WriteBack(id, res)

\* A new process starts a new worker.
RestartWorker ==
  /\ worker' = "list"
  /\ sweep' = EmptySweep
  /\ writing' = Absent
  /\ UNCHANGED streak
=============================================================================

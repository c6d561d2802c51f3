---------------------------- MODULE ListingProofs ----------------------------
(***************************************************************************)
(* What the audit listings of Deployment show, for any log, clock and      *)
(* limits: listings are compared with the order in which requests were     *)
(* answered and begun, and those of both storages with each other.         *)
(***************************************************************************)
EXTENDS DeploymentProofs

------------------------------------------------------------------------------
(***************************************************************************)
(* What one step may do to a request, as far as listings tell.             *)
(***************************************************************************)
\* It waits or goes on: what it knows and has shown stays.
Continues(c) ==
  /\ calls'[c].after = calls[c].after
  /\ calls'[c].shown = calls[c].shown
  /\ calls'[c].backend = calls[c].backend
  /\ calls'[c].limit = calls[c].limit
  /\ calls'[c].pc = "idle" => calls[c].pc = "idle"
  /\ calls[c].pc = "done" => calls'[c].pc = "done"
  /\ calls[c].pc \in PastInsert => calls'[c].pc \in PastInsert
  /\ calls'[c].time \in {0, clock', calls[c].time}
  /\ calls'[c].pc = "insert" => calls'[c].time = clock' \/ (calls[c].pc = "insert" /\ calls'[c].time = calls[c].time)

\* It begins, and may be answered at once.
Begins(c) ==
  /\ calls[c].pc = "idle"
  /\ calls'[c].pc \in {"stamp", "done"}
  /\ calls'[c].after \subseteq Answered
  /\ calls'[c].time = 0
  /\ calls'[c].shown = <<>>
  /\ calls'[c].backend = "down"

\* It lists the audit log.
Lists(c) ==
  /\ calls[c].pc = "idle" /\ Running
  /\ calls'[c].pc = "done"
  /\ calls'[c].after \subseteq Answered
  /\ calls'[c].time = 0
  /\ calls'[c].backend = process.backend
  /\ calls'[c].limit \in Limits \cup {NoLimit}
  /\ calls'[c].shown \in Listings(process.backend, store[process.backend].logs, calls'[c].limit)

\* It inserts its entry.
Inserts(c) ==
  /\ calls[c].pc = "insert"
  /\ calls'[c].pc \in PastInsert
  /\ process.backend \in {"InMemory", "Postgres"}
  /\ \A b \in {"InMemory", "Postgres"} :
       store'[b].logs = IF b = process.backend
                        THEN Append(store[b].logs, [call |-> c, user |-> Mask[calls[c].token],
                                                    time |-> calls[c].time])
                        ELSE store[b].logs

\* The logs stay, or are those of a new storage.
LogsKept ==
  \A b \in {"InMemory", "Postgres"} : store'[b].logs = store[b].logs \/ store'[b].logs = <<>>

StepFacts ==
  /\ \A c \in Call : Continues(c) \/ Begins(c) \/ Lists(c)
  /\ DOMAIN store' = {"InMemory", "Postgres"}
  /\ clock' \in Nat /\ clock' >= clock
  /\ \/ LogsKept
     \/ \E c \in Call : Inserts(c) /\ UNCHANGED clock /\ \A d \in Call : Continues(d)

LEMMA Unchanged ==
  ASSUME UNCHANGED calls PROVE \A c \in Call : Continues(c)
BY DEF Continues

LEMMA PutRowLogs ==
  ASSUME IInv, Running, NEW e, NEW text, PutRow(e, text)
  PROVE  LogsKept
BY ProcessFacts DEF IInv, TypeOK, Running, PutRow, LogsKept

LEMMA OneCall ==
  ASSUME IInv, NEW c \in Call, NEW r, calls' = [calls EXCEPT ![c] = r]
  PROVE  calls'[c] = r /\ \A d \in Call : d # c => Continues(d)
BY DEF IInv, TypeOK, Continues

\* An answer at once, and a first await.
LEMMA AnswerBegins ==
  ASSUME IInv, NEW c \in Call, calls[c].pc = "idle", NEW r, calls' = [calls EXCEPT ![c] = r],
         \/ \E status : r = Reply(status)
         \/ \E op, e, cred : r = Begin(op, e, cred)
  PROVE  \A d \in Call : Continues(d) \/ Begins(d)
<1>1. /\ r.pc \in {"stamp", "done"} /\ r.time = 0 /\ r.shown = <<>> /\ r.backend = "down"
      /\ r.after \subseteq Answered
  BY DEF Reply, Begin, Fresh
<1>2. calls'[c] = r /\ \A d \in Call : d # c => Continues(d)
  BY OneCall
<1>3. Begins(c)
  BY <1>1, <1>2 DEF Begins
<1> QED BY <1>2, <1>3

LEMMA StepCases ==
  ASSUME IInv, [Next]_vars
  PROVE  StepFacts
<1>1. /\ clock \in Nat
      /\ store \in [{"InMemory", "Postgres"} ->
                      [rows: [Endpoint -> Text \cup {Absent}], logs: Seq(Entry)]]
      /\ calls \in [Call -> CallState]
      /\ DOMAIN store' = {"InMemory", "Postgres"}
  BY StepInv, BoundsAssumption DEF IInv, TypeOK
<1>2. ASSUME clock' = clock \/ clock' \in clock .. MaxTime, LogsKept, \A c \in Call : Continues(c) \/ Begins(c) \/ Lists(c)
      PROVE  StepFacts
  <2>1. MaxTime \in Nat
    BY BoundsAssumption
  <2>2. clock' \in Nat /\ clock' >= clock
    BY <1>1, <1>2, <2>1
  <2> QED BY <1>1, <1>2, <2>2 DEF StepFacts
<1>3. UNCHANGED store => LogsKept
  BY DEF LogsKept
<1>4. ASSUME NEW c \in Call, Reject(c) \/ ViewServers(c) \/ RouteRequest(c)
      PROVE  StepFacts
  <2>1. /\ calls[c].pc = "idle"
        /\ UNCHANGED <<store, clock>>
    BY <1>4 DEF Reject, ViewServers, RouteRequest, Idle
  <2>2. \E r : /\ calls' = [calls EXCEPT ![c] = r]
               /\ \/ \E status : r = Reply(status)
                  \/ \E op, e, cred : r = Begin(op, e, cred)
    BY <1>4 DEF Reject, ViewServers, RouteRequest
  <2>3. \A d \in Call : Continues(d) \/ Begins(d)
    BY <2>1, <2>2, AnswerBegins
  <2> QED BY <1>2, <1>3, <2>1, <2>3
<1>5. ASSUME NEW c \in Call, CreateServer(c) \/ DeleteServer(c)
      PROVE  StepFacts
  <2>1. Running /\ calls[c].pc = "idle" /\ UNCHANGED clock
    BY <1>5 DEF CreateServer, DeleteServer, Idle
  <2>2. \E e, text : PutRow(e, text)
    BY <1>5 DEF CreateServer, DeleteServer
  <2>3. \E r : /\ calls' = [calls EXCEPT ![c] = r]
               /\ \E op, e, cred : r = Begin(op, e, cred)
    BY <1>5 DEF CreateServer, DeleteServer
  <2>4. \A d \in Call : Continues(d) \/ Begins(d)
    BY <2>1, <2>3, AnswerBegins
  <2> QED BY <1>2, <2>1, <2>2, <2>4, PutRowLogs
<1>6. ASSUME NEW c \in Call, ListAuditLogs(c)
      PROVE  StepFacts
  <2>1. /\ calls[c].pc = "idle" /\ Running
        /\ UNCHANGED <<store, clock>>
    BY <1>6 DEF ListAuditLogs, Idle
  <2>2. PICK limit \in Limits \cup {NoLimit} :
          \E shown \in Listings(process.backend, store[process.backend].logs, limit) :
            calls' = [calls EXCEPT
              ![c] = [Reply(200) EXCEPT !.after = Answered, !.backend = process.backend,
                                         !.shown = shown, !.limit = limit]]
    BY <1>6 DEF ListAuditLogs
  <2>3. PICK shown \in Listings(process.backend, store[process.backend].logs, limit) :
          calls' = [calls EXCEPT
            ![c] = [Reply(200) EXCEPT !.after = Answered, !.backend = process.backend,
                                       !.shown = shown, !.limit = limit]]
    BY <2>2
  <2> DEFINE r == [Reply(200) EXCEPT !.after = Answered, !.backend = process.backend,
                                     !.shown = shown, !.limit = limit]
  <2>4. /\ r.pc = "done" /\ r.time = 0 /\ r.after = Answered /\ r.backend = process.backend
        /\ r.shown = shown /\ r.limit = limit
    BY DEF Reply, Fresh
  <2>5. calls' = [calls EXCEPT ![c] = r]
    BY <2>3
  <2> HIDE DEF r
  <2>6. calls'[c] = r /\ \A d \in Call : d # c => Continues(d)
    BY <2>5, OneCall
  <2>7. Lists(c)
    BY <2>1, <2>3, <2>4, <2>6 DEF Lists
  <2> QED BY <1>2, <1>3, <2>1, <2>6, <2>7
<1>7. ASSUME NEW c \in Call, Stamp(c)
      PROVE  StepFacts
  <2>1. calls[c].pc = "stamp" /\ UNCHANGED store /\ clock' \in clock .. MaxTime
    BY <1>7 DEF Stamp
  <2> DEFINE r == [calls[c] EXCEPT !.pc = "insert", !.time = clock']
  <2>2. calls' = [calls EXCEPT ![c] = r]
    BY <1>1, <1>7 DEF Stamp
  <2>3. /\ r.pc = "insert" /\ r.time = clock' /\ r.after = calls[c].after /\ r.shown = calls[c].shown
        /\ r.backend = calls[c].backend /\ r.limit = calls[c].limit
    BY <1>1 DEF CallState
  <2> HIDE DEF r
  <2>4. calls'[c] = r /\ \A d \in Call : d # c => Continues(d)
    BY <2>2, OneCall
  <2>5. Continues(c)
    BY <2>1, <2>3, <2>4 DEF Continues, PastInsert
  <2> QED BY <1>2, <1>3, <2>1, <2>4, <2>5
<1>8. ASSUME NEW c \in Call, NEW status, calls[c].pc # "idle", calls' = [calls EXCEPT ![c] = End(calls[c], "done", status)]
      PROVE  calls'[c].pc \in PastInsert /\ \A d \in Call : Continues(d)
  <2> DEFINE r == End(calls[c], "done", status)
  <2>1. /\ r.pc = "done" /\ r.time = 0 /\ r.after = calls[c].after /\ r.shown = calls[c].shown
        /\ r.backend = calls[c].backend /\ r.limit = calls[c].limit
    BY <1>1 DEF CallState, End
  <2> HIDE DEF r
  <2>2. calls'[c] = r /\ \A d \in Call : d # c => Continues(d)
    BY <1>8, OneCall DEF r
  <2>3. Continues(c) /\ calls'[c].pc \in PastInsert
    BY <2>1, <2>2 DEF Continues, PastInsert
  <2> QED BY <2>2, <2>3
<1>9. ASSUME NEW c \in Call, LookUp(c)
      PROVE  StepFacts
  <2>1. calls[c].pc = "lookup" /\ UNCHANGED <<store, clock>>
    BY <1>9 DEF LookUp
  <2> DEFINE text == Rows[calls[c].endpoint]
             status == IF text = Absent THEN 503 ELSE IF Readable(text) THEN 200 ELSE 500
  <2>2. calls' = [calls EXCEPT ![c] = End(calls[c], "done", status)]
    BY <1>1, <1>9 DEF LookUp
  <2> HIDE DEF status
  <2>3. \A d \in Call : Continues(d)
    BY <1>8, <2>1, <2>2
  <2> QED BY <1>2, <1>3, <2>1, <2>3
<1>10. ASSUME NEW c \in Call, Insert(c)
       PROVE  StepFacts
  <2>1. calls[c].pc = "insert" /\ UNCHANGED clock
    BY <1>10 DEF Insert
  <2>2. Running /\ calls[c].op \in {"create", "delete", "route"}
    <3>1. Pending(c)
      BY <2>1 DEF Pending
    <3> QED BY <3>1, PendingFacts
  <2>3. process.backend \in {"InMemory", "Postgres"}
    BY <2>2, ProcessFacts DEF IInv, Running
  <2>4. ASSUME calls'[c].pc \in PastInsert PROVE Inserts(c)
    BY <1>1, <1>10, <2>1, <2>3, <2>4 DEF Insert, Inserts, record_audit_log
  <2>5. CASE calls[c].op \in {"create", "delete"}
    <3>1. \E status : calls' = [calls EXCEPT ![c] = End(calls[c], "done", status)]
      BY <1>1, <1>10, <2>5 DEF Insert
    <3>2. calls'[c].pc \in PastInsert /\ \A d \in Call : Continues(d)
      BY <1>8, <2>1, <3>1
    <3> QED BY <1>1, <2>1, <2>4, <3>2 DEF StepFacts
  <2>6. CASE calls[c].op = "route"
    <3> DEFINE r == [calls[c] EXCEPT !.pc = "lookup"]
    <3>1. calls' = [calls EXCEPT ![c] = r]
      BY <1>1, <1>10, <2>6 DEF Insert
    <3>2. /\ r.pc = "lookup" /\ r.time = calls[c].time /\ r.after = calls[c].after
          /\ r.shown = calls[c].shown /\ r.backend = calls[c].backend /\ r.limit = calls[c].limit
      BY <1>1 DEF CallState
    <3> HIDE DEF r
    <3>3. calls'[c] = r /\ \A d \in Call : d # c => Continues(d)
      BY <3>1, OneCall
    <3>4. Continues(c) /\ calls'[c].pc \in PastInsert
      BY <2>1, <3>2, <3>3 DEF Continues, PastInsert
    <3> QED BY <1>1, <2>1, <2>4, <3>3, <3>4 DEF StepFacts
  <2> QED BY <2>2, <2>5, <2>6
<1>11. CASE ListForSweep
  BY <1>2, <1>3, <1>11, Unchanged DEF ListForSweep
<1>12. ASSUME NEW e \in Endpoint, WriteBack(e)
       PROVE  StepFacts
  <2>1. Running
    BY <1>12 DEF WriteBack, IInv, TasksInv
  <2>2. LogsKept
    BY <1>3, <1>12, <2>1, PutRowLogs DEF WriteBack
  <2> QED BY <1>2, <1>12, <2>2, Unchanged DEF WriteBack
<1>13. ASSUME NEW env \in Environments, Start(env)
       PROVE  StepFacts
  BY <1>2, <1>3, <1>13, Unchanged DEF Start
<1>14. CASE Stop
  <2>1. UNCHANGED clock /\ LogsKept
    <3>1. EmptyStore.logs = <<>>
      BY DEF EmptyStore
    <3> QED BY <1>1, <1>14, <3>1 DEF Stop, LogsKept
  <2>2. ASSUME NEW c \in Call PROVE Continues(c)
    <3>1. calls'[c] = IF Pending(c) THEN End(calls[c], "dropped", 0) ELSE calls[c]
      BY <1>14 DEF Stop
    <3>2. CASE Pending(c)
      <4> DEFINE r == End(calls[c], "dropped", 0)
      <4>1. /\ r.pc = "dropped" /\ r.time = 0 /\ r.after = calls[c].after /\ r.shown = calls[c].shown
            /\ r.backend = calls[c].backend /\ r.limit = calls[c].limit
        BY <1>1 DEF CallState, End
      <4> HIDE DEF r
      <4>2. calls'[c] = r
        BY <3>1, <3>2 DEF r
      <4> QED BY <3>2, <4>1, <4>2 DEF Continues, Pending, PastInsert
    <3>3. CASE ~Pending(c)
      BY <3>1, <3>3 DEF Continues
    <3> QED BY <3>2, <3>3
  <2> QED BY <1>2, <2>1, <2>2
<1>15. CASE UNCHANGED vars
  BY <1>2, <1>3, <1>15, Unchanged DEF vars
<1> QED BY <1>4, <1>5, <1>6, <1>7, <1>9, <1>10, <1>11, <1>12, <1>13, <1>14, <1>15 DEF Next
------------------------------------------------------------------------------
(***************************************************************************)
(* What a listing has of a log, and what it leaves out.                    *)
(***************************************************************************)
LEMMA MinCases ==
  ASSUME NEW a \in Nat, NEW b \in Nat
  PROVE  Min({a, b}) = IF a <= b THEN a ELSE b
<1>1. \E x \in {a, b} : \A y \in {a, b} : x =< y
  BY a <= b \/ b <= a
<1> QED BY <1>1 DEF Min

LEMMA MaxCases ==
  ASSUME NEW a \in Nat, NEW b \in Nat
  PROVE  Max({a, b}) = IF a >= b THEN a ELSE b
<1>1. \E x \in {a, b} : \A y \in {a, b} : x >= y
  BY a <= b \/ b <= a
<1> QED BY <1>1 DEF Max

LEMMA PrefixFacts ==
  ASSUME NEW S, NEW s \in Seq(S), NEW n \in Nat, n <= Len(s)
  PROVE  /\ SubSeq(s, 1, n) \in Seq(S)
         /\ Len(SubSeq(s, 1, n)) = n
         /\ \A i \in 1 .. n : SubSeq(s, 1, n)[i] = s[i]
BY PrefixType, SubSeqProperties, LenProperties

LEMMA ReverseFacts ==
  ASSUME NEW S, NEW s \in Seq(S)
  PROVE  /\ Reverse(s) \in Seq(S) /\ Len(Reverse(s)) = Len(s)
         /\ \A i \in 1 .. Len(s) : Reverse(s)[i] = s[(Len(s) - i) + 1]
<1>1. Len(s) \in Nat
  BY LenProperties
<1>2. \A i \in 1 .. Len(s) : s[(Len(s) - i) + 1] \in S
  BY <1>1, ElementOfSeq
<1>3. Reverse(s) \in [1 .. Len(s) -> S]
  BY <1>2 DEF Reverse
<1>4. Reverse(s) \in Seq(S) /\ Len(Reverse(s)) = Len(s)
  BY <1>1, <1>3, IsASeq, LenProperties
<1> QED BY <1>4 DEF Reverse

\* The in-memory storage shows the log from its end, down to the limit.
LEMMA MemoryFacts ==
  ASSUME NEW S, NEW logs \in Seq(S), NEW limit \in Limits \cup {NoLimit}
  PROVE  LET shown == MemoryListing(logs, limit) IN
         /\ shown \in Seq(S)
         /\ Len(shown) <= Len(logs)
         /\ \A i \in 1 .. Len(shown) : shown[i] = logs[(Len(logs) - i) + 1]
         /\ Len(shown) < Len(logs) => limit # NoLimit /\ Len(shown) = limit
         /\ limit # NoLimit => Len(shown) <= limit
<1> DEFINE rows == IF limit = NoLimit THEN Len(logs) ELSE Min({limit, Len(logs)})
<1>1. limit # NoLimit => limit \in Nat
  BY LimitsAssumption
<1>2. Len(logs) \in Nat
  BY LenProperties
<1>3. /\ rows \in Nat /\ rows <= Len(logs)
      /\ rows < Len(logs) => limit # NoLimit /\ rows = limit
      /\ limit # NoLimit => rows <= limit
  BY <1>1, <1>2, MinCases
<1>4. MemoryListing(logs, limit) = SubSeq(Reverse(logs), 1, rows)
  BY DEF MemoryListing
<1> HIDE DEF rows
<1> QED BY <1>2, <1>3, <1>4, ReverseFacts, PrefixFacts

\* The database sorts the entries of the log, each once.
LEMMA ArrangementFacts ==
  ASSUME NEW logs \in Seq(Entry), NEW s \in Arrangements(logs)
  PROVE  /\ s \in Seq(Entry)
         /\ IsFiniteSet(ToSet(logs)) /\ Len(s) = Cardinality(ToSet(logs))
         /\ \A i \in 1 .. Len(s) : s[i] \in ToSet(logs)
         /\ \A log \in ToSet(logs) : \E p \in 1 .. Len(s) : s[p] = log
         /\ \A i, j \in 1 .. Len(s) : i < j => s[i].time >= s[j].time
<1> DEFINE all == ToSet(logs)
<1>1. s \in SetToSeqs(all) /\ Sorted(s)
  BY DEF Arrangements
<1>2. all \subseteq Entry /\ IsFiniteSet(all)
  <2>1. logs \in [1 .. Len(logs) -> Entry] /\ DOMAIN logs = 1 .. Len(logs) /\ Len(logs) \in Nat
    BY LenProperties
  <2>2. all \subseteq Entry /\ logs \in Surjection(1 .. Len(logs), all)
    BY <2>1 DEF ToSet, Surjection
  <2> QED BY <2>1, <2>2, FS_Surjection, FS_Interval
<1>3. Cardinality(all) \in Nat
  BY <1>2, FS_CardinalityType
<1> HIDE DEF all
<1>4. s \in [1 .. Cardinality(all) -> all] /\ s \in Surjection(1 .. Cardinality(all), all)
  <2>1. s \in [1 .. Cardinality(all) -> all] /\ s \in Injection(1 .. Cardinality(all), all)
    BY <1>1 DEF SetToSeqs, Injection, IsInjective
  <2>2. Cardinality(1 .. Cardinality(all)) = Cardinality(all)
    BY <1>3, FS_Interval
  <2> QED BY <1>2, <2>1, <2>2, FS_Injection
<1>5. s \in Seq(Entry) /\ Len(s) = Cardinality(all)
  <2>1. s \in [1 .. Cardinality(all) -> Entry]
    BY <1>2, <1>4
  <2> QED BY <1>3, <2>1, IsASeq, LenProperties
<1>6. \A i \in 1 .. Len(s) : s[i] \in all
  BY <1>4, <1>5
<1>7. \A log \in all : \E p \in 1 .. Len(s) : s[p] = log
  BY <1>4, <1>5 DEF Surjection
<1>8. \A i, j \in 1 .. Len(s) : i < j => s[i].time >= s[j].time
  BY <1>1, <1>4, <1>5 DEF Sorted
<1> QED BY <1>2, <1>5, <1>6, <1>7, <1>8 DEF all

\* LIMIT keeps the first rows.
LEMMA CutFacts ==
  ASSUME NEW S, NEW s \in Seq(S), NEW limit \in Limits \cup {NoLimit}
  PROVE  LET shown == Cut(s, limit) IN
         /\ shown \in Seq(S)
         /\ Len(shown) <= Len(s)
         /\ \A i \in 1 .. Len(shown) : shown[i] = s[i]
         /\ Len(shown) < Len(s) =>
              IF limit = NoLimit THEN Len(shown) = DefaultLimit ELSE Len(shown) >= limit
         /\ limit \notin {0, NoLimit} => Len(shown) <= limit
<1> DEFINE rows == Max({1, IF limit = NoLimit THEN DefaultLimit ELSE limit})
           n    == Min({rows, Len(s)})
<1>1. limit # NoLimit => limit \in Nat
  BY LimitsAssumption
<1>2. Len(s) \in Nat
  BY LenProperties
<1>3. /\ rows \in Nat
      /\ IF limit = NoLimit THEN rows = DefaultLimit ELSE rows >= limit
      /\ limit \notin {0, NoLimit} => rows = limit
  BY <1>1, DefaultLimitAssumption, MaxCases
<1> HIDE DEF rows
<1>4. n \in Nat /\ n <= Len(s) /\ n <= rows /\ (n < Len(s) => n = rows)
  BY <1>2, <1>3, MinCases
<1>5. Cut(s, limit) = SubSeq(s, 1, n)
  BY DEF Cut, rows
<1> HIDE DEF n
<1>6. /\ Cut(s, limit) \in Seq(S) /\ Len(Cut(s, limit)) = n
      /\ \A i \in 1 .. n : Cut(s, limit)[i] = s[i]
  BY <1>4, <1>5, PrefixFacts
<1>7. n < Len(s) => IF limit = NoLimit THEN n = DefaultLimit ELSE n >= limit
  BY <1>3, <1>4
<1>8. limit \notin {0, NoLimit} => n <= limit
  BY <1>3, <1>4
<1> QED BY <1>4, <1>6, <1>7, <1>8

\* The database shows entries of the log, later time stamps first, and leaves one
\* out only for as many, none of them with an earlier time stamp, as it lists.
LEMMA PostgresFacts ==
  ASSUME NEW logs \in Seq(Entry), NEW limit \in Limits \cup {NoLimit},
         NEW shown \in PostgresListings(logs, limit)
  PROVE  /\ shown \in Seq(Entry)
         /\ \A i \in 1 .. Len(shown) : shown[i] \in ToSet(logs)
         /\ \A i, j \in 1 .. Len(shown) : i < j => shown[i].time >= shown[j].time
         /\ \A log \in ToSet(logs) \ Range(shown) :
              /\ IF limit = NoLimit THEN Len(shown) = DefaultLimit ELSE Len(shown) >= limit
              /\ \A i \in 1 .. Len(shown) : shown[i].time >= log.time
<1> DEFINE all == ToSet(logs)
           n == Len(shown)
<1>1. PICK s \in Arrangements(logs) : shown = Cut(s, limit)
  BY DEF PostgresListings
<1>2. /\ s \in Seq(Entry)
      /\ \A i \in 1 .. Len(s) : s[i] \in all
      /\ \A log \in all : \E p \in 1 .. Len(s) : s[p] = log
      /\ \A i, j \in 1 .. Len(s) : i < j => s[i].time >= s[j].time
  BY ArrangementFacts
<1>3. /\ shown \in Seq(Entry) /\ n <= Len(s)
      /\ \A i \in 1 .. n : shown[i] = s[i]
      /\ n < Len(s) => IF limit = NoLimit THEN n = DefaultLimit ELSE n >= limit
  BY <1>1, <1>2, CutFacts
<1>4. Len(s) \in Nat /\ n \in Nat /\ DOMAIN shown = 1 .. n
  BY <1>2, <1>3, LenProperties
<1> HIDE DEF all, n
<1>5. \A i \in 1 .. n : shown[i] \in all
  BY <1>2, <1>3, <1>4
<1>6. \A i, j \in 1 .. n : i < j => shown[i].time >= shown[j].time
  BY <1>2, <1>3, <1>4
<1>7. ASSUME NEW log \in all \ Range(shown)
      PROVE  n < Len(s) /\ \A i \in 1 .. n : shown[i].time >= log.time
  <2>1. PICK p \in 1 .. Len(s) : s[p] = log
    BY <1>2
  <2>2. ~(p \in 1 .. n)
    BY <1>3, <1>4, <1>7, <2>1 DEF Range
  <2>3. p > n /\ n < Len(s)
    BY <1>4, <2>1, <2>2
  <2>4. ASSUME NEW i \in 1 .. n PROVE shown[i].time >= log.time
    <3>1. i \in 1 .. Len(s) /\ i < p
      BY <1>4, <2>1, <2>3
    <3> QED BY <1>2, <1>3, <2>1, <3>1
  <2> QED BY <2>3, <2>4
<1> QED BY <1>3, <1>5, <1>6, <1>7 DEF all, n
------------------------------------------------------------------------------
(***************************************************************************)
(* The invariant of the listings.                                          *)
(***************************************************************************)
LEMMA LogType ==
  ASSUME IInv, NEW b \in {"InMemory", "Postgres"}
  PROVE  /\ DOMAIN store = {"InMemory", "Postgres"}
         /\ store[b].logs \in Seq(Entry) /\ Len(store[b].logs) \in Nat
         /\ DOMAIN store[b].logs = 1 .. Len(store[b].logs)
         /\ \A i \in 1 .. Len(store[b].logs) :
              /\ store[b].logs[i] \in Range(store[b].logs)
              /\ store[b].logs[i] \in Entry
         /\ \A log \in Range(store[b].logs) :
              /\ log \in Entry
              /\ \E i \in 1 .. Len(store[b].logs) : store[b].logs[i] = log
<1>1. DOMAIN store = {"InMemory", "Postgres"} /\ store[b].logs \in Seq(Entry)
  BY DEF IInv, TypeOK
<1>2. Len(store[b].logs) \in Nat /\ DOMAIN store[b].logs = 1 .. Len(store[b].logs)
  BY <1>1, LenProperties
<1>3. \A i \in 1 .. Len(store[b].logs) : store[b].logs[i] \in Entry
  BY <1>1, <1>2, ElementOfSeq
<1> QED BY <1>1, <1>2, <1>3 DEF Range

\* What a listing has when it is made, in terms of who was answered before whom.
LEMMA FreshListing ==
  ASSUME IInv, OrderInv, NEW b \in {"InMemory", "Postgres"}, NEW limit \in Limits \cup {NoLimit},
         NEW shown \in Listings(b, store[b].logs, limit)
  PROVE  /\ shown \in Seq(Entry)
         /\ \A i \in DOMAIN shown : shown[i] \in Range(store[b].logs)
         /\ \A i, j \in DOMAIN shown :
              i < j /\ shown[i].call \in calls[shown[j].call].after =>
                b = "Postgres" /\ shown[i].time = shown[j].time
         /\ \A log \in Range(store[b].logs) \ Range(shown) :
              /\ IF limit = NoLimit THEN b = "Postgres" /\ Len(shown) = DefaultLimit
                 ELSE Len(shown) >= limit
              /\ \A i \in DOMAIN shown :
                   shown[i].call \in calls[log.call].after =>
                     b = "Postgres" /\ shown[i].time = log.time
<1> DEFINE logs == store[b].logs
<1>1. /\ logs \in Seq(Entry) /\ Len(logs) \in Nat /\ DOMAIN logs = 1 .. Len(logs)
      /\ \A i \in 1 .. Len(logs) : logs[i] \in Range(logs) /\ logs[i] \in Entry
      /\ \A log \in Range(logs) : log \in Entry /\ \E i \in 1 .. Len(logs) : logs[i] = log
  BY LogType
<1>2. \A i, j \in 1 .. Len(logs) :
        logs[i].call \in calls[logs[j].call].after => i < j /\ logs[i].time <= logs[j].time
  BY <1>1, LogType DEF OrderInv
<1>3. \A log \in Range(logs) : log.time \in Nat
  BY <1>1 DEF Entry
<1> HIDE DEF logs
<1>4. \A log, other \in Range(logs) :
        log.call \in calls[other.call].after => log.time <= other.time
  BY <1>1, <1>2
<1>5. CASE b = "InMemory"
  <2>1. shown = MemoryListing(logs, limit)
    BY <1>5 DEF Listings, logs
  <2>2. /\ shown \in Seq(Entry) /\ Len(shown) <= Len(logs)
        /\ \A i \in 1 .. Len(shown) : shown[i] = logs[(Len(logs) - i) + 1]
        /\ Len(shown) < Len(logs) => limit # NoLimit /\ Len(shown) = limit
    BY <1>1, <2>1, MemoryFacts
  <2>3. Len(shown) \in Nat /\ DOMAIN shown = 1 .. Len(shown)
    BY <2>2, LenProperties
  <2>4. \A i \in DOMAIN shown : (Len(logs) - i) + 1 \in 1 .. Len(logs)
    BY <1>1, <2>2, <2>3
  <2>5. \A i \in DOMAIN shown : shown[i] \in Range(logs)
    BY <1>1, <2>2, <2>3, <2>4
  <2>6. ASSUME NEW i \in DOMAIN shown, NEW j \in DOMAIN shown, i < j,
               shown[i].call \in calls[shown[j].call].after
        PROVE  FALSE
    <3> DEFINE k == (Len(logs) - i) + 1
               l == (Len(logs) - j) + 1
    <3>1. k \in 1 .. Len(logs) /\ l \in 1 .. Len(logs) /\ shown[i] = logs[k] /\ shown[j] = logs[l]
      BY <2>2, <2>3, <2>4
    <3>2. ~(k < l)
      BY <1>1, <2>3, <2>6
    <3> HIDE DEF k, l
    <3> QED BY <1>2, <2>6, <3>1, <3>2
  <2>7. ASSUME NEW log \in Range(logs) \ Range(shown)
        PROVE  /\ Len(shown) < Len(logs)
               /\ \A i \in DOMAIN shown : ~(shown[i].call \in calls[log.call].after)
    <3>1. PICK k \in 1 .. Len(logs) : logs[k] = log
      BY <1>1
    <3>2. k <= Len(logs) - Len(shown)
      <4>1. ASSUME k > Len(logs) - Len(shown) PROVE FALSE
        <5>1. (Len(logs) - k) + 1 \in 1 .. Len(shown) /\ (Len(logs) - ((Len(logs) - k) + 1)) + 1 = k
          BY <1>1, <2>3, <4>1
        <5>2. shown[(Len(logs) - k) + 1] = log
          BY <2>2, <3>1, <5>1
        <5> QED BY <2>3, <2>7, <5>1, <5>2 DEF Range
      <4> QED BY <1>1, <2>3, <4>1
    <3>3. ASSUME NEW i \in DOMAIN shown, shown[i].call \in calls[log.call].after PROVE FALSE
      <4>1. (Len(logs) - i) + 1 < k
        BY <1>2, <2>2, <2>3, <2>4, <3>1, <3>3
      <4> QED BY <1>1, <2>3, <3>2, <4>1
    <3> QED BY <1>1, <2>3, <3>2, <3>3
  <2>8. \A log \in Range(logs) \ Range(shown) : limit # NoLimit /\ Len(shown) >= limit
    BY <2>2, <2>3, <2>7
  <2> QED BY <2>2, <2>5, <2>6, <2>7, <2>8 DEF logs
<1>6. CASE b = "Postgres"
  <2>1. shown \in PostgresListings(logs, limit)
    BY <1>6 DEF Listings, logs
  <2>2. ToSet(logs) = Range(logs)
    BY DEF ToSet, Range
  <2>3. /\ shown \in Seq(Entry)
        /\ \A i \in 1 .. Len(shown) : shown[i] \in Range(logs)
        /\ \A i, j \in 1 .. Len(shown) : i < j => shown[i].time >= shown[j].time
        /\ \A log \in Range(logs) \ Range(shown) :
             /\ IF limit = NoLimit THEN Len(shown) = DefaultLimit ELSE Len(shown) >= limit
             /\ \A i \in 1 .. Len(shown) : shown[i].time >= log.time
    BY <1>1, <2>1, <2>2, PostgresFacts
  <2>4. DOMAIN shown = 1 .. Len(shown)
    BY <2>3, LenProperties
  <2>5. ASSUME NEW i \in DOMAIN shown, NEW j \in DOMAIN shown, i < j,
               shown[i].call \in calls[shown[j].call].after
        PROVE  shown[i].time = shown[j].time
    <3>1. shown[i].time <= shown[j].time /\ shown[i].time >= shown[j].time
      BY <1>4, <2>3, <2>4, <2>5
    <3> QED BY <1>3, <2>3, <2>4, <3>1
  <2>6. ASSUME NEW log \in Range(logs) \ Range(shown), NEW i \in DOMAIN shown,
               shown[i].call \in calls[log.call].after
        PROVE  shown[i].time = log.time
    <3>1. shown[i].time <= log.time /\ shown[i].time >= log.time
      BY <1>4, <2>3, <2>4, <2>6
    <3> QED BY <1>3, <2>3, <2>4, <2>6, <3>1
  <2> QED BY <1>6, <2>3, <2>4, <2>5, <2>6 DEF logs
<1> QED BY <1>5, <1>6

\* What a step keeps of begun requests, and which entries it may add.
LEMMA KeptFacts ==
  ASSUME IInv, ListingInv, StepFacts
  PROVE  /\ \A c \in Call : calls[c].pc # "idle" => Continues(c)
         /\ \A b \in {"InMemory", "Postgres"} : \A log \in Range(store'[b].logs) :
              \/ log \in Range(store[b].logs)
              \/ /\ log.call \in Call /\ calls[log.call].pc = "insert" /\ Inserts(log.call)
                 /\ log.time = calls[log.call].time
<1>1. \A c \in Call : calls[c].pc # "idle" => Continues(c)
  BY DEF StepFacts, Begins, Lists
<1>2. ASSUME NEW b \in {"InMemory", "Postgres"}, NEW log \in Range(store'[b].logs)
      PROVE  \/ log \in Range(store[b].logs)
             \/ /\ log.call \in Call /\ calls[log.call].pc = "insert" /\ Inserts(log.call)
                /\ log.time = calls[log.call].time
  <2>1. CASE LogsKept
    BY <1>2, <2>1 DEF LogsKept, Range
  <2>2. ASSUME NEW c \in Call, Inserts(c)
        PROVE  log \in Range(store[b].logs) \/ (log.call = c /\ log.time = calls[c].time)
    <3> DEFINE s == store[b].logs
               e == [call |-> c, user |-> Mask[calls[c].token], time |-> calls[c].time]
    <3>1. s \in Seq(Entry) /\ Len(s) \in Nat
      BY LogType
    <3>2. e.call = c /\ e.time = calls[c].time
      OBVIOUS
    <3>3. store'[b].logs = s \/ store'[b].logs = Append(s, e)
      BY <2>2 DEF Inserts
    <3> HIDE DEF s, e
    <3>4. \A x \in Range(Append(s, e)) : x \in Range(s) \/ x = e
      BY <3>1 DEF Range
    <3> QED BY <1>2, <3>2, <3>3, <3>4 DEF s
  <2>3. \A c \in Call : Inserts(c) => calls[c].pc = "insert"
    BY DEF Inserts
  <2> QED BY <2>1, <2>2, <2>3 DEF StepFacts
<1> QED BY <1>1, <1>2

LEMMA EntriesStep ==
  ASSUME IInv, ListingInv, StepFacts
  PROVE  EntriesInv'
<1>1. \A c \in Call : calls[c].pc # "idle" => Continues(c)
  BY KeptFacts
<1>2. clock \in Nat /\ clock' \in Nat /\ clock' >= clock /\ calls \in [Call -> CallState]
  BY BoundsAssumption DEF IInv, TypeOK, StepFacts
<1>3. ASSUME NEW b \in {"InMemory", "Postgres"}, NEW log \in Range(store'[b].logs)
      PROVE  calls'[log.call].pc \in PastInsert /\ log.time <= clock'
  <2>1. CASE log \in Range(store[b].logs)
    <3>1. log.call \in Call /\ log.time \in Nat
      BY <2>1, LogType DEF Entry
    <3>2. calls[log.call].pc \in PastInsert /\ log.time <= clock
      BY <2>1, LogType DEF ListingInv, EntriesInv
    <3> QED BY <1>1, <1>2, <3>1, <3>2 DEF Continues, PastInsert
  <2>2. CASE /\ log.call \in Call /\ Inserts(log.call)
             /\ log.time = calls[log.call].time
    <3>1. log.time \in Nat /\ log.time <= clock
      BY <1>2, <2>2 DEF ListingInv, EntriesInv, CallState
    <3> QED BY <1>2, <2>2, <3>1 DEF Inserts
  <2> QED BY <1>3, <2>1, <2>2, KeptFacts
<1>4. ASSUME NEW c \in Call
      PROVE  /\ \A entry \in Range(calls'[c].shown) : calls'[entry.call].pc # "idle"
             /\ \A d \in calls'[c].after : calls'[d].pc = "done"
             /\ calls'[c].time <= clock'
  <2>1. /\ \A entry \in Range(calls[c].shown) : entry.call \in Call
        /\ calls[c].after \subseteq Call
        /\ calls[c].time \in Nat
    <3>1. calls[c] \in CallState
      BY <1>2
    <3>2. calls[c].shown \in Seq(Entry)
      BY <3>1 DEF CallState
    <3>3. \A entry \in Range(calls[c].shown) : entry \in Entry
      BY <3>2, ElementOfSeq, LenProperties DEF Range
    <3> QED BY <3>1, <3>3 DEF CallState, Entry
  <2>2. \A d \in Call : calls[d].pc = "done" => calls'[d].pc = "done"
    BY <1>1 DEF Continues
  <2>3. \A d \in Call : calls[d].pc # "idle" => calls'[d].pc # "idle"
    BY <1>1 DEF Continues
  <2>4. CASE Continues(c)
    <3>1. /\ \A entry \in Range(calls[c].shown) : calls[entry.call].pc # "idle"
          /\ \A d \in calls[c].after : calls[d].pc = "done"
          /\ calls[c].time <= clock
      BY DEF ListingInv, EntriesInv
    <3>2. calls'[c].time <= clock'
      BY <1>2, <2>1, <2>4, <3>1 DEF Continues
    <3> QED BY <2>1, <2>2, <2>3, <2>4, <3>1, <3>2 DEF Continues
  <2>5. ASSUME calls'[c].after \subseteq Answered PROVE \A d \in calls'[c].after : calls'[d].pc = "done"
    BY <2>2, <2>5 DEF Answered
  <2>6. CASE Begins(c)
    <3>1. Range(calls'[c].shown) = {}
      BY <2>6 DEF Begins, Range
    <3> QED BY <1>2, <2>5, <2>6, <3>1 DEF Begins
  <2>7. CASE Lists(c)
    <3> DEFINE b == process.backend
               shown == calls'[c].shown
    <3>1. b \in {"InMemory", "Postgres"} 
      BY <2>7, ProcessFacts DEF Lists, Running, IInv
    <3>2. shown \in Listings(b, store[b].logs, calls'[c].limit) /\ calls'[c].limit \in Limits \cup {NoLimit}
      BY <2>7 DEF Lists
    <3>3. \A i \in DOMAIN shown : shown[i] \in Range(store[b].logs)
      <4> HIDE DEF shown, b
      <4> QED BY <3>1, <3>2, FreshListing DEF ListingInv
    <3>4. \A log \in Range(store[b].logs) : calls[log.call].pc # "idle" /\ log.call \in Call
      BY <3>1, LogType DEF ListingInv, EntriesInv, Entry, PastInsert
    <3>5. \A entry \in Range(shown) : calls'[entry.call].pc # "idle"
      BY <2>3, <3>3, <3>4 DEF Range
    <3> QED BY <1>2, <2>5, <2>7, <3>1, <3>5 DEF Lists
  <2> QED BY <2>4, <2>6, <2>7 DEF StepFacts
<1>5. DOMAIN store' = {"InMemory", "Postgres"}
  BY DEF StepFacts
<1>6. ASSUME NEW b \in {"InMemory", "Postgres"},
             NEW i \in DOMAIN store'[b].logs, NEW j \in DOMAIN store'[b].logs, i # j
      PROVE  store'[b].logs[i].call # store'[b].logs[j].call
  <2> DEFINE s == store[b].logs
             n == Len(store[b].logs)
  <2>1. s \in Seq(Entry) /\ n \in Nat /\ n = Len(s) /\ DOMAIN s = 1 .. n /\ \A k \in 1 .. n : s[k] \in Range(s)
    BY LogType
  <2>2. \A k, l \in 1 .. n : k # l => s[k].call # s[l].call
    <3>1. b \in DOMAIN store
      BY LogType
    <3>2. \A k, l \in DOMAIN s : k # l => s[k].call # s[l].call
      BY <3>1 DEF ListingInv, EntriesInv
    <3> QED BY <2>1, <3>2
  <2>3. \A k \in 1 .. n : calls[s[k].call].pc \in PastInsert
    <3>1. \A log \in Range(s) : calls[log.call].pc \in PastInsert
      BY LogType DEF ListingInv, EntriesInv
    <3> QED BY <2>1, <3>1
  <2> HIDE DEF s, n
  <2>4. CASE store'[b].logs = s
    BY <1>6, <2>1, <2>2, <2>4
  <2>5. CASE store'[b].logs = <<>>
    BY <1>6, <2>5
  <2>6. ASSUME NEW c \in Call, Inserts(c)
        PROVE  store'[b].logs[i].call # store'[b].logs[j].call
    <3> DEFINE e == [call |-> c, user |-> Mask[calls[c].token], time |-> calls[c].time]
               t == Append(s, e)
    <3>1. store'[b].logs = s \/ store'[b].logs = t
      BY <2>6 DEF Inserts, s
    <3>2. e.call = c /\ \A k \in 1 .. n : s[k].call # c
      BY <2>3, <2>6 DEF Inserts, PastInsert
    <3> HIDE DEF e
    <3>3. /\ DOMAIN t = 1 .. (n + 1) /\ t[n + 1] = e
          /\ \A k \in 1 .. n : t[k] = s[k]
      BY <2>1
    <3> HIDE DEF t
    <3>4. \A k, l \in 1 .. (n + 1) : k # l => t[k].call # t[l].call
      <4>1. \A k \in 1 .. (n + 1) : k \in 1 .. n \/ k = n + 1
        BY <2>1
      <4> QED BY <2>2, <3>2, <3>3, <4>1
    <3> QED BY <1>6, <2>4, <3>1, <3>3, <3>4
  <2>7. LogsKept => store'[b].logs = s \/ store'[b].logs = <<>>
    BY DEF LogsKept, s
  <2> QED BY <2>4, <2>5, <2>6, <2>7 DEF StepFacts
<1> QED BY <1>3, <1>4, <1>5, <1>6 DEF EntriesInv

LEMMA OrderStep ==
  ASSUME IInv, ListingInv, StepFacts
  PROVE  OrderInv'
<1>1. \A c \in Call : calls[c].pc # "idle" => Continues(c)
  BY KeptFacts
<1>2. DOMAIN store' = {"InMemory", "Postgres"} /\ calls \in [Call -> CallState]
  BY DEF StepFacts, IInv, TypeOK
<1>3. \A c, d \in Call : calls[c].pc = "insert" => ~(c \in calls[d].after)
  BY DEF ListingInv, EntriesInv
<1>4. ASSUME NEW b \in {"InMemory", "Postgres"}
      PROVE  \A log \in Range(store[b].logs) :
               /\ log.call \in Call /\ log.time \in Nat /\ log.time <= clock
               /\ calls[log.call].pc # "idle"
               /\ calls'[log.call].after = calls[log.call].after
  <2>1. \A log \in Range(store[b].logs) :
          log.call \in Call /\ log.time \in Nat /\ log.time <= clock /\ calls[log.call].pc \in PastInsert
    BY LogType DEF ListingInv, EntriesInv, Entry
  <2> QED BY <1>1, <2>1 DEF Continues, PastInsert
<1>5. ASSUME NEW b \in {"InMemory", "Postgres"},
             NEW i \in DOMAIN store'[b].logs, NEW j \in DOMAIN store'[b].logs,
             store'[b].logs[i].call \in calls'[store'[b].logs[j].call].after
      PROVE  i < j /\ store'[b].logs[i].time <= store'[b].logs[j].time
  <2> DEFINE s == store[b].logs
             n == Len(store[b].logs)
  <2>1. s \in Seq(Entry) /\ n \in Nat /\ n = Len(s) /\ DOMAIN s = 1 .. n /\ \A k \in 1 .. n : s[k] \in Range(s)
    BY LogType
  <2>2. \A k, l \in 1 .. n : s[k].call \in calls[s[l].call].after => k < l /\ s[k].time <= s[l].time
    BY <2>1, LogType DEF ListingInv, OrderInv
  <2>3. \A log \in Range(s) : /\ log.call \in Call
                              /\ calls'[log.call].after = calls[log.call].after
    BY <1>4
  <2>4. \A log \in Range(s) : \A c \in Call :
          calls[c].pc = "insert" /\ log.call \in calls[c].after => log.time <= calls[c].time
    BY LogType DEF ListingInv, OrderInv
  <2>5. CASE store'[b].logs = s
    <3> HIDE DEF s, n
    <3> QED BY <1>5, <2>1, <2>2, <2>3, <2>5
  <2>6. CASE store'[b].logs = <<>>
    BY <1>5, <2>6
  <2>7. ASSUME NEW c \in Call, Inserts(c), \A d \in Call : Continues(d), b = process.backend
        PROVE  i < j /\ store'[b].logs[i].time <= store'[b].logs[j].time
    <3> DEFINE e == [call |-> c, user |-> Mask[calls[c].token], time |-> calls[c].time]
               t == Append(s, e)
    <3>1. store'[b].logs = t /\ calls[c].pc = "insert"
      BY <2>7 DEF Inserts
    <3>2. e.call = c /\ e.time = calls[c].time /\ calls'[c].after = calls[c].after
      BY <2>7 DEF Continues
    <3> HIDE DEF e, s, n
    <3>3. /\ DOMAIN t = 1 .. (n + 1) /\ t[n + 1] = e
          /\ \A k \in 1 .. n : t[k] = s[k]
      BY <2>1
    <3> HIDE DEF t
    <3>4. i \in 1 .. (n + 1) /\ j \in 1 .. (n + 1) /\ t[i].call \in calls'[t[j].call].after
      BY <1>5, <3>1, <3>3
    <3>5. t[j].call \in Call /\ calls'[t[j].call].after = calls[t[j].call].after
      <4>1. CASE j = n + 1
        BY <3>2, <3>3, <4>1
      <4>2. CASE j \in 1 .. n
        BY <2>1, <2>3, <3>3, <4>2
      <4> QED BY <2>1, <3>4, <4>1, <4>2
    <3>6. i \in 1 .. n
      <4>1. ASSUME i = n + 1 PROVE FALSE
        BY <1>3, <3>1, <3>2, <3>3, <3>4, <3>5, <4>1
      <4> QED BY <2>1, <3>4, <4>1
    <3>7. CASE j \in 1 .. n
      BY <2>2, <3>1, <3>3, <3>4, <3>5, <3>6, <3>7
    <3>8. CASE j = n + 1
      BY <2>1, <2>4, <3>1, <3>2, <3>3, <3>4, <3>5, <3>6, <3>8
    <3> QED BY <2>1, <3>4, <3>7, <3>8
  <2>8. ASSUME NEW c \in Call, Inserts(c), b # process.backend
        PROVE  store'[b].logs = s
    BY <2>8 DEF Inserts
  <2> HIDE DEF s, n
  <2>9. LogsKept => store'[b].logs = s \/ store'[b].logs = <<>>
    BY DEF LogsKept, s
  <2> QED BY <2>5, <2>6, <2>7, <2>8, <2>9 DEF StepFacts
<1>6. ASSUME NEW b \in {"InMemory", "Postgres"}, NEW log \in Range(store'[b].logs), NEW c \in Call,
             calls'[c].pc = "insert", log.call \in calls'[c].after
      PROVE  log.time <= calls'[c].time
  <2>1. Continues(c)
    BY <1>6 DEF StepFacts, Begins, Lists
  <2>2. log.call \in calls[c].after
    BY <1>6, <2>1 DEF Continues
  <2>3. log \in Range(store[b].logs)
    BY <1>3, <1>6, <2>2, KeptFacts
  <2>4. log.time <= clock
    BY <1>4, <2>3
  <2>5. calls[c].pc = "insert" => log.time <= calls[c].time
    BY <2>2, <2>3, LogType DEF ListingInv, OrderInv
  <2>6. log.time <= clock'
    <3>1. log.time \in Nat /\ clock \in Nat /\ clock' \in Nat /\ clock' >= clock
      BY <1>4, <2>3, BoundsAssumption DEF IInv, TypeOK, StepFacts
    <3> QED BY <2>4, <3>1
  <2> QED BY <1>6, <2>1, <2>5, <2>6 DEF Continues
<1> QED BY <1>2, <1>5, <1>6 DEF OrderInv

LEMMA ListedStep ==
  ASSUME IInv, ListingInv, ListedNewestFirst, ListingComplete, StepFacts
  PROVE  ListedNewestFirst' /\ ListingComplete'
<1>1. \A c \in Call : calls[c].pc # "idle" => Continues(c)
  BY KeptFacts
<1>2. DOMAIN store' = {"InMemory", "Postgres"} /\ calls \in [Call -> CallState]
  BY DEF StepFacts, IInv, TypeOK
<1>3. \A d \in Call : calls[d].pc # "idle" => calls'[d].after = calls[d].after
  BY <1>1 DEF Continues
<1>4. ASSUME NEW b \in {"InMemory", "Postgres"}, NEW log \in Range(store[b].logs)
      PROVE  log.call \in Call /\ calls'[log.call].after = calls[log.call].after
  BY <1>3, <1>4, LogType DEF ListingInv, EntriesInv, Entry, PastInsert
<1>5. ASSUME NEW c \in Call, NEW i \in DOMAIN calls[c].shown
      PROVE  LET entry == calls[c].shown[i] IN
             entry.call \in Call /\ calls'[entry.call].after = calls[entry.call].after
  <2>1. calls[c].shown \in Seq(Entry)
    BY <1>2 DEF CallState
  <2>2. calls[c].shown[i] \in Entry /\ calls[c].shown[i] \in Range(calls[c].shown)
    BY <2>1, ElementOfSeq, LenProperties DEF Range
  <2> QED BY <1>3, <2>2 DEF ListingInv, EntriesInv, Entry
<1>6. ASSUME NEW c \in Call, Lists(c), NEW b, b = process.backend,
             NEW shown, shown = calls'[c].shown, NEW limit, limit = calls'[c].limit
      PROVE  /\ b \in {"InMemory", "Postgres"} /\ b = calls'[c].backend
             /\ \A i \in DOMAIN shown : shown[i] \in Range(store[b].logs)
             /\ \A i, j \in DOMAIN shown :
                  i < j /\ shown[i].call \in calls[shown[j].call].after =>
                    b = "Postgres" /\ shown[i].time = shown[j].time
             /\ \A log \in Range(store[b].logs) \ Range(shown) :
                  /\ IF limit = NoLimit THEN b = "Postgres" /\ Len(shown) = DefaultLimit
                     ELSE Len(shown) >= limit
                  /\ \A i \in DOMAIN shown :
                       shown[i].call \in calls[log.call].after =>
                         b = "Postgres" /\ shown[i].time = log.time
  <2>1. b \in {"InMemory", "Postgres"} /\ b = calls'[c].backend
    BY <1>6, ProcessFacts DEF Lists, Running, IInv
  <2>2. shown \in Listings(b, store[b].logs, limit) /\ limit \in Limits \cup {NoLimit}
    BY <1>6 DEF Lists
  <2>3. OrderInv
    BY DEF ListingInv
  <2> QED BY <2>1, <2>2, <2>3, FreshListing
<1>7. ASSUME NEW c \in Call, NEW i \in DOMAIN calls'[c].shown, NEW j \in DOMAIN calls'[c].shown,
             i < j, calls'[c].shown[i].call \in calls'[calls'[c].shown[j].call].after
      PROVE  /\ calls'[c].backend = "Postgres"
             /\ calls'[c].shown[i].time = calls'[c].shown[j].time
  <2>1. CASE Continues(c)
    <3>1. calls'[c].shown = calls[c].shown /\ calls'[c].backend = calls[c].backend
      BY <2>1 DEF Continues
    <3>2. calls[c].shown[i].call \in calls[calls[c].shown[j].call].after
      BY <1>5, <1>7, <3>1
    <3> QED BY <1>7, <3>1, <3>2 DEF ListedNewestFirst
  <2>2. CASE Begins(c)
    BY <1>7, <2>2 DEF Begins
  <2>3. CASE Lists(c)
    <3> DEFINE shown == calls'[c].shown
               b == process.backend
    <3>1. /\ b \in {"InMemory", "Postgres"} /\ b = calls'[c].backend
          /\ \A k \in DOMAIN shown : shown[k] \in Range(store[b].logs)
          /\ \A k, l \in DOMAIN shown :
               k < l /\ shown[k].call \in calls[shown[l].call].after =>
                 b = "Postgres" /\ shown[k].time = shown[l].time
      BY <1>6, <2>3
    <3>2. shown[i].call \in calls[shown[j].call].after
      BY <1>4, <1>7, <3>1
    <3> QED BY <1>7, <3>1, <3>2
  <2> QED BY <2>1, <2>2, <2>3 DEF StepFacts
<1>8. ASSUME NEW c \in Call, calls'[c].backend # "down",
             NEW log \in Range(store'[calls'[c].backend].logs),
             log.call \in calls'[c].after, log \notin Range(calls'[c].shown)
      PROVE  /\ IF calls'[c].limit = NoLimit
                THEN calls'[c].backend = "Postgres" /\ Len(calls'[c].shown) = DefaultLimit
                ELSE Len(calls'[c].shown) >= calls'[c].limit
             /\ \A other \in Range(calls'[c].shown) :
                  other.call \in calls'[log.call].after =>
                    calls'[c].backend = "Postgres" /\ other.time = log.time
  <2>1. CASE Continues(c)
    <3> DEFINE b == calls[c].backend
    <3>1. /\ calls'[c].shown = calls[c].shown /\ calls'[c].backend = b
          /\ calls'[c].limit = calls[c].limit /\ calls'[c].after = calls[c].after
      BY <2>1 DEF Continues
    <3>2. b \in {"InMemory", "Postgres"}
      BY <1>2, <1>8, <3>1 DEF CallState
    <3>3. \A d \in calls[c].after : calls[d].pc = "done"
      BY DEF ListingInv, EntriesInv
    <3>4. log \in Range(store[b].logs)
      BY <1>8, <3>1, <3>2, <3>3, KeptFacts
    <3>5. calls'[log.call].after = calls[log.call].after
      BY <1>4, <3>2, <3>4
    <3>6. log.call \in calls[c].after /\ log \notin Range(calls[c].shown) /\ calls[c].backend # "down"
      BY <1>8, <3>1
    <3>7. /\ IF calls[c].limit = NoLimit
             THEN calls[c].backend = "Postgres" /\ Len(calls[c].shown) = DefaultLimit
             ELSE Len(calls[c].shown) >= calls[c].limit
          /\ \A other \in Range(calls[c].shown) :
               other.call \in calls[log.call].after =>
                 calls[c].backend = "Postgres" /\ other.time = log.time
      BY <3>4, <3>6 DEF ListingComplete
    <3> QED BY <3>1, <3>5, <3>7
  <2>2. CASE Begins(c)
    BY <1>8, <2>2 DEF Begins
  <2>3. CASE Lists(c) /\ LogsKept
    <3> DEFINE shown == calls'[c].shown
               b == process.backend
               limit == calls'[c].limit
    <3>1. shown = calls'[c].shown /\ b = process.backend /\ limit = calls'[c].limit
      OBVIOUS
    <3> HIDE DEF shown, b, limit
    <3>2. /\ b \in {"InMemory", "Postgres"} /\ b = calls'[c].backend
          /\ \A x \in Range(store[b].logs) \ Range(shown) :
               /\ IF limit = NoLimit THEN b = "Postgres" /\ Len(shown) = DefaultLimit
                  ELSE Len(shown) >= limit
               /\ \A i \in DOMAIN shown :
                    shown[i].call \in calls[x.call].after =>
                      b = "Postgres" /\ shown[i].time = x.time
      BY <1>6, <2>3, <3>1
    <3>3. log \in Range(store[b].logs)
      <4>1. store'[b].logs = store[b].logs \/ store'[b].logs = <<>>
        BY <2>3, <3>2 DEF LogsKept
      <4>2. log \in Range(store'[b].logs)
        BY <1>8, <3>2
      <4> QED BY <4>1, <4>2 DEF Range
    <3>4. calls'[log.call].after = calls[log.call].after
      BY <1>4, <3>2, <3>3
    <3>5. log \in Range(store[b].logs) \ Range(shown)
      BY <1>8, <3>1, <3>3
    <3>6. /\ IF limit = NoLimit THEN b = "Postgres" /\ Len(shown) = DefaultLimit
             ELSE Len(shown) >= limit
          /\ \A other \in Range(shown) :
               other.call \in calls'[log.call].after => b = "Postgres" /\ other.time = log.time
      BY <3>2, <3>4, <3>5 DEF Range
    <3> QED BY <3>1, <3>2, <3>6
  <2> QED BY <2>1, <2>2, <2>3 DEF StepFacts
<1>9. ListedNewestFirst'
  BY <1>7 DEF ListedNewestFirst
<1>10. ListingComplete'
  BY <1>8 DEF ListingComplete
<1> QED BY <1>9, <1>10

LEMMA ListingInit == Init => ListingInv
<1> SUFFICES ASSUME Init PROVE ListingInv
  OBVIOUS
<1>1. /\ clock = 0 /\ calls = [c \in Call |-> Fresh]
      /\ store = [b \in {"InMemory", "Postgres"} |-> EmptyStore]
  BY DEF Init
<1>2. /\ Fresh.pc = "idle" /\ Fresh.shown = <<>> /\ Fresh.after = {} /\ Fresh.time = 0
      /\ EmptyStore.logs = <<>>
  BY DEF Fresh, EmptyStore
<1>3. EntriesInv
  BY <1>1, <1>2 DEF EntriesInv, Range
<1>4. OrderInv
  BY <1>1, <1>2 DEF OrderInv, Range
<1> QED BY <1>3, <1>4 DEF ListingInv

LEMMA ListingStep == IInv /\ ListingInv /\ [Next]_vars => ListingInv'
<1> SUFFICES ASSUME IInv, ListingInv, [Next]_vars PROVE ListingInv'
  OBVIOUS
<1>1. StepFacts
  BY StepCases
<1> QED BY <1>1, EntriesStep, OrderStep DEF ListingInv

LEMMA ListedInit == Init => ListedNewestFirst /\ ListingComplete
<1>1. Fresh.shown = <<>> /\ Fresh.backend = "down"
  BY DEF Fresh
<1> QED BY <1>1 DEF Init, ListedNewestFirst, ListingComplete

LEMMA ListedInduction ==
  IInv /\ ListingInv /\ ListedNewestFirst /\ ListingComplete /\ [Next]_vars =>
    (ListedNewestFirst /\ ListingComplete)'
BY StepCases, ListedStep
------------------------------------------------------------------------------
(***************************************************************************)
(* What both storages list of one log.                                     *)
(***************************************************************************)
\* Distinct calls make distinct entries, of which the database has as many rows.
LEMMA DistinctEntries ==
  ASSUME NEW logs \in Seq(Entry),
         \A i, j \in 1 .. Len(logs) : i # j => logs[i].call # logs[j].call
  PROVE  Cardinality(ToSet(logs)) = Len(logs)
<1> DEFINE all == ToSet(logs)
           n   == Len(logs)
<1>1. n \in Nat /\ logs \in [1 .. n -> Entry] /\ DOMAIN logs = 1 .. n
  BY LenProperties
<1>2. /\ \A x \in all : \E i \in 1 .. n : logs[i] = x
      /\ \A i \in 1 .. n : logs[i] \in all
  BY <1>1 DEF ToSet
<1>3. logs \in Bijection(1 .. n, all)
  <2>1. logs \in [1 .. n -> all]
    BY <1>1, <1>2
  <2>2. logs \in Injection(1 .. n, all)
    BY <1>1, <2>1 DEF Injection, IsInjective
  <2>3. logs \in Surjection(1 .. n, all)
    BY <1>2, <2>1 DEF Surjection
  <2> QED BY <2>2, <2>3 DEF Bijection
<1>4. IsFiniteSet(1 .. n) /\ Cardinality(1 .. n) = n
  BY <1>1, FS_Interval
<1> HIDE DEF all, n
<1>5. Cardinality(all) = n
  BY <1>3, <1>4, FS_Bijection DEF ExistsBijection
<1> QED BY <1>5 DEF all, n

LEMMA SameLength ==
  ASSUME NEW logs \in Seq(Entry),
         \A i, j \in 1 .. Len(logs) : i # j => logs[i].call # logs[j].call,
         NEW sorted \in Arrangements(logs), NEW limit \in Limits \cup {NoLimit},
         Len(Cut(sorted, limit)) # Len(MemoryListing(logs, limit))
  PROVE  limit = 0 \/ (limit = NoLimit /\ Len(logs) > DefaultLimit)
<1> DEFINE n        == Len(logs)
           memory   == Len(MemoryListing(logs, limit))
           database == Len(Cut(sorted, limit))
<1>1. limit # NoLimit => limit \in Nat
  BY LimitsAssumption
<1>2. sorted \in Seq(Entry) /\ Len(sorted) = n
  BY ArrangementFacts, DistinctEntries
<1>3. /\ MemoryListing(logs, limit) \in Seq(Entry) /\ memory <= n
      /\ memory < n => limit # NoLimit /\ memory = limit
      /\ limit # NoLimit => memory <= limit
  BY MemoryFacts
<1>4. /\ Cut(sorted, limit) \in Seq(Entry) /\ database <= n
      /\ database < n => IF limit = NoLimit THEN database = DefaultLimit ELSE database >= limit
      /\ limit \notin {0, NoLimit} => database <= limit
  BY <1>2, CutFacts
<1>5. n \in Nat /\ memory \in Nat /\ database \in Nat /\ memory # database
  BY <1>3, <1>4, LenProperties
<1>6. SUFFICES limit = 0 \/ (limit = NoLimit /\ n > DefaultLimit)
  OBVIOUS
<1> HIDE DEF n, memory, database
<1>7. CASE limit = NoLimit
  BY <1>3, <1>4, <1>5, <1>7, DefaultLimitAssumption
<1>8. CASE limit \notin {0, NoLimit}
  BY <1>1, <1>3, <1>4, <1>5, <1>8
<1> QED BY <1>7, <1>8

\* The in-memory storage has y before x only if y was inserted later.
LEMMA MemoryPrefers ==
  ASSUME NEW logs \in Seq(Entry), NEW limit \in Limits \cup {NoLimit},
         NEW i \in 1 .. Len(logs), NEW y, y # logs[i],
         Prefers(MemoryListing(logs, limit), y, logs[i])
  PROVE  \E j \in 1 .. Len(logs) : i < j /\ logs[j] = y
<1> DEFINE shown == MemoryListing(logs, limit)
           n == Len(logs)
<1>1. /\ shown \in Seq(Entry) /\ Len(shown) <= n
      /\ \A k \in 1 .. Len(shown) : shown[k] = logs[(n - k) + 1]
  BY MemoryFacts
<1>2. n \in Nat /\ Len(shown) \in Nat /\ DOMAIN shown = 1 .. Len(shown)
  BY <1>1, LenProperties
<1>3. PICK k \in DOMAIN shown : shown[k] = y /\ \A l \in DOMAIN shown : shown[l] = logs[i] => k < l
  BY DEF Prefers
<1> DEFINE j == (n - k) + 1
<1> HIDE DEF shown, n
<1>4. j \in 1 .. n /\ logs[j] = y
  BY <1>1, <1>2, <1>3
<1>5. ~(j < i)
  <2>1. ASSUME j < i PROVE FALSE
    <3> DEFINE l == (n - i) + 1
    <3>1. i \in 1 .. n
      BY DEF n
    <3>2. l \in 1 .. Len(shown) /\ l < k /\ (n - l) + 1 = i
      BY <1>1, <1>2, <1>3, <2>1, <3>1
    <3> HIDE DEF l
    <3>3. shown[l] = logs[i]
      BY <1>1, <3>2
    <3>4. k < l
      BY <1>2, <1>3, <3>2, <3>3
    <3> QED BY <1>2, <1>3, <3>2, <3>4
  <2> QED BY <2>1
<1>6. i < j
  <2>1. j # i /\ i \in 1 .. n
    BY <1>4 DEF n
  <2> QED BY <1>2, <1>4, <1>5, <2>1
<1> QED BY <1>4, <1>6 DEF n

\* The database has x before y only if y took no later time stamp.
LEMMA DatabasePrefers ==
  ASSUME NEW logs \in Seq(Entry), NEW sorted \in Arrangements(logs),
         NEW limit \in Limits \cup {NoLimit},
         NEW x, NEW y \in ToSet(logs), Prefers(Cut(sorted, limit), x, y)
  PROVE  x.time >= y.time
<1> DEFINE shown == Cut(sorted, limit)
<1>1. /\ sorted \in Seq(Entry)
      /\ \E p \in 1 .. Len(sorted) : sorted[p] = y
      /\ \A k, l \in 1 .. Len(sorted) : k < l => sorted[k].time >= sorted[l].time
  BY ArrangementFacts
<1>2. /\ shown \in Seq(Entry) /\ Len(shown) <= Len(sorted)
      /\ \A k \in 1 .. Len(shown) : shown[k] = sorted[k]
  BY <1>1, CutFacts
<1>3. Len(sorted) \in Nat /\ Len(shown) \in Nat /\ DOMAIN shown = 1 .. Len(shown)
  BY <1>1, <1>2, LenProperties
<1>4. PICK k \in DOMAIN shown : shown[k] = x /\ \A l \in DOMAIN shown : shown[l] = y => k < l
  BY DEF Prefers
<1> HIDE DEF shown
<1>5. PICK p \in 1 .. Len(sorted) : sorted[p] = y
  BY <1>1
<1>6. k < p
  <2>1. CASE p <= Len(shown)
    BY <1>2, <1>3, <1>4, <1>5, <2>1
  <2>2. CASE p > Len(shown)
    BY <1>3, <1>4, <2>2
  <2> QED BY <1>3, <2>1, <2>2
<1>7. k \in 1 .. Len(sorted) /\ sorted[k] = x
  BY <1>2, <1>3, <1>4
<1> QED BY <1>1, <1>5, <1>6, <1>7

LEMMA Agreement ==
  ASSUME IInv, ListingInv
  PROVE  StoragesAgree
<1> SUFFICES ASSUME NEW b \in DOMAIN store, NEW sorted \in Arrangements(store[b].logs),
                    NEW limit \in Limits \cup {NoLimit}
             PROVE  LET logs     == store[b].logs
                        memory   == MemoryListing(logs, limit)
                        database == Cut(sorted, limit)
                    IN  /\ Len(database) # Len(memory) =>
                             limit = 0 \/ (limit = NoLimit /\ Len(logs) > DefaultLimit)
                        /\ \A x \in Range(database), y \in Range(memory) :
                             x.time # y.time /\ Prefers(database, x, y) /\ Prefers(memory, y, x) =>
                               x.time > y.time /\ Overlapped(x.call, y.call)
  BY DEF StoragesAgree
<1> DEFINE logs == store[b].logs
           memory == MemoryListing(logs, limit)
           database == Cut(sorted, limit)
<1>1. b \in {"InMemory", "Postgres"}
  BY DEF IInv, TypeOK
<1>2. /\ logs \in Seq(Entry) /\ Len(logs) \in Nat /\ DOMAIN logs = 1 .. Len(logs)
      /\ \A i \in 1 .. Len(logs) : logs[i] \in Entry
  BY <1>1, LogType
<1>3. \A i, j \in 1 .. Len(logs) : i # j => logs[i].call # logs[j].call
  BY <1>2 DEF ListingInv, EntriesInv
<1>4. \A i, j \in 1 .. Len(logs) :
        logs[i].call \in calls[logs[j].call].after => i < j /\ logs[i].time <= logs[j].time
  BY <1>2 DEF ListingInv, OrderInv
<1> HIDE DEF logs
<1>5. sorted \in Arrangements(logs)
  BY DEF logs
<1>6. Len(database) # Len(memory) => limit = 0 \/ (limit = NoLimit /\ Len(logs) > DefaultLimit)
  BY <1>2, <1>3, <1>5, SameLength
<1>7. ASSUME NEW x \in Range(database), NEW y \in Range(memory), x.time # y.time,
             Prefers(database, x, y), Prefers(memory, y, x)
      PROVE  x.time > y.time /\ Overlapped(x.call, y.call)
  <2>1. PICK i \in 1 .. Len(logs) : logs[i] = x
    <3>1. /\ sorted \in Seq(Entry)
          /\ \A k \in 1 .. Len(sorted) : sorted[k] \in ToSet(logs)
      BY <1>2, <1>5, ArrangementFacts
    <3>2. /\ database \in Seq(Entry) /\ Len(database) <= Len(sorted)
          /\ \A k \in 1 .. Len(database) : database[k] = sorted[k]
      BY <3>1, CutFacts
    <3>3. DOMAIN database = 1 .. Len(database) /\ Len(database) \in Nat /\ Len(sorted) \in Nat
      BY <3>1, <3>2, LenProperties
    <3> HIDE DEF database
    <3>4. x \in ToSet(logs)
      BY <1>7, <3>1, <3>2, <3>3 DEF Range
    <3> QED BY <1>2, <3>4 DEF ToSet
  <2>2. PICK j \in 1 .. Len(logs) : i < j /\ logs[j] = y
    BY <1>2, <1>7, <2>1, MemoryPrefers
  <2>3. y \in ToSet(logs)
    BY <1>2, <2>2 DEF ToSet
  <2>4. x.time >= y.time
    BY <1>2, <1>5, <1>7, <2>3, DatabasePrefers
  <2>5. x.time \in Nat /\ y.time \in Nat
    BY <1>2, <2>1, <2>2 DEF Entry
  <2>6. x.time > y.time
    BY <1>7, <2>4, <2>5
  <2>7. y.call \notin calls[x.call].after
    BY <1>4, <2>1, <2>2
  <2>8. x.call \notin calls[y.call].after
    BY <1>4, <2>1, <2>2, <2>5, <2>6
  <2> QED BY <2>6, <2>7, <2>8 DEF Overlapped
<1> QED BY <1>6, <1>7 DEF logs
------------------------------------------------------------------------------
(***************************************************************************)
(* The theorems.                                                           *)
(***************************************************************************)
\* record_audit's entries stand in the log of every storage in step with the order in
\* which requests were answered and begun, each request's but once, and no stamped
\* request will break that.
THEOREM ListingInvariance == Spec => []ListingInv
<1> QED BY Invariance, ListingInit, ListingStep, PTL DEF Spec

\* Of two requests, one answered before the other began, GET /audit-logs shows the
\* later one first, but for equal time stamps in the database.
THEOREM ListedNewestFirstTheorem == Spec => []ListedNewestFirst
<1> QED BY Invariance, ListingInvariance, ListedInit, ListedInduction, PTL DEF Spec

\* A listing that leaves out a request answered before it has as many entries as were
\* asked for, none of a request answered before that one began.
THEOREM ListingCompleteTheorem == Spec => []ListingComplete
<1> QED BY Invariance, ListingInvariance, ListedInit, ListedInduction, PTL DEF Spec

\* Over the same log InMemoryStorage and PostgresStorage list equally many entries but
\* for the limit 0 and the default, in the same order but for equal time stamps and
\* requests that overlapped and inserted in the other order than they were stamped.
THEOREM StoragesAgreeTheorem == Spec => []StoragesAgree
<1>1. IInv /\ ListingInv => StoragesAgree
  BY Agreement
<1> QED BY <1>1, Invariance, ListingInvariance, PTL
=============================================================================

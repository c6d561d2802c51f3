--------------------------- MODULE DeploymentProofs ---------------------------
(***************************************************************************)
(* Theorems about Deployment for any keys, tokens, environments, endpoints *)
(* and calls, and any number of starts.                                    *)
(***************************************************************************)
EXTENDS Deployment, SequenceTheorems, FiniteSetTheorems, TLAPS

------------------------------------------------------------------------------
(***************************************************************************)
(* What is listed of a log is a sequence of its entries.                   *)
(***************************************************************************)
LEMMA MinType ==
  ASSUME NEW a \in Nat, NEW b \in Nat
  PROVE  Min({a, b}) \in Nat /\ Min({a, b}) <= a /\ Min({a, b}) <= b
<1>1. \E x \in {a, b} : \A y \in {a, b} : x =< y
  BY a <= b \/ b <= a
<1> QED BY <1>1 DEF Min

LEMMA MaxType ==
  ASSUME NEW a \in Nat, NEW b \in Nat
  PROVE  Max({a, b}) \in Nat
<1>1. \E x \in {a, b} : \A y \in {a, b} : x >= y
  BY a <= b \/ b <= a
<1> QED BY <1>1 DEF Max

LEMMA PrefixType ==
  ASSUME NEW S, NEW s \in Seq(S), NEW n \in Nat, n <= Len(s)
  PROVE  SubSeq(s, 1, n) \in Seq(S)
<1>1. \A i \in 1 .. n : s[i] \in S
  BY ElementOfSeq, LenProperties
<1> QED BY <1>1, SubSeqProperties

LEMMA ListingsType ==
  ASSUME NEW backend, NEW S, NEW logs \in Seq(S), NEW limit \in Limits \cup {NoLimit}
  PROVE  \A shown \in Listings(backend, logs, limit) : shown \in Seq(S)
<1>1. limit # NoLimit => limit \in Nat
  BY LimitsAssumption
<1>2. Len(logs) \in Nat
  BY LenProperties
<1>3. MemoryListing(logs, limit) \in Seq(S)
  <2> DEFINE rows == IF limit = NoLimit THEN Len(logs) ELSE Min({limit, Len(logs)})
  <2>1. rows \in Nat /\ rows <= Len(logs)
    BY <1>1, <1>2, MinType
  <2>2. Reverse(logs) \in Seq(S) /\ Len(Reverse(logs)) = Len(logs)
    <3>1. \A i \in 1 .. Len(logs) : logs[(Len(logs) - i) + 1] \in S
      BY <1>2, ElementOfSeq
    <3>2. Reverse(logs) \in [1 .. Len(logs) -> S]
      BY <3>1 DEF Reverse
    <3> QED BY <1>2, <3>2, IsASeq, LenProperties
  <2> QED BY <2>1, <2>2, PrefixType DEF MemoryListing
<1>4. ASSUME NEW shown \in PostgresListings(logs, limit) PROVE shown \in Seq(S)
  <2> DEFINE all  == ToSet(logs)
             rows == Max({1, IF limit = NoLimit THEN DefaultLimit ELSE limit})
  <2>1. PICK s \in SetToSeqs(all) : shown = SubSeq(s, 1, Min({rows, Len(s)}))
    BY <1>4 DEF PostgresListings, Arrangements, Cut
  <2>2. all \subseteq S /\ IsFiniteSet(all)
    <3>1. logs \in [1 .. Len(logs) -> S] /\ DOMAIN logs = 1 .. Len(logs)
      BY LenProperties
    <3>2. all \subseteq S /\ logs \in Surjection(1 .. Len(logs), all)
      BY <3>1 DEF ToSet, Surjection
    <3> QED BY <1>2, <3>2, FS_Surjection, FS_Interval
  <2>3. Cardinality(all) \in Nat
    BY <2>2, FS_CardinalityType
  <2>4. s \in Seq(S)
    <3>1. s \in [1 .. Cardinality(all) -> all]
      BY <2>1 DEF SetToSeqs
    <3>2. s \in [1 .. Cardinality(all) -> S]
      BY <2>2, <3>1
    <3> QED BY <2>3, <3>2, IsASeq
  <2>5. rows \in Nat
    BY <1>1, DefaultLimitAssumption, MaxType
  <2>6. Len(s) \in Nat
    BY <2>4, LenProperties
  <2> QED BY <2>1, <2>4, <2>5, <2>6, MinType, PrefixType
<1> QED BY <1>3, <1>4 DEF Listings
------------------------------------------------------------------------------
(***************************************************************************)
(* What the column may hold, and what is read of it.                       *)
(***************************************************************************)
LEMMA TextFacts ==
  /\ Plain \in Text /\ NoKey \in Text /\ Absent \notin Text
  /\ Plain # NoKey /\ Plain # Absent /\ NoKey # Absent
  /\ \A k \in Key : /\ <<k>> \in Text /\ <<k>> # NoKey /\ <<k>> # Absent /\ <<k>> # Plain
                    /\ Head(<<k>>) = k /\ Tail(<<k>>) = Plain /\ <<k>> \o Plain = <<k>>
<1>1. Plain \in Seq(Key) /\ \A k \in Key : <<k>> \in Seq(Key)
  BY DEF Plain
<1>2. \A k \in Key : Head(<<k>>) = k /\ Tail(<<k>>) = Plain /\ <<k>> \o Plain = <<k>> /\ <<k>> # Plain
  BY DEF Plain
<1> QED BY <1>1, <1>2, TextAssumption DEF Text

LEMMA ProcessFacts ==
  ASSUME TypeOK
  PROVE  /\ process.backend \in {"InMemory", "Postgres", "down"}
         /\ process.crypt \in Key \cup {Unset} /\ Unset \notin Key
         /\ process.management \in Token \cup {Unset}
BY UnsetAssumption DEF TypeOK, Process

\* A row of the running process's storage, case by case.
LEMMA RowCases ==
  ASSUME IInv, Running, NEW e \in Endpoint, Rows[e] # Absent
  PROVE  \/ Rows[e] = NoKey
         \/ Rows[e] = Plain /\ (process.crypt = Unset \/ Unset \in used)
         \/ process.backend = "Postgres" /\ \E k \in used \cap Key : Rows[e] = <<k>>
<1>1. CASE process.backend = "Postgres"
  <2>1. Accounted(Rows[e])
    BY <1>1 DEF IInv, KeysAccounted, Rows
  <2> QED BY <1>1, <2>1 DEF Accounted, IInv, TypeOK
<1>2. CASE process.backend = "InMemory"
  BY <1>2 DEF IInv, ProcessInv, Rows
<1> QED BY <1>1, <1>2, ProcessFacts DEF Running, IInv

\* A row that does not decrypt shows that two settings were used.
LEMMA UnreadableRow ==
  ASSUME IInv, Running, NEW e \in Endpoint, Rows[e] # Absent, ~Readable(Rows[e])
  PROVE  \E a, b \in used : a # b
<1>1. Rows[e] # NoKey /\ process.crypt # Unset /\ ~Opens(Rows[e])
  BY DEF Readable
<1>2. process.backend = "Postgres" /\ process.crypt \in used
  BY <1>1, ProcessFacts DEF IInv, ProcessInv
<1>3. CASE Rows[e] = Plain /\ Unset \in used
  BY <1>1, <1>2, <1>3
<1>4. ASSUME NEW k \in used \cap Key, Rows[e] = <<k>> PROVE \E a, b \in used : a # b
  <2>1. k # process.crypt
    BY <1>1, <1>4, TextFacts DEF Opens
  <2> QED BY <1>2, <2>1
<1> QED BY <1>1, <1>3, <1>4, RowCases

\* What the worker lists of a row, and a provider is handed of it.
LEMMA ReadableRow ==
  ASSUME IInv, Running, NEW e \in Endpoint, Rows[e] # Absent, Readable(Rows[e])
  PROVE  /\ Decrypted(Rows[e]) \in Text
         /\ IF process.backend = "Postgres" /\ process.crypt = Unset
            THEN Accounted(Decrypted(Rows[e])) ELSE Decrypted(Rows[e]) \in {NoKey, Plain}
         /\ process.crypt # Unset => Decrypted(Rows[e]) \in {NoKey, Plain}
         /\ \/ Decrypted(Rows[e]) \in {NoKey, Plain}
            \/ process.crypt = Unset /\ \E k \in used \ {Unset} : Decrypted(Rows[e]) = <<k>>
<1>1. CASE Rows[e] = NoKey
  <2>1. Decrypted(Rows[e]) = NoKey
    BY <1>1 DEF Decrypted, Opens
  <2> QED BY <2>1, TextFacts DEF Accounted
<1>2. CASE Rows[e] = Plain /\ (process.crypt = Unset \/ Unset \in used)
  <2>1. Decrypted(Rows[e]) = Plain
    BY <1>2 DEF Decrypted, Opens
  <2>2. process.backend = "Postgres" /\ process.crypt = Unset => Unset \in used
    BY DEF IInv, ProcessInv
  <2> QED BY <2>1, <2>2, TextFacts DEF Accounted
<1>3. ASSUME process.backend = "Postgres", NEW k \in used \cap Key, Rows[e] = <<k>>
      PROVE  \/ process.crypt = k /\ Decrypted(Rows[e]) = Plain
             \/ process.crypt = Unset /\ Decrypted(Rows[e]) = <<k>>
  <2>1. CASE process.crypt = Unset
    <3>1. ~Opens(Rows[e])
      BY <1>3, <2>1, TextFacts, UnsetAssumption DEF Opens
    <3> QED BY <1>3, <2>1, <3>1 DEF Decrypted
  <2>2. CASE process.crypt # Unset
    <3>1. Opens(Rows[e])
      BY <1>3, <2>2, TextFacts DEF Readable
    <3>2. process.crypt = k
      BY <1>3, <3>1, TextFacts DEF Opens
    <3> QED BY <1>3, <3>1, <3>2, TextFacts DEF Decrypted
  <2> QED BY <2>1, <2>2
<1>4. ASSUME process.backend = "Postgres", NEW k \in used \cap Key, Rows[e] = <<k>>
      PROVE  /\ Decrypted(Rows[e]) \in Text
             /\ process.crypt # Unset => Decrypted(Rows[e]) = Plain
             /\ process.crypt = Unset => Accounted(Decrypted(Rows[e])) /\ Decrypted(Rows[e]) = <<k>>
  BY <1>3, <1>4, TextFacts, UnsetAssumption DEF Accounted
<1>5. CASE process.backend = "Postgres" /\ \E k \in used \cap Key : Rows[e] = <<k>>
  BY <1>4, <1>5, UnsetAssumption
<1> QED BY <1>1, <1>2, <1>5, RowCases

\* A text the running process may put into a row.
Storable(text) ==
  \/ text = Absent
  \/ /\ text \in Text
     /\ Readable(text)
     /\ process.backend = "Postgres" => Accounted(text)
     /\ process.backend = "InMemory" => text \in {NoKey, Plain}

LEMMA EncryptedStorable ==
  ASSUME IInv, Running, NEW text,
         \/ text \in {NoKey, Plain}
         \/ process.backend = "Postgres" /\ process.crypt = Unset /\ Accounted(text)
  PROVE  Storable(Encrypted(text))
<1>1. used \subseteq Key \cup {Unset}
  BY DEF IInv, TypeOK
<1>2. CASE process.crypt = Unset
  <2>1. Encrypted(text) = text
    BY <1>2 DEF Encrypted
  <2>2. text \in Text
    BY <1>1, TextFacts DEF Accounted
  <2>3. Readable(text)
    BY <1>2 DEF Readable
  <2>4. process.backend = "Postgres" => Accounted(text)
    BY <1>2 DEF Accounted, IInv, ProcessInv
  <2> QED BY <2>1, <2>2, <2>3, <2>4 DEF Storable
<1>3. CASE process.crypt # Unset
  <2>1. process.backend = "Postgres" /\ process.crypt \in used \cap Key
    BY <1>3, ProcessFacts DEF IInv, ProcessInv
  <2>2. CASE text = NoKey
    <3>1. Encrypted(text) = NoKey
      BY <2>2 DEF Encrypted
    <3> QED BY <2>1, <3>1, TextFacts DEF Storable, Readable, Accounted
  <2>3. CASE text = Plain
    <3>1. Encrypted(text) = <<process.crypt>>
      BY <1>3, <2>1, <2>3, TextFacts DEF Encrypted
    <3>2. Opens(Encrypted(text))
      BY <2>1, <3>1, TextFacts DEF Opens
    <3> QED BY <1>3, <2>1, <3>1, <3>2, TextFacts DEF Storable, Readable, Accounted
  <2> QED BY <1>3, <2>2, <2>3
<1> QED BY <1>2, <1>3
\* What is true of the rows of the storage and of the texts read from it.
RowsInv ==
  /\ store \in [{"InMemory", "Postgres"} ->
                   [rows: [Endpoint -> Text \cup {Absent}], logs: Seq(Entry)]]
  /\ KeysAccounted
  /\ ProcessInv

\* Putting a storable text into a row keeps the rows right, and readable the ones
\* that were.
LEMMA PutRowInv ==
  ASSUME IInv, Running, NEW e \in Endpoint, NEW text, Storable(text), PutRow(e, text),
         UNCHANGED <<process, used>>
  PROVE  /\ RowsInv'
         /\ \A d \in Endpoint : Rows[d] = Absent \/ Readable(Rows[d]) =>
                               Rows'[d] = Absent \/ Readable(Rows[d])'
<1> DEFINE b == process.backend
           S == [rows: [Endpoint -> Text \cup {Absent}], logs: Seq(Entry)]
           r == [store[b] EXCEPT !.rows = [store[b].rows EXCEPT ![e] = text]]
<1>1. b \in {"InMemory", "Postgres"} /\ store \in [{"InMemory", "Postgres"} -> S]
  BY ProcessFacts DEF IInv, TypeOK, Running
<1>2. store' = [store EXCEPT ![b] = r]
  BY <1>1 DEF PutRow
<1>3. text \in Text \cup {Absent}
  BY DEF Storable
<1>4. r \in S /\ r.rows = [store[b].rows EXCEPT ![e] = text]
  BY <1>1, <1>3
<1>5. store' \in [{"InMemory", "Postgres"} -> S] /\ store'[b] = r
  BY <1>1, <1>2, <1>4
<1>6. \A x \in {"InMemory", "Postgres"} : x # b => store'[x] = store[x]
  BY <1>1, <1>2
<1>7. /\ store'[b].rows[e] = text
      /\ \A d \in Endpoint : d # e => store'[b].rows[d] = store[b].rows[d]
  BY <1>1, <1>4, <1>5
<1>8. KeysAccounted'
  <2>1. ASSUME NEW d \in Endpoint, store'["Postgres"].rows[d] # Absent
        PROVE  Accounted(store'["Postgres"].rows[d])
    <3>1. CASE b = "Postgres" /\ d = e
      BY <1>7, <2>1, <3>1 DEF Storable
    <3>2. CASE b = "Postgres" /\ d # e
      BY <1>7, <2>1, <3>2 DEF IInv, KeysAccounted
    <3>3. CASE b # "Postgres"
      BY <1>6, <2>1, <3>3 DEF IInv, KeysAccounted
    <3> QED BY <3>1, <3>2, <3>3
  <2> QED BY <2>1 DEF KeysAccounted, Accounted
<1>9. ProcessInv'
  <2>1. ASSUME NEW d \in Endpoint PROVE store'["InMemory"].rows[d] \in {Absent, NoKey, Plain}
    <3>1. CASE b = "InMemory" /\ d = e
      BY <1>7, <3>1 DEF Storable
    <3>2. CASE b = "InMemory" /\ d # e
      BY <1>7, <3>2 DEF IInv, ProcessInv
    <3>3. CASE b # "InMemory"
      BY <1>6, <3>3 DEF IInv, ProcessInv
    <3> QED BY <3>1, <3>2, <3>3
  <2> QED BY <2>1 DEF IInv, ProcessInv
<1>10. ASSUME NEW d \in Endpoint, Rows[d] = Absent \/ Readable(Rows[d])
       PROVE  Rows'[d] = Absent \/ Readable(Rows[d])'
  <2>1. CASE d = e
    BY <1>7, <2>1 DEF Storable, Rows, Readable, Opens
  <2>2. CASE d # e
    BY <1>7, <1>10, <2>2 DEF Rows, Readable, Opens
  <2> QED BY <2>1, <2>2
<1> QED BY <1>5, <1>8, <1>9, <1>10 DEF RowsInv

\* The rows stay as they are.
LEMMA SameRows ==
  ASSUME IInv, UNCHANGED <<process, used>>,
         store' \in [{"InMemory", "Postgres"} ->
                       [rows: [Endpoint -> Text \cup {Absent}], logs: Seq(Entry)]],
         \A b \in {"InMemory", "Postgres"} : store'[b].rows = store[b].rows
  PROVE  /\ RowsInv'
         /\ Running => \A d \in Endpoint : Rows[d] = Absent \/ Readable(Rows[d]) =>
                                          Rows'[d] = Absent \/ Readable(Rows[d])'
<1>1. RowsInv'
  BY DEF RowsInv, IInv, KeysAccounted, ProcessInv, Accounted
<1>2. Running => Rows' = Rows
  BY ProcessFacts DEF IInv, Running, Rows
<1> QED BY <1>1, <1>2 DEF Readable, Opens

\* An answer 500 has its reason: two settings were used.
Excused(status) == status = 500 => \E a, b \in used : a # b

\* A step of one request over rows that stay right keeps the invariant.
LEMMA CallStep ==
  ASSUME IInv, Running, NEW c \in Call, NEW r \in CallState,
         calls' = [calls EXCEPT ![c] = r],
         UNCHANGED <<process, starts, used, sweep>>, clock' \in 0 .. MaxTime,
         RowsInv',
         \A d \in Endpoint : Rows[d] = Absent \/ Readable(Rows[d]) =>
                            Rows'[d] = Absent \/ Readable(Rows[d])',
         handed' \subseteq [crypt: Key \cup {Unset}, text: Text],
         HandedRegistered',
         Excused(r.status),
         r.pc \in {"stamp", "insert", "lookup"} =>
           /\ r.token = process.management /\ r.token \in Token
           /\ r.op \in {"create", "delete", "route"}
           /\ r.endpoint \in Endpoint
           /\ r.op = "route" => Rows[r.endpoint] = Absent \/ Readable(Rows[r.endpoint])
  PROVE  IInv'
<1>1. calls' \in [Call -> CallState] /\ calls'[c] = r /\ \A d \in Call : d # c => calls'[d] = calls[d]
  BY DEF IInv, TypeOK
<1>2. TypeOK'
  BY <1>1 DEF IInv, TypeOK, RowsInv
<1>3. SameSettingReadable'
  BY <1>1 DEF IInv, SameSettingReadable, Excused
<1>4. SelectedReadable'
  <2>1. ASSUME NEW d \in Call, Pending(d)', calls'[d].op = "route"
        PROVE  /\ calls'[d].endpoint \in Endpoint
               /\ Rows[calls'[d].endpoint] = Absent \/ Readable(Rows[calls'[d].endpoint])
    <3>1. CASE d = c
      <4>1. calls'[d] = r /\ r.pc \in {"stamp", "insert", "lookup"} /\ r.op = "route"
        BY <1>1, <2>1, <3>1 DEF Pending
      <4> QED BY <4>1
    <3>2. CASE d # c
      BY <1>1, <2>1, <3>2 DEF IInv, Pending, SelectedReadable, TasksInv
    <3> QED BY <3>1, <3>2
  <2>2. ASSUME NEW d \in Call, Pending(d)', calls'[d].op = "route"
        PROVE  (Rows[calls[d].endpoint] = Absent \/ Readable(Rows[calls[d].endpoint]))'
    <3> DEFINE e == calls'[d].endpoint
    <3>1. e \in Endpoint /\ (Rows[e] = Absent \/ Readable(Rows[e]))
      BY <2>1, <2>2
    <3> HIDE DEF e
    <3>2. Rows'[e] = Absent \/ Readable(Rows'[e])
      BY <3>1 DEF Readable, Opens
    <3> QED BY <3>2 DEF e, Readable, Opens
  <2> QED BY <2>2 DEF SelectedReadable
<1>5. TasksInv'
  <2>1. ASSUME NEW e \in Endpoint, sweep[e] # Absent
        PROVE  /\ Running'
               /\ IF process.backend = "Postgres" /\ process.crypt = Unset
                  THEN Accounted(sweep[e])' ELSE sweep[e] \in {NoKey, Plain}
    BY <2>1 DEF IInv, TasksInv, Running, Accounted
  <2>2. ASSUME NEW d \in Call, Pending(d)'
        PROVE  /\ Running'
               /\ calls'[d].token = process.management /\ calls'[d].token \in Token
               /\ calls'[d].op \in {"create", "delete", "route"}
               /\ calls'[d].endpoint \in Endpoint
    <3>1. CASE d = c
      <4>1. calls'[d] = r /\ r.pc \in {"stamp", "insert", "lookup"} /\ Running'
        BY <1>1, <2>2, <3>1 DEF Pending, Running
      <4> QED BY <4>1
    <3>2. CASE d # c
      BY <1>1, <2>2, <3>2 DEF Pending, Running, IInv, TasksInv
    <3> QED BY <3>1, <3>2
  <2> QED BY <2>1, <2>2 DEF TasksInv
<1> QED BY <1>2, <1>3, <1>4, <1>5 DEF IInv, RowsInv
------------------------------------------------------------------------------
(***************************************************************************)
(* The steps of requests.                                                  *)
(***************************************************************************)
LEMMA FreshType == Fresh \in CallState
BY DEF Fresh, CallState, Status

LEMMA ReplyType ==
  ASSUME NEW status \in Status
  PROVE  /\ Reply(status) \in CallState
         /\ Reply(status).pc = "done" /\ Reply(status).status = status
BY FreshType DEF Reply, CallState

LEMMA BeginType ==
  ASSUME NEW op \in {"create", "delete", "route"}, NEW e \in Endpoint, NEW cred \in Credential,
         MayWrite(process, cred)
  PROVE  LET r == Begin(op, e, cred) IN
         /\ r \in CallState
         /\ r.pc = "stamp" /\ Excused(r.status) /\ r.op = op /\ r.endpoint = e
         /\ r.token = process.management /\ r.token \in Token
<1>1. cred.token = process.management /\ cred.token \in Token
  <2>1. RoleOf(process, cred) = "Admin"
    BY DEF MayWrite
  <2>2. cred.token # Unset /\ cred.token = process.management
    BY <2>1 DEF RoleOf
  <2> QED BY <2>2 DEF Credential
<1>2. Answered \subseteq Call
  BY DEF Answered
<1>3. Excused(Fresh.status)
  BY DEF Fresh, Excused
<1>4. LET r == Begin(op, e, cred) IN
      /\ r \in CallState
      /\ r.pc = "stamp" /\ r.status = Fresh.status /\ r.op = op /\ r.endpoint = e
      /\ r.token = cred.token
  BY <1>1, <1>2, FreshType DEF Begin, CallState
<1> QED BY <1>1, <1>3, <1>4

LEMMA EndType ==
  ASSUME NEW call \in CallState, NEW pc \in {"done", "dropped"},
         NEW status \in Status
  PROVE  LET r == End(call, pc, status) IN
         r \in CallState /\ r.pc = pc /\ r.status = status
BY DEF End, CallState

\* The requests that change no storage: their answer or their first await.
LEMMA ReadStep ==
  ASSUME IInv, NEW c \in Call,
         Reject(c) \/ RouteRequest(c) \/ ViewServers(c) \/ ListAuditLogs(c) \/ Stamp(c)
  PROVE  IInv'
<1>1. /\ Running
      /\ UNCHANGED <<process, starts, used, store, sweep, handed>>
      /\ calls[c] \in CallState
      /\ clock' \in 0 .. MaxTime
  <2>1. /\ clock \in 0 .. MaxTime /\ calls[c] \in CallState
        /\ \A x : x \in clock .. MaxTime => x \in 0 .. MaxTime
    BY BoundsAssumption DEF IInv, TypeOK
  <2>2. Pending(c) => Running
    BY DEF IInv, TasksInv
  <2>3. CASE Stamp(c)
    BY <2>1, <2>2, <2>3 DEF Stamp, Settings, Pending
  <2> QED BY <2>1, <2>3 DEF Reject, RouteRequest, ViewServers, ListAuditLogs, Idle, Settings
<1>2. /\ RowsInv'
      /\ \A d \in Endpoint : Rows[d] = Absent \/ Readable(Rows[d]) =>
                            Rows'[d] = Absent \/ Readable(Rows[d])'
  BY <1>1, SameRows DEF IInv, TypeOK
<1>3. HandedRegistered' /\ handed' \subseteq [crypt: Key \cup {Unset}, text: Text]
  BY <1>1 DEF IInv, TypeOK, HandedRegistered
<1>4. ASSUME NEW status \in Status, calls' = [calls EXCEPT ![c] = Reply(status)], Excused(status)
      PROVE  IInv'
  <2>1. /\ Reply(status) \in CallState
        /\ Reply(status).pc = "done" /\ Reply(status).status = status
    BY ReplyType
  <2> QED BY <1>1, <1>2, <1>3, <1>4, <2>1, CallStep
<1>5. CASE Reject(c)
  <2>1. PICK status \in {401, 403} : calls' = [calls EXCEPT ![c] = Reply(status)]
    BY <1>5 DEF Reject
  <2>2. status \in Status
    BY DEF Status
  <2>3. Excused(status)
    BY DEF Excused
  <2> QED BY <1>4, <2>1, <2>2, <2>3
<1>6. CASE ViewServers(c)
  <2>1. PICK status \in ViewStatuses : calls' = [calls EXCEPT ![c] = Reply(status)]
    BY <1>6 DEF ViewServers
  <2>2. status \in Status
    BY DEF ViewStatuses, Status
  <2>3. ASSUME status = 500 PROVE \E e \in Endpoint : Rows[e] # Absent /\ ~Readable(Rows[e])
    BY <2>3 DEF ViewStatuses, AllReadable
  <2>4. Excused(status)
    BY <1>1, <2>3, UnreadableRow DEF Excused
  <2> QED BY <1>4, <2>1, <2>2, <2>4
<1>7. CASE ListAuditLogs(c)
  <2>1. PICK limit \in Limits \cup {NoLimit} :
          \E shown \in Listings(process.backend, store[process.backend].logs, limit) :
            calls' = [calls EXCEPT
              ![c] = [Reply(200) EXCEPT !.after = Answered, !.backend = process.backend,
                                         !.shown = shown, !.limit = limit]]
    BY <1>7 DEF ListAuditLogs
  <2>2. PICK shown \in Listings(process.backend, store[process.backend].logs, limit) :
          calls' = [calls EXCEPT
            ![c] = [Reply(200) EXCEPT !.after = Answered, !.backend = process.backend,
                                       !.shown = shown, !.limit = limit]]
    BY <2>1
  <2>3. shown \in Seq(Entry)
    <3>1. store[process.backend].logs \in Seq(Entry)
      BY <1>1, ProcessFacts DEF IInv, TypeOK, Running
    <3> QED BY <3>1, ListingsType
  <2> DEFINE ok == Reply(200)
             r  == [ok EXCEPT !.after = Answered, !.backend = process.backend,
                              !.shown = shown, !.limit = limit]
  <2>4. Answered \subseteq Call /\ process.backend \in {"InMemory", "Postgres", "down"}
    BY ProcessFacts DEF Answered, IInv
  <2>5. ok \in CallState /\ ok.pc = "done" /\ Excused(ok.status)
    <3>1. 200 \in Status /\ Excused(200)
      BY DEF Status, Excused
    <3> QED BY <3>1, ReplyType
  <2>6. calls' = [calls EXCEPT ![c] = r]
    BY <2>2
  <2> HIDE DEF ok
  <2>7. r \in CallState /\ r.pc = "done" /\ r.status = ok.status
    BY <2>3, <2>4, <2>5 DEF CallState
  <2> HIDE DEF r
  <2> QED BY <1>1, <1>2, <1>3, <2>5, <2>6, <2>7, CallStep
<1>8. CASE Stamp(c)
  <2> DEFINE r == [calls[c] EXCEPT !.pc = "insert", !.time = clock']
  <2>1. calls[c].pc = "stamp" /\ calls' = [calls EXCEPT ![c] = r]
    BY <1>8 DEF Stamp, IInv, TypeOK
  <2>2. clock' \in Nat
    BY <1>1, BoundsAssumption
  <2>3. /\ r \in CallState /\ r.pc = "insert" /\ r.status = calls[c].status /\ r.token = calls[c].token
        /\ r.op = calls[c].op /\ r.endpoint = calls[c].endpoint
    BY <1>1, <2>2 DEF CallState
  <2>4. Pending(c)
    BY <2>1 DEF Pending
  <2>5. /\ calls[c].token = process.management /\ calls[c].token \in Token
        /\ calls[c].op \in {"create", "delete", "route"}
        /\ calls[c].endpoint \in Endpoint
    BY <2>4 DEF IInv, TasksInv
  <2>6. calls[c].op = "route" => Rows[calls[c].endpoint] = Absent \/ Readable(Rows[calls[c].endpoint])
    BY <2>4 DEF IInv, SelectedReadable
  <2>7. Excused(calls[c].status)
    BY DEF IInv, SameSettingReadable, Excused
  <2> HIDE DEF r
  <2> QED BY <1>1, <1>2, <1>3, <2>1, <2>3, <2>5, <2>6, <2>7, CallStep
<1>9. CASE RouteRequest(c)
  <2>1. PICK cred \in Credential, e \in Endpoint :
          /\ MayWrite(process, cred)
          /\ calls' = [calls EXCEPT ![c] = IF AllReadable /\ Rows[e] # Absent
                                           THEN Begin("route", e, cred) ELSE Reply(503)]
    BY <1>9 DEF RouteRequest
  <2>2. CASE AllReadable /\ Rows[e] # Absent
    <3> DEFINE r == Begin("route", e, cred)
    <3>1. /\ r \in CallState /\ r.pc = "stamp" /\ Excused(r.status) /\ r.op = "route" /\ r.endpoint = e
          /\ r.token = process.management /\ r.token \in Token
      BY <2>1, BeginType
    <3>2. Rows[e] = Absent \/ Readable(Rows[e])
      BY <2>2 DEF AllReadable
    <3>3. calls' = [calls EXCEPT ![c] = r]
      BY <2>1, <2>2
    <3> HIDE DEF r
    <3> QED BY <1>1, <1>2, <1>3, <3>1, <3>2, <3>3, CallStep
  <2>3. CASE ~(AllReadable /\ Rows[e] # Absent)
    <3>1. calls' = [calls EXCEPT ![c] = Reply(503)]
      BY <2>1, <2>3
    <3>2. 503 \in Status /\ Excused(503)
      BY DEF Status, Excused
    <3> QED BY <1>4, <3>1, <3>2
  <2> QED BY <2>2, <2>3
<1> QED BY <1>5, <1>6, <1>7, <1>8, <1>9
\* The requests that write a row, up to their first await.
LEMMA WriteStep ==
  ASSUME IInv, NEW c \in Call, CreateServer(c) \/ DeleteServer(c)
  PROVE  IInv'
<1> DEFINE Writes(op, cred, e, text) ==
             /\ op # "route"
             /\ MayWrite(process, cred)
             /\ text = Absent \/ \E key \in {NoKey, Plain} : text = Encrypted(key)
             /\ PutRow(e, text)
             /\ calls' = [calls EXCEPT ![c] = Begin(op, e, cred)]
<1>1. \E op \in {"create", "delete", "route"}, cred \in Credential, e \in Endpoint :
        \E text : Writes(op, cred, e, text)
  <2>1. CASE CreateServer(c)
    BY <2>1 DEF CreateServer
  <2>2. CASE DeleteServer(c)
    BY <2>2 DEF DeleteServer
  <2> QED BY <2>1, <2>2
<1>2. PICK op \in {"create", "delete", "route"}, cred \in Credential, e \in Endpoint :
        \E text : Writes(op, cred, e, text)
  BY <1>1
<1>3. PICK text : Writes(op, cred, e, text)
  BY <1>2
<1>4. Running /\ UNCHANGED <<process, starts, used, sweep, handed>> /\ clock' \in 0 .. MaxTime
  BY DEF CreateServer, DeleteServer, Idle, Settings, IInv, TypeOK
<1>5. Storable(text)
  BY <1>3, <1>4, EncryptedStorable DEF Storable
<1>6. /\ RowsInv'
      /\ \A d \in Endpoint : Rows[d] = Absent \/ Readable(Rows[d]) =>
                            Rows'[d] = Absent \/ Readable(Rows[d])'
  BY <1>3, <1>4, <1>5, PutRowInv
<1>7. HandedRegistered' /\ handed' \subseteq [crypt: Key \cup {Unset}, text: Text]
  BY <1>4 DEF IInv, TypeOK, HandedRegistered
<1> DEFINE r == Begin(op, e, cred)
<1>8. /\ r \in CallState
      /\ r.pc = "stamp" /\ Excused(r.status) /\ r.op = op /\ r.endpoint = e
      /\ r.token = process.management /\ r.token \in Token
  BY <1>3, BeginType
<1>9. calls' = [calls EXCEPT ![c] = r]
  BY <1>3
<1> HIDE DEF r
<1> QED BY <1>3, <1>4, <1>6, <1>7, <1>8, <1>9, CallStep

\* What a waiting handler's record says.
LEMMA PendingFacts ==
  ASSUME IInv, NEW c \in Call, Pending(c)
  PROVE  /\ Running /\ calls[c] \in CallState
         /\ calls[c].token = process.management /\ calls[c].token \in Token
         /\ calls[c].op \in {"create", "delete", "route"}
         /\ calls[c].endpoint \in Endpoint
         /\ calls[c].op = "route" =>
              Rows[calls[c].endpoint] = Absent \/ Readable(Rows[calls[c].endpoint])
         /\ Excused(calls[c].status)
BY DEF IInv, TypeOK, TasksInv, SelectedReadable, SameSettingReadable, Excused

\* record_audit's insert leaves the rows alone.
LEMMA InsertStep ==
  ASSUME IInv, NEW c \in Call, Insert(c)
  PROVE  IInv'
<1> DEFINE b == process.backend
           S == [rows: [Endpoint -> Text \cup {Absent}], logs: Seq(Entry)]
           log == [call |-> c, user |-> Mask[calls[c].token], time |-> calls[c].time]
           appended == [store[b] EXCEPT !.logs = Append(store[b].logs, log)]
<1>1. /\ calls[c].pc = "insert" /\ UNCHANGED <<process, starts, used, sweep, handed>>
      /\ clock' \in 0 .. MaxTime
  BY DEF Insert, Settings, IInv, TypeOK
<1>2. /\ Running /\ calls[c] \in CallState
      /\ calls[c].token = process.management /\ calls[c].token \in Token
      /\ calls[c].op \in {"create", "delete", "route"}
      /\ calls[c].endpoint \in Endpoint
      /\ calls[c].op = "route" =>
           Rows[calls[c].endpoint] = Absent \/ Readable(Rows[calls[c].endpoint])
      /\ Excused(calls[c].status)
  <2>1. Pending(c)
    BY <1>1 DEF Pending
  <2> QED BY <2>1, PendingFacts
<1>3. b \in {"InMemory", "Postgres"} /\ store \in [{"InMemory", "Postgres"} -> S]
  BY <1>2, ProcessFacts DEF IInv, TypeOK, Running
<1>4. log \in Entry
  BY <1>2 DEF Entry, CallState
<1>5. store' = [store EXCEPT ![b] = appended]
  BY <1>3 DEF Insert, record_audit_log
<1>6. appended \in S /\ appended.rows = store[b].rows
  <2>1. Append(store[b].logs, log) \in Seq(Entry)
    BY <1>3, <1>4, AppendProperties
  <2> QED BY <1>3, <2>1
<1>7. /\ store' \in [{"InMemory", "Postgres"} -> S]
      /\ \A x \in {"InMemory", "Postgres"} : store'[x].rows = store[x].rows
  BY <1>3, <1>5, <1>6
<1>8. /\ RowsInv'
      /\ \A d \in Endpoint : Rows[d] = Absent \/ Readable(Rows[d]) =>
                            Rows'[d] = Absent \/ Readable(Rows[d])'
  BY <1>1, <1>2, <1>7, SameRows
<1>9. HandedRegistered' /\ handed' \subseteq [crypt: Key \cup {Unset}, text: Text]
  BY <1>1 DEF IInv, TypeOK, HandedRegistered
<1>10. CASE calls[c].op \in {"create", "delete"}
  <2>1. PICK status \in {201, 204} : calls' = [calls EXCEPT ![c] = End(calls[c], "done", status)]
    <3>1. CASE calls[c].op = "create"
      <4>1. calls' = [calls EXCEPT ![c] = End(calls[c], "done", 201)]
        BY <3>1 DEF Insert
      <4> QED BY <4>1
    <3>2. CASE calls[c].op = "delete"
      <4>1. calls' = [calls EXCEPT ![c] = End(calls[c], "done", 204)]
        BY <3>2 DEF Insert
      <4> QED BY <4>1
    <3> QED BY <1>10, <3>1, <3>2
  <2>2. status \in Status /\ Excused(status)
    BY DEF Status, Excused
  <2> DEFINE r == End(calls[c], "done", status)
  <2>3. r \in CallState /\ r.pc = "done" /\ Excused(r.status)
    BY <1>2, <2>2, EndType
  <2>4. calls' = [calls EXCEPT ![c] = r]
    BY <2>1
  <2> HIDE DEF r
  <2> QED BY <1>1, <1>2, <1>8, <1>9, <2>3, <2>4, CallStep
<1>11. CASE calls[c].op = "route"
  <2> DEFINE r == [calls[c] EXCEPT !.pc = "lookup"]
  <2>1. calls' = [calls EXCEPT ![c] = r]
    BY <1>11 DEF Insert
  <2>2. /\ r \in CallState /\ r.pc = "lookup" /\ r.status = calls[c].status /\ r.token = calls[c].token
        /\ r.op = calls[c].op /\ r.endpoint = calls[c].endpoint
    BY <1>2 DEF CallState
  <2> HIDE DEF r
  <2> QED BY <1>1, <1>2, <1>8, <1>9, <2>1, <2>2, CallStep
<1> QED BY <1>2, <1>10, <1>11

LEMMA LookUpStep ==
  ASSUME IInv, NEW c \in Call, LookUp(c)
  PROVE  IInv'
<1> DEFINE text == Rows[calls[c].endpoint]
           status == IF text = Absent THEN 503 ELSE IF Readable(text) THEN 200 ELSE 500
           r == End(calls[c], "done", status)
<1>1. /\ calls[c].pc = "lookup"
      /\ UNCHANGED <<process, starts, used, store, sweep>> /\ clock' \in 0 .. MaxTime
      /\ calls' = [calls EXCEPT ![c] = r]
  BY DEF LookUp, Settings, IInv, TypeOK
<1>2. Running /\ calls[c] \in CallState /\ calls[c].endpoint \in Endpoint
  <2>1. Pending(c)
    BY <1>1 DEF Pending
  <2> QED BY <2>1, PendingFacts
<1>3. status \in Status /\ Excused(status)
  <2>1. status \in Status
    BY DEF Status
  <2>2. status = 500 => text # Absent /\ ~Readable(text)
    OBVIOUS
  <2> QED BY <1>2, <2>1, <2>2, UnreadableRow DEF Excused
<1> HIDE DEF status
<1>4. r \in CallState /\ r.pc = "done" /\ Excused(r.status)
  BY <1>2, <1>3, EndType
<1>5. /\ RowsInv'
      /\ \A d \in Endpoint : Rows[d] = Absent \/ Readable(Rows[d]) =>
                            Rows'[d] = Absent \/ Readable(Rows[d])'
  BY <1>1, <1>2, SameRows DEF IInv, TypeOK
<1>6. HandedRegistered' /\ handed' \subseteq [crypt: Key \cup {Unset}, text: Text]
  <2>1. CASE handed' = handed
    BY <1>1, <2>1 DEF IInv, TypeOK, HandedRegistered
  <2>2. CASE /\ text \notin {Absent, NoKey}
             /\ Readable(text)
             /\ handed' = handed \cup {Handed(text)}
    <3>1. /\ Decrypted(text) \in Text
          /\ \/ Decrypted(text) \in {NoKey, Plain}
             \/ process.crypt = Unset /\ \E k \in used \ {Unset} : Decrypted(text) = <<k>>
      BY <1>2, <2>2, ReadableRow
    <3>2. Decrypted(text) # NoKey
      <4>1. CASE text = Plain
        BY <4>1, TextFacts DEF Decrypted, Opens
      <4>2. ASSUME NEW k \in used \cap Key, text = <<k>> PROVE Decrypted(text) # NoKey
        BY <4>2, TextFacts DEF Decrypted, Opens
      <4> QED BY <1>2, <2>2, <4>1, <4>2, RowCases
    <3>3. process.crypt \in Key \cup {Unset}
      BY ProcessFacts DEF IInv
    <3>4. handed' \subseteq [crypt: Key \cup {Unset}, text: Text]
      BY <2>2, <3>1, <3>3 DEF IInv, TypeOK, Handed
    <3>5. HandedRegistered'
      BY <1>1, <2>2, <3>1, <3>2 DEF IInv, HandedRegistered, Handed
    <3> QED BY <3>4, <3>5
  <2> QED BY <2>1, <2>2 DEF LookUp
<1> HIDE DEF r
<1> QED BY <1>1, <1>2, <1>4, <1>5, <1>6, CallStep
------------------------------------------------------------------------------
(***************************************************************************)
(* The steps of the worker and the process.                                *)
(***************************************************************************)
\* A step that leaves the requests alone keeps what is said of them.
LEMMA SameCalls ==
  ASSUME IInv, UNCHANGED <<calls, process>>, used \subseteq used',
         Running => \A d \in Endpoint : Rows[d] = Absent \/ Readable(Rows[d]) =>
                                       Rows'[d] = Absent \/ Readable(Rows[d])'
  PROVE  /\ SameSettingReadable'
         /\ SelectedReadable'
         /\ \A c \in Call :
              Pending(c)' => /\ Running'
                             /\ calls'[c].token = process'.management /\ calls'[c].token \in Token
                             /\ calls'[c].op \in {"create", "delete", "route"}
                             /\ calls'[c].endpoint \in Endpoint
<1>1. SameSettingReadable'
  BY DEF IInv, SameSettingReadable
<1>2. ASSUME NEW c \in Call, Pending(c)', calls'[c].op = "route"
      PROVE  (Rows[calls[c].endpoint] = Absent \/ Readable(Rows[calls[c].endpoint]))'
  <2> DEFINE e == calls[c].endpoint
  <2>1. Running /\ e \in Endpoint /\ (Rows[e] = Absent \/ Readable(Rows[e])) /\ calls'[c].endpoint = e
    BY <1>2 DEF IInv, Pending, SelectedReadable, TasksInv
  <2> HIDE DEF e
  <2>2. Rows'[e] = Absent \/ Readable(Rows'[e])
    BY <2>1 DEF Readable, Opens
  <2> QED BY <2>1, <2>2 DEF Readable, Opens
<1>3. SelectedReadable'
  BY <1>2 DEF SelectedReadable
<1> QED BY <1>1, <1>3 DEF IInv, TasksInv, Pending, Running

LEMMA ListForSweepStep ==
  ASSUME IInv, ListForSweep
  PROVE  IInv'
<1>1. /\ Running
      /\ UNCHANGED <<process, starts, used, store, calls, clock, handed>>
      /\ sweep' = [e \in Endpoint |-> IF Rows[e] = Absent THEN Absent ELSE Decrypted(Rows[e])]
  BY DEF ListForSweep, Settings
<1>2. /\ RowsInv'
      /\ \A d \in Endpoint : Rows[d] = Absent \/ Readable(Rows[d]) =>
                            Rows'[d] = Absent \/ Readable(Rows[d])'
  BY <1>1, SameRows DEF IInv, TypeOK
<1>3. ASSUME NEW e \in Endpoint, Rows[e] # Absent
      PROVE  /\ Decrypted(Rows[e]) \in Text
             /\ IF process.backend = "Postgres" /\ process.crypt = Unset
                THEN Accounted(Decrypted(Rows[e])) ELSE Decrypted(Rows[e]) \in {NoKey, Plain}
  BY <1>1, <1>3, ReadableRow DEF ListForSweep, AllReadable
<1>4. sweep' \in [Endpoint -> Text \cup {Absent}]
  BY <1>1, <1>3
<1>5. TypeOK'
  BY <1>1, <1>2, <1>4 DEF IInv, TypeOK, RowsInv
<1>6. ASSUME NEW e \in Endpoint, sweep'[e] # Absent
      PROVE  IF process.backend = "Postgres" /\ process.crypt = Unset
             THEN Accounted(sweep'[e]) ELSE sweep'[e] \in {NoKey, Plain}
  BY <1>1, <1>3, <1>6
<1>7. SameSettingReadable' /\ SelectedReadable' /\ TasksInv'
  BY <1>1, <1>2, <1>6, SameCalls DEF TasksInv, Running, Accounted
<1>8. HandedRegistered'
  BY <1>1 DEF IInv, HandedRegistered
<1> QED BY <1>2, <1>5, <1>7, <1>8 DEF IInv, RowsInv

LEMMA WriteBackStep ==
  ASSUME IInv, NEW e \in Endpoint, WriteBack(e)
  PROVE  IInv'
<1>1. /\ sweep[e] # Absent
      /\ UNCHANGED <<process, starts, used, calls, clock, handed>>
      /\ sweep' = [sweep EXCEPT ![e] = Absent]
      /\ PutRow(e, Encrypted(sweep[e])) \/ store' = store
  BY DEF WriteBack, Settings
<1>2. /\ Running
      /\ \/ sweep[e] \in {NoKey, Plain}
         \/ process.backend = "Postgres" /\ process.crypt = Unset /\ Accounted(sweep[e])
  BY <1>1 DEF IInv, TasksInv
<1>3. Storable(Encrypted(sweep[e]))
  BY <1>2, EncryptedStorable
<1>4. /\ RowsInv'
      /\ \A d \in Endpoint : Rows[d] = Absent \/ Readable(Rows[d]) =>
                            Rows'[d] = Absent \/ Readable(Rows[d])'
  <2>1. CASE PutRow(e, Encrypted(sweep[e]))
    BY <1>1, <1>2, <1>3, <2>1, PutRowInv
  <2>2. CASE store' = store
    BY <1>1, <1>2, <2>2, SameRows DEF IInv, TypeOK
  <2> QED BY <1>1, <2>1, <2>2
<1>5. \A d \in Endpoint : sweep'[d] # Absent => sweep'[d] = sweep[d]
  BY <1>1 DEF IInv, TypeOK
<1>6. TypeOK'
  BY <1>1, <1>4 DEF IInv, TypeOK, RowsInv
<1>7. SameSettingReadable' /\ SelectedReadable' /\ TasksInv'
  <2>1. ASSUME NEW d \in Endpoint, sweep'[d] # Absent
        PROVE  /\ Running'
               /\ (IF process.backend = "Postgres" /\ process.crypt = Unset
                   THEN Accounted(sweep[d]) ELSE sweep[d] \in {NoKey, Plain})'
    BY <1>1, <1>5, <2>1 DEF IInv, TasksInv, Running, Accounted
  <2> QED BY <1>1, <1>4, <2>1, SameCalls DEF TasksInv
<1>8. HandedRegistered'
  BY <1>1 DEF IInv, HandedRegistered
<1> QED BY <1>4, <1>6, <1>7, <1>8 DEF IInv, RowsInv

\* A process starts with no task of the last one left, over the storage as it was.
LEMMA StartStep ==
  ASSUME IInv, NEW env \in Environments, Start(env)
  PROVE  IInv'
<1>1. /\ ~Running
      /\ starts < MaxStarts /\ starts' = starts + 1
      /\ process' = IF StartsUp(env) THEN ProcessOf(env) ELSE Down
      /\ used' = IF process'.backend = "Postgres" THEN used \cup {process'.crypt} ELSE used
      /\ UNCHANGED <<store, sweep, calls, clock, handed>>
  BY DEF Start
<1>2. /\ \A e \in Endpoint : sweep[e] = Absent
      /\ \A c \in Call : ~Pending(c)
  BY <1>1 DEF IInv, TasksInv
<1>3. /\ process' \in Process
      /\ process'.backend # "Postgres" => process'.crypt = Unset
  <2>1. /\ env.management \in Token \cup {Unset} /\ env.viewer \in Token \cup {Unset}
        /\ env.encryption \in Key \cup {Unset, "invalid"} /\ env.in_memory \in BOOLEAN
    BY EnvironmentsAssumption DEF Environment
  <2>2. StartsUp(env) => env.in_memory \/ env.encryption \in Key \cup {Unset}
    BY <2>1 DEF StartsUp
  <2>3. CASE StartsUp(env)
    <3>1. process' = ProcessOf(env)
      BY <1>1, <2>3
    <3>2. ProcessOf(env) \in Process
      <4> DEFINE backend == IF env.in_memory THEN "InMemory" ELSE "Postgres"
                 crypt == IF env.in_memory THEN Unset ELSE env.encryption
      <4>1. backend \in {"InMemory", "Postgres", "down"} /\ crypt \in Key \cup {Unset}
        BY <2>1, <2>2, <2>3
      <4>2. ProcessOf(env) = [backend |-> backend, crypt |-> crypt,
                              management |-> env.management, viewer |-> env.viewer]
        BY DEF ProcessOf
      <4> HIDE DEF backend, crypt
      <4> QED BY <2>1, <4>1, <4>2 DEF Process
    <3>3. ProcessOf(env).backend # "Postgres" => ProcessOf(env).crypt = Unset
      BY DEF ProcessOf
    <3> QED BY <3>1, <3>2, <3>3
  <2>4. CASE ~StartsUp(env)
    <3>1. process' = Down
      BY <1>1, <2>4
    <3>2. Down \in Process /\ Down.crypt = Unset
      BY DEF Down, Process
    <3> QED BY <3>1, <3>2
  <2> QED BY <2>3, <2>4
<1>4. /\ used \subseteq used' /\ used' \subseteq Key \cup {Unset}
      /\ process'.backend = "Postgres" => process'.crypt \in used'
  <2>1. process'.crypt \in Key \cup {Unset}
    BY <1>3 DEF Process
  <2> QED BY <1>1, <2>1 DEF IInv, TypeOK
<1>5. \A text : Accounted(text) => Accounted(text)'
  BY <1>4 DEF Accounted
<1>6. KeysAccounted'
  <2>1. ASSUME NEW e \in Endpoint, store["Postgres"].rows[e] # Absent
        PROVE  Accounted(store["Postgres"].rows[e])
    BY <2>1 DEF IInv, KeysAccounted
  <2>2. ASSUME NEW e \in Endpoint, store'["Postgres"].rows[e] # Absent
        PROVE  Accounted(store["Postgres"].rows[e])'
    <3> DEFINE text == store["Postgres"].rows[e]
    <3>1. Accounted(text) /\ store'["Postgres"].rows[e] = text
      BY <1>1, <2>1, <2>2
    <3> HIDE DEF text
    <3> QED BY <1>4, <3>1 DEF Accounted
  <2> QED BY <2>2 DEF KeysAccounted
<1>7. ProcessInv'
  BY <1>1, <1>3, <1>4 DEF IInv, ProcessInv
<1>8. TypeOK'
  <2>1. starts' \in 0 .. MaxStarts
    BY <1>1, BoundsAssumption DEF IInv, TypeOK
  <2> QED BY <1>1, <1>3, <1>4, <2>1 DEF IInv, TypeOK
<1>9. SameSettingReadable' /\ HandedRegistered'
  BY <1>1, <1>4 DEF IInv, SameSettingReadable, HandedRegistered
<1>10. SelectedReadable' /\ TasksInv'
  BY <1>1, <1>2 DEF SelectedReadable, TasksInv, Pending
<1> QED BY <1>6, <1>7, <1>8, <1>9, <1>10 DEF IInv

LEMMA StopStep ==
  ASSUME IInv, Stop
  PROVE  IInv'
<1>1. /\ process' = Down /\ sweep' = Empty
      /\ store' = [store EXCEPT !["InMemory"] = EmptyStore]
      /\ UNCHANGED <<clock, starts, used, handed>>
      /\ calls' = [c \in Call |-> IF Pending(c) THEN End(calls[c], "dropped", 0) ELSE calls[c]]
  BY DEF Stop
<1>2. Down \in Process /\ Down.backend = "down" /\ Down.crypt = Unset
  BY DEF Down, Process
<1>3. ASSUME NEW c \in Call
      PROVE  calls'[c] \in CallState /\ Excused(calls'[c].status) /\ ~Pending(c)'
  <2>1. calls[c] \in CallState /\ Excused(calls[c].status)
    BY DEF IInv, TypeOK, SameSettingReadable, Excused
  <2>2. CASE Pending(c)
    <3>1. 0 \in Status /\ Excused(0)
      BY DEF Status, Excused
    <3> DEFINE r == End(calls[c], "dropped", 0)
    <3>2. r \in CallState /\ r.pc = "dropped" /\ Excused(r.status)
      BY <2>1, <3>1, EndType
    <3>3. calls'[c] = r
      BY <1>1, <2>2
    <3> HIDE DEF r
    <3> QED BY <3>2, <3>3 DEF Pending
  <2>3. CASE ~Pending(c)
    BY <1>1, <2>1, <2>3 DEF Pending
  <2> QED BY <2>2, <2>3
<1>4. Empty \in [Endpoint -> Text \cup {Absent}] /\ \A e \in Endpoint : Empty[e] = Absent
  BY DEF Empty
<1> DEFINE S == [rows: [Endpoint -> Text \cup {Absent}], logs: Seq(Entry)]
<1>5. /\ store' \in [{"InMemory", "Postgres"} -> S]
      /\ store'["Postgres"] = store["Postgres"]
      /\ \A e \in Endpoint : store'["InMemory"].rows[e] = Absent
  <2>1. EmptyStore \in S /\ EmptyStore.rows = Empty
    BY <1>4 DEF EmptyStore
  <2> QED BY <1>1, <1>4, <2>1 DEF IInv, TypeOK
<1>6. TypeOK'
  <2>1. calls' \in [Call -> CallState]
    BY <1>1, <1>3
  <2> QED BY <1>1, <1>2, <1>4, <1>5, <2>1 DEF IInv, TypeOK
<1>7. KeysAccounted' /\ HandedRegistered' /\ ProcessInv'
  BY <1>1, <1>2, <1>5 DEF IInv, KeysAccounted, HandedRegistered, ProcessInv, Accounted
<1>8. SameSettingReadable' /\ SelectedReadable' /\ TasksInv'
  BY <1>1, <1>3, <1>4 DEF SameSettingReadable, SelectedReadable, TasksInv, Excused
<1> QED BY <1>6, <1>7, <1>8 DEF IInv

LEMMA StutterStep ==
  ASSUME IInv, UNCHANGED vars
  PROVE  IInv'
<1>1. UNCHANGED <<process, store, sweep, calls, clock, starts, used, handed>>
  BY DEF vars
<1>2. TypeOK'
  BY <1>1 DEF IInv, TypeOK
<1>3. KeysAccounted' /\ HandedRegistered' /\ ProcessInv' /\ SameSettingReadable'
  BY <1>1 DEF IInv, KeysAccounted, HandedRegistered, ProcessInv, SameSettingReadable, Accounted
<1>4. SelectedReadable'
  BY <1>1 DEF IInv, SelectedReadable, Pending, Rows, Readable, Opens
<1>5. TasksInv'
  BY <1>1 DEF IInv, TasksInv, Pending, Running, Accounted
<1> QED BY <1>2, <1>3, <1>4, <1>5 DEF IInv
------------------------------------------------------------------------------
(***************************************************************************)
(* The theorems.                                                           *)
(***************************************************************************)
LEMMA InitInv == Init => IInv
<1> SUFFICES ASSUME Init PROVE IInv
  OBVIOUS
<1>1. /\ process = Down /\ sweep = Empty /\ used = {} /\ handed = {} /\ clock = 0 /\ starts = 0
      /\ store = [b \in {"InMemory", "Postgres"} |-> EmptyStore]
      /\ calls = [c \in Call |-> Fresh]
  BY DEF Init
<1>2. Down \in Process /\ Down.backend = "down" /\ Down.crypt = Unset
  BY DEF Down, Process
<1>3. Fresh.status = 0 /\ Fresh.pc = "idle"
  BY DEF Fresh
<1>4. Empty \in [Endpoint -> Text \cup {Absent}] /\ \A e \in Endpoint : Empty[e] = Absent
  BY DEF Empty
<1>5. /\ EmptyStore \in [rows: [Endpoint -> Text \cup {Absent}], logs: Seq(Entry)]
      /\ EmptyStore.rows = Empty
  BY <1>4 DEF EmptyStore
<1>6. TypeOK
  BY <1>1, <1>2, <1>4, <1>5, FreshType, BoundsAssumption DEF TypeOK
<1>7. KeysAccounted /\ HandedRegistered /\ ProcessInv
  BY <1>1, <1>2, <1>4, <1>5 DEF KeysAccounted, HandedRegistered, ProcessInv
<1>8. SameSettingReadable /\ SelectedReadable /\ TasksInv
  BY <1>1, <1>3, <1>4 DEF SameSettingReadable, SelectedReadable, TasksInv, Pending
<1> QED BY <1>6, <1>7, <1>8 DEF IInv

LEMMA StepInv == IInv /\ [Next]_vars => IInv'
<1> SUFFICES ASSUME IInv, [Next]_vars PROVE IInv'
  OBVIOUS
<1>1. ASSUME NEW c \in Call,
             \/ Reject(c) \/ CreateServer(c) \/ DeleteServer(c) \/ RouteRequest(c)
             \/ ViewServers(c) \/ ListAuditLogs(c) \/ Stamp(c) \/ Insert(c) \/ LookUp(c)
      PROVE  IInv'
  BY <1>1, ReadStep, WriteStep, InsertStep, LookUpStep
<1>2. CASE ListForSweep
  BY <1>2, ListForSweepStep
<1>3. ASSUME NEW e \in Endpoint, WriteBack(e) PROVE IInv'
  BY <1>3, WriteBackStep
<1>4. ASSUME NEW env \in Environments, Start(env) PROVE IInv'
  BY <1>4, StartStep
<1>5. CASE Stop
  BY <1>5, StopStep
<1>6. CASE UNCHANGED vars
  BY <1>6, StutterStep
<1> QED BY <1>1, <1>2, <1>3, <1>4, <1>5, <1>6 DEF Next

\* The invariant holds in every reachable state: whatever settings the process is
\* started with and whenever it is stopped.
THEOREM Invariance == Spec => []IInv
<1> QED BY InitInv, StepInv, PTL DEF Spec

\* encrypt_api_key and decrypt_api_key never stack two encryptions in a row, and
\* leave an API key plain only where a process without a key ran.
THEOREM KeysAccountedTheorem == Spec => []KeysAccounted
<1>1. IInv => KeysAccounted
  BY DEF IInv
<1> QED BY <1>1, Invariance, PTL

\* A provider is handed the registered key, unless the process has no key and an
\* earlier one had.
THEOREM HandedRegisteredTheorem == Spec => []HandedRegistered
<1>1. IInv => HandedRegistered
  BY DEF IInv
<1> QED BY <1>1, Invariance, PTL

\* With one setting used on the database throughout, no request fails on a row.
THEOREM SameSettingReadableTheorem == Spec => []SameSettingReadable
<1>1. IInv => SameSettingReadable
  BY DEF IInv
<1> QED BY <1>1, Invariance, PTL

\* route_request's second look at its endpoint finds it gone or readable.
THEOREM SelectedReadableTheorem == Spec => []SelectedReadable
<1>1. IInv => SelectedReadable
  BY DEF IInv
<1> QED BY <1>1, Invariance, PTL

\* record_audit names the token of the administrator of the running process: a
\* waiting handler never outlives the process whose token it was let in with.
THEOREM AdminsAuditedTheorem == Spec => AdminsAudited
<1> DEFINE Named == \A b \in DOMAIN store :
                      \A i \in DOMAIN store'[b].logs \ DOMAIN store[b].logs :
                        store'[b].logs[i].user = Mask[process.management]
<1>1. IInv /\ [Next]_vars => [Named]_vars
  <2> SUFFICES ASSUME IInv, [Next]_vars PROVE Named
    OBVIOUS
  <2>1. store \in [{"InMemory", "Postgres"} ->
                     [rows: [Endpoint -> Text \cup {Absent}], logs: Seq(Entry)]]
    BY DEF IInv, TypeOK
  <2>2. ASSUME \A b \in {"InMemory", "Postgres"} : store'[b].logs = store[b].logs PROVE Named
    BY <2>1, <2>2
  <2>3. CASE store' = store
    BY <2>2, <2>3
  <2>4. ASSUME NEW e \in Endpoint, NEW text, Running, PutRow(e, text) PROVE Named
    <3>1. process.backend \in {"InMemory", "Postgres"}
      BY <2>4, ProcessFacts DEF IInv, Running
    <3>2. \A b \in {"InMemory", "Postgres"} : store'[b].logs = store[b].logs
      BY <2>1, <2>4, <3>1 DEF PutRow
    <3> QED BY <2>2, <3>2
  <2>5. ASSUME NEW c \in Call, Insert(c) PROVE Named
    <3> DEFINE b == process.backend
               log == [call |-> c, user |-> Mask[calls[c].token], time |-> calls[c].time]
    <3>1. Running /\ calls[c].token = process.management
      BY <2>5, PendingFacts DEF Insert, Pending
    <3>2. b \in {"InMemory", "Postgres"}
      BY <3>1, ProcessFacts DEF IInv, Running
    <3>3. /\ store'[b].logs = Append(store[b].logs, log)
          /\ \A x \in {"InMemory", "Postgres"} : x # b => store'[x].logs = store[x].logs
      BY <2>1, <2>5, <3>2 DEF Insert, record_audit_log
    <3>4. ASSUME NEW i \in DOMAIN store'[b].logs \ DOMAIN store[b].logs
          PROVE  store'[b].logs[i] = log
      <4> DEFINE s == store[b].logs
      <4>1. s \in Seq(Entry)
        BY <2>1, <3>2
      <4> HIDE DEF s, log
      <4>2. DOMAIN s = 1 .. Len(s) /\ DOMAIN Append(s, log) = 1 .. Len(s) + 1 /\ Len(s) \in Nat
        BY <4>1
      <4>3. i \in DOMAIN Append(s, log) /\ i \notin DOMAIN s
        BY <3>3 DEF s
      <4>4. i \in 1 .. Len(s) + 1 /\ i \notin 1 .. Len(s)
        BY <4>2, <4>3
      <4>5. i = Len(s) + 1
        BY <4>2, <4>4
      <4>6. Append(s, log)[i] = log
        BY <4>1, <4>5
      <4> QED BY <3>3, <4>6 DEF s
    <3>5. log.user = Mask[process.management]
      BY <3>1
    <3> HIDE DEF log
    <3> QED BY <2>1, <3>3, <3>4, <3>5
  <2>6. CASE Stop
    <3>1. \A b \in {"InMemory", "Postgres"} :
            store'[b].logs = store[b].logs \/ store'[b].logs = <<>>
      BY <2>1, <2>6 DEF Stop, EmptyStore
    <3>2. DOMAIN store' = {"InMemory", "Postgres"}
      BY <2>1, <2>6 DEF Stop
    <3> QED BY <2>1, <3>1, <3>2
  <2>7. ASSUME NEW c \in Call,
               Reject(c) \/ RouteRequest(c) \/ ViewServers(c) \/ ListAuditLogs(c) \/ Stamp(c) \/ LookUp(c)
        PROVE  Named
    BY <2>3, <2>7 DEF Reject, RouteRequest, ViewServers, ListAuditLogs, Stamp, LookUp
  <2>8. ASSUME NEW c \in Call, CreateServer(c) \/ DeleteServer(c) PROVE Named
    BY <2>4, <2>8 DEF CreateServer, DeleteServer, Idle
  <2>9. ASSUME ListForSweep \/ (\E env \in Environments : Start(env)) \/ UNCHANGED vars
        PROVE  Named
    BY <2>3, <2>9 DEF ListForSweep, Start, vars
  <2>10. ASSUME NEW e \in Endpoint, WriteBack(e) PROVE Named
    <3>1. Running
      BY <2>10 DEF WriteBack, IInv, TasksInv
    <3> QED BY <2>3, <2>4, <2>10, <3>1 DEF WriteBack
  <2> HIDE DEF Named
  <2> QED BY <2>5, <2>6, <2>7, <2>8, <2>9, <2>10 DEF Next
<1> QED BY <1>1, Invariance, PTL DEF Spec, AdminsAudited
=============================================================================

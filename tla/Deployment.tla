------------------------------ MODULE Deployment ------------------------------
(***************************************************************************)
(* What the storage keeps of API keys and audit entries while the process  *)
(* is stopped and started with other settings: the api_key column of       *)
(* PostgresStorage (src/storage/postgres.rs, src/security/mod.rs), the     *)
(* worker that writes it back, and requests from authentication to answer. *)
(* An encrypted text decrypts under its key and under no other, and a      *)
(* plain API key under none (AES-256-GCM is authenticated). Health,        *)
(* routing decisions, failing statements and closed connections are        *)
(* ControlPlane's subject and are left out.                                *)
(***************************************************************************)
EXTENDS Configuration, AuditListing

CONSTANTS
  Endpoint, Call, Absent,
  NoKey,       \* an endpoint registered without an API key: the column is NULL
  Limits,      \* the limits GET /audit-logs is asked with
  MaxStarts,   \* bound: starts of the process
  MaxTime      \* bound: the clock's last reading

VARIABLES
  process,   \* the settings of the running process, or Down
  store,     \* of each storage: the api_key of every endpoint, and the audit log
  sweep,     \* the API keys the worker listed and has not dealt with
  calls,     \* what each request has done, kept after its answer
  clock,     \* the last Utc::now, which never goes back here
  starts,
  used,      \* history: the encryption settings processes had on the database
  handed     \* history: what providers were handed as API keys, by which setting

vars == <<process, store, sweep, calls, clock, starts, used, handed>>

\* The text in the column: the registered key under the layers of encryption
\* around it, the outermost first.
Plain == <<>>
Text == {NoKey} \cup Seq(Key)
Entry == [call: Call, user: {Mask[t] : t \in Token}, time: Nat]

ASSUME LimitsAssumption == NoLimit \notin Nat /\ Limits \subseteq Nat \cup {NoLimit}
ASSUME BoundsAssumption == MaxStarts \in Nat /\ MaxTime \in Nat
ASSUME TextAssumption == NoKey \notin Seq(Key) /\ Absent \notin Text /\ Absent \notin Endpoint

Status == {0, 200, 201, 204, 401, 403, 404, 500, 503}

CallState ==
  [pc: {"idle", "stamp", "insert", "lookup", "done", "dropped"}, op: {"none", "create", "delete", "route"},
   endpoint: Endpoint \cup {Absent}, token: Token \cup {Unset}, time: Nat,
   after: SUBSET Call, status: Status,
   backend: {"InMemory", "Postgres", "down"}, shown: Seq(Entry), limit: Limits \cup {NoLimit}]

TypeOK ==
  /\ process \in Process
  /\ store \in [{"InMemory", "Postgres"} ->
                  [rows: [Endpoint -> Text \cup {Absent}], logs: Seq(Entry)]]
  /\ sweep \in [Endpoint -> Text \cup {Absent}]
  /\ calls \in [Call -> CallState]
  /\ clock \in 0 .. MaxTime
  /\ starts \in 0 .. MaxStarts
  /\ used \subseteq Key \cup {Unset}
  /\ handed \subseteq [crypt: Key \cup {Unset}, text: Text]

Empty == [e \in Endpoint |-> Absent]
EmptyStore == [rows |-> Empty, logs |-> <<>>]
Fresh == [pc |-> "idle", op |-> "none", endpoint |-> Absent, token |-> Unset, time |-> 0,
          after |-> {}, status |-> 0, backend |-> "down", shown |-> <<>>, limit |-> NoLimit]

Init ==
  /\ process = Down
  /\ store = [b \in {"InMemory", "Postgres"} |-> EmptyStore]
  /\ sweep = Empty
  /\ calls = [c \in Call |-> Fresh]
  /\ clock = 0
  /\ starts = 0
  /\ used = {}
  /\ handed = {}
------------------------------------------------------------------------------
\* encrypt_api_key
Encrypted(text) ==
  IF text = NoKey \/ process.crypt = Unset THEN text ELSE <<process.crypt>> \o text

Opens(text) == text \notin {Absent, NoKey, Plain} /\ Head(text) = process.crypt

\* Mutants of Readable: what does not decrypt is taken as it is; NULL does not
\* decrypt.
ReadableAlways(text) == TRUE
ReadableNotNull(text) == process.crypt = Unset \/ Opens(text)

\* Whether decrypt_api_key returns Ok.
Readable(text) == text = NoKey \/ process.crypt = Unset \/ Opens(text)

\* Mutant of Decrypted: the listing returns the column.
DecryptedNever(text) == text

\* decrypt_api_key. Without a key the column is returned as it is.
Decrypted(text) == IF Opens(text) THEN Tail(text) ELSE text

Running == process.backend # "down"
Rows == store[process.backend].rows
\* Mutant of AllReadable: a listing does not decrypt.
AllReadableAssumed == TRUE

\* Whether list_servers returns Ok.
AllReadable == \A e \in Endpoint : Rows[e] = Absent \/ Readable(Rows[e])

PutRow(e, text) == store' = [store EXCEPT ![process.backend].rows[e] = text]

\* A request that writes, at its first await; one that reads or is turned away has
\* its answer at once. after is history: the writing requests already answered.
Answered == {c \in Call : calls[c].pc = "done" /\ calls[c].op # "none"}
Begin(op, e, cred) ==
  [Fresh EXCEPT !.pc = "stamp", !.op = op, !.endpoint = e, !.token = cred.token,
                !.after = Answered]
Reply(status) == [Fresh EXCEPT !.pc = "done", !.status = status]
End(call, pc, status) ==
  [call EXCEPT !.pc = pc, !.status = status, !.token = Unset, !.time = 0]

Pending(c) == calls[c].pc \in {"stamp", "insert", "lookup"}
Idle(c) == Running /\ calls[c].pc = "idle"
Settings == <<process, starts, used>>
------------------------------------------------------------------------------
\* auth_middleware and require_write turn a request away.
Reject(c) ==
  /\ Idle(c)
  /\ \E cred \in Credential :
       /\ ~MayWrite(process, cred)
       /\ calls' = [calls EXCEPT
            ![c] = Reply(IF MayRead(process, cred) THEN 403 ELSE 401)]
  /\ UNCHANGED <<Settings, store, sweep, clock, handed>>

\* POST /servers up to the upsert; Uuid::new_v4 repeats no id.
CreateServer(c) ==
  /\ Idle(c)
  /\ \E cred \in Credential, e \in Endpoint, key \in {NoKey, Plain} :
       /\ MayWrite(process, cred)
       /\ \A d \in Call : calls[d].op = "create" => calls[d].endpoint # e
       /\ PutRow(e, Encrypted(key))
       /\ calls' = [calls EXCEPT
            ![c] = Begin("create", e, cred)]
  /\ UNCHANGED <<Settings, sweep, clock, handed>>

\* DELETE /servers/{id} up to the delete, which decrypts nothing.
DeleteServer(c) ==
  /\ Idle(c)
  /\ \E cred \in Credential, e \in Endpoint :
       /\ MayWrite(process, cred)
       /\ PutRow(e, Absent)
       /\ calls' = [calls EXCEPT ![c] = Begin("delete", e, cred)]
  /\ UNCHANGED <<Settings, sweep, clock, handed>>

\* POST /route up to the selection from the listing; which endpoint is chosen is
\* the router's matter. No listing, no selection.
RouteRequest(c) ==
  /\ Idle(c)
  /\ \E cred \in Credential, e \in Endpoint :
       /\ MayWrite(process, cred)
       /\ calls' = [calls EXCEPT
            ![c] = IF AllReadable /\ Rows[e] # Absent
                   THEN Begin("route", e, cred)
                   ELSE Reply(503)]
  /\ UNCHANGED <<Settings, store, sweep, clock, handed>>

\* GET /servers, GET /servers/{id}: one row that does not decrypt fails the
\* listing, and otherwise only itself. GET /metrics reads no storage.
ViewStatuses ==
  {200, IF AllReadable THEN 200 ELSE 500}
  \cup {IF Rows[e] = Absent THEN 404 ELSE IF Readable(Rows[e]) THEN 200 ELSE 500 : e \in Endpoint}

ViewServers(c) ==
  /\ Idle(c)
  /\ \E cred \in Credential, status \in ViewStatuses :
       /\ MayRead(process, cred)
       /\ calls' = [calls EXCEPT ![c] = Reply(status)]
  /\ UNCHANGED <<Settings, store, sweep, clock, handed>>

\* GET /audit-logs
ListAuditLogs(c) ==
  /\ Idle(c)
  /\ \E cred \in Credential, limit \in Limits \cup {NoLimit} :
       /\ MayRead(process, cred)
       /\ \E shown \in Listings(process.backend, store[process.backend].logs, limit) :
            calls' = [calls EXCEPT
              ![c] = [Reply(200) EXCEPT !.after = Answered, !.backend = process.backend,
                                         !.shown = shown, !.limit = limit]]
  /\ UNCHANGED <<Settings, store, sweep, clock, handed>>

\* record_audit takes the timestamp, then awaits the insert. Time may have passed.
Stamp(c) ==
  /\ calls[c].pc = "stamp"
  /\ clock' \in clock .. MaxTime
  /\ calls' = [calls EXCEPT ![c].pc = "insert", ![c].time = clock']
  /\ UNCHANGED <<Settings, store, sweep, handed>>

Insert(c) ==
  /\ calls[c].pc = "insert"
  /\ LET log == [call |-> c, user |-> Mask[calls[c].token], time |-> calls[c].time]
     IN  store' = [store EXCEPT ![process.backend].logs = record_audit_log(@, log)]
  /\ calls' = [calls EXCEPT
       ![c] = CASE @.op = "create" -> End(@, "done", 201)
                [] @.op = "delete" -> End(@, "done", 204)
                [] @.op = "route" -> [@ EXCEPT !.pc = "lookup"]]
  /\ UNCHANGED <<Settings, sweep, clock, handed>>

\* forward, call_llm and call_mcp: a key goes out as it was read.
Handed(text) == [crypt |-> process.crypt, text |-> Decrypted(text)]

\* route_request reads the endpoint again, and with a message forwards it with its
\* key. The provider's answer is ControlPlane's matter.
LookUp(c) ==
  /\ calls[c].pc = "lookup"
  /\ LET text == Rows[calls[c].endpoint] IN
       /\ calls' = [calls EXCEPT ![c] = End(@, "done", IF text = Absent THEN 503
                                                        ELSE IF Readable(text) THEN 200 ELSE 500)]
       /\ \/ handed' = handed
          \/ /\ text \notin {Absent, NoKey}
             /\ Readable(text)
             /\ handed' = handed \cup {Handed(text)}
  /\ UNCHANGED <<Settings, store, sweep, clock>>

\* The worker's listing, of decrypted keys; it fails as a whole.
ListForSweep ==
  /\ Running
  /\ sweep = Empty
  /\ AllReadable
  /\ sweep' = [e \in Endpoint |-> IF Rows[e] = Absent THEN Absent ELSE Decrypted(Rows[e])]
  /\ UNCHANGED <<Settings, store, calls, clock, handed>>

\* The write-back of an endpoint, or none because nothing changed or it failed.
WriteBack(e) ==
  /\ sweep[e] # Absent
  /\ PutRow(e, Encrypted(sweep[e])) \/ UNCHANGED store
  /\ sweep' = [sweep EXCEPT ![e] = Absent]
  /\ UNCHANGED <<Settings, calls, clock, handed>>

\* main, up to the spawned tasks; a setting it rejects ends it.
Start(env) ==
  /\ ~Running
  /\ starts < MaxStarts
  /\ starts' = starts + 1
  /\ process' = IF StartsUp(env) THEN ProcessOf(env) ELSE Down
  /\ used' = IF process'.backend = "Postgres" THEN used \cup {process'.crypt} ELSE used
  /\ UNCHANGED <<store, sweep, calls, clock, handed>>

\* The process ends with its MCP client, and with it every task and what is in
\* memory. The database stays as it is.
Stop ==
  /\ Running
  /\ process' = Down
  /\ store' = [store EXCEPT !["InMemory"] = EmptyStore]
  /\ sweep' = Empty
  /\ calls' = [c \in Call |-> IF Pending(c)
                              THEN End(calls[c], "dropped", 0)
                              ELSE calls[c]]
  /\ UNCHANGED <<clock, starts, used, handed>>

Next ==
  \/ \E c \in Call :
       \/ Reject(c) \/ CreateServer(c) \/ DeleteServer(c) \/ RouteRequest(c)
       \/ ViewServers(c) \/ ListAuditLogs(c) \/ Stamp(c) \/ Insert(c) \/ LookUp(c)
  \/ ListForSweep
  \/ \E e \in Endpoint : WriteBack(e)
  \/ \E env \in Environments : Start(env)
  \/ Stop

Spec == Init /\ [][Next]_vars
------------------------------------------------------------------------------
(***************************************************************************)
(* Properties.                                                             *)
(***************************************************************************)

\* A text that some process that ran on the database may have left there.
Accounted(text) ==
  \/ text = NoKey
  \/ text = Plain /\ Unset \in used
  \/ \E k \in used \ {Unset} : text = <<k>>

\* An API key is in the database plain only if a process ran on it without a key,
\* and otherwise encrypted exactly once, under the key of a process that ran on it,
\* whatever was listed, written back, stopped and started in between.
KeysAccounted ==
  \A e \in Endpoint :
    store["Postgres"].rows[e] # Absent => Accounted(store["Postgres"].rows[e])

\* What a provider is handed is the registered key. Only a process without a key
\* hands out a text that a key of an earlier process encrypted.
HandedRegistered ==
  \A h \in handed :
    h.text # Plain => h.crypt = Unset /\ \E k \in used \ {Unset} : h.text = <<k>>

\* Reading fails on no row unless two processes had different settings on the
\* database, also setting and unsetting the key.
SameSettingReadable ==
  \A c \in Call : calls[c].status = 500 => \E a, b \in used : a # b

\* What a listing was selected from is readable when the handler looks it up: the
\* call never fails on the row after its decision was recorded.
SelectedReadable ==
  \A c \in Call :
    Pending(c) /\ calls[c].op = "route" =>
      Rows[calls[c].endpoint] = Absent \/ Readable(Rows[calls[c].endpoint])

\* Every entry of the audit log names the administrator's token of the process
\* that wrote it, though a viewer's token may become the next administrator's.
AdminsAudited ==
  [][\A b \in DOMAIN store :
       \A i \in DOMAIN store'[b].logs \ DOMAIN store[b].logs :
         store'[b].logs[i].user = Mask[process.management]]_vars

\* A listing shows the later of two requests first, when the earlier was answered
\* before the later began. In the database the clock must have moved between.
ListedNewestFirst ==
  \A c \in Call : \A i, j \in DOMAIN calls[c].shown :
    LET first == calls[c].shown[i]
        then  == calls[c].shown[j]
    IN  i < j /\ first.call \in calls[then.call].after =>
          calls[c].backend = "Postgres" /\ first.time = then.time

\* A listing, empty or not, leaves out an entry of a request answered before it only
\* for as many others as were asked for, and for none that is certainly older.
ListingComplete ==
  \A c \in {d \in Call : calls[d].backend # "down"} : \A log \in Range(store[calls[c].backend].logs) :
    log.call \in calls[c].after /\ log \notin Range(calls[c].shown) =>
      /\ IF calls[c].limit = NoLimit
         THEN calls[c].backend = "Postgres" /\ Len(calls[c].shown) = DefaultLimit
         ELSE Len(calls[c].shown) >= calls[c].limit
      /\ \A other \in Range(calls[c].shown) :
           other.call \in calls[log.call].after =>
             calls[c].backend = "Postgres" /\ other.time = log.time

\* A listing shows x, and y only after it or not at all.
Prefers(listing, x, y) ==
  \E k \in DOMAIN listing : listing[k] = x /\ \A l \in DOMAIN listing : listing[l] = y => k < l

\* Neither request was answered before the other began.
Overlapped(c, d) == c \notin calls[d].after /\ d \notin calls[c].after

\* Over the same log both storages list equally many entries, unless the limit is 0,
\* or there is none and more entries than the database then lists. Of two entries with
\* different time stamps they prefer different ones only if the requests overlapped and
\* the one that took its stamp later inserted first: the database has that one first.
StoragesAgree ==
  \A b \in DOMAIN store :
    LET logs == store[b].logs
    IN  \A sorted \in Arrangements(logs), limit \in Limits \cup {NoLimit} :
          LET memory   == MemoryListing(logs, limit)
              database == Cut(sorted, limit)
          IN  /\ Len(database) # Len(memory) =>
                   limit = 0 \/ (limit = NoLimit /\ Len(logs) > DefaultLimit)
              /\ \A x \in Range(database), y \in Range(memory) :
                   x.time # y.time /\ Prefers(database, x, y) /\ Prefers(memory, y, x) =>
                     x.time > y.time /\ Overlapped(x.call, y.call)
------------------------------------------------------------------------------
(***************************************************************************)
(* The inductive invariant behind the theorems of DeploymentProofs.        *)
(***************************************************************************)
\* Only the database is encrypted, and its process left its setting in the history.
ProcessInv ==
  /\ process.backend = "Postgres" => process.crypt \in used
  /\ process.backend # "Postgres" => process.crypt = Unset
  /\ \A e \in Endpoint : store["InMemory"].rows[e] \in {Absent, NoKey, Plain}

\* What a task holds belongs to the running process: the worker a text that the
\* process writes back as one that may be stored, a handler its administrator's token.
TasksInv ==
  /\ \A e \in Endpoint :
       sweep[e] # Absent =>
         /\ Running
         /\ IF process.backend = "Postgres" /\ process.crypt = Unset
            THEN Accounted(sweep[e]) ELSE sweep[e] \in {NoKey, Plain}
  /\ \A c \in Call :
       Pending(c) => /\ Running
                     /\ calls[c].token = process.management /\ calls[c].token \in Token
                     /\ calls[c].op \in {"create", "delete", "route"}
                     /\ calls[c].endpoint \in Endpoint

IInv ==
  /\ TypeOK
  /\ KeysAccounted
  /\ HandedRegistered
  /\ SameSettingReadable
  /\ SelectedReadable
  /\ ProcessInv
  /\ TasksInv

\* A request that awaits no insert of its entry any more.
PastInsert == {"lookup", "done", "dropped"}

\* Of the requests that entries and listings name: the request of an entry inserts no
\* other, and one answered before another began stays answered. No time stamp is
\* ahead of the clock.
EntriesInv ==
  /\ \A b \in DOMAIN store : \A log \in Range(store[b].logs) :
       calls[log.call].pc \in PastInsert /\ log.time <= clock
  /\ \A b \in DOMAIN store : \A i, j \in DOMAIN store[b].logs :
       i # j => store[b].logs[i].call # store[b].logs[j].call
  /\ \A c \in Call : /\ \A entry \in Range(calls[c].shown) : calls[entry.call].pc # "idle"
                     /\ \A d \in calls[c].after : calls[d].pc = "done"
                     /\ calls[c].time <= clock

\* Of two requests, one answered before the other began, the entries stand in that
\* order and their time stamps are not reversed, nor will they be once a stamped
\* request inserts its entry.
OrderInv ==
  /\ \A b \in DOMAIN store : \A i, j \in DOMAIN store[b].logs :
       store[b].logs[i].call \in calls[store[b].logs[j].call].after =>
         i < j /\ store[b].logs[i].time <= store[b].logs[j].time
  /\ \A b \in DOMAIN store : \A log \in Range(store[b].logs) : \A c \in Call :
       calls[c].pc = "insert" /\ log.call \in calls[c].after => log.time <= calls[c].time

\* Inductive relative to IInv, for the theorems of ListingProofs.
ListingInv ==
  /\ EntriesInv
  /\ OrderInv
=============================================================================

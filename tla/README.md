# rustforge-mcp in TLA+

A specification of rustforge-mcp, kept beside its code: what the control plane
(management API, routing, health checks, storage), the cargo tool and the file
tools do when their tasks interleave, their operations fail and the process is
stopped and started again, with the same settings or others; model-checked with
TLC and proved with TLAPS. Paths below are those of the repository.

## The system

One process (`src/main.rs`) runs three tasks on one tokio runtime and ends when
the MCP client on its stdin goes away.

| Component | State | Operations | Interacts with |
| --- | --- | --- | --- |
| Storage (`storage/mod.rs`, `storage/postgres.rs`) | endpoints by id, routing history, audit log | get, list, upsert, delete, record decision, record audit, list audit | called by every other part; PostgreSQL outlives the process, memory does not |
| Routing engine (`router/mod.rs`) | one round-robin counter | route: list, filter, select, record | reads and writes the storage |
| Health worker (`telemetry/mod.rs`) | the listing it works on | list, probe one endpoint after the other, write each back, sleep | writes whole endpoint records |
| Management API (`api/mod.rs`) | its calls in flight | create, delete, route, and reads | storage, router, provider clients |
| Authentication, roles (`auth/mod.rs`) | the tokens of the process | token and role check, the name in the audit log | before every handler |
| Encryption (`security/mod.rs`) | one key, or none | encrypt, decrypt API keys | inside PostgreSQL storage |
| Provider clients (`providers/`) | none | forward a message | end of a route call |
| Cargo and file tools (`tools/mod.rs`) | a child process and its pipes | cargo commands; list, read, write files | MCP client; none of the above |
| Configuration (`config/mod.rs`) | read once | accept or reject the environment | parameters of all |
| Metrics (`telemetry/mod.rs`) | two counters | count, show | read by nobody but `GET /metrics` |

What is hard in it: a sweep of the worker takes up to three seconds per
endpoint and then writes back records it listed before, while clients create,
delete and route; a handler is a sequence of awaits with other tasks, failures,
a closed connection or the end of the process in between; a statement can take
effect and look failed; the circuit breaker reads what an earlier sweep wrote;
requests of all kinds share a counter while the listings behind it move; the
cargo tool waits for a child that may wait for it; API keys stay in the database
while the process comes back with another encryption key or none; the audit
log is ordered by clocks read before the insert; a write of a file truncates it
first while other calls read. `PROJECT.json` lists these
hazards with their lines and the properties that watch them.

What makes each part correct:

- storage: nothing told to a client is lost, nobody overwrites unseen changes;
- worker: whole-record writes never touch the configuration, failures are
  counted without a gap, every endpoint is judged, a recovered one comes back;
- router: no endpoint is selected after three failed checks in a row; a round
  robin is a round;
- API: audit log and history tell what happened, no more and no less;
- audit log: the name of who was let in, the newest first, nothing newer left out;
- encryption: a stored key is encrypted once at most, and reaches a provider as it
  was registered; reads fail only when the setting was changed;
- cargo tool: complete output, no killed command that would have ended, no child
  left behind a reply, and always a reply;
- file tools: the path that was meant or a refusal; whole contents wherever no two
  calls overlap.

## Modules

| Module | Models | Lines of the code |
| --- | --- | --- |
| `Models` | an endpoint: what of it decides anything | `models/mod.rs`, `CreateServerRequest` |
| `Storage` | both storages: each operation is one step with a result | `storage/*.rs`, the migration |
| `RoutingEngine` | candidates, breaker, score, what a strategy may select | `router/mod.rs` |
| `HealthWorker` | the worker's loop | `telemetry/mod.rs` |
| `ManagementApi` | create, delete and route, one action per stretch between awaits | `api/mod.rs` |
| `ControlPlane` | the four together, restarts, fairness, the properties | `main.rs` |
| `CircuitBreaker` | abstract: select only below the threshold of failed checks | the promise, not the code |
| `ControlPlaneProofs`, `RecordsProofs` | theorems about `ControlPlane` | |
| `RoundRobin`, `RoundRobinProofs` | round robin with the order of listings | `router/mod.rs` 137-155 |
| `CargoTool`, `CargoToolProofs` | one call of a cargo tool: the check of its arguments, its child and pipes | `tools/mod.rs` 118-180, 218-243 |
| `FileTools`, `FileToolsProofs`, `PathsProofs` | paths, and interleaved list, read and write calls | `tools/mod.rs` 74-116, 182-216 |
| `Configuration` | which settings the process starts with, what a credential may do | `config/mod.rs`, `auth/mod.rs`, `main.rs` 20-55 |
| `AuditListing` | `list_audit_logs` of both storages | `storage/*.rs` |
| `Deployment`, `DeploymentProofs`, `ListingProofs` | API keys and audit entries over starts with changing settings | `storage/postgres.rs`, `security/mod.rs`, `api/mod.rs`, `main.rs` |
| `MC*` | values of the constants for TLC | |

The modules extend each other in the order Models, Storage, RoutingEngine,
ManagementApi, and ControlPlane joins ManagementApi and HealthWorker over the
one Storage. `Deployment` extends Configuration and AuditListing. It is a second
view of the same process: it keeps of each endpoint only its API key, and of
handlers and worker the same steps between awaits, but follows what `ControlPlane`
abstracts, the settings, the roles, the clock and the order of the audit log.
`map` in `PROJECT.json` gives the lines of every definition.

How the state corresponds to the code:

- `servers[id]` is the stored `ServerEndpoint` or `Absent`. Metadata is reduced
  to what is read of it: whether it is an object, the failure counter, the last
  latency, the error rate. URLs are reduced to "http or not", the only thing the
  worker looks at.
- `routing_history`, `audit_logs` are sets; an entry is named by its call.
- `calls[c]` is a handler: `pc` is the await it is at (`record` the decision,
  `audit`, `lookup` the endpoint, `forward`), `status` its answer. Calls keep
  their answer so that properties can speak of it.
- `worker` is the await of the worker's task; `sweep` what is left of the listing
  it took; `writing` the entry just probed.
- `streak` is not in the code. It is a history variable: failed checks since the
  last success, up to three, counted where the result reached the storage (or
  where, for metadata that is no object and an unchanged health, the code writes
  nothing). It is what the breaker is measured against.

In `Deployment`:

- `store` has both storages, so that a start without the database and one with it
  again find what they left. A row is the text in the `api_key` column as the
  layers of encryption around the registered key: `<<>>` is the key itself, `<<k>>`
  is encrypted under `k`, and `NoKey` is NULL. The invariant shows that there is
  never a second layer, the model would allow it.
- `process` is what main made of its environment, or `Down`; `calls`, `sweep` are
  the handlers' and the worker's as above, now with decrypted keys.
- `used`, `handed` and `after` are history: encryption settings under which processes
  ran on the database; what providers were handed; the requests answered before
  one began.

In `FileTools`: `files[f]` is a sequence of chunks, each what one system call
moves, so a read or a write of more than one chunk can be interleaved; `settled`,
`alone` and `want` are history, by which properties say "no write overlapped".

Assumptions of the models, beyond the code:

- A storage operation is one step. In memory each takes one lock and does not
  await under it; in PostgreSQL each is one autocommitted statement. A statement
  takes effect, if it does, before its caller goes on or its caller is dropped: a
  handler dropped at its await is a step `ClientGone` before or after the
  statement, and a statement applied for a dropped caller is one with a lost
  answer.
- Results of a statement are `ok`, `err` (nothing happened) and `lost_ack` (it
  happened, the caller sees an error).
- `Uuid::new_v4` does not repeat an id. `DeleteServer` deletes ids that were
  drawn; a second deletion of the same id is the case of an unknown id.
- A listing has no order in `ControlPlane` (a `HashMap`, or `SELECT` without
  `ORDER BY`), so a round-robin position may be any candidate there.
  `RoundRobin` fixes the order of each listing.
- Time: a probe ends (three-second client timeout), sleeps end. Durations appear
  nowhere else, except that a cargo child that ends by itself does so before or
  after the timeout when nothing blocks it (`ends`).
- Pipes: a writer blocks on a full pipe; the read side ends when nobody holds the
  write side; descendants inherit it and write nothing more themselves.
  `child.wait()` only fails after the exit.
- Encryption is authenticated (AES-256-GCM): what a key encrypted decrypts under no
  other key, and a plain API key decrypts under none. Tokens are only compared.
- In `Deployment` statements do not fail and connections are not closed; these
  are `ControlPlane`'s. The clock does not go back, but may stand still; it is read
  at the stamp only, so it moves there (`Stamp`). Rows of equal time stamps are
  listed in any order. What the in-memory storage holds ends with its process.
- The workspace root exists, so `canonicalize` made it absolute; the tree has no
  symbolic links, and its directories stay. `resolve_path` follows symbolic links
  after its check of the prefix (`src/src/tools/mod.rs:193`) and does not look at the
  result again, so `PathsMeant` is about `.` and `..` alone: that calls stay below the
  root is not shown where such links exist. Contents are text. A system call on a
  file is atomic, does not fail half way, and a writer keeps its own offset.
- Integer overflow is in the model: `OverflowChecks` is a build that panics
  (`cargo build`, `cargo test`) and its absence one that wraps (`--release`; the
  manifest sets no profile).

## Runs

| Run | Asks | Bounds |
| --- | --- | --- |
| `control_inmemory` | `TypeOK`; `SnapshotCurrent`: no lost update; `AnsweredAudited`, `HistoryTraceable`: the records of answered calls; `ConfigStable`; `BreakerSpec`: implements `CircuitBreaker` | 2 endpoints, 3 calls, all answers to probes, 1 restart, counter to 3 |
| `control_postgres` | `BreakerOpens`, `CreatedPersists`, `AuditBacked`, `CounterFallsOnSuccess`; `DeletionFinal`: only a sweep that listed an endpoint before its deletion undoes it; and the inductive invariants `IInv`, `CounterInv`, with failing statements and overflow checks | 1 endpoint, 3 calls, object and other metadata, 1 restart, counter to its largest value 4 |
| `live` | `EventuallyJudged`, `EventuallyCandidate` | 2 endpoints (MCP up or down, LLM steady with an open breaker, one without a URL), 2 calls, failing statements, 1 restart |
| `round_robin` | `FullTurn`: n selections in a row from one listing of n cover it, also across a wrap when n divides the width; `WithinTwoTurns`: 2n - 1 always do | 2 handlers, 2 kinds, listings of 2 and 3 that change, a counter of 4 values, 7 selections |
| `cargo` | `IInv`, `OutputComplete`, `AnsweredChildGone`, `FittingNotKilled`, `EventuallyAnswered` | pipes of 2, output to 3 on each stream, every combination of text, end and descendants |
| `deployment` | `KeysAccounted`, `HandedRegistered`, `SameSettingReadable`, `SelectedReadable`: stored keys; `AdminsAudited`, `ListedNewestFirst`, `ListingComplete`, `StoragesAgree`: the audit log; the inductive invariants `IInv`, `ListingInv` | 1 endpoint, 3 calls, 2 keys or none, 2 tokens that change roles, both storages, a rejected setting, 3 starts, 2 clock readings, default limit 1, limits 0 and 2 |
| `file_tools` | `PathsMeant`, `QuietRead`, `QuietFile`, and the inductive invariant `IInv` | 3 calls on 2 files, contents of 1 and 2 chunks; every path of up to 4 components over a name, the root's name, `.` and `..`, absolute and relative |
| `find_deleted_revived` | `DeletedStaysDeleted` is violated | 1 endpoint, 2 calls |
| `find_history_lost` | `HistoryTraceable` is violated over PostgreSQL | 1 endpoint, 3 calls |
| `find_opaque_breaker` | `BreakerSpec` is violated by metadata that is no object | 1 endpoint, 2 calls |
| `find_round_robin_shared` | `EvenWithinKind` is violated | 2 endpoints of each kind, 6 selections |
| `find_pipe_stall` | `TimeoutOnlyRunaway` is violated | as `cargo` |

Why the bounds are enough for what they ask. Three calls are what the hazards
take: one registers, one routes, one deletes; a fourth repeats a role. The
properties of an endpoint concern one id; the second id in `control_inmemory`
makes sweeps of several entries and choices between candidates happen. A counter
to 3 opens the breaker; `control_postgres` takes it one further, to the top of its
type, so that the addition that overflows is reached. One restart meets every
place of the worker and of the handlers. In `round_robin` the counter
has four values, so that it wraps within the seven selections; the listings have two
candidates, which divide four, and three, which do not, and seven selections hold the
five that `WithinTwoTurns` asks of three at three starts, around the wrap. A pipe of 2 and output to 3 hold the cases
empty, partly full, full, and more than full. In `deployment` three starts are a
setting, another, and the first again; `DefaultLimit` stands for the code's 100 and is
1, so that two entries exceed it; limit 2 lists two entries of either storage and cuts
three, limit 0 meets the database's `max(1)`; one endpoint meets every text a row can hold,
and that a row fails the listing of all is in `AllReadable`, whatever their number
(the theorems hold for any). In `file_tools` four components climb two levels and come
back, above the root, at it and below it; a content of two chunks has a middle, and
the third call is a reader beside two writers. `MaxStarts` and `MaxTime` cut the
starts and the clock. Calls and processes end, so runs
do not check for deadlock: a finished instance may stop.
`FailureBound` stops failed probes at a count, `MaxRestarts` the restarts,
`SelectionBound` the selections; nothing else is cut.

Every property of a passing run has a mutant in the modules, a plausible mistake
in the code that the property detects under the same configuration; they stand
before the definition they vary, named after it.

### Fairness

`WorkerFairness` is that of one tokio task in an endless loop: its timers and
probes end, so `WakeUp` and the probe steps are weakly fair. A listing and a
write-back are attempted again in every sweep; that they do not fail for ever is
strong fairness of their successful outcome. That is an assumption about the
database, not about the code: with a database that is down for ever nothing is
judged. Nothing is assumed about clients, who may delete or disconnect at any
time or never call. In `CargoTool` the handler is polled when its await is ready,
the timer fires (`HandlerStep`), and the operating system runs processes
(`OsStep`); that the service ends is never assumed.

### Where the documents say otherwise

The five `find_` runs each check a sentence of the documents. In short: a DELETE
can be undone by the worker; the cascade removes decisions that "traceability"
is claimed for; a registration with metadata `"x"` or `[]` never opens the breaker;
the round robin is not even within a kind as the counter is shared; and commands
with more output than a pipe holds are killed after the timeout.

Met on the way, without a run of their own: `record_audit` swallows the error of a
failed insert, so over PostgreSQL `AnsweredAudited` does not hold and no property covers
the lost entry (the run over memory, where inserts cannot fail, is about answers between
the awaits only); in a release build a
counter registered near 2^64 wraps to zero on a failed check
(`CounterFallsOnSuccess` holds with overflow checks, where the worker task
panics instead, silently and for ever); a descendant that never ends keeps a
cargo call open beyond any timeout (the exception in `EventuallyAnswered`); and
`docs/ARCHITECTURE.md` says the breaker opens above three failures where the code,
`docs/IMPLEMENTATION.md` and this model say at three. A process without
`ENCRYPTION_KEY` hands ciphertext to providers as if it were the key (the exception in
`HandedRegistered`); one row of another key makes `GET /servers` and every routing
request fail and the worker skip its sweeps, until the key is set back or the
endpoint is deleted by its id; and without a limit the in-memory storage lists the whole
audit log where the database lists 100 entries, with limit 0 nothing where the
database lists one (the exceptions in `StoragesAgree`). Where requests overlap, one
may take the later time stamp and insert first: the database then lists it before the
other and the in-memory storage after it, the last exception in `StoragesAgree`.

## Proofs

All theorems hold for any sets of ids, calls, commands and listings and any
bounds. They are proved by `tlapm` from the named assumptions of the modules;
`NoWrap` and `OnlyObjects` are hypotheses of single theorems.

`ControlPlaneProofs`:

- `Invariance`: `IInv` is inductive. `SnapshotCurrent` is not so alone: that a
  registration does not write under a listed entry needs that a listed id was
  drawn (`KnownCreated`), and a write-back preserves it because only the entry
  just written (`WritingWellFormed`) differs from the storage. `CreatedPersists`
  and `AuditBacked` need what a call in flight knows before it says so
  (`PendingAuditBacked`) and how far a call of each kind can be
  (`CallsWellFormed`).
- `TypeCorrect`, `NoLostUpdate`, `AnswersHold` are its consequences for states,
  `ConfigurationKept` for steps, and `DeletionFinalTheorem`: of an endpoint that was
  registered, is not stored and is in no listing under way (`Gone`) this stays so. It is
  the other side of `find_deleted_revived`: the sweep that was running is all that
  can undo a deletion.
- `BreakerOpensTheorem`, `CounterFallsTheorem`: from `CounterInv`, inductive
  relative to `IInv`. The stored counter covers the streak, and so does each
  listed copy, as long as it waits; the record being written covers the streak
  with its own check. Under `NoWrap`: overflow checks, or a counter that stays
  below the largest value.
- `BreakerRefinement`: every step of the control plane is a step of
  `CircuitBreaker` or stutters, under `NoWrap` and `OnlyObjects` (registrations
  with object metadata; `find_opaque_breaker` shows it cannot be dropped).

`RoundRobinProofs`, for any listings and any width of the counter:
`FullTurnTheorem` and `WithinTwoTurnsTheorem`. The counter is the number of
selections in its width (`PlaceInv`), so n selections in a row take n positions in a
row modulo n, which a lemma on remainders shows to be all of them. A wrap in between
keeps the positions in a row when n divides the width; when it does not, the wrap
cuts 2n - 1 selections into two runs, of which one is n long. That a `Vec` is no
longer than the largest `usize` (`LengthAssumption`) leaves room for one wrap only.

`CargoToolProofs`: `CargoInvariance` (text is in the child's hands, in a pipe or
read; where the handler is bounds where the child is; while it waits no pipe
takes more than the output), hence `CargoTypeCorrect`, `OutputCompleteTheorem`,
`AnsweredChildGoneTheorem`, `FittingNotKilledTheorem`, for every capacity.

`RecordsProofs` continues it. `AnsweredAuditedTheorem` and `HistoryTraceableTheorem`
are about the in-memory storage, whose operations cannot fail, and rest on
`RecordsInv`: a handler past an await has left its record, unless the process ended
since. (Over PostgreSQL both are false: see `find_history_lost`.)
`CreatedPersistsTheorem` and `CounterTheorem` hold over either storage.

`DeploymentProofs`, for any keys, tokens, environments, endpoints, calls and number
of starts: `Invariance` of `IInv`. The properties are not inductive alone. That no key
is ever encrypted twice needs that what the worker holds belongs to the running
process (`TasksInv`): under a key it holds plain keys only, and without one whatever
it took from the column, which it writes back unchanged. Lemma `ReadableRow` gives
what a read yields, `EncryptedStorable` what a write leaves, and `PutRowInv` that
rows stay accounted for and readable rows readable. `AdminsAuditedTheorem` follows as
no handler outlives its process. From the invariant: `KeysAccountedTheorem`,
`HandedRegisteredTheorem`, `SameSettingReadableTheorem`, `SelectedReadableTheorem`.

`ListingProofs`, about the audit log, for any number of entries and every limit:
`ListingInvariance` of `ListingInv`, relative to `IInv`. An answered call says nothing of
where its entry stands, so the invariant follows each entry: its call inserts no other
one, its time stamp is not ahead of the clock, and a request answered before another
began stays answered (`EntriesInv`); of two such requests the entries stand in this order
and their time stamps are not reversed, also while the later one is stamped but not
yet inserted (`OrderInv`). From it, by an induction of their own over the listings
already shown, `ListedNewestFirstTheorem` and `ListingCompleteTheorem`, which speak of
requests answered before others began. `StoragesAgreeTheorem` speaks of every log that
is reached, shown or not: as each entry is of another call the database has as many rows
as the log entries (`SameLength`); a listing from memory has the one inserted later first
(`MemoryPrefers`), a sorted one none with an earlier stamp (`DatabasePrefers`), and by
`OrderInv` these two only part when the requests overlapped.

`FileToolsProofs`, for any tree, any calls and contents: `Invariance` of `IInv`, whose
`WriterInv` and `ReaderInv` relate an operation that none overlaps to the file at
every chunk; hence `QuietReadTheorem` and `QuietFileTheorem`.

`PathsProofs`: `NormalizedMeant`, that `normalize_path` yields what the path means
whatever its length, and `PathsMeantTheorem` with `ResolvedInv`, that a call keeps the
path it resolved. The induction over the components is carried by a set of numbers
(`SetInduction`, from the well-foundedness of `<`), first to show that the loop's
recursive function exists at all (`TurnsExist`). Its invariant is `Stacked`: after n
components `out` holds the names that remain, in order, and the k-th of m of them is
m - k + 1 names ahead of the '..' that follow it. The last clause is what makes it
inductive: a '..' takes back exactly the last name.

Only model-checked: the liveness properties (fairness and ENABLED are beyond the
prover) and the violations. Every invariant and action property of a passing run is
a theorem, those of the records (`AnsweredAudited`, `HistoryTraceable`) and of the
counters under the hypotheses named above.

## Not modelled, and the plan

Left out for good: ciphers, base64 and hexadecimal, HTTP and JSON of the provider
clients (their outcome is a choice), the text forms of environment variables,
metrics, wording of answers, symbolic links in the workspace, a disk that is full in
the middle of a write. A service that ends while cargo runs leaves the child
running; the model has that state, and no document promises otherwise.

What the plan has left:

1. `ControlPlane` with `RoundRobin`'s ordered listings, and `Deployment` with failing
   statements, if their states allow.
2. A concurrent pair of cargo calls on one target directory, and of a cargo and a
   file tool call on one file.

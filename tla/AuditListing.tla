----------------------------- MODULE AuditListing -----------------------------
(***************************************************************************)
(* The audit log of both storages, in the order its entries were inserted. *)
(* The in-memory storage lists by that order; the database sorts by the    *)
(* timestamp the handler took before the insert and leaves the order of    *)
(* equal ones open.                                                        *)
(***************************************************************************)
EXTENDS Naturals, Sequences, SequencesExt, FiniteSetsExt

CONSTANTS
  NoLimit,       \* a request without ?limit=
  DefaultLimit   \* what the database then lists: 100 in the code

ASSUME DefaultLimitAssumption == DefaultLimit \in Nat \ {0}

\* Mutant of record_audit_log: the new entry goes first.
record_audit_log_first(logs, log) == <<log>> \o logs

record_audit_log(logs, log) == Append(logs, log)

\* Mutant of MemoryListing: iter().take(limit).rev().
MemoryListingOldest(logs, limit) ==
  Reverse(SubSeq(logs, 1, IF limit = NoLimit THEN Len(logs) ELSE Min({limit, Len(logs)})))

\* InMemoryStorage: iter().rev().take(limit)
MemoryListing(logs, limit) ==
  SubSeq(Reverse(logs), 1, IF limit = NoLimit THEN Len(logs) ELSE Min({limit, Len(logs)}))

\* Mutant of Sorted: ascending.
SortedAscending(s) == \A i, j \in DOMAIN s : i < j => s[i].time <= s[j].time

\* ORDER BY timestamp DESC
Sorted(s) == \A i, j \in DOMAIN s : i < j => s[i].time >= s[j].time

\* The orders the database may choose from.
Arrangements(logs) == {s \in SetToSeqs(ToSet(logs)) : Sorted(s)}

\* LIMIT, of unwrap_or(100).max(1)
Cut(s, limit) ==
  SubSeq(s, 1, Min({Max({1, IF limit = NoLimit THEN DefaultLimit ELSE limit}), Len(s)}))

\* PostgresStorage
PostgresListings(logs, limit) == {Cut(s, limit) : s \in Arrangements(logs)}

Listings(backend, logs, limit) ==
  IF backend = "InMemory" THEN {MemoryListing(logs, limit)} ELSE PostgresListings(logs, limit)
=============================================================================

----------------------------- MODULE RoundRobin -----------------------------
(***************************************************************************)
(* select_round_robin (src/router/mod.rs) with its listings in order. Each *)
(* request filters its own listing, and then takes a position of it from a *)
(* counter that all requests of the engine share, of either kind.          *)
(* ControlPlane leaves the order open; here it is what matters. A listing  *)
(* keeps its order until an endpoint is written, registered or removed.    *)
(***************************************************************************)
EXTENDS Integers, Sequences, FiniteSets

CONSTANTS
  Kind,           \* the provider kinds requests ask for
  Server,         \* the endpoints
  Request,        \* the handlers that run at a time
  Listings,       \* Listings[kind]: the candidate lists, not empty, of the kind;
                  \* without a candidate route answers before it selects
  UsizeMax,       \* the largest value of the counter
  SelectionBound  \* bound: selections in a behaviour

ASSUME ListingsAssumption ==
  \A kind \in Kind : Listings[kind] \subseteq Seq(Server) \ {<<>>}
\* A Vec is counted by a usize.
ASSUME LengthAssumption ==
  \A kind \in Kind : \A list \in Listings[kind] : Len(list) <= UsizeMax
ASSUME BoundsAssumption == UsizeMax \in Nat /\ SelectionBound \in Nat

VARIABLES
  round_robin_index,   \* the AtomicUsize
  current,             \* what a listing of each kind would return now
  request,             \* what each handler has listed, Idle before that
  history              \* the selections in the order of their fetch_add

vars == <<round_robin_index, current, request, history>>

Idle == [kind |-> "none", listing |-> <<>>]

CandidateList == UNION {Listings[kind] : kind \in Kind}

Init ==
  /\ round_robin_index = 0
  /\ current \in {lists \in [Kind -> CandidateList] :
                    \A kind \in Kind : lists[kind] \in Listings[kind]}
  /\ request = [r \in Request |-> Idle]
  /\ history = <<>>

\* A write reorders the listing, or adds or removes a candidate.
ListingChanges ==
  /\ \E kind \in Kind : \E list \in Listings[kind] :
       current' = [current EXCEPT ![kind] = list]
  /\ UNCHANGED <<round_robin_index, request, history>>

\* route: list_servers and the filter.
List(r) ==
  /\ request[r] = Idle
  /\ \E kind \in Kind :
       request' = [request EXCEPT ![r] = [kind |-> kind, listing |-> current[kind]]]
  /\ UNCHANGED <<round_robin_index, current, history>>

\* Mutant of Position: the last candidate is out of the turn.
PositionShort(listing) ==
  IF Len(listing) = 1 THEN 0 ELSE round_robin_index % (Len(listing) - 1)

Position(listing) == round_robin_index % Len(listing)

\* Mutant of Following: the counter stays at its largest value.
FollowingSaturated(index) == IF index = UsizeMax THEN index ELSE index + 1

\* What fetch_add(1) leaves: it wraps, in every build.
Following(index) == (index + 1) % (UsizeMax + 1)

\* fetch_add, and the position of the listing it yields.
select_round_robin(r) ==
  /\ request[r] # Idle
  /\ Len(history) < SelectionBound
  /\ history' = Append(history,
                       [kind |-> request[r].kind,
                        listing |-> request[r].listing,
                        server |-> request[r].listing[Position(request[r].listing) + 1]])
  /\ round_robin_index' = Following(round_robin_index)
  /\ request' = [request EXCEPT ![r] = Idle]
  /\ UNCHANGED current

Next ==
  \/ ListingChanges
  \/ \E r \in Request : List(r) \/ select_round_robin(r)

Spec == Init /\ [][Next]_vars
------------------------------------------------------------------------------
(***************************************************************************)
(* Properties.                                                             *)
(***************************************************************************)

\* The counter wraps between two of these selections.
Wraps(first, last) == \E k \in (first + 1) .. last : (k - 1) % (UsizeMax + 1) = 0

Servers(first, last) == {history[k].server : k \in first .. last}
SameListing(first, last) ==
  last <= Len(history) /\ \A k \in first .. last : history[k].listing = history[first].listing

\* A full turn: n selections in a row out of the same listing of n candidates
\* select every candidate once, wherever the counter stood before and however
\* the handlers' listings and selections interleaved. Only a wrap in the middle
\* breaks it, and only if n does not divide the counter's range.
FullTurn ==
  \A first \in 1 .. Len(history) :
    LET list == history[first].listing
        last == first + Len(list) - 1
    IN  SameListing(first, last) /\ (Wraps(first, last) => (UsizeMax + 1) % Len(list) = 0) =>
          Servers(first, last) = {list[k] : k \in 1 .. Len(list)}

\* A wrap costs less than a turn: 2n - 1 selections in a row out of the same listing
\* of n candidates leave none out, wherever the counter wraps.
WithinTwoTurns ==
  \A first \in 1 .. Len(history) :
    LET list == history[first].listing
        last == first + 2 * Len(list) - 2
    IN  SameListing(first, last) => Servers(first, last) = {list[k] : k \in 1 .. Len(list)}

Selected(kind, server) ==
  Cardinality({k \in 1 .. Len(history) : history[k].kind = kind /\ history[k].server = server})

\* "Selected evenly, in turn": of two candidates of a kind whose listing never
\* changed, neither is selected twice more often than the other. The counter
\* that both kinds advance breaks it.
EvenWithinKind ==
  \A kind \in Kind : \A list \in Listings[kind] : \A i, j \in 1 .. Len(list) :
    Selected(kind, list[i]) <= Selected(kind, list[j]) + 1
------------------------------------------------------------------------------
(***************************************************************************)
(* The inductive invariant behind the theorem of RoundRobinProofs.         *)
(***************************************************************************)
Selection == [kind: Kind, listing: CandidateList, server: Server]

TypeOK ==
  /\ current \in [Kind -> CandidateList]
  /\ request \in [Request -> [kind: Kind, listing: CandidateList] \cup {Idle}]
  /\ history \in Seq(Selection)
  /\ Len(history) <= SelectionBound

\* The counter is the number of selections in the width of usize, and a selection's
\* place in the history decides its place in the listing.
PlaceInv ==
  /\ round_robin_index = Len(history) % (UsizeMax + 1)
  /\ \A k \in 1 .. Len(history) :
       LET list == history[k].listing
       IN  history[k].server = list[(((k - 1) % (UsizeMax + 1)) % Len(list)) + 1]

IInv == TypeOK /\ PlaceInv
=============================================================================

-------------------------- MODULE RoundRobinProofs --------------------------
(***************************************************************************)
(* The turns of the round robin for every listing, any number of handlers, *)
(* any number of selections and any width of the counter.                  *)
(***************************************************************************)
EXTENDS RoundRobin, TLAPS

------------------------------------------------------------------------------
(***************************************************************************)
(* Arithmetic: n numbers in a row leave every remainder modulo n.          *)
(***************************************************************************)
LEMMA DivMod ==
  ASSUME NEW f \in Nat, NEW n \in Nat, n > 0
  PROVE  /\ f \div n \in Nat /\ f % n \in 0 .. (n - 1)
         /\ f = n * (f \div n) + (f % n)
OBVIOUS

LEMMA ModUnique ==
  ASSUME NEW n \in Nat, n > 0, NEW q \in Nat, NEW j \in 0 .. (n - 1)
  PROVE  (n * q + j) % n = j
<1>1. n * q + j \in Nat
  OBVIOUS
<1>2. PICK x \in Nat : x = n * q + j
  BY <1>1
<1>3. PICK d \in Nat, r \in 0 .. (n - 1) : x = n * d + r /\ r = x % n
  BY DivMod
<1>4. ASSUME NEW a \in Nat, NEW b \in Nat, b >= a + 1
      PROVE  n * b >= n * a + n
  <2>1. n * b >= n * (a + 1)
    BY <1>4
  <2> QED BY <2>1
<1>5. ~(d >= q + 1) /\ ~(q >= d + 1)
  BY <1>2, <1>3, <1>4
<1>6. d = q
  BY <1>5
<1>7. r = j
  BY <1>2, <1>3, <1>6
<1> QED BY <1>2, <1>3, <1>7

LEMMA EveryRemainder ==
  ASSUME NEW f \in Nat, NEW n \in Nat, n > 0, NEW j \in 0 .. (n - 1)
  PROVE  \E x \in f .. (f + n - 1) : x % n = j
<1>1. PICK q \in Nat, r \in 0 .. (n - 1) : f = n * q + r
  BY DivMod
<1>2. CASE j >= r
  <2>1. n * q + j \in f .. (f + n - 1)
    BY <1>1, <1>2
  <2> QED BY <2>1, ModUnique
<1>3. CASE j < r
  <2>1. n * (q + 1) + j \in f .. (f + n - 1)
    <3>1. n * (q + 1) = n * q + n
      BY <1>1
    <3> QED BY <1>1, <1>3, <3>1
  <2>2. q + 1 \in Nat
    BY <1>1
  <2>3. (n * (q + 1) + j) % n = j
    BY <2>2, ModUnique
  <2> QED BY <2>1, <2>3
<1> QED BY <1>2, <1>3

\* n places in a row of a listing of n, from any place, and what they select.
InPlace(h, list, first, n, base) ==
  \A k \in first .. (first + n - 1) : h[k].server = list[((base + (k - first)) % n) + 1]
EachOnce(h, list, first, n) ==
  /\ \A k \in first .. (first + n - 1) : \E i \in 1 .. n : h[k].server = list[i]
  /\ \A i \in 1 .. n : \E k \in first .. (first + n - 1) : h[k].server = list[i]

LEMMA WindowTurn ==
  ASSUME NEW n \in Nat, n > 0, NEW first \in Nat, NEW base \in Nat, NEW list, NEW h,
         InPlace(h, list, first, n, base)
  PROVE  EachOnce(h, list, first, n)
<1> DEFINE place(k) == ((base + (k - first)) % n) + 1
           window == first .. (first + n - 1)
<1>1. ASSUME NEW k \in window
      PROVE  place(k) \in 1 .. n
  <2>1. base + (k - first) \in Nat
    OBVIOUS
  <2>2. (base + (k - first)) % n \in 0 .. (n - 1)
    BY <2>1, DivMod
  <2> QED BY <2>2
<1>2. ASSUME NEW i \in 1 .. n
      PROVE  \E k \in window : place(k) = i
  <2>1. i - 1 \in 0 .. (n - 1)
    OBVIOUS
  <2>2. PICK x \in base .. (base + n - 1) : x % n = i - 1
    BY <2>1, EveryRemainder
  <2>3. first + (x - base) \in window /\ base + ((first + (x - base)) - first) = x
    BY <2>2
  <2>4. place(first + (x - base)) = i
    BY <2>2, <2>3
  <2> QED BY <2>3, <2>4
<1>3. \A k \in window : h[k].server = list[place(k)]
  BY DEF InPlace
<1> HIDE DEF place, window
<1>4. /\ \A k \in window : \E i \in 1 .. n : h[k].server = list[i]
      /\ \A i \in 1 .. n : \E k \in window : h[k].server = list[i]
  BY <1>1, <1>2, <1>3
<1> QED BY <1>4 DEF window, EachOnce

\* A remainder modulo n of a remainder modulo w is one modulo n, when n divides w.
LEMMA ModMod ==
  ASSUME NEW x \in Nat, NEW w \in Nat, w > 0, NEW n \in Nat, n > 0, w % n = 0
  PROVE  (x % w) % n = x % n
<1>1. PICK q \in Nat, r \in 0 .. (w - 1) : x = w * q + r /\ r = x % w
  BY DivMod
<1>2. PICK m \in Nat : w = n * m
  BY DivMod
<1>3. PICK d \in Nat, e \in 0 .. (n - 1) : r = n * d + e /\ e = r % n
  BY <1>1, DivMod
<1>4. m * q + d \in Nat /\ x = n * (m * q + d) + e
  <2>1. w * q = n * (m * q)
    BY <1>1, <1>2
  <2>2. n * (m * q + d) = n * (m * q) + n * d
    BY <1>1, <1>2, <1>3
  <2>3. m * q \in Nat /\ m * q + d \in Nat
    BY <1>1, <1>2, <1>3
  <2>4. x = n * (m * q) + (n * d + e)
    BY <1>1, <1>3, <2>1
  <2>5. n * (m * q) \in Nat /\ n * d \in Nat
    BY <1>2, <1>3, <2>3
  <2> QED BY <1>3, <2>2, <2>3, <2>4, <2>5
<1>5. x % n = e
  BY <1>4, ModUnique
<1> QED BY <1>1, <1>3, <1>5

\* Without a multiple of w in between, remainders modulo w count on.
LEMMA CountOn ==
  ASSUME NEW w \in Nat, w > 0, NEW x \in Nat, NEW n \in Nat, n > 0,
         (x % w) + n - 1 < w,
         NEW i \in 0 .. (n - 1)
  PROVE  (x + i) % w = (x % w) + i
<1>1. PICK q \in Nat, r \in 0 .. (w - 1) : x = w * q + r /\ r = x % w
  BY DivMod
<1>2. r + i \in 0 .. (w - 1) /\ x + i = w * q + (r + i)
  BY <1>1
<1> QED BY <1>1, <1>2, ModUnique

LEMMA NextRemainder ==
  ASSUME NEW w \in Nat, w > 0, NEW x \in Nat
  PROVE  ((x % w) + 1) % w = (x + 1) % w
<1>1. PICK q \in Nat, r \in 0 .. (w - 1) : x = w * q + r /\ r = x % w
  BY DivMod
<1>2. PICK d \in Nat, e \in 0 .. (w - 1) : r + 1 = w * d + e /\ e = (r + 1) % w
  BY <1>1, DivMod
<1>3. q + d \in Nat /\ x + 1 = w * (q + d) + e
  <2>1. w * (q + d) = w * q + w * d
    BY <1>1, <1>2
  <2> QED BY <1>1, <1>2, <2>1
<1> QED BY <1>1, <1>2, <1>3, ModUnique

LEMMA NextMultiple ==
  ASSUME NEW w \in Nat, w > 0, NEW x \in Nat
  PROVE  (x + (w - (x % w))) % w = 0
<1>1. PICK q \in Nat, r \in 0 .. (w - 1) : x = w * q + r /\ r = x % w
  BY DivMod
<1>2. w * (q + 1) = w * q + w
  BY <1>1
<1>3. x + (w - r) = w * (q + 1) + 0
  BY <1>1, <1>2
<1>4. q + 1 \in Nat /\ 0 \in 0 .. (w - 1)
  BY <1>1
<1> QED BY <1>1, <1>3, <1>4, ModUnique

------------------------------------------------------------------------------
(***************************************************************************)
(* The invariant.                                                          *)
(***************************************************************************)
Width == UsizeMax + 1

LEMMA WidthType == Width \in Nat /\ Width > 0
BY BoundsAssumption DEF Width

LEMMA CandidateLists ==
  ASSUME NEW list \in CandidateList
  PROVE  list \in Seq(Server) /\ Len(list) \in Nat /\ Len(list) > 0 /\ Len(list) < Width
BY ListingsAssumption, LengthAssumption, BoundsAssumption DEF CandidateList, Width

LEMMA InitInv == Init => IInv
<1> SUFFICES ASSUME Init PROVE IInv
  OBVIOUS
<1>1. TypeOK
  BY BoundsAssumption DEF Init, TypeOK
<1>2. 0 % Width = 0
  BY WidthType
<1>3. PlaceInv
  BY <1>2 DEF Init, PlaceInv, Width
<1> QED BY <1>1, <1>3 DEF IInv

LEMMA StepInv == IInv /\ [Next]_vars => IInv'
<1> SUFFICES ASSUME IInv, [Next]_vars PROVE IInv'
  OBVIOUS
<1> USE DEF IInv
<1>1. CASE ListingChanges
  <2>1. \A kind \in Kind : Listings[kind] \subseteq CandidateList
    BY DEF CandidateList
  <2> QED BY <1>1, <2>1 DEF ListingChanges, TypeOK, PlaceInv
<1>2. ASSUME NEW r \in Request, List(r)
      PROVE  IInv'
  BY <1>2 DEF List, TypeOK, PlaceInv
<1>3. ASSUME NEW r \in Request, select_round_robin(r)
      PROVE  IInv'
  <2> DEFINE list == request[r].listing
             place == (round_robin_index % Len(list)) + 1
             new == [kind |-> request[r].kind, listing |-> list, server |-> list[place]]
  <2>1. request[r] \in [kind: Kind, listing: CandidateList]
    BY <1>3 DEF select_round_robin, TypeOK
  <2>2. list \in Seq(Server) /\ Len(list) \in Nat /\ Len(list) > 0
    BY <2>1, CandidateLists
  <2>3. /\ history \in Seq(Selection) /\ Len(history) \in Nat
        /\ round_robin_index = Len(history) % Width
    BY DEF TypeOK, PlaceInv, Width
  <2>4. place \in 1 .. Len(list)
    <3>1. round_robin_index \in Nat
      BY <2>3, WidthType, DivMod
    <3>2. round_robin_index % Len(list) \in 0 .. (Len(list) - 1)
      BY <2>2, <3>1, DivMod
    <3> QED BY <2>2, <3>2
  <2>5. new \in Selection
    BY <2>1, <2>2, <2>4 DEF Selection
  <2>6. history' = Append(history, new) /\ Len(history) < SelectionBound
    BY <1>3 DEF select_round_robin, Position
  <2>7. round_robin_index' = Len(history') % Width
    <3>1. Len(history') = Len(history) + 1
      BY <2>3, <2>5, <2>6
    <3>2. ((Len(history) % Width) + 1) % Width = (Len(history) + 1) % Width
      BY <2>3, WidthType, NextRemainder
    <3> QED BY <1>3, <2>3, <3>1, <3>2 DEF select_round_robin, Following, Width
  <2>8. TypeOK'
    <3>1. history' \in Seq(Selection) /\ Len(history') = Len(history) + 1
      BY <2>3, <2>5, <2>6
    <3>2. Len(history') <= SelectionBound
      BY <2>3, <2>6, <3>1, BoundsAssumption
    <3> QED BY <1>3, <3>1, <3>2 DEF select_round_robin, TypeOK
  <2>9. ASSUME NEW k \in 1 .. Len(history')
        PROVE  history'[k].server = history'[k].listing[(((k - 1) % Width) % Len(history'[k].listing)) + 1]
    <3>1. CASE k \in 1 .. Len(history)
      BY <2>3, <2>5, <2>6, <3>1 DEF PlaceInv, Width
    <3>2. CASE k = Len(history) + 1
      <4>1. history'[k] = new /\ (k - 1) % Width = round_robin_index
        BY <2>3, <2>5, <2>6, <3>2
      <4>2. history'[k].listing = list /\ history'[k].server = list[place]
        BY <4>1
      <4> HIDE DEF list, new
      <4> QED BY <4>1, <4>2
    <3>3. Len(history') = Len(history) + 1
      BY <2>3, <2>5, <2>6
    <3> QED BY <2>3, <3>1, <3>2, <3>3
  <2> QED BY <2>7, <2>8, <2>9 DEF PlaceInv, Width
<1>4. CASE UNCHANGED vars
  BY <1>4 DEF vars, TypeOK, PlaceInv
<1> QED BY <1>1, <1>2, <1>3, <1>4 DEF Next

\* n selections in a row out of one listing of n select each of its members, when
\* the counter does not wrap between them, or n divides its range.
LEMMA TurnSelects ==
  ASSUME IInv, NEW list \in CandidateList, NEW s \in Nat, s > 0,
         s + Len(list) - 1 <= Len(history),
         \A k \in s .. (s + Len(list) - 1) : history[k].listing = list,
         \/ ((s - 1) % Width) + Len(list) - 1 < Width
         \/ Width % Len(list) = 0
  PROVE  EachOnce(history, list, s, Len(list))
<1> DEFINE n == Len(list)
           x == s - 1
<1>1. history \in Seq(Selection) /\ Len(history) \in Nat
  BY DEF IInv, TypeOK
<1>2. n \in Nat /\ n > 0 /\ x \in Nat /\ Width \in Nat /\ Width > 0
  BY CandidateLists, WidthType
<1>3. \A k \in s .. (s + n - 1) :
        history[k].server = list[(((x + (k - s)) % Width) % n) + 1]
  <2>1. ASSUME NEW k \in s .. (s + n - 1)
        PROVE  history[k].server = list[(((k - 1) % Width) % n) + 1] /\ k - 1 = x + (k - s)
    <3>1. k \in 1 .. Len(history) /\ history[k].listing = list
      BY <1>1, <1>2, <2>1
    <3>2. history[k].server = history[k].listing[(((k - 1) % Width) % Len(history[k].listing)) + 1]
      BY <3>1 DEF IInv, PlaceInv, Width
    <3> QED BY <1>2, <3>1, <3>2
  <2> HIDE DEF x, n
  <2> QED BY <2>1
<1>4. CASE (x % Width) + n - 1 < Width
  <2> DEFINE base == x % Width
  <2>1. base \in Nat
    BY <1>2, DivMod
  <2>2. ASSUME NEW k \in s .. (s + n - 1)
        PROVE  (x + (k - s)) % Width = base + (k - s)
    <3> DEFINE i == k - s
    <3>1. i \in 0 .. (n - 1)
      BY <1>2
    <3> HIDE DEF i, x, n
    <3>2. (x + i) % Width = (x % Width) + i
      BY <1>2, <1>4, <3>1, CountOn
    <3> QED BY <3>2 DEF i
  <2> HIDE DEF base, x, n
  <2>3. InPlace(history, list, s, n, base)
    BY <1>3, <2>2 DEF InPlace
  <2> QED BY <1>2, <2>1, <2>3, WindowTurn DEF n
<1>5. CASE Width % n = 0
  <2>1. ASSUME NEW k \in s .. (s + n - 1)
        PROVE  ((x + (k - s)) % Width) % n = (x + (k - s)) % n
    <3>1. x + (k - s) \in Nat
      BY <1>2
    <3> QED BY <1>2, <1>5, <3>1, ModMod
  <2> HIDE DEF x, n
  <2>2. InPlace(history, list, s, n, x)
    BY <1>3, <2>1 DEF InPlace
  <2> QED BY <1>2, <2>2, WindowTurn DEF n
<1> QED BY <1>4, <1>5

Members(list, n) == {list[i] : i \in 1 .. n}

\* What a turn selects, as a set.
LEMMA TurnServers ==
  ASSUME NEW list, NEW n \in Nat, NEW s \in Nat, EachOnce(history, list, s, n),
         NEW first \in Nat, NEW last \in Nat, first <= s, s + n - 1 <= last,
         \A k \in first .. last : \E i \in 1 .. n : history[k].server = list[i]
  PROVE  Servers(first, last) = Members(list, n)
<1>1. ASSUME NEW k \in first .. last
      PROVE  history[k].server \in {list[i] : i \in 1 .. n}
  OBVIOUS
<1>2. ASSUME NEW i \in 1 .. n
      PROVE  list[i] \in {history[k].server : k \in first .. last}
  <2>1. PICK k \in s .. (s + n - 1) : history[k].server = list[i]
    BY DEF EachOnce
  <2>2. k \in first .. last
    BY <2>1
  <2> QED BY <2>1, <2>2
<1> QED BY <1>1, <1>2 DEF Servers, Members

\* What is selected is in the listing.
LEMMA SelectedListed ==
  ASSUME IInv, NEW k \in 1 .. Len(history)
  PROVE  /\ history[k].listing \in CandidateList
         /\ \E i \in 1 .. Len(history[k].listing) : history[k].server = history[k].listing[i]
<1> DEFINE list == history[k].listing
<1>1. history[k] \in Selection
  BY DEF IInv, TypeOK
<1>2. list \in CandidateList /\ Len(list) \in Nat /\ Len(list) > 0
  BY <1>1, CandidateLists DEF Selection
<1>3. (k - 1) % Width \in Nat
  <2>1. k - 1 \in Nat
    BY DEF IInv, TypeOK
  <2> QED BY <2>1, WidthType, DivMod
<1>4. ((k - 1) % Width) % Len(list) \in 0 .. (Len(list) - 1)
  BY <1>2, <1>3, DivMod
<1>5. history[k].server = list[(((k - 1) % Width) % Len(list)) + 1]
  BY DEF IInv, PlaceInv, Width
<1>6. (((k - 1) % Width) % Len(list)) + 1 \in 1 .. Len(list)
  BY <1>2, <1>4
<1> HIDE DEF list
<1> QED BY <1>2, <1>5, <1>6 DEF list

\* However listings change and handlers interleave, as many selections in a row
\* out of one listing as it has candidates select each of them, but for a wrap.
LEMMA PlacesTurn == IInv => FullTurn
<1> SUFFICES ASSUME IInv, NEW first \in 1 .. Len(history),
                    SameListing(first, first + Len(history[first].listing) - 1),
                    Wraps(first, first + Len(history[first].listing) - 1) =>
                      (UsizeMax + 1) % Len(history[first].listing) = 0
             PROVE  Servers(first, first + Len(history[first].listing) - 1)
                      = {history[first].listing[k] : k \in 1 .. Len(history[first].listing)}
  BY DEF FullTurn
<1> DEFINE list == history[first].listing
           n == Len(list)
           last == first + n - 1
<1>1. Len(history) \in Nat /\ first \in Nat /\ first > 0
  BY DEF IInv, TypeOK
<1>2. list \in CandidateList /\ n \in Nat /\ n > 0
  BY SelectedListed, CandidateLists
<1>3. last <= Len(history) /\ \A k \in first .. last : history[k].listing = list
  BY DEF SameListing
<1>4. \/ ((first - 1) % Width) + n - 1 < Width
      \/ Width % n = 0
  <2>1. SUFFICES ASSUME ((first - 1) % Width) + n - 1 >= Width PROVE Wraps(first, last)
    BY <1>1, <1>2, WidthType, DivMod DEF Width
  <2> DEFINE x == first - 1
             j == Width - (x % Width)
  <2>2. x \in Nat /\ x % Width \in 0 .. (Width - 1)
    BY <1>1, WidthType, DivMod
  <2>3. j \in Nat /\ j >= 1 /\ j <= n - 1
    <3> DEFINE r == x % Width
    <3>1. r \in 0 .. (Width - 1) /\ r + n - 1 >= Width
      BY <2>1, <2>2
    <3> HIDE DEF r, n
    <3> QED BY <1>2, <3>1, WidthType DEF r
  <2>4. (x + j) % Width = 0
    BY <2>2, WidthType, NextMultiple
  <2> HIDE DEF j
  <2>5. first + j \in (first + 1) .. last /\ (first + j) - 1 = x + j
    BY <1>1, <1>2, <2>3
  <2> HIDE DEF x
  <2> QED BY <2>4, <2>5 DEF Wraps, Width
<1>5. EachOnce(history, list, first, n)
  BY <1>1, <1>2, <1>3, <1>4, TurnSelects
<1>6. \A k \in first .. last : \E i \in 1 .. n : history[k].server = list[i]
  BY <1>5 DEF EachOnce
<1>7. last \in Nat
  BY <1>1, <1>2
<1> HIDE DEF list, n, last
<1>8. Servers(first, last) = Members(list, n)
  BY <1>1, <1>2, <1>5, <1>6, <1>7, TurnServers DEF last
<1> QED BY <1>8 DEF list, n, last, Members

\* Of 2n - 1 selections in a row, n lie on one side of a wrap.
LEMMA PlacesTwoTurns == IInv => WithinTwoTurns
<1> SUFFICES ASSUME IInv, NEW first \in 1 .. Len(history),
                    SameListing(first, first + 2 * Len(history[first].listing) - 2)
             PROVE  Servers(first, first + 2 * Len(history[first].listing) - 2)
                      = {history[first].listing[k] : k \in 1 .. Len(history[first].listing)}
  BY DEF WithinTwoTurns
<1> DEFINE list == history[first].listing
           n == Len(list)
           last == first + 2 * n - 2
           x == first - 1
           j == Width - (x % Width)
           s == IF (x % Width) + n - 1 < Width THEN first ELSE first + j
<1>1. Len(history) \in Nat /\ first \in Nat /\ first > 0 /\ x \in Nat
  BY DEF IInv, TypeOK
<1>2. list \in CandidateList /\ n \in Nat /\ n > 0 /\ n < Width
  BY SelectedListed, CandidateLists
<1>3. last <= Len(history) /\ \A k \in first .. last : history[k].listing = list
  BY DEF SameListing
<1>4. x % Width \in 0 .. (Width - 1) /\ Width \in Nat
  BY <1>1, WidthType, DivMod
<1>5. /\ s \in Nat /\ s >= first /\ s + n - 1 <= last
      /\ ((s - 1) % Width) + n - 1 < Width
  <2>1. CASE (x % Width) + n - 1 < Width
    BY <1>1, <1>2, <2>1
  <2>2. CASE ~((x % Width) + n - 1 < Width)
    <3>1. j \in Nat /\ j >= 1 /\ j <= n - 1
      BY <1>2, <1>4, <2>2
    <3>2. (x + j) % Width = 0
      BY <1>1, WidthType, NextMultiple
    <3>3. s = first + j /\ s - 1 = x + j
      BY <1>1, <2>2, <3>1
    <3>4. last = first + 2 * n - 2
      OBVIOUS
    <3> HIDE DEF j, x, s, n, last
    <3>5. s \in Nat /\ s >= first /\ s + n - 1 <= last
      BY <1>1, <1>2, <3>1, <3>3, <3>4
    <3> QED BY <1>2, <1>4, <3>2, <3>3, <3>5
  <2> QED BY <2>1, <2>2
<1>6. EachOnce(history, list, s, n)
  <2> HIDE DEF s, x
  <2>1. s > 0 /\ s + n - 1 <= Len(history)
    BY <1>1, <1>2, <1>3, <1>5
  <2>2. \A k \in s .. (s + n - 1) : history[k].listing = list
    BY <1>1, <1>2, <1>3, <1>5
  <2> QED BY <1>2, <1>5, <2>1, <2>2, TurnSelects
<1>7. \A k \in first .. last : \E i \in 1 .. n : history[k].server = list[i]
  <2>1. \A k \in first .. last : k \in 1 .. Len(history)
    BY <1>1, <1>2, <1>3
  <2> QED BY <1>3, <2>1, SelectedListed
<1>8. last \in Nat
  BY <1>1, <1>2
<1> HIDE DEF list, n, last, s, x, j
<1>9. Servers(first, last) = Members(list, n)
  BY <1>1, <1>2, <1>5, <1>6, <1>7, <1>8, TurnServers
<1> QED BY <1>9 DEF list, n, last, Members

\* A selection's place in the history decides whom it selects, also across wraps.
THEOREM PlacesInvariance == Spec => []IInv
<1> QED BY InitInv, StepInv, PTL DEF Spec

\* The round robin selects evenly out of a listing that does not change, when no
\* other listing's selections come in between, whatever came before, unless the
\* counter wraps in the middle and the candidates do not divide its range.
THEOREM FullTurnTheorem == Spec => []FullTurn
<1> QED BY PlacesInvariance, PlacesTurn, PTL

\* Wherever the counter wraps, less than two turns leave no candidate out.
THEOREM WithinTwoTurnsTheorem == Spec => []WithinTwoTurns
<1> QED BY PlacesInvariance, PlacesTwoTurns, PTL
=============================================================================

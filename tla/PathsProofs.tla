----------------------------- MODULE PathsProofs -----------------------------
(***************************************************************************)
(* Every file tool works on the path its argument means: PathsMeant of     *)
(* FileTools, for every root and every path of any length.                 *)
(***************************************************************************)
EXTENDS FileToolsProofs, FiniteSetTheorems, FunctionTheorems

\* Induction by sets, from the least element of what is not in the set.
LEMMA SetInduction ==
  ASSUME NEW S, 0 \in S, \A n \in Nat : n \in S => n + 1 \in S
  PROVE  Nat \subseteq S
<1> DEFINE T == Nat \ S
           R == OpToRel(<, Nat)
<1> SUFFICES ASSUME T # {} PROVE FALSE
  OBVIOUS
<1>1. IsWellFoundedOn(R, Nat)
  BY NatLessThanWellFounded
<1>2. \A x, y \in Nat : y < x => <<y, x>> \in R
  BY DEF OpToRel
<1>3. \E x \in T : \A y \in T : <<y, x>> \notin R
  <2> HIDE DEF R
  <2>1. T \subseteq Nat
    OBVIOUS
  <2> HIDE DEF T
  <2> QED BY <1>1, <2>1, WFMin
<1>4. PICK x \in T : \A y \in T : <<y, x>> \notin R
  BY <1>3
<1>5. x \in Nat /\ x # 0 /\ x \notin S
  <2> HIDE DEF R
  <2> QED BY <1>4, 0 \in S
<1>6. x - 1 \in Nat /\ x - 1 < x /\ (x - 1) + 1 = x
  <2> HIDE DEF T
  <2> QED BY <1>5
<1>7. x - 1 \in S
  <2> HIDE DEF R
  <2> QED BY <1>2, <1>4, <1>5, <1>6
<1> QED BY <1>5, <1>6, <1>7

Turns(out, parts, n) ==
  out = [i \in 0 .. n |-> IF i = 0 THEN <<>> ELSE Component(out[i - 1], parts[i])]

\* The loop of normalize_path has a result after every number of turns.
LEMMA TurnsExist ==
  ASSUME NEW parts
  PROVE  \A n \in Nat : \E out : Turns(out, parts, n)
<1> DEFINE S == {n \in Nat : \E out : Turns(out, parts, n)}
<1>1. 0 \in S
  <2> DEFINE out == [i \in 0 .. 0 |-> <<>>]
  <2>1. \A i \in 0 .. 0 : i = 0
    OBVIOUS
  <2>2. Turns(out, parts, 0)
    BY <2>1 DEF Turns
  <2> QED BY <2>2
<1>2. ASSUME NEW n \in Nat, n \in S PROVE n + 1 \in S
  <2>1. PICK out : Turns(out, parts, n)
    BY <1>2
  <2> DEFINE next == [i \in 0 .. n + 1 |->
                        IF i <= n THEN out[i] ELSE Component(out[n], parts[n + 1])]
             turn(i) == IF i = 0 THEN <<>> ELSE Component(next[i - 1], parts[i])
  <2>2. ASSUME NEW i \in 0 .. n + 1 PROVE next[i] = turn(i)
    <3>1. CASE i = 0
      BY <2>1, <3>1 DEF Turns
    <3>2. CASE i \in 1 .. n
      <4>1. next[i] = out[i] /\ next[i - 1] = out[i - 1]
        BY <3>2
      <4>2. out[i] = Component(out[i - 1], parts[i])
        BY <2>1, <3>2 DEF Turns
      <4> QED BY <3>2, <4>1, <4>2
    <3>3. CASE i = n + 1
      <4>1. next[i] = Component(out[n], parts[i]) /\ next[i - 1] = out[n] /\ i # 0
        BY <3>3
      <4> QED BY <4>1
    <3> QED BY <3>1, <3>2, <3>3
  <2>3. next = [i \in 0 .. n + 1 |-> turn(i)]
    <3> HIDE DEF turn
    <3> QED BY <2>2
  <2>4. Turns(next, parts, n + 1)
    <3> HIDE DEF next
    <3> QED BY <2>3 DEF Turns
  <2> QED BY <2>4
<1>3. Nat \subseteq S
  <2> HIDE DEF S
  <2> QED BY <1>1, <1>2, SetInduction
<1> QED BY <1>3

LEMMA NormalizedByTurns ==
  ASSUME NEW parts \in Seq(STRING)
  PROVE  \E out : Turns(out, parts, Len(parts)) /\ normalize_path(parts) = out[Len(parts)]
<1> DEFINE out == CHOOSE out : Turns(out, parts, Len(parts))
<1>1. Turns(out, parts, Len(parts))
  BY TurnsExist, LenProperties
<1>2. normalize_path(parts) = out[Len(parts)]
  BY DEF normalize_path, Turns
<1> QED BY <1>1, <1>2

\* How many names and '..' there are among the components from i to j.
N(parts, i, j) == Cardinality(Names(parts, i, j))
U(parts, i, j) == Cardinality(Ups(parts, i, j))

LEMMA CountType ==
  ASSUME NEW parts, NEW i \in Int, NEW j \in Int
  PROVE  /\ N(parts, i, j) \in Nat /\ U(parts, i, j) \in Nat
         /\ i > j => N(parts, i, j) = 0 /\ U(parts, i, j) = 0
<1>1. IsFiniteSet(i .. j)
  BY FS_Interval
<1>2. Names(parts, i, j) \in SUBSET (i .. j) /\ Ups(parts, i, j) \in SUBSET (i .. j)
  BY DEF Names, Ups
<1>3. IsFiniteSet(Names(parts, i, j)) /\ IsFiniteSet(Ups(parts, i, j))
  BY <1>1, <1>2, FS_Subset
<1>4. N(parts, i, j) \in Nat /\ U(parts, i, j) \in Nat
  BY <1>3, FS_CardinalityType DEF N, U
<1>5. ASSUME i > j PROVE Names(parts, i, j) = {} /\ Ups(parts, i, j) = {}
  BY <1>2, <1>5
<1> QED BY <1>4, <1>5, FS_EmptySet DEF N, U

LEMMA CountStep ==
  ASSUME NEW parts, NEW i \in Nat, NEW n \in Nat, i <= n + 1
  PROVE  /\ N(parts, i, n + 1) =
              IF parts[n + 1] \in {".", ".."} THEN N(parts, i, n) ELSE N(parts, i, n) + 1
         /\ U(parts, i, n + 1) =
              IF parts[n + 1] = ".." THEN U(parts, i, n) + 1 ELSE U(parts, i, n)
<1>1. i .. n + 1 = (i .. n) \cup {n + 1} /\ n + 1 \notin i .. n
  OBVIOUS
<1>2. IsFiniteSet(Names(parts, i, n)) /\ IsFiniteSet(Ups(parts, i, n))
  <2>1. Names(parts, i, n) \in SUBSET (i .. n) /\ Ups(parts, i, n) \in SUBSET (i .. n)
    BY DEF Names, Ups
  <2> QED BY <2>1, FS_Interval, FS_Subset
<1>3. n + 1 \notin Names(parts, i, n) /\ n + 1 \notin Ups(parts, i, n)
  BY <1>1 DEF Names, Ups
<1>4. Names(parts, i, n + 1) = IF parts[n + 1] \in {".", ".."}
                               THEN Names(parts, i, n) ELSE Names(parts, i, n) \cup {n + 1}
  BY <1>1 DEF Names
<1>5. Ups(parts, i, n + 1) = IF parts[n + 1] = ".."
                             THEN Ups(parts, i, n) \cup {n + 1} ELSE Ups(parts, i, n)
  BY <1>1 DEF Ups
<1>6. N(parts, i, n + 1) = IF parts[n + 1] \in {".", ".."} THEN N(parts, i, n) ELSE N(parts, i, n) + 1
  BY <1>2, <1>3, <1>4, FS_AddElement DEF N
<1>7. U(parts, i, n + 1) = IF parts[n + 1] = ".." THEN U(parts, i, n) + 1 ELSE U(parts, i, n)
  BY <1>2, <1>3, <1>5, FS_AddElement DEF U
<1> QED BY <1>6, <1>7

\* A name counts for itself.
LEMMA CountName ==
  ASSUME NEW parts, NEW n \in Nat, parts[n + 1] \notin {".", ".."}
  PROVE  N(parts, n + 1, n + 1) = 1 /\ U(parts, n + 1, n + 1) = 0
<1> DEFINE i == n + 1
<1>1. i \in Nat /\ i <= n + 1 /\ i > n
  OBVIOUS
<1> HIDE DEF i
<1>2. N(parts, i, n) = 0 /\ U(parts, i, n) = 0
  BY <1>1, CountType
<1>3. N(parts, i, n + 1) = 1 /\ U(parts, i, n + 1) = 0
  BY <1>1, <1>2, CountStep
<1> QED BY <1>3 DEF i

\* What one more component leaves of the names that remained.
LEMMA RemainingStep ==
  ASSUME NEW parts, NEW n \in Nat, NEW i
  PROVE  i \in Remaining(parts, n + 1) <=>
           \/ i \in Remaining(parts, n) /\ N(parts, i, n + 1) > U(parts, i, n + 1)
           \/ i = n + 1 /\ parts[n + 1] \notin {".", ".."}
<1>1. \A m \in Nat : i \in Remaining(parts, m) <=>
        /\ i \in 1 .. m /\ parts[i] \notin {".", ".."}
        /\ \A j \in i .. m : N(parts, i, j) > U(parts, i, j)
  BY DEF Remaining, Names, N, U
<1>2. CASE i \in 1 .. n
  <2>1. i .. n + 1 = (i .. n) \cup {n + 1}
    BY <1>2
  <2> QED BY <1>1, <1>2, <2>1
<1>3. CASE i = n + 1
  <2>1. parts[n + 1] \notin {".", ".."} => N(parts, n + 1, n + 1) = 1 /\ U(parts, n + 1, n + 1) = 0
    BY CountName
  <2>2. i .. n + 1 = {n + 1}
    BY <1>3
  <2>3. i \notin Remaining(parts, n)
    BY <1>1, <1>3
  <2> QED BY <1>1, <1>3, <2>1, <2>2, <2>3
<1>4. CASE i \notin 1 .. n + 1
  <2>1. i \notin 1 .. n /\ i # n + 1
    BY <1>4
  <2> QED BY <1>1, <1>4, <2>1
<1> QED BY <1>2, <1>3, <1>4

\* The loop keeps the names that remain, in order: s is their m places. Of the name
\* at s[k] it takes as many more '..' than names to come back as stand behind it.
Stacked(s, m, out, parts, n) ==
  /\ m \in Nat /\ s \in [1 .. m -> Remaining(parts, n)]
  /\ \A k, l \in 1 .. m : k < l => s[k] < s[l]
  /\ \A i \in Remaining(parts, n) : \E k \in 1 .. m : s[k] = i
  /\ out = [k \in 1 .. m |-> parts[s[k]]]
  /\ \A k \in 1 .. m : N(parts, s[k], n) = U(parts, s[k], n) + m - k + 1

LEMMA RemainingPlaces ==
  ASSUME NEW parts, NEW n \in Nat
  PROVE  \A i \in Remaining(parts, n) :
           i \in 1 .. n /\ parts[i] \notin {".", ".."} /\ N(parts, i, n) > U(parts, i, n)
BY DEF Remaining, Names, N, U

LEMMA StackedDot ==
  ASSUME NEW parts, NEW n \in Nat, parts[n + 1] = ".",
         NEW s, NEW m, NEW out, Stacked(s, m, out, parts, n)
  PROVE  Stacked(s, m, Component(out, parts[n + 1]), parts, n + 1)
<1>1. \A i \in Remaining(parts, n) : /\ N(parts, i, n + 1) = N(parts, i, n)
                                     /\ U(parts, i, n + 1) = U(parts, i, n)
  BY RemainingPlaces, CountStep
<1>2. Remaining(parts, n + 1) = Remaining(parts, n)
  BY <1>1, RemainingStep, RemainingPlaces
<1>3. Component(out, parts[n + 1]) = out
  BY DEF Component
<1> QED BY <1>1, <1>2, <1>3 DEF Stacked

LEMMA StackedName ==
  ASSUME NEW parts \in Seq(STRING), NEW n \in Nat, n < Len(parts), parts[n + 1] \notin {".", ".."},
         NEW s, NEW m, NEW out, Stacked(s, m, out, parts, n)
  PROVE  \E t : Stacked(t, m + 1, Component(out, parts[n + 1]), parts, n + 1)
<1> DEFINE t == [k \in 1 .. m + 1 |-> IF k = m + 1 THEN n + 1 ELSE s[k]]
           next == Append(out, parts[n + 1])
<1>1. \A i \in Remaining(parts, n) : /\ N(parts, i, n + 1) = N(parts, i, n) + 1
                                     /\ U(parts, i, n + 1) = U(parts, i, n)
                                     /\ N(parts, i, n) \in Nat /\ U(parts, i, n) \in Nat
  <2> TAKE i \in Remaining(parts, n)
  <2>1. i \in Nat /\ i <= n + 1
    BY RemainingPlaces
  <2>2. N(parts, i, n) \in Nat /\ U(parts, i, n) \in Nat
    BY <2>1, CountType
  <2> QED BY <2>1, <2>2, CountStep
<1>2. Remaining(parts, n + 1) = Remaining(parts, n) \cup {n + 1}
  BY <1>1, RemainingStep, RemainingPlaces
<1>3. Component(out, parts[n + 1]) = next
  BY DEF Component
<1>4. /\ m \in Nat /\ s \in [1 .. m -> Remaining(parts, n)]
      /\ \A k \in 1 .. m : s[k] \in 1 .. n
  BY RemainingPlaces DEF Stacked
<1>5. /\ \A k \in 1 .. m : k \in 1 .. m + 1 /\ t[k] = s[k]
      /\ m + 1 \in 1 .. m + 1 /\ t[m + 1] = n + 1
      /\ \A k \in 1 .. m + 1 : k \in 1 .. m \/ k = m + 1
  BY <1>4
<1>6. t \in [1 .. m + 1 -> Remaining(parts, n + 1)]
  BY <1>2, <1>4
<1>7. \A k, l \in 1 .. m + 1 : k < l => t[k] < t[l]
  <2> SUFFICES ASSUME NEW k \in 1 .. m + 1, NEW l \in 1 .. m + 1, k < l PROVE t[k] < t[l]
    OBVIOUS
  <2>1. k \in 1 .. m /\ t[k] = s[k] /\ s[k] <= n
    BY <1>4, <1>5
  <2>2. CASE l = m + 1
    BY <1>4, <1>5, <2>1, <2>2
  <2>3. CASE l \in 1 .. m
    <3>1. s[k] < s[l] /\ t[l] = s[l]
      BY <1>5, <2>1, <2>3 DEF Stacked
    <3> QED BY <2>1, <3>1
  <2> QED BY <1>5, <2>2, <2>3
<1>8. \A i \in Remaining(parts, n + 1) : \E k \in 1 .. m + 1 : t[k] = i
  <2> SUFFICES ASSUME NEW i \in Remaining(parts, n + 1) PROVE \E k \in 1 .. m + 1 : t[k] = i
    OBVIOUS
  <2>1. CASE i = n + 1
    BY <1>5, <2>1
  <2>2. CASE i \in Remaining(parts, n)
    <3>1. PICK k \in 1 .. m : s[k] = i
      BY <2>2 DEF Stacked
    <3> QED BY <1>5, <3>1
  <2> QED BY <1>2, <2>1, <2>2
<1>9. next = [k \in 1 .. m + 1 |-> parts[t[k]]]
  <2> DEFINE places == [k \in 1 .. m + 1 |-> parts[t[k]]]
  <2>1. out = [k \in 1 .. m |-> parts[s[k]]]
    BY DEF Stacked
  <2>2. \A k \in 1 .. m : parts[s[k]] \in STRING
    <3>1. \A i \in 1 .. n : parts[i] \in STRING
      BY ElementOfSeq, LenProperties
    <3> QED BY <1>4, <3>1
  <2>3. parts[n + 1] \in STRING
    BY ElementOfSeq, LenProperties
  <2>4. out \in Seq(STRING) /\ Len(out) = m
    <3>1. out \in [1 .. m -> STRING]
      BY <2>1, <2>2
    <3> QED BY <1>4, <2>1, <3>1, IsASeq, LenProperties
  <2>5. /\ next \in Seq(STRING) /\ Len(next) = m + 1
        /\ \A k \in 1 .. m : next[k] = out[k]
        /\ next[m + 1] = parts[n + 1]
    BY <2>3, <2>4, AppendProperties
  <2>6. next \in [1 .. m + 1 -> STRING]
    BY <2>5, LenProperties
  <2>7. ASSUME NEW k \in 1 .. m + 1 PROVE next[k] = parts[t[k]]
    BY <1>5, <2>1, <2>5
  <2> HIDE DEF next, t
  <2> QED BY <2>6, <2>7
<1>10. \A k \in 1 .. m + 1 : N(parts, t[k], n + 1) = U(parts, t[k], n + 1) + (m + 1) - k + 1
  <2> SUFFICES ASSUME NEW k \in 1 .. m + 1
               PROVE  N(parts, t[k], n + 1) = U(parts, t[k], n + 1) + (m + 1) - k + 1
    OBVIOUS
  <2>1. CASE k = m + 1
    <3>1. N(parts, n + 1, n + 1) = 1 /\ U(parts, n + 1, n + 1) = 0
      BY CountName
    <3> QED BY <1>4, <1>5, <2>1, <3>1
  <2>2. CASE k \in 1 .. m
    <3>1. t[k] = s[k] /\ s[k] \in Remaining(parts, n)
      BY <1>4, <1>5, <2>2
    <3>2. N(parts, s[k], n) = U(parts, s[k], n) + m - k + 1
      BY <2>2 DEF Stacked
    <3>3. /\ N(parts, s[k], n + 1) = N(parts, s[k], n) + 1
          /\ U(parts, s[k], n + 1) = U(parts, s[k], n)
          /\ N(parts, s[k], n) \in Nat /\ U(parts, s[k], n) \in Nat
      BY <1>1, <3>1
    <3> HIDE DEF t
    <3> QED BY <1>4, <3>1, <3>2, <3>3
  <2> QED BY <1>5, <2>1, <2>2
<1>11. m + 1 \in Nat
  BY <1>4
<1>12. Stacked(t, m + 1, next, parts, n + 1)
  <2> HIDE DEF t, next
  <2> QED BY <1>6, <1>7, <1>8, <1>9, <1>10, <1>11 DEF Stacked
<1> QED BY <1>3, <1>12

LEMMA StackedUp ==
  ASSUME NEW parts \in Seq(STRING), NEW n \in Nat, n < Len(parts), parts[n + 1] = "..",
         NEW s, NEW m, NEW out, Stacked(s, m, out, parts, n)
  PROVE  \E t, l : Stacked(t, l, Component(out, parts[n + 1]), parts, n + 1)
<1>1. /\ m \in Nat /\ s \in [1 .. m -> Remaining(parts, n)]
      /\ \A k \in 1 .. m : s[k] \in 1 .. n
      /\ out = [k \in 1 .. m |-> parts[s[k]]]
  BY RemainingPlaces DEF Stacked
<1>2. \A i \in Remaining(parts, n) : /\ N(parts, i, n + 1) = N(parts, i, n)
                                     /\ U(parts, i, n + 1) = U(parts, i, n) + 1
                                     /\ N(parts, i, n) \in Nat /\ U(parts, i, n) \in Nat
  <2> TAKE i \in Remaining(parts, n)
  <2>1. i \in Nat /\ i <= n + 1
    BY RemainingPlaces
  <2>2. N(parts, i, n) \in Nat /\ U(parts, i, n) \in Nat
    BY <2>1, CountType
  <2> QED BY <2>1, <2>2, CountStep
<1>3. ASSUME NEW i
      PROVE  i \in Remaining(parts, n + 1) <=>
               i \in Remaining(parts, n) /\ N(parts, i, n) > U(parts, i, n) + 1
  BY <1>2, RemainingStep
<1>4. ASSUME NEW k \in 1 .. m
      PROVE  s[k] \in Remaining(parts, n + 1) <=> k # m
  <2>1. /\ N(parts, s[k], n) = U(parts, s[k], n) + m - k + 1
        /\ s[k] \in Remaining(parts, n)
    BY <1>1 DEF Stacked
  <2>2. N(parts, s[k], n) \in Nat /\ U(parts, s[k], n) \in Nat
    BY <1>2, <2>1
  <2> QED BY <1>1, <1>3, <2>1, <2>2
<1>5. CASE m = 0
  <2>1. Remaining(parts, n) = {} /\ Remaining(parts, n + 1) = {}
    BY <1>3, <1>5 DEF Stacked
  <2>2. 1 .. m = {}
    BY <1>5
  <2>3. out = <<>>
    <3>1. out = [k \in 1 .. 0 |-> parts[s[k]]] /\ 1 .. 0 = {}
      BY <1>1, <1>5
    <3> QED BY <3>1
  <2>4. Component(out, parts[n + 1]) = out
    BY <2>3 DEF Component
  <2>5. Stacked(s, m, out, parts, n + 1)
    BY <1>1, <2>1, <2>2 DEF Stacked
  <2> QED BY <2>4, <2>5
<1>6. CASE m # 0
  <2> DEFINE t == [k \in 1 .. m - 1 |-> s[k]]
             next == Front(out)
  <2>1. /\ m - 1 \in Nat
        /\ \A k \in 1 .. m - 1 : k \in 1 .. m /\ k # m /\ t[k] = s[k]
    BY <1>1, <1>6
  <2>2. out \in Seq(STRING) /\ Len(out) = m
    <3>1. \A i \in 1 .. n : parts[i] \in STRING
      BY ElementOfSeq, LenProperties
    <3>2. out \in [1 .. m -> STRING]
      BY <1>1, <3>1
    <3> QED BY <1>1, <3>2, IsASeq, LenProperties
  <2>3. Component(out, parts[n + 1]) = next
    <3>1. out # <<>>
      BY <1>6, <2>2
    <3> QED BY <3>1 DEF Component
  <2>4. t \in [1 .. m - 1 -> Remaining(parts, n + 1)]
    BY <1>4, <2>1
  <2>5. \A k, l \in 1 .. m - 1 : k < l => t[k] < t[l]
    <3> HIDE DEF t
    <3> QED BY <2>1 DEF Stacked
  <2>6. \A i \in Remaining(parts, n + 1) : \E k \in 1 .. m - 1 : t[k] = i
    <3> SUFFICES ASSUME NEW i \in Remaining(parts, n + 1) PROVE \E k \in 1 .. m - 1 : t[k] = i
      OBVIOUS
    <3>1. PICK k \in 1 .. m : s[k] = i
      BY <1>3 DEF Stacked
    <3>2. k \in 1 .. m - 1
      BY <1>1, <1>4, <3>1
    <3> QED BY <2>1, <3>1, <3>2
  <2>7. next = [k \in 1 .. m - 1 |-> parts[t[k]]]
    <3>1. next = [k \in 1 .. m - 1 |-> out[k]]
      BY <2>1, <2>2 DEF Front
    <3>2. \A k \in 1 .. m - 1 : out[k] = parts[t[k]]
      BY <1>1, <2>1
    <3> HIDE DEF next, t
    <3> QED BY <3>1, <3>2
  <2>8. \A k \in 1 .. m - 1 : N(parts, t[k], n + 1) = U(parts, t[k], n + 1) + (m - 1) - k + 1
    <3> TAKE k \in 1 .. m - 1
    <3>1. k \in 1 .. m /\ t[k] = s[k]
      BY <2>1
    <3>2. N(parts, s[k], n) = U(parts, s[k], n) + m - k + 1 /\ s[k] \in Remaining(parts, n)
      BY <1>1, <3>1 DEF Stacked
    <3>3. /\ N(parts, s[k], n + 1) = N(parts, s[k], n)
          /\ U(parts, s[k], n + 1) = U(parts, s[k], n) + 1
          /\ N(parts, s[k], n) \in Nat /\ U(parts, s[k], n) \in Nat
      BY <1>2, <3>2
    <3> HIDE DEF t
    <3> QED BY <1>1, <3>1, <3>2, <3>3
  <2>9. Stacked(t, m - 1, next, parts, n + 1)
    <3> HIDE DEF t, next
    <3> QED BY <2>1, <2>4, <2>5, <2>6, <2>7, <2>8 DEF Stacked
  <2> QED BY <2>3, <2>9
<1> QED BY <1>5, <1>6

\* Every turn of the loop keeps what Stacked says.
LEMMA TurnsStacked ==
  ASSUME NEW parts \in Seq(STRING), NEW out, Turns(out, parts, Len(parts))
  PROVE  \E s, m : Stacked(s, m, out[Len(parts)], parts, Len(parts))
<1> DEFINE S == {n \in Nat : n <= Len(parts) => \E s, m : Stacked(s, m, out[n], parts, n)}
<1>1. 0 \in S
  <2>1. out[0] = <<>>
    BY LenProperties DEF Turns
  <2>2. Remaining(parts, 0) = {} /\ 1 .. 0 = {}
    BY RemainingPlaces
  <2> DEFINE s == [k \in 1 .. 0 |-> k]
  <2>3. s \in [1 .. 0 -> {}]
    BY <2>2
  <2>4. out[0] = [k \in 1 .. 0 |-> parts[s[k]]]
    BY <2>1, <2>2
  <2>5. Stacked(s, 0, out[0], parts, 0)
    <3> HIDE DEF s
    <3> QED BY <2>2, <2>3, <2>4 DEF Stacked
  <2> QED BY <2>5
<1>2. ASSUME NEW n \in Nat, n \in S PROVE n + 1 \in S
  <2> SUFFICES ASSUME n + 1 <= Len(parts)
               PROVE  \E s, m : Stacked(s, m, out[n + 1], parts, n + 1)
    OBVIOUS
  <2>1. n < Len(parts) /\ n \in 0 .. Len(parts) /\ n + 1 \in 0 .. Len(parts)
    BY LenProperties
  <2>2. PICK s, m : Stacked(s, m, out[n], parts, n)
    BY <1>2, <2>1
  <2>3. out[n + 1] = Component(out[n], parts[n + 1])
    BY <2>1 DEF Turns
  <2>4. CASE parts[n + 1] = "."
    BY <2>2, <2>3, <2>4, StackedDot
  <2>5. CASE parts[n + 1] = ".."
    BY <2>1, <2>2, <2>3, <2>5, StackedUp
  <2>6. CASE parts[n + 1] \notin {".", ".."}
    BY <2>1, <2>2, <2>3, <2>6, StackedName
  <2> QED BY <2>4, <2>5, <2>6
<1>3. Nat \subseteq S
  <2> HIDE DEF S
  <2> QED BY <1>1, <1>2, SetInduction
<1> QED BY <1>3, LenProperties

\* The places of the names that remain, counted from the front, are those of s.
LEMMA StackedMeant ==
  ASSUME NEW parts \in Seq(STRING), NEW s, NEW m, NEW out, Stacked(s, m, out, parts, Len(parts))
  PROVE  out = Meant(parts)
<1> DEFINE R == Remaining(parts, Len(parts))
           place(k) == CHOOSE i \in R : Cardinality(R \cap (1 .. i)) = k
<1>1. /\ m \in Nat /\ s \in [1 .. m -> R]
      /\ \A k, l \in 1 .. m : k < l => s[k] < s[l]
      /\ \A i \in R : \E k \in 1 .. m : s[k] = i
      /\ out = [k \in 1 .. m |-> parts[s[k]]]
  BY DEF Stacked
<1>2. \A i \in R : i \in 1 .. Len(parts)
  BY RemainingPlaces, LenProperties
<1> HIDE DEF R
<1>3. ASSUME NEW n \in 0 .. m, NEW T, \A i : i \in T <=> \E k \in 1 .. n : i = s[k]
      PROVE  Cardinality(T) = n
  <2> DEFINE f == [k \in 1 .. n |-> s[k]]
  <2>1. \A k \in 1 .. n : k \in 1 .. m /\ f[k] = s[k] /\ s[k] \in 1 .. Len(parts)
    BY <1>1, <1>2
  <2>2. f \in Bijection(1 .. n, T)
    <3>1. f \in [1 .. n -> T]
      BY <1>3
    <3>2. ASSUME NEW k \in 1 .. n, NEW l \in 1 .. n, f[k] = f[l] PROVE k = l
      <4>1. s[k] = s[l] /\ s[k] \in Int /\ s[l] \in Int /\ k \in 1 .. m /\ l \in 1 .. m
        BY <2>1, <3>2
      <4>2. ~(k < l) /\ ~(l < k)
        BY <1>1, <4>1
      <4> QED BY <4>2
    <3>3. \A i \in T : \E k \in 1 .. n : f[k] = i
      BY <1>3, <2>1
    <3> HIDE DEF f
    <3>4. IsInjective(f)
      BY <3>1, <3>2 DEF IsInjective
    <3> QED BY <3>1, <3>3, <3>4 DEF Bijection, Injection, Surjection
  <2>3. IsFiniteSet(1 .. n) /\ Cardinality(1 .. n) = n
    BY FS_Interval
  <2>4. ExistsBijection(1 .. n, T)
    BY <2>2 DEF ExistsBijection
  <2> QED BY <2>3, <2>4, FS_Bijection
<1>4. Cardinality(R) = m
  <2>1. \A i : i \in R <=> \E k \in 1 .. m : i = s[k]
    BY <1>1
  <2> QED BY <1>1, <1>3, <2>1
<1>5. ASSUME NEW k \in 1 .. m PROVE Cardinality(R \cap (1 .. s[k])) = k
  <2>1. \A l \in 1 .. m : s[l] \in 1 .. Len(parts) /\ s[l] \in R
    BY <1>1, <1>2
  <2>2. \A l \in 1 .. m : s[l] <= s[k] <=> l <= k
    <3> TAKE l \in 1 .. m
    <3>1. s[l] \in Int /\ s[k] \in Int
      BY <2>1
    <3>2. (l < k => s[l] < s[k]) /\ (k < l => s[k] < s[l]) /\ (k = l => s[k] = s[l])
      BY <1>1
    <3> QED BY <3>1, <3>2
  <2>3. \A i : i \in R \cap (1 .. s[k]) <=> \E l \in 1 .. k : i = s[l]
    <3> SUFFICES ASSUME NEW i
                 PROVE  i \in R \cap (1 .. s[k]) <=> \E l \in 1 .. k : i = s[l]
      OBVIOUS
    <3>1. ASSUME i \in R \cap (1 .. s[k]) PROVE \E l \in 1 .. k : i = s[l]
      <4>1. PICK l \in 1 .. m : s[l] = i
        BY <1>1, <3>1
      <4>2. l <= k
        BY <2>1, <2>2, <3>1, <4>1
      <4> QED BY <4>1, <4>2
    <3>2. ASSUME NEW l \in 1 .. k, i = s[l] PROVE i \in R \cap (1 .. s[k])
      <4>1. l \in 1 .. m /\ l <= k
        BY <1>1
      <4> QED BY <2>1, <2>2, <3>2, <4>1
    <3> QED BY <3>1, <3>2
  <2>4. k \in 0 .. m
    OBVIOUS
  <2> QED BY <1>3, <2>3, <2>4
<1>6. ASSUME NEW k \in 1 .. m PROVE place(k) = s[k]
  <2>1. s[k] \in R /\ Cardinality(R \cap (1 .. s[k])) = k
    BY <1>1, <1>5
  <2>2. place(k) \in R /\ Cardinality(R \cap (1 .. place(k))) = k
    BY <2>1
  <2> HIDE DEF place
  <2>3. PICK l \in 1 .. m : s[l] = place(k)
    BY <1>1, <2>2
  <2>4. l = k
    BY <1>5, <2>2, <2>3
  <2> QED BY <2>3, <2>4
<1>7. Meant(parts) = [k \in 1 .. m |-> parts[place(k)]]
  BY <1>4 DEF Meant, R
<1> HIDE DEF place
<1> QED BY <1>1, <1>6, <1>7

\* normalize_path yields the path that its argument means, however '.' and '..' are
\* mixed into it (normalize_path).
THEOREM NormalizedMeant == \A parts \in Seq(STRING) : normalize_path(parts) = Meant(parts)
<1> SUFFICES ASSUME NEW parts \in Seq(STRING) PROVE normalize_path(parts) = Meant(parts)
  OBVIOUS
<1>1. PICK out : Turns(out, parts, Len(parts)) /\ normalize_path(parts) = out[Len(parts)]
  BY NormalizedByTurns
<1>2. PICK s, m : Stacked(s, m, out[Len(parts)], parts, Len(parts))
  BY <1>1, TurnsStacked
<1> QED BY <1>1, <1>2, StackedMeant

LEMMA ResolvedStep == IInv /\ ResolvedInv /\ [Next]_vars => ResolvedInv'
<1> SUFFICES ASSUME IInv, ResolvedInv, [Next]_vars PROVE ResolvedInv'
  OBVIOUS
<1>1. TypeOK /\ CallsWellFormed
  BY DEF IInv
<1>2. ASSUME NEW c \in Call, Resolve(c) PROVE ResolvedInv'
  <2>1. PICK request \in Requests[c] :
          calls' = [calls EXCEPT ![c] =
            IF IsPrefix(Root, Candidate(request))
            THEN [@ EXCEPT !.pc = "open", !.request = request, !.target = Candidate(request)]
            ELSE [@ EXCEPT !.pc = "done", !.request = request, !.answer = "escapes"]]
    BY <1>2 DEF Resolve
  <2>2. /\ \A d \in Call : d # c => calls'[d] = calls[d]
        /\ calls'[c].request = request
        /\ IF IsPrefix(Root, Candidate(request))
           THEN calls'[c].target = Candidate(request)
           ELSE calls'[c].pc = "done" /\ calls'[c].answer = "escapes"
    BY <1>1, <2>1, CallType DEF TypeOK, CallState
  <2> QED BY <2>2 DEF ResolvedInv, Candidate
<1>3. ASSUME NEW c \in Call,
             \/ ListOrFail(c) \/ OpenRead(c) \/ ReadChunk(c)
             \/ OpenWrite(c) \/ WriteChunk(c) \/ CloseWrite(c)
      PROVE  ResolvedInv'
  <2>1. /\ calls[c].pc # "done"
        /\ \A d \in Call : /\ calls'[d].request = calls[d].request
                           /\ calls'[d].target = calls[d].target
        /\ \A d \in Call : d # c =>
             calls'[d].pc = calls[d].pc /\ calls'[d].answer = calls[d].answer
    <3>1. CASE ListOrFail(c)
      <4>1. PICK answer \in {"names", "error"} : calls' = Answer(c, answer)
        BY <3>1 DEF ListOrFail
      <4> QED BY <1>1, <3>1, <4>1 DEF ListOrFail, Answer, TypeOK, CallState
    <3>2. CASE OpenRead(c)
      BY <1>1, <3>2 DEF OpenRead, TypeOK, CallState
    <3>3. CASE ReadChunk(c)
      BY <1>1, <3>3 DEF ReadChunk, Answer, TypeOK, CallState
    <3>4. CASE OpenWrite(c)
      BY <1>1, <3>4 DEF OpenWrite, TypeOK, CallState
    <3>5. CASE WriteChunk(c)
      BY <1>1, <3>5 DEF WriteChunk, TypeOK, CallState
    <3>6. CASE CloseWrite(c)
      BY <1>1, <3>6 DEF CloseWrite, Answer, TypeOK, CallState
    <3> QED BY <1>3, <3>1, <3>2, <3>3, <3>4, <3>5, <3>6
  <2>2. ASSUME NEW d \in Call, calls'[d].request # Missing
        PROVE  IF IsPrefix(Root, Candidate(calls'[d].request))
               THEN calls'[d].target = Candidate(calls'[d].request)
               ELSE calls'[d].pc = "done" /\ calls'[d].answer = "escapes"
    <3>1. calls'[d].request = calls[d].request /\ calls'[d].target = calls[d].target
      BY <2>1
    <3>2. CASE IsPrefix(Root, Candidate(calls[d].request))
      BY <2>2, <3>1, <3>2 DEF ResolvedInv
    <3>3. CASE ~IsPrefix(Root, Candidate(calls[d].request))
      <4>1. calls[d].pc = "done" /\ calls[d].answer = "escapes"
        BY <2>2, <3>1, <3>3 DEF ResolvedInv
      <4>2. d # c
        BY <2>1, <4>1
      <4> QED BY <2>1, <3>1, <3>3, <4>1, <4>2
    <3> QED BY <3>2, <3>3
  <2> QED BY <2>2 DEF ResolvedInv, Candidate
<1>4. ASSUME UNCHANGED vars PROVE ResolvedInv'
  BY <1>4 DEF vars, ResolvedInv, Candidate
<1> QED BY <1>2, <1>3, <1>4 DEF Next

\* Every file tool works on the path its argument means, and turns the call away
\* exactly when that lies outside the workspace, for any root and paths of any length
\* (resolve_path, normalize_path).
THEOREM PathsMeantTheorem == Spec => []PathsMeant
<1>1. Init => ResolvedInv
  BY DEF Init, ResolvedInv
<1>2. IInv /\ ResolvedInv /\ [Next]_vars => ResolvedInv'
  BY ResolvedStep
<1>3. IInv /\ ResolvedInv => PathsMeant
  <2> SUFFICES ASSUME IInv, ResolvedInv, NEW c \in Call, calls[c].request # Missing
               PROVE  LET request == calls[c].request
                          meant   == Meant(IF request.absolute THEN request.parts
                                                               ELSE Root \o request.parts)
                      IN  IF IsPrefix(Root, meant) THEN calls[c].target = meant
                                                   ELSE calls[c].answer = "escapes"
    BY DEF PathsMeant
  <2> DEFINE request == calls[c].request
             parts   == IF request.absolute THEN request.parts ELSE Root \o request.parts
  <2>1. request \in Request
    BY CallType DEF IInv, CallState
  <2>2. parts \in Seq(STRING)
    BY <2>1, TreeAssumption, ConcatProperties DEF Request
  <2>3. Candidate(request) = Meant(parts)
    BY <2>2, NormalizedMeant DEF Candidate
  <2> QED BY <2>3 DEF ResolvedInv
<1> QED BY <1>1, <1>2, <1>3, Invariance, PTL DEF Spec
=============================================================================

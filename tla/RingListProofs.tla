--------------------------- MODULE RingListProofs ---------------------------
(***************************************************************************)
(* What the operators on lists of ConsistentHash do, for every list of     *)
(* hashes: Sorted sorts, Without removes one hash, FlattenSeq joins lists, *)
(* and Search finds the place of a hash in a list that is in order.        *)
(*                                                                         *)
(* Induction is over the numbers 0 .. n with a set in place of a           *)
(* predicate (UpTo): a statement about a list is put as the set of the     *)
(* indexes up to which it holds.  Without, FlattenSeq and Search are       *)
(* recursive functions, and of such a function nothing is known until      *)
(* there is one that satisfies its equation (RecursionExists,              *)
(* BisectExists).                                                          *)
(***************************************************************************)
EXTENDS ConsistentHash, FiniteSetTheorems, WellFoundedInduction, TLAPS

-----------------------------------------------------------------------------
(* Numbers and recursion *)

(* A nonempty set of positive numbers has a least element. *)
LEMMA LeastElement ==
  ASSUME NEW S \in SUBSET Nat, S # {}
  PROVE  \E i \in S : \A j \in S : i <= j
<1> DEFINE less == {ij \in Nat \X Nat : ij[1] < ij[2]}
<1>1. IsWellFoundedOn(less, Nat)
  BY NatLessThanWellFounded DEF OpToRel
<1> HIDE DEF less
<1>2. PICK i \in S : \A j \in S : ~ (<<j, i>> \in less)
  BY <1>1, WFMin
<1>3. ASSUME NEW j \in S PROVE i <= j
  <2>1. i \in Nat /\ j \in Nat /\ ~ (<<j, i>> \in less)
    BY <1>2
  <2>2. ~ (j < i)
    BY <2>1 DEF less
  <2> QED
    BY <2>1, <2>2
<1> QED
  BY <1>3

LEMMA GreatestElement ==
  ASSUME NEW n \in Nat, NEW S \in SUBSET (0 .. n), S # {}
  PROVE  \E i \in S : \A j \in S : j <= i
<1> DEFINE above == {k \in Nat : \A j \in S : j <= k}
<1>1. PICK i \in above : \A k \in above : i <= k
  <2>1. n \in above
    OBVIOUS
  <2> QED
    BY <2>1, LeastElement
<1>2. i \in S
  <2> SUFFICES ASSUME i \notin S PROVE FALSE
    OBVIOUS
  <2>1. \A j \in S : j \in Nat /\ j <= i /\ j # i
    OBVIOUS
  <2>2. i # 0
    <3>1. PICK j \in S : TRUE
      OBVIOUS
    <3> QED
      BY <2>1, <3>1
  <2>3. i - 1 \in above
    BY <2>1, <2>2
  <2> QED
    BY <1>1, <2>3
<1> QED
  BY <1>2

LEMMA CardinalityUpTo ==
  ASSUME NEW n \in Nat PROVE IsFiniteSet(1 .. n) /\ Cardinality(1 .. n) = n
<1>1. /\ IsFiniteSet(1 .. n)
      /\ Cardinality(1 .. n) = IF 1 > n THEN 0 ELSE n - 1 + 1
  BY FS_Interval
<1> QED
  BY <1>1

(* Induction over the numbers up to n, with a set for the predicate. *)
LEMMA UpTo ==
  ASSUME NEW n \in Nat, NEW S, 0 \in S,
         \A i \in 0 .. n : i < n /\ i \in S => i + 1 \in S
  PROVE  \A i \in 0 .. n : i \in S
<1> SUFFICES ASSUME NEW x \in 0 .. n, x \notin S PROVE FALSE
  OBVIOUS
<1> DEFINE bad == {i \in 0 .. n : i \notin S}
<1>1. PICK i \in bad : \A j \in bad : i <= j
  <2>1. bad \in SUBSET Nat /\ x \in bad
    OBVIOUS
  <2> QED
    BY <2>1, LeastElement
<1>2. i # 0 /\ i - 1 \in 0 .. n /\ i - 1 < n
  BY <1>1
<1>3. i - 1 \in S
  BY <1>1, <1>2
<1>4. (i - 1) + 1 \in S
  BY <1>2, <1>3
<1> QED
  BY <1>1, <1>4

(* A step of a recursion stays in V, and f is defined by it from a on.     *)
StaysIn(V, n, step) == \A v \in V, i \in 1 .. n : step[<<v, i>>] \in V
Solves(f, n, a, step) == f[0] = a /\ \A i \in 1 .. n : f[i] = step[<<f[i - 1], i>>]

(* A function that is defined by recursion over 0 .. n exists.              *)
LEMMA RecursionExists ==
  ASSUME NEW n \in Nat, NEW V, NEW a \in V, NEW step, StaysIn(V, n, step)
  PROVE  \E f \in [0 .. n -> V] : Solves(f, n, a, step)
<1> DEFINE Upto(f, d) == Solves(f, d, a, step)
           S == {d \in 0 .. n : \E f \in [0 .. n -> V] : Upto(f, d)}
<1>1. 0 \in S
  <2> DEFINE f == [i \in 0 .. n |-> a]
  <2>1. f \in [0 .. n -> V] /\ f[0] = a
    OBVIOUS
  <2> HIDE DEF f
  <2>2. Upto(f, 0)
    BY <2>1 DEF Solves
  <2> QED
    BY <2>1, <2>2
<1>2. ASSUME NEW d \in 0 .. n, d < n, d \in S PROVE d + 1 \in S
  <2>1. PICK f \in [0 .. n -> V] : Upto(f, d)
    BY <1>2
  <2> DEFINE v == step[<<f[d], d + 1>>]
             g == [f EXCEPT ![d + 1] = v]
  <2>2. v \in V
    BY <1>2 DEF StaysIn
  <2>3. g \in [0 .. n -> V] /\ \A i \in 0 .. n : g[i] = IF i = d + 1 THEN v ELSE f[i]
    BY <1>2, <2>2
  <2> HIDE DEF g
  <2>4. g[0] = a
    <3>1. 0 \in 0 .. n /\ 0 # d + 1
      BY <1>2
    <3> QED
      BY <2>1, <2>3, <3>1 DEF Solves
  <2>5. ASSUME NEW i \in 1 .. d + 1 PROVE g[i] = step[<<g[i - 1], i>>]
    <3>1. i \in 0 .. n /\ i - 1 \in 0 .. n /\ i - 1 # d + 1
      BY <1>2
    <3>2. g[i - 1] = f[i - 1]
      BY <2>3, <3>1
    <3>3. CASE i = d + 1
      <4>1. i - 1 = d
        BY <1>2, <3>3
      <4>2. g[i] = v
        BY <2>3, <3>1, <3>3
      <4> QED
        BY <3>2, <3>3, <4>1, <4>2
    <3>4. CASE i # d + 1
      <4>1. i \in 1 .. d /\ g[i] = f[i]
        BY <1>2, <2>3, <3>1, <3>4
      <4> QED
        BY <2>1, <3>2, <4>1 DEF Solves
    <3> QED
      BY <3>3, <3>4
  <2>6. Upto(g, d + 1)
    BY <2>4, <2>5 DEF Solves
  <2>7. d + 1 \in 0 .. n
    BY <1>2
  <2> QED
    BY <2>3, <2>6, <2>7
<1>3. \A d \in 0 .. n : d < n /\ d \in S => d + 1 \in S
  BY <1>2
<1> HIDE DEF S
<1>4. n \in S
  <2>1. \A d \in 0 .. n : d \in S
    BY <1>1, <1>3, UpTo
  <2> QED
    BY <2>1
<1> QED
  BY <1>4 DEF S

(* The list is in order. *)
Ascending(s) == \A i, j \in DOMAIN s : i <= j => s[i] <= s[j]

-----------------------------------------------------------------------------
(* Sorting *)

Below(s, x) == {j \in DOMAIN s : s[j] < x}
NotAbove(s, x) == {j \in DOMAIN s : s[j] <= x}

LEMMA Positions ==
  /\ Position \subseteq Nat
  /\ \A p, q \in Position : p <= q \/ q < p
BY RingAssumption DEF Position

LEMMA Ranks ==
  ASSUME NEW s \in Seq(Position), NEW x \in Position
  PROVE  /\ Cardinality(Below(s, x)) \in Nat /\ Cardinality(NotAbove(s, x)) \in Nat
         /\ Cardinality(NotAbove(s, x)) <= Len(s)
         /\ \A y \in Position :
              x < y => Cardinality(NotAbove(s, x)) <= Cardinality(Below(s, y))
         /\ x \in Range(s) => Cardinality(Below(s, x)) < Cardinality(NotAbove(s, x))
<1>1. DOMAIN s = 1 .. Len(s) /\ Len(s) \in Nat /\ \A j \in DOMAIN s : s[j] \in Position
  OBVIOUS
<1>2. IsFiniteSet(DOMAIN s) /\ Cardinality(DOMAIN s) = Len(s)
  BY <1>1, CardinalityUpTo
<1>3. \A y : /\ IsFiniteSet(Below(s, y)) /\ Cardinality(Below(s, y)) \in Nat
             /\ IsFiniteSet(NotAbove(s, y)) /\ Cardinality(NotAbove(s, y)) \in Nat
             /\ Cardinality(NotAbove(s, y)) <= Len(s)
  <2> TAKE y
  <2>1. Below(s, y) \in SUBSET DOMAIN s /\ NotAbove(s, y) \in SUBSET DOMAIN s
    BY DEF Below, NotAbove
  <2> QED
    BY <1>2, <2>1, FS_Subset, FS_CardinalityType
<1>4. ASSUME NEW y \in Position, x < y
      PROVE  Cardinality(NotAbove(s, x)) <= Cardinality(Below(s, y))
  <2>1. NotAbove(s, x) \in SUBSET Below(s, y)
    BY <1>1, <1>4, RingAssumption DEF Below, NotAbove, Position
  <2> QED
    BY <1>3, <2>1, FS_Subset
<1>5. ASSUME x \in Range(s)
      PROVE  Cardinality(Below(s, x)) < Cardinality(NotAbove(s, x))
  <2>1. PICK i \in DOMAIN s : s[i] = x
    BY <1>5 DEF Range
  <2>2. Below(s, x) \in SUBSET NotAbove(s, x)
    BY <1>1, RingAssumption DEF Below, NotAbove, Position
  <2>3. i \in NotAbove(s, x) /\ i \notin Below(s, x)
    BY <1>1, <2>1, Positions DEF Below, NotAbove
  <2> QED
    BY <1>3, <2>2, <2>3, FS_Subset
<1> QED
  BY <1>3, <1>4, <1>5

(* The i-th smallest element. *)
IsRanked(s, i, x) ==
  /\ x \in Range(s)
  /\ Cardinality(Below(s, x)) < i
  /\ i <= Cardinality(NotAbove(s, x))

LEMMA SortedIsRanked ==
  ASSUME NEW s \in Seq(Position)
  PROVE  /\ DOMAIN Sorted(s) = DOMAIN s
         /\ \A i \in DOMAIN s : IsRanked(s, i, Sorted(s)[i])
<1>1. DOMAIN s = 1 .. Len(s) /\ Len(s) \in Nat /\ \A j \in DOMAIN s : s[j] \in Position
  OBVIOUS
<1>2. ASSUME NEW i \in DOMAIN s PROVE \E x : IsRanked(s, i, x)
  <2> DEFINE S == {x \in Range(s) : i <= Cardinality(NotAbove(s, x))}
  <2>1. Range(s) \in SUBSET Position
    BY <1>1 DEF Range
  <2>2. S # {}
    <3>1. Range(s) # {} /\ Range(s) \in SUBSET (0 .. MaxHash)
      BY <1>2, <2>1 DEF Range, Position
    <3>2. PICK x \in Range(s) : \A y \in Range(s) : y <= x
      BY <3>1, GreatestElement, RingAssumption
    <3>3. NotAbove(s, x) = DOMAIN s
      BY <3>2 DEF NotAbove, Range
    <3>4. Cardinality(NotAbove(s, x)) = Len(s)
      <4>1. Cardinality(1 .. Len(s)) = Len(s)
        BY <1>1, CardinalityUpTo
      <4> QED
        BY <1>1, <3>3, <4>1
    <3> QED
      BY <1>1, <1>2, <3>2, <3>4
  <2>3. PICK x \in S : \A y \in S : x <= y
    <3>1. S \in SUBSET Nat
      BY <2>1, Positions
    <3> QED
      BY <2>2, <3>1, LeastElement
  <2>4. x \in Range(s) /\ x \in Position /\ i <= Cardinality(NotAbove(s, x))
    BY <2>1
  <2>5. Cardinality(Below(s, x)) < i
    <3> SUFFICES ASSUME ~ (Cardinality(Below(s, x)) < i) PROVE FALSE
      OBVIOUS
    <3> DEFINE less == {y \in Range(s) : y < x}
    <3>1. Cardinality(Below(s, x)) \in Nat /\ i \in Nat /\ i >= 1
      BY <1>1, <1>2, <2>4, Ranks
    <3>2. less # {}
      <4>1. Below(s, x) # {}
        BY <3>1, FS_EmptySet
      <4> QED
        BY <4>1 DEF Below, Range
    <3>3. PICK y \in less : \A z \in less : z <= y
      <4>1. less \in SUBSET (0 .. MaxHash)
        BY <2>1 DEF Position
      <4> QED
        BY <3>2, <4>1, GreatestElement, RingAssumption
    <3>4. NotAbove(s, y) = Below(s, x)
      <4>1. \A j \in DOMAIN s : s[j] < x => s[j] <= y
        BY <3>3 DEF Range
      <4>2. \A j \in DOMAIN s : s[j] <= y => s[j] < x
        BY <1>1, <2>1, <2>4, <3>3, RingAssumption DEF Position
      <4> QED
        BY <4>1, <4>2 DEF NotAbove, Below
    <3>5. y \in S
      BY <1>1, <1>2, <3>1, <3>3, <3>4
    <3>6. x <= y /\ y < x /\ y \in Position
      BY <2>1, <2>3, <3>3, <3>5
    <3> QED
      BY <2>4, <3>6, Positions
  <2> QED
    BY <2>4, <2>5 DEF IsRanked
<1>3. ASSUME NEW i \in DOMAIN s PROVE IsRanked(s, i, Sorted(s)[i])
  <2>1. Sorted(s)[i] = CHOOSE x : IsRanked(s, i, x)
    <3>1. Sorted(s)[i] = CHOOSE x \in Range(s) :
                           /\ Cardinality({j \in DOMAIN s : s[j] < x}) < i
                           /\ i <= Cardinality({j \in DOMAIN s : s[j] <= x})
      BY DEF Sorted
    <3> QED
      BY <3>1 DEF IsRanked, Below, NotAbove
  <2> HIDE DEF IsRanked
  <2> QED
    BY <1>2, <2>1
<1> QED
  BY <1>3 DEF Sorted

(* Sorted sorts: it keeps the elements of the list and puts them in order.  *)
LEMMA SortedOK ==
  ASSUME NEW s \in Seq(Position)
  PROVE  /\ Sorted(s) \in Seq(Position)
         /\ Range(Sorted(s)) = Range(s)
         /\ Ascending(Sorted(s))
<1> DEFINE t == Sorted(s)
<1>1. DOMAIN s = 1 .. Len(s) /\ Len(s) \in Nat /\ Range(s) \in SUBSET Position
  BY DEF Range
<1>2. DOMAIN t = 1 .. Len(s) /\ \A i \in DOMAIN t : IsRanked(s, i, t[i])
  BY <1>1, SortedIsRanked
<1> HIDE DEF t
<1>3. \A i \in DOMAIN t : t[i] \in Range(s) /\ t[i] \in Position
  BY <1>1, <1>2 DEF IsRanked
<1>4. t \in Seq(Position)
  <2>1. t \in [DOMAIN s -> Position]
    BY <1>3 DEF t, Sorted
  <2> QED
    BY <1>1, <2>1
<1>5. Ascending(t)
  <2> SUFFICES ASSUME NEW i \in DOMAIN t, NEW j \in DOMAIN t, i <= j, ~ (t[i] <= t[j])
               PROVE  FALSE
    BY DEF Ascending
  <2>1. t[j] < t[i] /\ t[i] \in Position /\ t[j] \in Position
    BY <1>3, Positions
  <2>2. Cardinality(NotAbove(s, t[j])) <= Cardinality(Below(s, t[i]))
    BY <2>1, Ranks
  <2>3. j <= Cardinality(NotAbove(s, t[j])) /\ Cardinality(Below(s, t[i])) < i
    BY <1>2 DEF IsRanked
  <2>4. /\ Cardinality(NotAbove(s, t[j])) \in Nat /\ Cardinality(Below(s, t[i])) \in Nat
        /\ i \in Nat /\ j \in Nat
    BY <1>1, <1>2, <2>1, Ranks
  <2> QED
    BY <2>2, <2>3, <2>4
<1>6. ASSUME NEW x \in Range(s) PROVE x \in Range(t)
  <2> DEFINE i == Cardinality(NotAbove(s, x))
  <2>1. i \in Nat /\ i <= Len(s) /\ Cardinality(Below(s, x)) \in Nat /\ Cardinality(Below(s, x)) < i
    BY <1>1, <1>6, Ranks
  <2>2. i \in DOMAIN t
    BY <1>1, <1>2, <2>1
  <2>3. t[i] \in Position /\ x \in Position
    BY <1>1, <1>3, <2>2
  <2>4. Cardinality(Below(s, t[i])) < i /\ i <= Cardinality(NotAbove(s, t[i]))
    BY <1>2, <2>2 DEF IsRanked
  <2>5. /\ Cardinality(Below(s, t[i])) \in Nat /\ Cardinality(NotAbove(s, t[i])) \in Nat
        /\ t[i] < x => Cardinality(NotAbove(s, t[i])) <= Cardinality(Below(s, x))
    BY <2>3, Ranks
  <2>6. x < t[i] => Cardinality(NotAbove(s, x)) <= Cardinality(Below(s, t[i]))
    BY <2>3, Ranks
  <2>7. ~ (t[i] < x) /\ ~ (x < t[i])
    BY <2>1, <2>4, <2>5, <2>6
  <2>8. t[i] = x
    BY <2>3, <2>7, RingAssumption DEF Position
  <2> QED
    BY <2>2, <2>8 DEF Range
<1> QED
  BY <1>3, <1>4, <1>5, <1>6 DEF t, Range

-----------------------------------------------------------------------------
(* Lists that grow *)

LEMMA AppendOK ==
  ASSUME NEW s \in Seq(Position), NEW x \in Position
  PROVE  /\ Append(s, x) \in Seq(Position)
         /\ Range(Append(s, x)) = Range(s) \cup {x}
         /\ Ascending(s) /\ (\A y \in Range(s) : y <= x) => Ascending(Append(s, x))
<1> DEFINE t == Append(s, x)
<1>1. /\ Len(s) \in Nat /\ DOMAIN s = 1 .. Len(s) /\ DOMAIN t = 1 .. Len(s) + 1
      /\ t \in Seq(Position) /\ t[Len(s) + 1] = x /\ \A i \in 1 .. Len(s) : t[i] = s[i]
  OBVIOUS
<1> HIDE DEF t
<1>2. Range(t) = Range(s) \cup {x}
  <2>1. \A y \in Range(s) : y \in Range(t)
    BY <1>1 DEF Range
  <2>2. x \in Range(t)
    <3>1. Len(s) + 1 \in DOMAIN t
      BY <1>1
    <3> QED
      BY <1>1, <3>1 DEF Range
  <2>3. \A i \in DOMAIN t : t[i] \in Range(s) \cup {x}
    <3> TAKE i \in DOMAIN t
    <3>1. i = Len(s) + 1 \/ i \in DOMAIN s
      BY <1>1
    <3> QED
      BY <1>1, <3>1 DEF Range
  <2> QED
    BY <2>1, <2>2, <2>3 DEF Range
<1>3. ASSUME Ascending(s), \A y \in Range(s) : y <= x
      PROVE  Ascending(t)
  <2> SUFFICES ASSUME NEW i \in DOMAIN t, NEW j \in DOMAIN t, i <= j
               PROVE  t[i] <= t[j]
    BY DEF Ascending
  <2>1. CASE j \in DOMAIN s
    <3>1. i \in DOMAIN s
      BY <1>1, <2>1
    <3> QED
      BY <1>1, <1>3, <2>1, <3>1 DEF Ascending
  <2>2. CASE j \notin DOMAIN s /\ i \in DOMAIN s
    <3>1. t[j] = x /\ t[i] = s[i] /\ s[i] \in Range(s)
      BY <1>1, <2>2 DEF Range
    <3> QED
      BY <1>3, <3>1
  <2>3. CASE i \notin DOMAIN s
    <3>1. i = j /\ t[i] = x
      BY <1>1, <2>3
    <3> QED
      BY <3>1, RingAssumption DEF Position
  <2> QED
    BY <2>1, <2>2, <2>3
<1> QED
  BY <1>1, <1>2, <1>3 DEF t

LEMMA ConcatOK ==
  ASSUME NEW s \in Seq(Position), NEW t \in Seq(Position)
  PROVE  s \o t \in Seq(Position) /\ Range(s \o t) = Range(s) \cup Range(t)
<1> DEFINE u == s \o t
<1>1. /\ Len(s) \in Nat /\ DOMAIN s = 1 .. Len(s) /\ Len(t) \in Nat /\ DOMAIN t = 1 .. Len(t)
      /\ u \in Seq(Position) /\ DOMAIN u = 1 .. Len(s) + Len(t)
      /\ \A i \in DOMAIN u : u[i] = IF i <= Len(s) THEN s[i] ELSE t[i - Len(s)]
  OBVIOUS
<1> HIDE DEF u
<1>2. \A i \in DOMAIN u : u[i] \in Range(s) \cup Range(t)
  <2> TAKE i \in DOMAIN u
  <2>1. i \in DOMAIN s \/ (i > Len(s) /\ i - Len(s) \in DOMAIN t)
    BY <1>1
  <2> QED
    BY <1>1, <2>1 DEF Range
<1>3. \A i \in DOMAIN s : s[i] \in Range(u)
  BY <1>1 DEF Range
<1>4. \A i \in DOMAIN t : t[i] \in Range(u)
  <2> TAKE i \in DOMAIN t
  <2>1. Len(s) + i \in DOMAIN u /\ u[Len(s) + i] = t[i]
    BY <1>1
  <2> QED
    BY <2>1 DEF Range
<1> QED
  BY <1>1, <1>2, <1>3, <1>4 DEF u, Range

-----------------------------------------------------------------------------
(* Removing a hash *)

(* g is the recursive function in Without. *)
Keeps(g, s, h) ==
  g = [i \in 0 .. Len(s) |->
         IF i = 0 THEN <<>>
         ELSE IF s[i] = h THEN g[i - 1] ELSE Append(g[i - 1], s[i])]

LEMMA WithoutIs ==
  ASSUME NEW s \in Seq(Position), NEW h
  PROVE  \E g : Keeps(g, s, h) /\ Without(s, h) = g[Len(s)]
<1> DEFINE n == Len(s)
           step == [vi \in Seq(Position) \X (1 .. n) |->
                      IF s[vi[2]] = h THEN vi[1] ELSE Append(vi[1], s[vi[2]])]
<1>1. n \in Nat /\ \A i \in 1 .. n : s[i] \in Position
  OBVIOUS
<1>2. \A v \in Seq(Position), i \in 1 .. n : step[<<v, i>>] \in Seq(Position)
  BY <1>1
<1>3. PICK f \in [0 .. n -> Seq(Position)] :
        f[0] = <<>> /\ \A i \in 1 .. n : f[i] = step[<<f[i - 1], i>>]
  <2> DEFINE V == Seq(Position)
             a == <<>>
  <2>1. a \in V /\ StaysIn(V, n, step)
    BY <1>2 DEF StaysIn
  <2> HIDE DEF step, n, V, a
  <2>2. \E f \in [0 .. n -> V] : Solves(f, n, a, step)
    BY <1>1, <2>1, RecursionExists
  <2> QED
    BY <2>2 DEF V, a, Solves
<1>4. Keeps(f, s, h)
  <2>1. ASSUME NEW i \in 0 .. n
        PROVE  f[i] = IF i = 0 THEN <<>>
                      ELSE IF s[i] = h THEN f[i - 1] ELSE Append(f[i - 1], s[i])
    <3>1. f[i] = IF i = 0 THEN <<>> ELSE step[<<f[i - 1], i>>]
      <4> HIDE DEF step, n
      <4>1. i # 0 => i \in 1 .. n
        BY <1>1
      <4> QED
        BY <1>3, <4>1
    <3>2. i # 0 => i \in 1 .. n /\ f[i - 1] \in Seq(Position)
      BY <1>1
    <3>3. i # 0 => step[<<f[i - 1], i>>] =
                     IF s[i] = h THEN f[i - 1] ELSE Append(f[i - 1], s[i])
      BY <3>2
    <3> QED
      BY <3>1, <3>3
  <2> QED
    BY <2>1 DEF Keeps
<1> QED
  BY <1>4 DEF Without, Keeps

(* Without keeps the other hashes, in their order. *)
LEMMA WithoutOK ==
  ASSUME NEW s \in Seq(Position), NEW h \in Position
  PROVE  /\ Without(s, h) \in Seq(Position)
         /\ Range(Without(s, h)) = Range(s) \ {h}
         /\ Ascending(s) => Ascending(Without(s, h))
<1> DEFINE n == Len(s)
           First(i) == {s[k] : k \in 1 .. i}
<1>1. n \in Nat /\ DOMAIN s = 1 .. n /\ \A i \in 1 .. n : s[i] \in Position
  OBVIOUS
<1>2. PICK g : Keeps(g, s, h) /\ Without(s, h) = g[n]
  BY WithoutIs
<1>3. \A i \in 0 .. n :
        g[i] = IF i = 0 THEN <<>>
               ELSE IF s[i] = h THEN g[i - 1] ELSE Append(g[i - 1], s[i])
  BY <1>2 DEF Keeps
<1> DEFINE Good(i) == /\ g[i] \in Seq(Position)
                      /\ Range(g[i]) = First(i) \ {h}
                      /\ Ascending(s) => Ascending(g[i])
           S == {i \in 0 .. n : Good(i)}
<1>4. 0 \in S
  <2>1. g[0] = <<>> /\ 0 \in 0 .. n
    BY <1>1, <1>3
  <2>2. <<>> \in Seq(Position) /\ Range(<<>>) = {} /\ Ascending(<<>>)
    BY DEF Range, Ascending
  <2>3. First(0) = {}
    OBVIOUS
  <2> QED
    BY <2>1, <2>2, <2>3
<1>5. ASSUME NEW i \in 0 .. n, i < n, i \in S PROVE i + 1 \in S
  <2>1. i + 1 \in 1 .. n /\ i + 1 \in 0 .. n /\ i + 1 # 0 /\ (i + 1) - 1 = i
    BY <1>1, <1>5
  <2>2. g[i + 1] = IF s[i + 1] = h THEN g[i] ELSE Append(g[i], s[i + 1])
    BY <1>3, <2>1
  <2>3. First(i + 1) = First(i) \cup {s[i + 1]}
    BY <1>1, <1>5
  <2>4. Good(i) /\ s[i + 1] \in Position
    BY <1>1, <1>5, <2>1
  <2>5. CASE s[i + 1] = h
    BY <2>1, <2>2, <2>3, <2>4, <2>5
  <2>6. CASE s[i + 1] # h
    <3>1. Ascending(s) => \A y \in Range(g[i]) : y <= s[i + 1]
      <4> SUFFICES ASSUME Ascending(s), NEW k \in 1 .. i PROVE s[k] <= s[i + 1]
        BY <2>4
      <4>1. k \in DOMAIN s /\ i + 1 \in DOMAIN s /\ k <= i + 1
        BY <1>1, <1>5, <2>1
      <4> QED
        BY <4>1 DEF Ascending
    <3> HIDE DEF First
    <3>2. Good(i + 1)
      BY <2>2, <2>3, <2>4, <2>6, <3>1, AppendOK
    <3> QED
      BY <2>1, <3>2
  <2> QED
    BY <2>5, <2>6
<1>6. Good(n)
  <2>1. \A i \in 0 .. n : i < n /\ i \in S => i + 1 \in S
    BY <1>5
  <2> HIDE DEF S, n
  <2>2. \A i \in 0 .. n : i \in S
    BY <1>1, <1>4, <2>1, UpTo
  <2>3. n \in S
    BY <1>1, <2>2
  <2> QED
    BY <2>3 DEF S
<1>7. First(n) = Range(s)
  BY <1>1 DEF Range
<1> QED
  BY <1>2, <1>6, <1>7

-----------------------------------------------------------------------------
(* Lists of lists *)

(* g is the recursive function in FlattenSeq. *)
Flattens(g, seqs) ==
  g = [i \in 1 .. Len(seqs) |-> IF i = 1 THEN seqs[i] ELSE g[i - 1] \o seqs[i]]

LEMMA FlattenIs ==
  ASSUME NEW n \in Nat \ {0}, NEW seqs \in [1 .. n -> Seq(Position)]
  PROVE  \E g : Flattens(g, seqs) /\ Seqs!FlattenSeq(seqs) = g[n]
<1> DEFINE step == [vi \in Seq(Position) \X (1 .. n) |-> vi[1] \o seqs[vi[2]]]
<1>1. \A v \in Seq(Position), i \in 1 .. n : step[<<v, i>>] \in Seq(Position)
  OBVIOUS
<1>2. PICK f \in [0 .. n -> Seq(Position)] :
        f[0] = <<>> /\ \A i \in 1 .. n : f[i] = step[<<f[i - 1], i>>]
  <2> DEFINE V == Seq(Position)
             a == <<>>
  <2>1. n \in Nat /\ a \in V
    OBVIOUS
  <2>2. StaysIn(V, n, step)
    BY <1>1 DEF StaysIn
  <2> HIDE DEF step, V, a
  <2>3. \E f \in [0 .. n -> V] : Solves(f, n, a, step)
    BY <2>1, <2>2, RecursionExists
  <2> QED
    BY <2>3 DEF V, a, Solves
<1>3. ASSUME NEW i \in 1 .. n PROVE f[i] = f[i - 1] \o seqs[i]
  <2>1. i \in 0 .. n /\ i # 0 /\ i - 1 \in 0 .. n
    OBVIOUS
  <2>2. f[i] = step[<<f[i - 1], i>>] /\ f[i - 1] \in Seq(Position)
    BY <1>2, <2>1
  <2> QED
    BY <2>2
<1>4. Len(seqs) = n
  OBVIOUS
<1> DEFINE g == [i \in 1 .. n |-> f[i]]
<1>5. Flattens(g, seqs)
  <2>1. ASSUME NEW i \in 1 .. n
        PROVE  f[i] = IF i = 1 THEN seqs[i] ELSE g[i - 1] \o seqs[i]
    <3>1. CASE i = 1
      <4>1. f[0] = <<>>
        BY <1>2
      <4>2. seqs[1] \in Seq(Position) /\ f[1] = f[0] \o seqs[1]
        <5>1. 1 \in 1 .. n /\ 1 - 1 = 0
          BY <3>1
        <5>2. f[1] = f[1 - 1] \o seqs[1]
          BY <1>3, <5>1
        <5> QED
          BY <5>1, <5>2
      <4>3. <<>> \o seqs[1] = seqs[1]
        BY <4>2
      <4> QED
        BY <3>1, <4>1, <4>2, <4>3
    <3>2. CASE i # 1
      <4>1. i - 1 \in 1 .. n
        BY <3>2
      <4> QED
        BY <1>3, <3>2, <4>1
    <3> QED
      BY <3>1, <3>2
  <2> QED
    BY <1>4, <2>1 DEF Flattens
<1> QED
  BY <1>4, <1>5 DEF Seqs!FlattenSeq, Flattens

(* FlattenSeq keeps the elements of all lists; if there is one it is that.  *)
LEMMA FlattenOK ==
  ASSUME NEW n \in Nat, NEW seqs \in [1 .. n -> Seq(Position)]
  PROVE  /\ Seqs!FlattenSeq(seqs) \in Seq(Position)
         /\ \A x : x \in Range(Seqs!FlattenSeq(seqs)) <=> \E i \in 1 .. n : x \in Range(seqs[i])
         /\ n = 1 => Seqs!FlattenSeq(seqs) = seqs[1]
<1>1. CASE n = 0
  <2>1. seqs = <<>>
    BY <1>1
  <2>2. Seqs!FlattenSeq(<<>>) = <<>>
    BY DEF Seqs!FlattenSeq
  <2>3. <<>> \in Seq(Position) /\ Range(<<>>) = {}
    BY DEF Range
  <2>4. 1 .. n = {}
    BY <1>1
  <2>5. Seqs!FlattenSeq(seqs) \in Seq(Position) /\ Range(Seqs!FlattenSeq(seqs)) = {}
    BY <2>1, <2>2, <2>3, Zenon
  <2>6. n # 1
    BY <1>1
  <2> QED
    BY <2>4, <2>5, <2>6, Zenon
<1>2. CASE n # 0
  <2>1. PICK g : Flattens(g, seqs) /\ Seqs!FlattenSeq(seqs) = g[n]
    BY <1>2, FlattenIs
  <2>2. \A i \in 1 .. n : g[i] = IF i = 1 THEN seqs[i] ELSE g[i - 1] \o seqs[i]
    <3>1. Len(seqs) = n
      OBVIOUS
    <3> QED
      BY <2>1, <3>1 DEF Flattens
  <2> DEFINE First(i) == UNION {Range(seqs[k]) : k \in 1 .. i}
             Good(i) == g[i] \in Seq(Position) /\ Range(g[i]) = First(i)
             S == {i \in 0 .. n : i = 0 \/ Good(i)}
  <2>3. ASSUME NEW i \in 0 .. n, i < n, i \in S PROVE i + 1 \in S
    <3>1. i + 1 \in 1 .. n /\ i + 1 \in 0 .. n /\ (i + 1) - 1 = i /\ (i + 1 = 1 <=> i = 0)
      BY <2>3
    <3>2. g[i + 1] = IF i = 0 THEN seqs[i + 1] ELSE g[i] \o seqs[i + 1]
      BY <2>2, <3>1
    <3>3. First(i + 1) = First(i) \cup Range(seqs[i + 1])
      <4>1. \A k : k \in 1 .. i + 1 <=> k \in 1 .. i \/ k = i + 1
        BY <2>3
      <4> QED
        BY <4>1
    <3>4. i = 0 => First(i) = {}
      OBVIOUS
    <3>5. seqs[i + 1] \in Seq(Position)
      BY <3>1
    <3> HIDE DEF First
    <3>6. Good(i + 1)
      BY <2>3, <3>2, <3>3, <3>4, <3>5, ConcatOK
    <3> QED
      BY <3>1, <3>6
  <2>4. n \in S
    <3>1. 0 \in S /\ \A i \in 0 .. n : i < n /\ i \in S => i + 1 \in S
      BY <2>3
    <3> HIDE DEF S
    <3>2. \A i \in 0 .. n : i \in S
      BY <3>1, UpTo
    <3> QED
      BY <3>2
  <2>5. Good(n) /\ (n = 1 => g[n] = seqs[1])
    BY <1>2, <2>2, <2>4
  <2>6. \A x : x \in First(n) <=> \E i \in 1 .. n : x \in Range(seqs[i])
    OBVIOUS
  <2> HIDE DEF First
  <2> QED
    BY <2>1, <2>5, <2>6
<1> QED
  BY <1>1, <1>2

-----------------------------------------------------------------------------
(* Searching *)

(* The interval of bisect, and the function itself. *)
Interval(s) == (0 .. Len(s)) \X (0 .. Len(s))
Middle(ij) == (ij[1] + ij[2]) \div 2

Half(g, s, h, ij) ==
  IF ij[1] >= ij[2] THEN ij[1]
  ELSE IF s[Middle(ij) + 1] >= h THEN g[<<ij[1], Middle(ij)>>] ELSE g[<<Middle(ij) + 1, ij[2]>>]

Bisects(g, s, h) == g = [ij \in Interval(s) |-> Half(g, s, h, ij)]

LEMMA MiddleIn ==
  ASSUME NEW s \in Seq(Position), NEW i \in 0 .. Len(s), NEW j \in 0 .. Len(s), i < j
  PROVE  LET m == Middle(<<i, j>>)
         IN  /\ m \in Nat /\ i <= m /\ m < j /\ m + 1 \in 1 .. Len(s)
             /\ m \in 0 .. Len(s) /\ m + 1 \in 0 .. Len(s)
             /\ <<i, m>> \in Interval(s) /\ <<m + 1, j>> \in Interval(s)
<1> DEFINE m == (i + j) \div 2
<1>1. Len(s) \in Nat /\ i \in Nat /\ j \in Nat
  OBVIOUS
<1>2. m \in Nat /\ i <= m /\ m < j
  BY <1>1
<1> HIDE DEF m
<1>3. m + 1 \in 1 .. Len(s) /\ m \in 0 .. Len(s) /\ m + 1 \in 0 .. Len(s)
  BY <1>1, <1>2
<1>4. Middle(<<i, j>>) = m
  BY DEF Middle, m
<1> QED
  BY <1>2, <1>3, <1>4 DEF Interval

(* A solution for intervals of at most d elements. *)
BisectsUpto(g, s, h, d) ==
  \A i, j \in 0 .. Len(s) : j <= i + d => g[<<i, j>>] = Half(g, s, h, <<i, j>>)

LEMMA BisectExists ==
  ASSUME NEW s \in Seq(Position), NEW h
  PROVE  \E g : Bisects(g, s, h)
<1> DEFINE n == Len(s)
           S == {d \in 0 .. n : \E g \in [Interval(s) -> 0 .. n] : BisectsUpto(g, s, h, d)}
<1>1. n \in Nat
  OBVIOUS
<1> HIDE DEF n
<1>2. 0 \in S
  <2> DEFINE g == [ij \in Interval(s) |-> ij[1]]
  <2>1. g \in [Interval(s) -> 0 .. n]
    BY DEF Interval, n
  <2>2. \A i, j \in 0 .. n : g[<<i, j>>] = i
    BY DEF Interval, n
  <2> HIDE DEF g
  <2>3. BisectsUpto(g, s, h, 0)
    <3> SUFFICES ASSUME NEW i \in 0 .. n, NEW j \in 0 .. n, j <= i + 0
                 PROVE  g[<<i, j>>] = Half(g, s, h, <<i, j>>)
      BY DEF BisectsUpto, n
    <3>1. i >= j
      BY <1>1
    <3> QED
      BY <2>2, <3>1 DEF Half
  <2> QED
    BY <1>1, <2>1, <2>3
<1>3. ASSUME NEW d \in 0 .. n, d < n, d \in S PROVE d + 1 \in S
  <2>1. PICK g \in [Interval(s) -> 0 .. n] : BisectsUpto(g, s, h, d)
    BY <1>3
  <2> DEFINE f == [ij \in Interval(s) |-> IF ij[2] <= ij[1] + d THEN g[ij] ELSE Half(g, s, h, ij)]
  <2>2. \A i, j \in 0 .. n : <<i, j>> \in Interval(s) /\ g[<<i, j>>] \in 0 .. n
    BY DEF Interval, n
  <2>3. \A i, j \in 0 .. n :
          f[<<i, j>>] = IF j <= i + d THEN g[<<i, j>>] ELSE Half(g, s, h, <<i, j>>)
    BY <2>2
  <2>4. ASSUME NEW i \in 0 .. n, NEW j \in 0 .. n
        PROVE  Half(g, s, h, <<i, j>>) \in 0 .. n
    <3>1. CASE i >= j
      BY <3>1 DEF Half
    <3>2. CASE ~ (i >= j)
      <4> DEFINE m == Middle(<<i, j>>)
      <4>1. i < j
        BY <1>1, <3>2
      <4>2. m \in 0 .. n /\ m + 1 \in 0 .. n
        BY <4>1, MiddleIn DEF n
      <4>3. g[<<i, m>>] \in 0 .. n /\ g[<<m + 1, j>>] \in 0 .. n
        BY <2>2, <4>2
      <4> HIDE DEF m
      <4> QED
        BY <3>2, <4>3 DEF Half, m
    <3> QED
      BY <3>1, <3>2
  <2>5. f \in [Interval(s) -> 0 .. n]
    <3>1. ASSUME NEW ij \in Interval(s)
          PROVE  (IF ij[2] <= ij[1] + d THEN g[ij] ELSE Half(g, s, h, ij)) \in 0 .. n
      <4>1. ij[1] \in 0 .. n /\ ij[2] \in 0 .. n /\ ij = <<ij[1], ij[2]>>
        BY DEF Interval, n
      <4> QED
        BY <2>2, <2>4, <4>1
    <3> QED
      BY <3>1
  <2> HIDE DEF f
  <2>6. BisectsUpto(f, s, h, d + 1)
    <3> SUFFICES ASSUME NEW i \in 0 .. n, NEW j \in 0 .. n, j <= i + (d + 1)
                 PROVE  f[<<i, j>>] = Half(f, s, h, <<i, j>>)
      BY DEF BisectsUpto, n
    <3>1. f[<<i, j>>] = Half(g, s, h, <<i, j>>)
      BY <2>1, <2>3 DEF BisectsUpto, n
    <3>2. CASE i >= j
      BY <3>1, <3>2 DEF Half
    <3>3. CASE ~ (i >= j)
      <4> DEFINE m == Middle(<<i, j>>)
      <4>1. i < j
        BY <1>1, <3>3
      <4>2. m \in 0 .. n /\ m + 1 \in 0 .. n /\ i <= m /\ m < j
        BY <4>1, MiddleIn DEF n
      <4>3. m <= i + d /\ j <= (m + 1) + d
        BY <1>1, <4>2
      <4>4. f[<<i, m>>] = g[<<i, m>>] /\ f[<<m + 1, j>>] = g[<<m + 1, j>>]
        BY <2>3, <4>2, <4>3
      <4> HIDE DEF m
      <4> QED
        BY <3>1, <3>3, <4>4 DEF Half, m
    <3> QED
      BY <3>2, <3>3
  <2>7. d + 1 \in 0 .. n
    BY <1>1, <1>3
  <2> QED
    BY <2>5, <2>6, <2>7
<1>4. PICK g \in [Interval(s) -> 0 .. n] : BisectsUpto(g, s, h, n)
  <2>1. \A d \in 0 .. n : d < n /\ d \in S => d + 1 \in S
    BY <1>3
  <2> HIDE DEF S
  <2>2. \A d \in 0 .. n : d \in S
    BY <1>1, <1>2, <2>1, UpTo
  <2>3. n \in S
    BY <1>1, <2>2
  <2> QED
    BY <2>3 DEF S
<1>5. ASSUME NEW ij \in Interval(s) PROVE g[ij] = Half(g, s, h, ij)
  <2>1. ij[1] \in 0 .. n /\ ij[2] \in 0 .. n /\ ij = <<ij[1], ij[2]>>
    BY DEF Interval, n
  <2>2. ij[2] <= ij[1] + n
    BY <1>1, <2>1
  <2> QED
    BY <1>4, <2>1, <2>2 DEF BisectsUpto, n
<1>6. Bisects(g, s, h)
  BY <1>5 DEF Bisects
<1> QED
  BY <1>6

LEMMA SearchIs ==
  ASSUME NEW s \in Seq(Position), NEW h
  PROVE  \E g : Bisects(g, s, h) /\ Search(s, h) = g[<<0, Len(s)>>]
<1>1. \E g : Bisects(g, s, h)
  BY BisectExists
<1> QED
  BY <1>1 DEF Search, Bisects, Half, Interval, Middle

(* Whatever the list, the search ends within it; if the list is in order,   *)
(* it ends between the hashes below h and the others.                       *)
LEMMA SearchOK ==
  ASSUME NEW s \in Seq(Position), NEW h \in Position
  PROVE  /\ Search(s, h) \in 0 .. Len(s)
         /\ Ascending(s) => \A k \in DOMAIN s : k <= Search(s, h) <=> s[k] < h
<1> DEFINE n == Len(s)
<1>1. n \in Nat /\ DOMAIN s = 1 .. n /\ \A k \in 1 .. n : s[k] \in Position
  OBVIOUS
<1>2. PICK g : Bisects(g, s, h) /\ Search(s, h) = g[<<0, n>>]
  BY SearchIs
<1>3. \A i, j \in 0 .. n : g[<<i, j>>] = Half(g, s, h, <<i, j>>)
  BY <1>2 DEF Bisects, Interval
<1> DEFINE Good(i, j) ==
             /\ g[<<i, j>>] \in i .. j
             /\ Ascending(s) => /\ \A k \in 1 .. n : i < k /\ k <= g[<<i, j>>] => s[k] < h
                                /\ \A k \in 1 .. n : g[<<i, j>>] < k /\ k <= j => ~ (s[k] < h)
           S == {d \in 0 .. n : \A i, j \in 0 .. n : i <= j /\ j <= i + d => Good(i, j)}
<1> HIDE DEF n
<1>4. ASSUME NEW i \in 0 .. n PROVE Good(i, i)
  <2>1. g[<<i, i>>] = i
    <3>1. i >= i
      BY <1>1
    <3>2. Half(g, s, h, <<i, i>>) = i
      BY <3>1 DEF Half
    <3> QED
      BY <1>3, <3>2
  <2> QED
    BY <1>1, <2>1
<1>5. 0 \in S
  <2>1. \A i, j \in 0 .. n : i <= j /\ j <= i + 0 => i = j
    BY <1>1
  <2> HIDE DEF Good
  <2> QED
    BY <1>1, <1>4, <2>1
<1>6. ASSUME NEW d \in 0 .. n, d < n, d \in S PROVE d + 1 \in S
  <2>1. ASSUME NEW i \in 0 .. n, NEW j \in 0 .. n, i < j, j <= i + (d + 1)
        PROVE  Good(i, j)
    <3> DEFINE m == Middle(<<i, j>>)
    <3>1. m \in 0 .. n /\ m + 1 \in 0 .. n /\ i <= m /\ m < j /\ m + 1 \in 1 .. n
      BY <2>1, MiddleIn DEF n
    <3>2. m <= i + d /\ j <= (m + 1) + d /\ m + 1 <= j
      BY <1>1, <2>1, <3>1
    <3>3. Good(i, m) /\ Good(m + 1, j)
      <4> HIDE DEF Good, m
      <4> QED
        BY <1>6, <3>1, <3>2
    <3>4. g[<<i, j>>] = IF s[m + 1] >= h THEN g[<<i, m>>] ELSE g[<<m + 1, j>>]
      <4>1. ~ (i >= j)
        BY <1>1, <2>1
      <4> HIDE DEF m
      <4> QED
        BY <1>3, <4>1 DEF Half, m
    <3> HIDE DEF m
    <3>5. s[m + 1] \in Position /\ h \in Nat /\ s[m + 1] \in Nat
      BY <1>1, <3>1, RingAssumption DEF Position
    <3>6. CASE s[m + 1] >= h
      <4>1. g[<<i, j>>] = g[<<i, m>>] /\ g[<<i, m>>] \in i .. m
        BY <3>3, <3>4, <3>6
      <4>2. ASSUME Ascending(s), NEW k \in 1 .. n, m < k PROVE ~ (s[k] < h)
        <5>1. m + 1 <= k
          BY <1>1, <3>1, <4>2
        <5>2. s[m + 1] <= s[k] /\ s[k] \in Nat
          BY <1>1, <3>1, <4>2, <5>1, RingAssumption DEF Ascending, Position
        <5> QED
          BY <3>5, <3>6, <5>2
      <4> DEFINE r == g[<<i, m>>]
      <4>3. \A k \in 1 .. n : k <= m \/ m < k
        BY <1>1, <3>1
      <4>4. r \in i .. j
        BY <1>1, <3>1, <4>1
      <4>5. ASSUME Ascending(s), NEW k \in 1 .. n, r < k PROVE ~ (s[k] < h)
        BY <3>3, <4>2, <4>3, <4>5
      <4>6. Ascending(s) => \A k \in 1 .. n : i < k /\ k <= r => s[k] < h
        BY <3>3
      <4> HIDE DEF r
      <4> QED
        BY <4>1, <4>4, <4>5, <4>6 DEF r
    <3>7. CASE ~ (s[m + 1] >= h)
      <4>1. g[<<i, j>>] = g[<<m + 1, j>>] /\ g[<<m + 1, j>>] \in m + 1 .. j
        BY <3>3, <3>4, <3>7
      <4>2. ASSUME Ascending(s), NEW k \in 1 .. n, k <= m + 1 PROVE s[k] < h
        <5>1. s[k] <= s[m + 1] /\ s[k] \in Nat
          BY <1>1, <3>1, <4>2, RingAssumption DEF Ascending, Position
        <5> QED
          BY <3>5, <3>7, <5>1
      <4> DEFINE r == g[<<m + 1, j>>]
      <4>3. \A k \in 1 .. n : k <= m + 1 \/ m + 1 < k
        BY <1>1, <3>1
      <4>4. r \in i .. j
        BY <1>1, <3>1, <4>1
      <4>5. ASSUME Ascending(s), NEW k \in 1 .. n, k <= r PROVE s[k] < h
        BY <3>3, <4>2, <4>3, <4>5
      <4>6. Ascending(s) => \A k \in 1 .. n : r < k /\ k <= j => ~ (s[k] < h)
        BY <3>3
      <4> HIDE DEF r
      <4> QED
        BY <4>1, <4>4, <4>5, <4>6 DEF r
    <3> QED
      BY <3>6, <3>7
  <2>2. \A i, j \in 0 .. n : i <= j => i = j \/ i < j
    BY <1>1
  <2>3. d + 1 \in 0 .. n
    BY <1>1, <1>6
  <2> HIDE DEF Good
  <2> QED
    BY <1>4, <2>1, <2>2, <2>3
<1>7. Good(0, n)
  <2>1. \A d \in 0 .. n : d < n /\ d \in S => d + 1 \in S
    BY <1>6
  <2> HIDE DEF S, Good
  <2>2. \A d \in 0 .. n : d \in S
    BY <1>1, <1>5, <2>1, UpTo
  <2>3. n \in S
    BY <1>1, <2>2
  <2>4. 0 \in 0 .. n /\ n \in 0 .. n /\ 0 <= n /\ n <= 0 + n
    BY <1>1
  <2> QED
    BY <2>3, <2>4 DEF S
<1>8. Search(s, h) \in 0 .. n
  BY <1>2, <1>7
<1>9. Ascending(s) => \A k \in 1 .. n : k <= Search(s, h) <=> s[k] < h
  BY <1>1, <1>2, <1>7
<1> QED
  BY <1>1, <1>8, <1>9 DEF n

-----------------------------------------------------------------------------
(* Counting *)

Count(s, p) == Cardinality(Occurs(s, p))

LEMMA OccursFinite ==
  ASSUME NEW s \in Seq(Position), NEW p
  PROVE  IsFiniteSet(Occurs(s, p)) /\ Count(s, p) \in Nat
<1>1. DOMAIN s = 1 .. Len(s) /\ Len(s) \in Nat
  OBVIOUS
<1>2. IsFiniteSet(DOMAIN s) /\ Occurs(s, p) \in SUBSET DOMAIN s
  BY <1>1, CardinalityUpTo DEF Occurs
<1> QED
  BY <1>2, FS_Subset, FS_CardinalityType DEF Count

LEMMA DisjointUnion ==
  ASSUME NEW S, IsFiniteSet(S), NEW T, IsFiniteSet(T), \A x \in S : x \notin T
  PROVE  /\ IsFiniteSet(S \cup T)
         /\ Cardinality(S \cup T) = Cardinality(S) + Cardinality(T)
<1>1. S \cap T = {}
  OBVIOUS
<1>2. Cardinality(S) \in Nat /\ Cardinality(T) \in Nat
  BY FS_CardinalityType
<1>3. Cardinality(S \cup T) = Cardinality(S) + Cardinality(T) - Cardinality(S \cap T)
  BY FS_Union
<1> QED
  BY <1>1, <1>2, <1>3, FS_Union, FS_EmptySet

(* A sorted list has each hash as often as the list that was sorted. *)
LEMMA SortedCount ==
  ASSUME NEW s \in Seq(Position), NEW p \in Position
  PROVE  Count(Sorted(s), p) = Count(s, p)
<1> DEFINE t == Sorted(s)
           b == Cardinality(Below(s, p))
           c == Cardinality(NotAbove(s, p))
<1>1. DOMAIN s = 1 .. Len(s) /\ Len(s) \in Nat /\ \A j \in DOMAIN s : s[j] \in Position
  OBVIOUS
<1>2. DOMAIN t = 1 .. Len(s) /\ \A i \in DOMAIN t : IsRanked(s, i, t[i])
  BY <1>1, SortedIsRanked
<1>3. Range(t) = Range(s)
  BY SortedOK
<1> HIDE DEF t
<1>4. b \in Nat /\ c \in Nat /\ c <= Len(s) /\ (p \in Range(s) => b < c)
  BY Ranks
<1>5. CASE p \notin Range(s)
  <2>1. Occurs(s, p) = {} /\ Occurs(t, p) = {}
    BY <1>3, <1>5 DEF Occurs, Range
  <2> QED
    BY <2>1 DEF Count, t
<1>6. CASE p \in Range(s)
  <2>1. Occurs(t, p) = b + 1 .. c
    <3>1. ASSUME NEW i \in Occurs(t, p) PROVE i \in b + 1 .. c
      BY <1>1, <1>2, <1>4, <3>1 DEF Occurs, IsRanked
    <3>2. ASSUME NEW i \in b + 1 .. c PROVE i \in Occurs(t, p)
      <4>1. i \in DOMAIN t /\ i \in Nat /\ b < i /\ i <= c
        BY <1>2, <1>4
      <4> DEFINE y == t[i]
      <4>2. y \in Range(s) /\ Cardinality(Below(s, y)) < i /\ i <= Cardinality(NotAbove(s, y))
        BY <1>2, <4>1 DEF IsRanked
      <4> HIDE DEF y
      <4>3. y \in Position
        BY <1>1, <4>2 DEF Range
      <4>4. /\ Cardinality(Below(s, y)) \in Nat /\ Cardinality(NotAbove(s, y)) \in Nat
            /\ y < p => Cardinality(NotAbove(s, y)) <= b
            /\ p < y => c <= Cardinality(Below(s, y))
        BY <4>3, Ranks
      <4>5. ~ (y < p) /\ ~ (p < y)
        BY <1>4, <4>1, <4>2, <4>4
      <4>6. y = p
        BY <4>3, <4>5, RingAssumption DEF Position
      <4> QED
        BY <4>1, <4>6 DEF Occurs, y
    <3> QED
      BY <3>1, <3>2
  <2>2. Count(t, p) = c - b
    <3> DEFINE d == b + 1
    <3>1. b \in Nat /\ d = b + 1 /\ d \in Int /\ c \in Int /\ b < c
      BY <1>4, <1>6
    <3>2. Occurs(t, p) = d .. c
      BY <2>1
    <3> HIDE DEF b, c, d
    <3>3. Cardinality(d .. c) = IF d > c THEN 0 ELSE c - d + 1
      BY <3>1, FS_Interval
    <3> QED
      BY <3>1, <3>2, <3>3 DEF Count
  <2>3. c = b + Count(s, p)
    <3>1. NotAbove(s, p) = Below(s, p) \cup Occurs(s, p)
      BY <1>1, RingAssumption DEF NotAbove, Below, Occurs, Position
    <3>2. \A i \in Below(s, p) : i \notin Occurs(s, p)
      BY <1>1, RingAssumption DEF Below, Occurs, Position
    <3>3. IsFiniteSet(Below(s, p))
      <4>1. IsFiniteSet(DOMAIN s) /\ Below(s, p) \in SUBSET DOMAIN s
        BY <1>1, CardinalityUpTo DEF Below
      <4> QED
        BY <4>1, FS_Subset
    <3> QED
      BY <3>1, <3>2, <3>3, OccursFinite, DisjointUnion DEF Count
  <2>4. Count(s, p) \in Nat
    BY OccursFinite
  <2> QED
    BY <1>4, <2>2, <2>3, <2>4 DEF t
<1> QED
  BY <1>5, <1>6

LEMMA AppendCount ==
  ASSUME NEW s \in Seq(Position), NEW x \in Position, NEW p
  PROVE  Count(Append(s, x), p) = Count(s, p) + IF x = p THEN 1 ELSE 0
<1> DEFINE t == Append(s, x)
           n == Len(s) + 1
<1>1. /\ Len(s) \in Nat /\ DOMAIN s = 1 .. Len(s) /\ DOMAIN t = 1 .. n
      /\ t[n] = x /\ \A i \in 1 .. Len(s) : t[i] = s[i]
  OBVIOUS
<1> HIDE DEF t
<1>2. IsFiniteSet(Occurs(s, p)) /\ Count(s, p) \in Nat /\ n \notin Occurs(s, p)
  BY <1>1, OccursFinite DEF Occurs
<1>3. \A i \in DOMAIN t : i \in DOMAIN s \/ i = n
  BY <1>1
<1>4. \A i \in DOMAIN s : i \in DOMAIN t /\ t[i] = s[i]
  BY <1>1
<1>5. n \in DOMAIN t
  BY <1>1
<1>6. Occurs(t, p) = IF x = p THEN Occurs(s, p) \cup {n} ELSE Occurs(s, p)
  <2> HIDE DEF n
  <2> QED
    BY <1>1, <1>3, <1>4, <1>5 DEF Occurs
<1>7. CASE x = p
  <2> HIDE DEF n
  <2>1. Occurs(t, p) = Occurs(s, p) \cup {n}
    BY <1>6, <1>7
  <2>2. Cardinality(Occurs(s, p) \cup {n}) = Cardinality(Occurs(s, p)) + 1
    BY <1>2, FS_AddElement
  <2> QED
    BY <1>7, <2>1, <2>2 DEF Count, t
<1>8. CASE x # p
  BY <1>2, <1>6, <1>8 DEF Count, t
<1> QED
  BY <1>7, <1>8

LEMMA ConcatCount ==
  ASSUME NEW s \in Seq(Position), NEW t \in Seq(Position), NEW p
  PROVE  Count(s \o t, p) = Count(s, p) + Count(t, p)
<1> DEFINE u == s \o t
           n == Len(s)
           later == {n + i : i \in Occurs(t, p)}
<1>1. /\ n \in Nat /\ DOMAIN s = 1 .. n /\ Len(t) \in Nat /\ DOMAIN t = 1 .. Len(t)
      /\ DOMAIN u = 1 .. n + Len(t)
      /\ \A i \in DOMAIN u : u[i] = IF i <= n THEN s[i] ELSE t[i - n]
  OBVIOUS
<1> HIDE DEF u, n
<1>2. IsFiniteSet(later) /\ Cardinality(later) = Count(t, p)
  <2> DEFINE f == [i \in Occurs(t, p) |-> n + i]
  <2>1. Occurs(t, p) \in SUBSET Nat
    BY <1>1 DEF Occurs
  <2>2. f \in Bijection(Occurs(t, p), later)
    <3>1. f \in [Occurs(t, p) -> later] /\ \A y \in later : \E i \in Occurs(t, p) : f[i] = y
      OBVIOUS
    <3>2. \A i, j \in Occurs(t, p) : f[i] = f[j] => i = j
      BY <1>1, <2>1
    <3> QED
      BY <3>1, <3>2 DEF Bijection, Injection, Surjection, IsInjective
  <2>3. ExistsBijection(Occurs(t, p), later)
    BY <2>2 DEF ExistsBijection
  <2> QED
    BY <2>3, OccursFinite, FS_Bijection DEF Count
<1>3. Occurs(u, p) = Occurs(s, p) \cup later
  <2>1. ASSUME NEW i \in Occurs(u, p) PROVE i \in Occurs(s, p) \cup later
    <3>1. i \in DOMAIN u /\ u[i] = p
      BY DEF Occurs
    <3>2. CASE i <= n
      BY <1>1, <3>1, <3>2 DEF Occurs
    <3>3. CASE ~ (i <= n)
      <4>1. i - n \in DOMAIN t /\ t[i - n] = p /\ i = n + (i - n)
        BY <1>1, <3>1, <3>3
      <4> QED
        BY <4>1 DEF Occurs
    <3> QED
      BY <3>2, <3>3
  <2>2. Occurs(s, p) \in SUBSET Occurs(u, p)
    BY <1>1 DEF Occurs
  <2>3. ASSUME NEW i \in Occurs(t, p) PROVE n + i \in Occurs(u, p)
    <3>1. i \in 1 .. Len(t) /\ t[i] = p
      BY <1>1 DEF Occurs
    <3>2. n + i \in DOMAIN u /\ ~ (n + i <= n) /\ (n + i) - n = i
      BY <1>1, <3>1
    <3> QED
      BY <1>1, <3>1, <3>2 DEF Occurs
  <2> QED
    BY <2>1, <2>2, <2>3
<1>4. \A i \in Occurs(s, p) : i \notin later
  BY <1>1 DEF Occurs
<1> HIDE DEF later
<1> QED
  BY <1>2, <1>3, <1>4, OccursFinite, DisjointUnion DEF Count, u

(* Without loses h and none of the other hashes. *)
LEMMA WithoutCount ==
  ASSUME NEW s \in Seq(Position), NEW h \in Position, NEW p
  PROVE  Count(Without(s, h), p) = IF p = h THEN 0 ELSE Count(s, p)
<1> DEFINE n == Len(s)
           First(i) == {k \in 1 .. i : s[k] = p}
<1>1. n \in Nat /\ DOMAIN s = 1 .. n /\ \A i \in 1 .. n : s[i] \in Position
  OBVIOUS
<1>2. PICK g : Keeps(g, s, h) /\ Without(s, h) = g[n]
  BY WithoutIs
<1>3. \A i \in 0 .. n :
        g[i] = IF i = 0 THEN <<>>
               ELSE IF s[i] = h THEN g[i - 1] ELSE Append(g[i - 1], s[i])
  BY <1>2 DEF Keeps
<1> DEFINE Good(i) == /\ g[i] \in Seq(Position)
                      /\ IsFiniteSet(First(i))
                      /\ Count(g[i], p) = IF p = h THEN 0 ELSE Cardinality(First(i))
           S == {i \in 0 .. n : Good(i)}
<1>4. 0 \in S
  <2>1. g[0] = <<>> /\ 0 \in 0 .. n
    BY <1>1, <1>3
  <2>2. Occurs(<<>>, p) = {} /\ First(0) = {}
    BY DEF Occurs
  <2>3. <<>> \in Seq(Position) /\ IsFiniteSet({}) /\ Cardinality({}) = 0
    BY FS_EmptySet
  <2> HIDE DEF First
  <2>4. Count(<<>>, p) = 0
    BY <2>2, <2>3, Zenon DEF Count
  <2> QED
    BY <2>1, <2>2, <2>3, <2>4
<1>5. ASSUME NEW i \in 0 .. n, i < n, i \in S PROVE i + 1 \in S
  <2>1. i + 1 \in 1 .. n /\ i + 1 \in 0 .. n /\ i + 1 # 0 /\ (i + 1) - 1 = i
    BY <1>1, <1>5
  <2>2. g[i + 1] = IF s[i + 1] = h THEN g[i] ELSE Append(g[i], s[i + 1])
    BY <1>3, <2>1
  <2>3. First(i + 1) = IF s[i + 1] = p THEN First(i) \cup {i + 1} ELSE First(i)
    <3>1. \A k : k \in 1 .. i + 1 <=> k \in 1 .. i \/ k = i + 1
      BY <1>5
    <3> QED
      BY <3>1
  <2>4. i + 1 \notin First(i)
    BY <1>5
  <2>5. Good(i) /\ s[i + 1] \in Position
    BY <1>1, <1>5, <2>1
  <2> DEFINE j == i + 1
  <2> HIDE DEF First, j
  <2>6. IsFiniteSet(First(i)) /\ Cardinality(First(i)) \in Nat
    BY <2>5, FS_CardinalityType
  <2>7. /\ IsFiniteSet(First(i) \cup {j})
        /\ Cardinality(First(i) \cup {j}) = Cardinality(First(i)) + 1
    BY <2>4, <2>6, FS_AddElement DEF j
  <2>8. g[j] \in Seq(Position) /\ IsFiniteSet(First(j))
    BY <2>2, <2>3, <2>5, <2>7 DEF j
  <2>9. Count(g[j], p) = IF p = h THEN 0 ELSE Cardinality(First(j))
    <3>1. s[j] = h => Count(g[j], p) = Count(g[i], p) /\ (p # h => First(j) = First(i))
      BY <2>2, <2>3 DEF j
    <3>2. s[j] # h => Count(g[j], p) = Count(g[i], p) + IF s[j] = p THEN 1 ELSE 0
      BY <2>2, <2>5, AppendCount DEF j
    <3>3. Cardinality(First(j)) = Cardinality(First(i)) + IF s[j] = p THEN 1 ELSE 0
      BY <2>3, <2>6, <2>7 DEF j
    <3> QED
      BY <2>5, <2>6, <3>1, <3>2, <3>3
  <2> QED
    BY <2>1, <2>8, <2>9 DEF j
<1>6. Good(n)
  <2>1. \A i \in 0 .. n : i < n /\ i \in S => i + 1 \in S
    BY <1>5
  <2> HIDE DEF S, n
  <2>2. \A i \in 0 .. n : i \in S
    BY <1>1, <1>4, <2>1, UpTo
  <2>3. n \in S
    BY <1>1, <2>2
  <2> QED
    BY <2>3 DEF S
<1>7. First(n) = Occurs(s, p)
  BY <1>1 DEF Occurs
<1> QED
  BY <1>2, <1>6, <1>7 DEF Count

(* Disjoint sets, one for each list, each with as many elements as its list *)
(* has copies of p.                                                         *)
CountedBy(part, seqs, n, p) ==
  \A i \in 1 .. n : /\ IsFiniteSet(part[i])
                    /\ Count(seqs[i], p) = Cardinality(part[i])
                    /\ \A j \in 1 .. n, x \in part[i] : i # j => x \notin part[j]

(* A list of lists has a hash as often as the lists have it together. *)
LEMMA FlattenCount ==
  ASSUME NEW n \in Nat, NEW seqs \in [1 .. n -> Seq(Position)], NEW p, NEW part,
         CountedBy(part, seqs, n, p)
  PROVE  Count(Seqs!FlattenSeq(seqs), p) = Cardinality(UNION {part[i] : i \in 1 .. n})
<1> USE DEF CountedBy
<1>1. CASE n = 0
  <2>1. seqs = <<>>
    BY <1>1
  <2>2. Seqs!FlattenSeq(<<>>) = <<>>
    BY DEF Seqs!FlattenSeq
  <2>3. Occurs(<<>>, p) = {}
    BY DEF Occurs
  <2>4. UNION {part[i] : i \in 1 .. n} = {}
    BY <1>1
  <2>5. Count(Seqs!FlattenSeq(seqs), p) = Cardinality({})
    BY <2>1, <2>2, <2>3, Zenon DEF Count
  <2> QED
    BY <2>4, <2>5, Zenon
<1>2. CASE n # 0
  <2>1. PICK g : Flattens(g, seqs) /\ Seqs!FlattenSeq(seqs) = g[n]
    BY <1>2, FlattenIs
  <2>2. \A i \in 1 .. n : g[i] = IF i = 1 THEN seqs[i] ELSE g[i - 1] \o seqs[i]
    <3>1. Len(seqs) = n
      OBVIOUS
    <3> QED
      BY <2>1, <3>1 DEF Flattens
  <2> DEFINE First(i) == UNION {part[k] : k \in 1 .. i}
             Good(i) == /\ g[i] \in Seq(Position)
                        /\ IsFiniteSet(First(i))
                        /\ Count(g[i], p) = Cardinality(First(i))
             S == {i \in 0 .. n : i = 0 \/ Good(i)}
  <2>3. ASSUME NEW i \in 0 .. n, i < n, i \in S PROVE i + 1 \in S
    <3>1. i + 1 \in 1 .. n /\ i + 1 \in 0 .. n /\ (i + 1) - 1 = i /\ (i + 1 = 1 <=> i = 0)
      BY <2>3
    <3>2. g[i + 1] = IF i = 0 THEN seqs[i + 1] ELSE g[i] \o seqs[i + 1]
      BY <2>2, <3>1
    <3>3. First(i + 1) = First(i) \cup part[i + 1]
      <4>1. \A k : k \in 1 .. i + 1 <=> k \in 1 .. i \/ k = i + 1
        BY <2>3
      <4> QED
        BY <4>1
    <3>4. i = 0 => First(i) = {}
      OBVIOUS
    <3>5. \A x \in First(i) : x \notin part[i + 1]
      <4> SUFFICES ASSUME NEW k \in 1 .. i, NEW x \in part[k] PROVE x \notin part[i + 1]
        OBVIOUS
      <4>1. k \in 1 .. n /\ k # i + 1
        BY <2>3
      <4> QED
        BY <3>1, <4>1
    <3> DEFINE j == i + 1
               T == part[j]
    <3>6. /\ seqs[j] \in Seq(Position) /\ IsFiniteSet(T)
          /\ Count(seqs[j], p) = Cardinality(T)
      BY <3>1
    <3>7. \A x \in First(i) : x \notin T
      BY <3>5
    <3> HIDE DEF First, T
    <3>8. Good(j)
      <4>1. CASE i = 0
        <5>1. First(j) = T
          BY <3>3, <3>4, <4>1 DEF T
        <5> QED
          BY <3>2, <3>6, <4>1, <5>1
      <4>2. CASE i # 0
        <5>1. Good(i)
          BY <2>3, <4>2
        <5>2. /\ IsFiniteSet(First(i) \cup T)
              /\ Cardinality(First(i) \cup T) = Cardinality(First(i)) + Cardinality(T)
          BY <3>6, <3>7, <5>1, DisjointUnion
        <5>3. g[j] = g[i] \o seqs[j] /\ First(j) = First(i) \cup T
          BY <3>2, <3>3, <4>2 DEF T
        <5>4. Count(g[j], p) = Count(g[i], p) + Count(seqs[j], p)
          BY <3>6, <5>1, <5>3, ConcatCount
        <5> HIDE DEF j
        <5> QED
          BY <3>6, <5>1, <5>2, <5>3, <5>4
      <4> QED
        BY <4>1, <4>2
    <3> QED
      BY <3>1, <3>8
  <2>4. n \in S
    <3>1. 0 \in S
      OBVIOUS
    <3> HIDE DEF S
    <3>2. \A i \in 0 .. n : i \in S
      BY <2>3, <3>1, UpTo
    <3> QED
      BY <3>2
  <2> QED
    BY <1>2, <2>1, <2>4
<1> QED
  BY <1>1, <1>2

=============================================================================

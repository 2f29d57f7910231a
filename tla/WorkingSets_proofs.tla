-------------------------- MODULE WorkingSets_proofs --------------------------
(***************************************************************************)
(* The working sets of qpOASES, for objects of every size.                 *)
(*                                                                         *)
(* What Indexlist and SubjectTo keep: iSort sorts both lists, bisection    *)
(* finds what is in a list and only that, and the lists implement          *)
(* WorkingSet.                                                             *)
(*                                                                         *)
(* What SQProblemSchur keeps: its factorisation with its updates is the    *)
(* one of the working set, and its Schur complement the one of its updates.*)
(***************************************************************************)
EXTENDS SubjectTo, SQProblemSchur, TLAPS, WellFoundedInduction, SequenceTheorems, FiniteSetTheorems

-----------------------------------------------------------------------------
(* Induction over the numbers, stated for a set so that it can be applied  *)
(* to any property of a number.                                            *)

(* A set with 0 and the successor of each of its numbers has them all.     *)
LEMMA NatSetInduction ==
  ASSUME NEW P, 0 \in P, \A m \in Nat : m \in P => m + 1 \in P
  PROVE  \A m \in Nat : m \in P
<1> SUFFICES ASSUME NEW m \in Nat, m \notin P PROVE FALSE
  OBVIOUS
<1> DEFINE T == Nat \ P
<1>1. T \subseteq Nat /\ T # {}
  OBVIOUS
<1>2. PICK x \in T : \A y \in T : <<y, x>> \notin OpToRel(<, Nat)
  <2> HIDE DEF T
  <2> QED BY <1>1, NatLessThanWellFounded, WFMin, Zenon
<1>3. \A y \in T : <<y, x>> \notin {ss \in Nat \X Nat : ss[1] < ss[2]}
  BY <1>2, Zenon DEF OpToRel
<1>4. x \in Nat /\ x \notin P
  BY <1>2, Zenon
<1>5. x # 0 /\ x - 1 \in Nat /\ x - 1 < x
  BY <1>4
<1>6. x - 1 \in P
  <2> SUFFICES ASSUME x - 1 \in T PROVE FALSE
    BY <1>5
  <2>1. <<x - 1, x>> \in {ss \in Nat \X Nat : ss[1] < ss[2]}
    BY <1>4, <1>5
  <2> QED BY <2>1, <1>3
<1>7. (x - 1) + 1 \in P
  BY <1>5, <1>6
<1> QED BY <1>4, <1>7

-----------------------------------------------------------------------------
(* The sorted order of a list.                                             *)

(* A list whose iSort sorts it.                                            *)
IsList(l) ==
  /\ l = [number |-> l.number, iSort |-> l.iSort]
  /\ l.number \in Seq(Nat) /\ l.iSort \in Seq(Nat)
  /\ IsSorted(l)

(* iSort names every position of the list, and only those.                 *)
LEMMA ListPositions ==
  ASSUME NEW l, IsList(l)
  PROVE  /\ Length(l) \in Nat /\ Len(l.iSort) = Length(l)
         /\ \A k \in 1 .. Length(l) : l.iSort[k] \in 1 .. Length(l) /\ Sorted(l, k) \in Nat
         /\ \A p \in 1 .. Length(l) : l.number[p] \in Nat /\ \E k \in 1 .. Length(l) : l.iSort[k] = p
<1>1. Length(l) \in Nat /\ Len(l.iSort) = Length(l)
  BY DEF IsList, IsSorted, Length
<1>2. \A p \in 1 .. Length(l) : l.number[p] \in Nat
  BY DEF IsList, Length
<1>3. {l.iSort[k] : k \in 1 .. Length(l)} = 1 .. Length(l)
  BY DEF IsList, IsSorted
<1>4. \A k \in 1 .. Length(l) : l.iSort[k] \in 1 .. Length(l)
  BY <1>3
<1> QED BY <1>1, <1>2, <1>3, <1>4 DEF Sorted

(* Places further on hold larger indices.                                  *)
LEMMA SortedIncreases ==
  ASSUME NEW l, IsList(l), NEW j \in 1 .. Length(l), NEW k \in 1 .. Length(l), j < k
  PROVE  Sorted(l, j) < Sorted(l, k)
<1> DEFINE P == {m \in Nat : \A a \in 1 .. Length(l) : a + m + 1 \in 1 .. Length(l) => Sorted(l, a) < Sorted(l, a + m + 1)}
<1>1. Length(l) \in Nat /\ \A a \in 1 .. Length(l) : Sorted(l, a) \in Nat
  BY ListPositions
<1>2. \A a \in 1 .. Length(l) - 1 : Sorted(l, a) < Sorted(l, a + 1)
  BY DEF IsList, IsSorted
<1>3. 0 \in P
  BY <1>1, <1>2
<1>4. ASSUME NEW m \in Nat, m \in P PROVE m + 1 \in P
  <2> SUFFICES ASSUME NEW a \in 1 .. Length(l), a + (m + 1) + 1 \in 1 .. Length(l)
               PROVE  Sorted(l, a) < Sorted(l, a + (m + 1) + 1)
    BY <1>4
  <2>1. a + m + 1 \in 1 .. Length(l) - 1 /\ (a + m + 1) + 1 = a + (m + 1) + 1
    BY <1>1
  <2>2. Sorted(l, a) < Sorted(l, a + m + 1)
    BY <2>1, <1>4, <1>1
  <2>3. Sorted(l, a + m + 1) < Sorted(l, a + (m + 1) + 1)
    BY <2>1, <1>2
  <2>4. Sorted(l, a) \in Nat /\ Sorted(l, a + m + 1) \in Nat /\ Sorted(l, a + (m + 1) + 1) \in Nat
    BY <2>1, <1>1
  <2> QED BY <2>2, <2>3, <2>4
<1>5. \A m \in Nat : m \in P
  <2> HIDE DEF P
  <2> QED BY <1>3, <1>4, NatSetInduction
<1>6. k - j - 1 \in Nat /\ j + (k - j - 1) + 1 = k
  BY <1>1
<1> QED BY <1>5, <1>6

(* No index is twice in a list.                                            *)
LEMMA NumbersDiffer ==
  ASSUME NEW l, IsList(l), NEW p \in 1 .. Length(l), NEW q \in 1 .. Length(l), l.number[p] = l.number[q]
  PROVE  p = q
<1>1. PICK j \in 1 .. Length(l) : l.iSort[j] = p
  BY ListPositions
<1>2. PICK k \in 1 .. Length(l) : l.iSort[k] = q
  BY ListPositions
<1>3. Sorted(l, j) = Sorted(l, k) /\ Sorted(l, j) \in Nat /\ Length(l) \in Nat
  BY <1>1, <1>2, ListPositions DEF Sorted
<1>4. ~(j < k) /\ ~(k < j)
  BY <1>3, SortedIncreases
<1> QED BY <1>1, <1>2, <1>3, <1>4

(* The bisection's function satisfies the equation that defines it.        *)
LEMMA BisectRecursion ==
  ASSUME NEW l, IsList(l), NEW i \in Nat, NEW b \in (1 .. Length(l)) \X (1 .. Length(l))
  PROVE  Bisect(l, i)[b] = IF b[1] < b[2] - 1 THEN Bisect(l, i)[Halved(l, i, b)] ELSE b[1]
<1> DEFINE N == Length(l)
           D == (1 .. N) \X (1 .. N)
           Body(f, c) == IF c[1] < c[2] - 1 THEN f[Halved(l, i, c)] ELSE c[1]
           P == {m \in Nat : \E f : \A c \in D : c[2] - c[1] <= m => f[c] = Body(f, c)}
<1>0. N \in Nat
  BY ListPositions
<1>1. \A c \in D : c[1] \in 1 .. N /\ c[2] \in 1 .. N
  OBVIOUS
<1>2. ASSUME NEW c \in D, c[1] < c[2] - 1
      PROVE  /\ Halved(l, i, c) \in D /\ Halved(l, i, c)[2] - Halved(l, i, c)[1] < c[2] - c[1]
  <2> DEFINE mid == (c[1] + c[2]) \div 2
  <2>1. mid \in 1 .. N /\ c[1] < mid /\ mid < c[2]
    BY <1>0, <1>1, <1>2
  <2>2. Halved(l, i, c) = <<mid, c[2]>> \/ Halved(l, i, c) = <<c[1], mid>>
    BY Zenon DEF Halved
  <2> HIDE DEF mid
  <2> QED BY <2>1, <2>2, <1>0, <1>1
<1>3. 0 \in P
  <2> DEFINE f == [c \in D |-> c[1]]
  <2>1. \A c \in D : c[2] - c[1] <= 0 => f[c] = Body(f, c)
    BY <1>0, <1>1
  <2> HIDE DEF f
  <2> QED BY <2>1
<1>4. ASSUME NEW m \in Nat, m \in P PROVE m + 1 \in P
  <2>1. PICK f : \A c \in D : c[2] - c[1] <= m => f[c] = Body(f, c)
    BY <1>4
  <2> DEFINE g == [c \in D |-> Body(f, c)]
  <2> SUFFICES \A c \in D : c[2] - c[1] <= m + 1 => g[c] = Body(g, c)
    <3> HIDE DEF g
    <3> QED OBVIOUS
  <2> SUFFICES ASSUME NEW c \in D, c[2] - c[1] <= m + 1 PROVE g[c] = Body(g, c)
    OBVIOUS
  <2>2. CASE c[1] < c[2] - 1
    <3>1. Halved(l, i, c) \in D /\ Halved(l, i, c)[2] - Halved(l, i, c)[1] <= m
      BY <2>2, <1>2, <1>1, <1>0
    <3>2. f[Halved(l, i, c)] = g[Halved(l, i, c)]
      BY <3>1, <2>1
    <3> QED BY <3>2, <2>2
  <2>3. CASE ~(c[1] < c[2] - 1)
    BY <2>3
  <2> QED BY <2>2, <2>3
<1>5. N \in P
  <2> HIDE DEF P
  <2> QED BY <1>0, <1>3, <1>4, NatSetInduction
<1>6. PICK f : \A c \in D : c[2] - c[1] <= N => f[c] = Body(f, c)
  BY <1>5
<1> DEFINE g == [c \in D |-> f[c]]
<1>7. \A c \in D : f[c] = Body(f, c)
  BY <1>6, <1>0, <1>1
<1>8. g = [c \in D |-> Body(g, c)]
  <2> SUFFICES ASSUME NEW c \in D PROVE f[c] = Body(g, c)
    OBVIOUS
  <2>1. CASE c[1] < c[2] - 1
    BY <2>1, <1>2, <1>7
  <2>2. CASE ~(c[1] < c[2] - 1)
    BY <2>2, <1>7
  <2> QED BY <2>1, <2>2
<1>9. Bisect(l, i) = CHOOSE h : h = [c \in D |-> Body(h, c)]
  BY Zenon DEF Bisect
<1>10. Bisect(l, i) = [c \in D |-> Body(Bisect(l, i), c)]
  <2> HIDE DEF g, D, Body
  <2> QED BY <1>8, <1>9, Zenon
<1> QED
  <2> HIDE DEF Body
  <2>1. Bisect(l, i)[b] = Body(Bisect(l, i), b)
    BY <1>10, Zenon
  <2> QED BY <2>1, Zenon DEF Body

(* Between two places that enclose i, the bisection ends at the last one   *)
(* that does not exceed i.                                                 *)
LEMMA BisectFinds ==
  ASSUME NEW l, IsList(l), NEW i \in Nat, NEW fst \in 1 .. Length(l), NEW lst \in 1 .. Length(l),
         fst < lst, Sorted(l, fst) <= i, i < Sorted(l, lst)
  PROVE  LET p == Bisect(l, i)[<<fst, lst>>]
         IN  p \in 1 .. Length(l) - 1 /\ Sorted(l, p) <= i /\ i < Sorted(l, p + 1)
<1> DEFINE N == Length(l)
           D == (1 .. N) \X (1 .. N)
           Encloses(b) == b[1] < b[2] /\ Sorted(l, b[1]) <= i /\ i < Sorted(l, b[2])
           Right(p) == p \in 1 .. N - 1 /\ Sorted(l, p) <= i /\ i < Sorted(l, p + 1)
           P == {m \in Nat : \A b \in D : b[2] - b[1] <= m /\ Encloses(b) => Right(Bisect(l, i)[b])}
<1>1. N \in Nat /\ \A b \in D : b[1] \in 1 .. N /\ b[2] \in 1 .. N
  BY ListPositions
<1>2. \A k \in 1 .. N : Sorted(l, k) \in Nat
  BY ListPositions
<1>3. 0 \in P
  BY <1>1
<1>4. ASSUME NEW m \in Nat, m \in P PROVE m + 1 \in P
  <2> SUFFICES ASSUME NEW b \in D, b[2] - b[1] <= m + 1, Encloses(b)
               PROVE  Right(Bisect(l, i)[b])
    BY <1>4
  <2>1. CASE b[1] < b[2] - 1
    <3> DEFINE mid == (b[1] + b[2]) \div 2
               c == Halved(l, i, b)
    <3>1. mid \in 1 .. N /\ b[1] < mid /\ mid < b[2]
      BY <1>1, <2>1
    <3>2. c = IF i >= Sorted(l, mid) THEN <<mid, b[2]>> ELSE <<b[1], mid>>
      BY Zenon DEF Halved
    <3>3. c \in D /\ c[2] - c[1] <= m /\ Encloses(c)
      <4> HIDE DEF mid, c
      <4>1. CASE i >= Sorted(l, mid)
        BY <4>1, <3>1, <3>2, <1>1, <1>2
      <4>2. CASE ~(i >= Sorted(l, mid))
        BY <4>2, <3>1, <3>2, <1>1, <1>2
      <4> QED BY <4>1, <4>2
    <3>4. Right(Bisect(l, i)[c])
      <4> HIDE DEF c, Right, Encloses
      <4> QED BY <3>3, <1>4
    <3>5. Bisect(l, i)[b] = Bisect(l, i)[c]
      BY <2>1, BisectRecursion
    <3> QED BY <3>4, <3>5
  <2>2. CASE ~(b[1] < b[2] - 1)
    <3>1. Bisect(l, i)[b] = b[1]
      BY <2>2, BisectRecursion
    <3>2. b[2] = b[1] + 1
      BY <2>2, <1>1
    <3> QED BY <3>1, <3>2, <1>1
  <2> QED BY <2>1, <2>2
<1>5. \A m \in Nat : m \in P
  <2> HIDE DEF P
  <2> QED BY <1>3, <1>4, NatSetInduction
<1>6. lst - fst \in Nat /\ <<fst, lst>> \in D /\ <<fst, lst>>[2] - <<fst, lst>>[1] <= lst - fst /\ Encloses(<<fst, lst>>)
  BY <1>1
<1>7. Right(Bisect(l, i)[<<fst, lst>>])
  <2> HIDE DEF Right, Encloses
  <2> QED BY <1>5, <1>6
<1> QED BY <1>7

(* findInsert(): the entries up to the place found do not exceed i, and    *)
(* the next one does.                                                      *)
LEMMA FindInsertFinds ==
  ASSUME NEW l, IsList(l), NEW i \in Nat
  PROVE  /\ FindInsert(l, i) \in 0 .. Length(l)
         /\ FindInsert(l, i) > 0 => Sorted(l, FindInsert(l, i)) <= i
         /\ FindInsert(l, i) < Length(l) => i < Sorted(l, FindInsert(l, i) + 1)
<1> DEFINE n == Length(l)
           f == FindInsert(l, i)
<1>0. n \in Nat /\ \A k \in 1 .. n : Sorted(l, k) \in Nat
  BY ListPositions
<1>1. f = IF n = 0 THEN 0 ELSE IF i < Sorted(l, 1) THEN 0 ELSE IF i >= Sorted(l, n) THEN n ELSE Bisect(l, i)[<<1, n>>]
  BY Zenon DEF FindInsert
<1>2. CASE n = 0
  BY <1>1, <1>2
<1>3. CASE n # 0 /\ i < Sorted(l, 1)
  BY <1>0, <1>1, <1>3
<1>4. CASE n # 0 /\ ~(i < Sorted(l, 1)) /\ i >= Sorted(l, n)
  BY <1>0, <1>1, <1>4
<1>5. CASE n # 0 /\ ~(i < Sorted(l, 1)) /\ ~(i >= Sorted(l, n))
  <2>1. f = Bisect(l, i)[<<1, n>>]
    BY <1>1, <1>5
  <2>2. 1 \in 1 .. n /\ n \in 1 .. n /\ Sorted(l, 1) <= i /\ i < Sorted(l, n)
    BY <1>0, <1>5
  <2>3. 1 < n
    BY <1>0, <2>2
  <2>4. f \in 1 .. n - 1 /\ Sorted(l, f) <= i /\ i < Sorted(l, f + 1)
    BY <2>1, <2>2, <2>3, BisectFinds
  <2> QED BY <2>4, <1>0
<1> QED BY <1>2, <1>3, <1>4, <1>5

(* getIndex() finds exactly the indices that are in the list.              *)
THEOREM HoldsNumbers ==
  ASSUME NEW l, IsList(l), NEW i \in Nat
  PROVE  /\ Holds(l, i) <=> i \in Numbers(l)
         /\ i \in Numbers(l) => /\ FindInsert(l, i) \in 1 .. Length(l)
                                /\ GetIndex(l, i) = l.iSort[FindInsert(l, i)]
                                /\ l.iSort[FindInsert(l, i)] \in 1 .. Length(l)
                                /\ Sorted(l, FindInsert(l, i)) = i
<1> DEFINE f == FindInsert(l, i)
<1>1. Length(l) \in Nat /\ \A k \in 1 .. Length(l) : l.iSort[k] \in 1 .. Length(l) /\ Sorted(l, k) \in Nat
  BY ListPositions
<1>2. f \in 0 .. Length(l) /\ (f > 0 => Sorted(l, f) <= i) /\ (f < Length(l) => i < Sorted(l, f + 1))
  BY FindInsertFinds
<1> HIDE DEF f
<1>3. ASSUME i \in Numbers(l) PROVE f \in 1 .. Length(l) /\ Sorted(l, f) = i
  <2>1. PICK p \in 1 .. Length(l) : l.number[p] = i
    BY <1>3 DEF Numbers
  <2>2. PICK k \in 1 .. Length(l) : l.iSort[k] = p
    BY ListPositions
  <2>3. Sorted(l, k) = i
    BY <2>1, <2>2 DEF Sorted
  <2>4. ~(f < k)
    <3> SUFFICES ASSUME f < k PROVE FALSE
      OBVIOUS
    <3>1. f + 1 \in 1 .. Length(l) /\ i < Sorted(l, f + 1) /\ f + 1 <= k
      BY <1>1, <1>2
    <3>2. f + 1 < k => Sorted(l, f + 1) < Sorted(l, k)
      BY <3>1, SortedIncreases
    <3>3. f + 1 = k => Sorted(l, f + 1) = Sorted(l, k)
      OBVIOUS
    <3> QED BY <1>1, <2>3, <3>1, <3>2, <3>3
  <2>5. f \in 1 .. Length(l) /\ Sorted(l, f) <= i
    BY <1>1, <1>2, <2>4
  <2>6. ~(k < f)
    BY <1>1, <2>3, <2>5, SortedIncreases
  <2> QED BY <1>1, <2>3, <2>4, <2>5, <2>6
<1>4. ASSUME f # 0, Sorted(l, f) = i PROVE i \in Numbers(l)
  <2>1. f \in 1 .. Length(l)
    BY <1>1, <1>2, <1>4
  <2> QED BY <1>1, <1>4, <2>1 DEF Sorted, Numbers
<1>5. Holds(l, i) <=> f # 0 /\ Sorted(l, f) = i
  BY DEF Holds, f
<1>6. Holds(l, i) => GetIndex(l, i) = l.iSort[f]
  BY DEF GetIndex, f
<1> QED BY <1>1, <1>3, <1>4, <1>5, <1>6 DEF f

-----------------------------------------------------------------------------
(* Insertion into and deletion from a sequence.                            *)

LEMMA InsertAtEntries ==
  ASSUME NEW t \in Seq(Nat), NEW p \in 0 .. Len(t), NEW x \in Nat
  PROVE  /\ InsertAt(t, p, x) \in Seq(Nat) /\ Len(InsertAt(t, p, x)) = Len(t) + 1
         /\ \A k \in 1 .. p : InsertAt(t, p, x)[k] = t[k]
         /\ InsertAt(t, p, x)[p + 1] = x
         /\ \A k \in p + 2 .. Len(t) + 1 : InsertAt(t, p, x)[k] = t[k - 1]
<1> DEFINE a == SubSeq(t, 1, p)
           b == SubSeq(t, p + 1, Len(t))
           u == a \o <<x>>
<1>1. a \in Seq(Nat) /\ Len(a) = p /\ \A k \in 1 .. p : a[k] = t[k]
  BY SubSeqProperties
<1>2. b \in Seq(Nat) /\ Len(b) = Len(t) - p /\ \A k \in 1 .. Len(t) - p : b[k] = t[p + k]
  BY SubSeqProperties
<1> HIDE DEF a, b
<1>3. u \in Seq(Nat) /\ Len(u) = p + 1 /\ (\A k \in 1 .. p : u[k] = t[k]) /\ u[p + 1] = x
  <2>1. <<x>> \in Seq(Nat) /\ Len(<<x>>) = 1 /\ <<x>>[1] = x
    OBVIOUS
  <2> DEFINE e == <<x>>
  <2> HIDE DEF e
  <2>2. e \in Seq(Nat) /\ Len(e) = 1 /\ e[1] = x
    BY <2>1 DEF e
  <2>3. /\ a \o e \in Seq(Nat) /\ Len(a \o e) = Len(a) + Len(e)
        /\ \A k \in 1 .. Len(a) + Len(e) : (a \o e)[k] = IF k <= Len(a) THEN a[k] ELSE e[k - Len(a)]
    BY <1>1, <2>2, ConcatProperties
  <2>4. /\ Len(a \o e) = p + 1
        /\ \A k \in 1 .. p + 1 : (a \o e)[k] = IF k <= p THEN a[k] ELSE e[k - p]
    <3> HIDE DEF u
    <3> QED BY <1>1, <2>2, <2>3
  <2>5. u = a \o e
    BY DEF e
  <2> HIDE DEF u
  <2> QED BY <1>1, <2>2, <2>3, <2>4, <2>5
<1> HIDE DEF u
<1>4. /\ u \o b \in Seq(Nat) /\ Len(u \o b) = Len(u) + Len(b)
      /\ \A k \in 1 .. Len(u) + Len(b) : (u \o b)[k] = IF k <= Len(u) THEN u[k] ELSE b[k - Len(u)]
  BY <1>2, <1>3, ConcatProperties
<1> DEFINE w == u \o b
           n == Len(t)
<1>5. n \in Nat /\ p \in Nat /\ p <= n
  BY LenProperties
<1>6. /\ w \in Seq(Nat) /\ Len(w) = n + 1
      /\ \A k \in 1 .. n + 1 : w[k] = IF k <= p + 1 THEN u[k] ELSE b[k - (p + 1)]
  <2> HIDE DEF w, n
  <2>1. Len(u) = p + 1 /\ Len(b) = n - p /\ Len(u) + Len(b) = n + 1
    BY <1>2, <1>3, <1>5 DEF n
  <2> QED BY <1>4, <2>1 DEF w
<1>7. InsertAt(t, p, x) = w
  BY DEF InsertAt, u, a, b
<1> HIDE DEF w, n
<1>8. \A k \in 1 .. p : w[k] = t[k]
  <2> TAKE k \in 1 .. p
  <2>1. k \in 1 .. n + 1 /\ k <= p + 1
    BY <1>5
  <2> QED BY <1>3, <1>6, <2>1
<1>9. w[p + 1] = x
  <2>1. p + 1 \in 1 .. n + 1 /\ p + 1 <= p + 1
    BY <1>5
  <2> QED BY <1>3, <1>6, <2>1
<1>10. \A k \in p + 2 .. n + 1 : w[k] = t[k - 1]
  <2> TAKE k \in p + 2 .. n + 1
  <2>1. k \in 1 .. n + 1 /\ ~(k <= p + 1) /\ k - (p + 1) \in 1 .. n - p /\ p + (k - (p + 1)) = k - 1
    BY <1>5
  <2>2. b[k - (p + 1)] = t[p + (k - (p + 1))]
    BY <1>2, <2>1 DEF n
  <2>3. w[k] = b[k - (p + 1)]
    BY <1>6, <2>1
  <2> QED BY <2>1, <2>2, <2>3
<1> QED BY <1>6, <1>7, <1>8, <1>9, <1>10 DEF n

LEMMA DeleteAtEntries ==
  ASSUME NEW S, NEW t \in Seq(S), NEW p \in 1 .. Len(t)
  PROVE  /\ DeleteAt(t, p) \in Seq(S) /\ Len(DeleteAt(t, p)) = Len(t) - 1
         /\ \A k \in 1 .. p - 1 : DeleteAt(t, p)[k] = t[k]
         /\ \A k \in p .. Len(t) - 1 : DeleteAt(t, p)[k] = t[k + 1]
<1> DEFINE a == SubSeq(t, 1, p - 1)
           b == SubSeq(t, p + 1, Len(t))
<1>1. a \in Seq(S) /\ Len(a) = p - 1 /\ \A k \in 1 .. p - 1 : a[k] = t[k]
  BY SubSeqProperties
<1>2. b \in Seq(S) /\ Len(b) = Len(t) - p /\ \A k \in 1 .. Len(t) - p : b[k] = t[p + k]
  BY SubSeqProperties
<1> HIDE DEF a, b
<1>4. /\ a \o b \in Seq(S) /\ Len(a \o b) = Len(a) + Len(b)
      /\ \A k \in 1 .. Len(a) + Len(b) : (a \o b)[k] = IF k <= Len(a) THEN a[k] ELSE b[k - Len(a)]
  BY <1>1, <1>2, ConcatProperties
<1> DEFINE w == a \o b
           n == Len(t)
<1>5. n \in Nat /\ p \in Nat /\ 1 <= p /\ p <= n
  BY LenProperties
<1>6. /\ w \in Seq(S) /\ Len(w) = n - 1
      /\ \A k \in 1 .. n - 1 : w[k] = IF k <= p - 1 THEN a[k] ELSE b[k - (p - 1)]
  <2> HIDE DEF w, n
  <2>1. Len(a) = p - 1 /\ Len(b) = n - p /\ Len(a) + Len(b) = n - 1
    BY <1>1, <1>2, <1>5 DEF n
  <2> QED BY <1>4, <2>1 DEF w
<1>7. DeleteAt(t, p) = w
  BY DEF DeleteAt, a, b
<1> HIDE DEF w, n
<1>8. \A k \in 1 .. p - 1 : w[k] = t[k]
  <2> TAKE k \in 1 .. p - 1
  <2>1. k \in 1 .. n - 1 /\ k <= p - 1
    BY <1>5
  <2> QED BY <1>1, <1>6, <2>1
<1>9. \A k \in p .. n - 1 : w[k] = t[k + 1]
  <2> TAKE k \in p .. n - 1
  <2>1. k \in 1 .. n - 1 /\ ~(k <= p - 1) /\ k - (p - 1) \in 1 .. n - p /\ p + (k - (p - 1)) = k + 1
    BY <1>5
  <2>2. b[k - (p - 1)] = t[p + (k - (p - 1))]
    BY <1>2, <2>1 DEF n
  <2>3. w[k] = b[k - (p - 1)]
    BY <1>6, <2>1
  <2> QED BY <2>1, <2>2, <2>3
<1> QED BY <1>6, <1>7, <1>8, <1>9 DEF n

-----------------------------------------------------------------------------
(* The operations of Indexlist.                                            *)

(* A record of two sequences of the right lengths is a list when iSort     *)
(* names every position and its places hold increasing indices.            *)
LEMMA SortedIsList ==
  ASSUME NEW m, NEW N \in Nat, m = [number |-> m.number, iSort |-> m.iSort],
         m.number \in Seq(Nat), Len(m.number) = N, m.iSort \in Seq(Nat), Len(m.iSort) = N,
         \A k \in 1 .. N : m.iSort[k] \in 1 .. N,
         \A p \in 1 .. N : \E k \in 1 .. N : m.iSort[k] = p,
         \A k \in 1 .. N - 1 : Sorted(m, k) < Sorted(m, k + 1)
  PROVE  IsList(m) /\ Length(m) = N
<1>1. Length(m) = N
  BY DEF Length
<1>2. {m.iSort[k] : k \in 1 .. N} = 1 .. N
  OBVIOUS
<1> QED BY <1>1, <1>2, Zenon DEF IsList, IsSorted

LEMMA EmptyIsList ==
  IsList(EmptyList) /\ Numbers(EmptyList) = {} /\ Length(EmptyList) = 0
<1>1. EmptyList.number = << >> /\ EmptyList.iSort = << >> /\ EmptyList = [number |-> EmptyList.number, iSort |-> EmptyList.iSort]
  BY DEF EmptyList
<1>2. << >> \in Seq(Nat) /\ Len(<< >>) = 0
  OBVIOUS
<1>3. IsList(EmptyList) /\ Length(EmptyList) = 0
  <2>1. IsSorted(EmptyList)
    BY <1>1, <1>2 DEF IsSorted, Length
  <2> QED BY <1>1, <1>2, <2>1 DEF IsList, Length
<1> QED BY <1>3 DEF Numbers

(* addNumber(): an index that is not in a list enters it.                  *)
LEMMA AddNumberAdds ==
  ASSUME NEW l, IsList(l), NEW i \in Nat, i \notin Numbers(l)
  PROVE  /\ IsList(AddNumber(l, i)) /\ Numbers(AddNumber(l, i)) = Numbers(l) \cup {i}
         /\ Length(AddNumber(l, i)) = Length(l) + 1
<1> DEFINE m == AddNumber(l, i)
           n == Length(l)
           f == FindInsert(l, i)
<1>1. n \in Nat /\ n = Len(l.number) /\ Len(l.iSort) = n /\ l.number \in Seq(Nat) /\ l.iSort \in Seq(Nat)
  BY ListPositions DEF Length, IsList
<1>2. f \in Nat /\ f <= n
  BY FindInsertFinds, <1>1
<1>30. (f > 0 => Sorted(l, f) <= i) /\ (f < n => i < Sorted(l, f + 1))
  BY FindInsertFinds
<1>31. \A k \in 1 .. n : l.iSort[k] \in 1 .. n /\ Sorted(l, k) \in Nat
  BY ListPositions
<1>32. \A p \in 1 .. n : \E k \in 1 .. n : l.iSort[k] = p
  BY ListPositions
<1>3. f > 0 => Sorted(l, f) < i
  <2> HIDE DEF f, n
  <2> SUFFICES ASSUME f > 0 PROVE Sorted(l, f) # i
    BY <1>1, <1>2, <1>30, <1>31
  <2>1. f \in 1 .. n
    BY <1>1, <1>2
  <2>2. l.iSort[f] \in 1 .. n
    BY <2>1, <1>31
  <2>3. l.number[l.iSort[f]] \in Numbers(l)
    BY <2>2 DEF Numbers, n
  <2> QED BY <2>3 DEF Sorted
<1>4. m.number = Append(l.number, i) /\ m.iSort = InsertAt(l.iSort, f, n + 1) /\ m = [number |-> m.number, iSort |-> m.iSort]
  BY DEF AddNumber
<1> HIDE DEF f, m
<1>5. /\ m.number \in Seq(Nat) /\ Len(m.number) = n + 1 /\ m.number[n + 1] = i
      /\ \A k \in 1 .. n : m.number[k] = l.number[k]
  BY <1>1, <1>4, AppendProperties DEF IsList
<1>6. /\ m.iSort \in Seq(Nat) /\ Len(m.iSort) = n + 1 /\ m.iSort[f + 1] = n + 1
      /\ \A k \in 1 .. f : m.iSort[k] = l.iSort[k]
      /\ \A k \in f + 2 .. n + 1 : m.iSort[k] = l.iSort[k - 1]
  <2> HIDE DEF n
  <2>1. f \in 0 .. Len(l.iSort) /\ n + 1 \in Nat
    BY <1>1, <1>2
  <2> DEFINE u == InsertAt(l.iSort, f, n + 1)
  <2>2. /\ u \in Seq(Nat) /\ Len(u) = Len(l.iSort) + 1
        /\ \A k \in 1 .. f : u[k] = l.iSort[k]
        /\ u[f + 1] = n + 1
        /\ \A k \in f + 2 .. Len(l.iSort) + 1 : u[k] = l.iSort[k - 1]
    <3> DEFINE x == n + 1
               t == l.iSort
    <3>1. x \in Nat /\ t \in Seq(Nat) /\ f \in 0 .. Len(t)
      BY <2>1, <1>1
    <3> HIDE DEF x, t
    <3>2. /\ InsertAt(t, f, x) \in Seq(Nat) /\ Len(InsertAt(t, f, x)) = Len(t) + 1
          /\ \A k \in 1 .. f : InsertAt(t, f, x)[k] = t[k]
          /\ InsertAt(t, f, x)[f + 1] = x
          /\ \A k \in f + 2 .. Len(t) + 1 : InsertAt(t, f, x)[k] = t[k - 1]
      BY <3>1, InsertAtEntries
    <3> QED BY <3>2, Zenon DEF x, t
  <2> HIDE DEF u
  <2>3. m.iSort = u
    BY <1>4 DEF u
  <2> QED BY <1>1, <2>2, <2>3
<1> HIDE DEF n
<1>7. \A k \in 1 .. n + 1 : m.iSort[k] \in 1 .. n + 1
  <2> TAKE k \in 1 .. n + 1
  <2>1. (k \in 1 .. f /\ k \in 1 .. n) \/ k = f + 1 \/ (k \in f + 2 .. n + 1 /\ k - 1 \in 1 .. n)
    BY <1>1, <1>2
  <2>2. n + 1 \in 1 .. n + 1 /\ \A x \in 1 .. n : x \in 1 .. n + 1
    BY <1>1
  <2>3. CASE k \in 1 .. f /\ k \in 1 .. n
    BY <2>2, <2>3, <1>31, <1>6
  <2>4. CASE k = f + 1
    BY <2>2, <2>4, <1>6
  <2>5. CASE k \in f + 2 .. n + 1 /\ k - 1 \in 1 .. n
    BY <2>2, <2>5, <1>31, <1>6
  <2> QED BY <2>1, <2>3, <2>4, <2>5
<1>8. \A p \in 1 .. n + 1 : \E k \in 1 .. n + 1 : m.iSort[k] = p
  <2> TAKE p \in 1 .. n + 1
  <2>1. CASE p = n + 1
    <3>1. f + 1 \in 1 .. n + 1
      BY <1>1, <1>2
    <3> QED BY <2>1, <3>1, <1>6
  <2>2. CASE p # n + 1
    <3>0. p \in 1 .. n
      BY <2>2, <1>1
    <3>1. PICK k \in 1 .. n : l.iSort[k] = p
      BY <3>0, <1>32
    <3>2. k \in 1 .. f => m.iSort[k] = p
      BY <3>1, <1>6
    <3>3. k > f => k + 1 \in f + 2 .. n + 1 /\ (k + 1) - 1 = k
      BY <1>1, <1>2
    <3>4. k > f => m.iSort[k + 1] = p
      BY <3>1, <3>3, <1>6
    <3>5. (k \in 1 .. f \/ k > f) /\ k \in 1 .. n + 1 /\ k + 1 \in 1 .. n + 1
      BY <1>1, <1>2
    <3> QED BY <3>2, <3>4, <3>5
  <2> QED BY <2>1, <2>2
<1>9. /\ \A k \in 1 .. f : Sorted(m, k) = Sorted(l, k)
      /\ Sorted(m, f + 1) = i
      /\ \A k \in f + 2 .. n + 1 : Sorted(m, k) = Sorted(l, k - 1)
  <2>1. ASSUME NEW k \in 1 .. f PROVE Sorted(m, k) = Sorted(l, k)
    <3>1. k \in 1 .. n
      BY <1>1, <1>2
    <3> QED BY <3>1, <1>31, <1>5, <1>6 DEF Sorted
  <2>2. Sorted(m, f + 1) = i
    BY <1>5, <1>6 DEF Sorted
  <2>3. ASSUME NEW k \in f + 2 .. n + 1 PROVE Sorted(m, k) = Sorted(l, k - 1)
    <3>1. k - 1 \in 1 .. n
      BY <1>1, <1>2
    <3> QED BY <3>1, <1>31, <1>5, <1>6 DEF Sorted
  <2> QED BY <2>1, <2>2, <2>3
<1>10. \A k \in 1 .. n - 1 : Sorted(l, k) < Sorted(l, k + 1)
  BY DEF IsList, IsSorted, n
<1>11. ASSUME NEW k \in 1 .. n PROVE Sorted(m, k) < Sorted(m, k + 1)
  <2>1. CASE k < f
    <3>1. k \in 1 .. f /\ k + 1 \in 1 .. f /\ k \in 1 .. n - 1
      BY <2>1, <1>1, <1>2
    <3> QED BY <3>1, <1>9, <1>10
  <2>2. CASE k = f
    <3>1. f > 0 /\ f \in 1 .. f
      BY <2>2, <1>2
    <3> QED BY <2>2, <3>1, <1>3, <1>9
  <2>3. CASE k = f + 1
    <3>1. k + 1 \in f + 2 .. n + 1 /\ (k + 1) - 1 = f + 1 /\ f < n
      BY <2>3, <1>1, <1>2
    <3>2. Sorted(m, k + 1) = Sorted(l, f + 1) /\ Sorted(m, k) = i
      BY <2>3, <3>1, <1>9
    <3> QED BY <3>1, <3>2, <1>30
  <2>4. CASE k > f + 1
    <3>1. k \in f + 2 .. n + 1 /\ k + 1 \in f + 2 .. n + 1 /\ (k + 1) - 1 = k /\ k - 1 \in 1 .. n - 1 /\ (k - 1) + 1 = k
      BY <2>4, <1>1, <1>2
    <3>2. Sorted(m, k) = Sorted(l, k - 1) /\ Sorted(m, k + 1) = Sorted(l, k)
      BY <3>1, <1>9
    <3>3. Sorted(l, k - 1) < Sorted(l, (k - 1) + 1)
      BY <3>1, <1>10
    <3> QED BY <3>1, <3>2, <3>3
  <2> QED BY <2>1, <2>2, <2>3, <2>4, <1>1, <1>2
<1>12. IsList(m) /\ Length(m) = n + 1
  <2>1. n + 1 \in Nat /\ (n + 1) - 1 = n
    BY <1>1
  <2> QED BY <2>1, <1>4, <1>5, <1>6, <1>7, <1>8, <1>11, SortedIsList
<1>13. Numbers(m) = Numbers(l) \cup {i}
  <2>1. Numbers(m) = {m.number[k] : k \in 1 .. n + 1} /\ Numbers(l) = {l.number[k] : k \in 1 .. n}
    BY <1>12 DEF Numbers, n
  <2>2. \A k \in 1 .. n + 1 : k = n + 1 \/ k \in 1 .. n
    BY <1>1
  <2>3. \A k \in 1 .. n : k \in 1 .. n + 1
    BY <1>1
  <2>4. n + 1 \in 1 .. n + 1
    BY <1>1
  <2> QED BY <2>1, <2>2, <2>3, <2>4, <1>5
<1> QED BY <1>12, <1>13 DEF m, n

(* removeNumber(): an index leaves a list, and no other one does.          *)
LEMMA RemoveNumberRemoves ==
  ASSUME NEW l, IsList(l), NEW i \in Nat, i \in Numbers(l)
  PROVE  /\ IsList(RemoveNumber(l, i)) /\ Numbers(RemoveNumber(l, i)) = Numbers(l) \ {i}
         /\ Length(RemoveNumber(l, i)) = Length(l) - 1
<1> DEFINE m == RemoveNumber(l, i)
           n == Length(l)
           f == FindInsert(l, i)
           at == GetIndex(l, i)
           moved == [k \in 1 .. n |-> IF l.iSort[k] > at THEN l.iSort[k] - 1 ELSE l.iSort[k]]
<1>1. n \in Nat /\ n = Len(l.number) /\ Len(l.iSort) = n /\ l.number \in Seq(Nat) /\ l.iSort \in Seq(Nat)
  BY ListPositions DEF Length, IsList
<1>2. \A k \in 1 .. n : l.iSort[k] \in 1 .. n /\ Sorted(l, k) \in Nat
  BY ListPositions
<1>3. \A p \in 1 .. n : \E k \in 1 .. n : l.iSort[k] = p
  BY ListPositions
<1>4. Holds(l, i) /\ f \in 1 .. n /\ at \in 1 .. n /\ l.iSort[f] = at /\ Sorted(l, f) = i
  BY HoldsNumbers
<1>5. \A k \in 1 .. n - 1 : Sorted(l, k) < Sorted(l, k + 1)
  BY DEF IsList, IsSorted
<1>6. m.number = DeleteAt(l.number, at) /\ m.iSort = DeleteAt(moved, f) /\ m = [number |-> m.number, iSort |-> m.iSort]
  BY <1>4, Zenon DEF RemoveNumber
<1>7. \A p, q \in 1 .. n : l.number[p] = l.number[q] => p = q
  BY NumbersDiffer
<1>8. ASSUME NEW k \in 1 .. n, k # f PROVE l.iSort[k] # at
  <2>1. k < f \/ f < k
    BY <1>1, <1>4, <1>8
  <2>2. Sorted(l, k) < Sorted(l, f) \/ Sorted(l, f) < Sorted(l, k)
    BY <2>1, <1>4, SortedIncreases
  <2>3. Sorted(l, k) # Sorted(l, f)
    BY <2>2, <1>2, <1>4
  <2> QED BY <2>3, <1>4 DEF Sorted
<1> HIDE DEF f, m, n, at
<1>9. ASSUME NEW k \in 1 .. n, k # f
      PROVE  /\ moved[k] \in 1 .. n - 1
             /\ l.iSort[k] = IF moved[k] < at THEN moved[k] ELSE moved[k] + 1
  <2>1. l.iSort[k] \in 1 .. n /\ l.iSort[k] # at
    BY <1>8, <1>9, <1>2
  <2>2. moved[k] = IF l.iSort[k] > at THEN l.iSort[k] - 1 ELSE l.iSort[k]
    OBVIOUS
  <2> DEFINE a == l.iSort[k]
             b == moved[k]
  <2>3. a \in 1 .. n /\ a # at /\ b = IF a > at THEN a - 1 ELSE a
    BY <2>1, <2>2
  <2> HIDE DEF moved, a, b
  <2>4. b \in 1 .. n - 1 /\ a = IF b < at THEN b ELSE b + 1
    <3>1. CASE a > at
      BY <3>1, <2>3, <1>1, <1>4
    <3>2. CASE a < at
      BY <3>2, <2>3, <1>1, <1>4
    <3> QED BY <3>1, <3>2, <2>3, <1>1, <1>4
  <2> QED BY <2>4 DEF a, b
<1>10. moved \in Seq(Nat) /\ Len(moved) = n
  <2>1. ASSUME NEW k \in 1 .. n PROVE moved[k] \in Nat
    <3>1. l.iSort[k] \in 1 .. n
      BY <1>2
    <3>2. moved[k] = IF l.iSort[k] > at THEN l.iSort[k] - 1 ELSE l.iSort[k]
      OBVIOUS
    <3> HIDE DEF moved
    <3> QED BY <3>1, <3>2, <1>4
  <2>2. moved \in [1 .. n -> Nat]
    <3>1. moved = [k \in 1 .. n |-> moved[k]]
      OBVIOUS
    <3> HIDE DEF moved
    <3> QED BY <2>1, <3>1
  <2> HIDE DEF moved
  <2>3. moved \in Seq(Nat)
    <3>1. \E k \in Nat : moved \in [1 .. k -> Nat]
      BY <2>2, <1>1
    <3> QED BY <3>1, SeqDef
  <2>4. 1 .. n = 1 .. Len(moved) /\ Len(moved) \in Nat
    BY <2>2, <2>3, LenProperties
  <2> QED BY <2>3, <2>4, <1>1
<1> HIDE DEF moved
<1>11. /\ m.number \in Seq(Nat) /\ Len(m.number) = n - 1
       /\ \A k \in 1 .. at - 1 : m.number[k] = l.number[k]
       /\ \A k \in at .. n - 1 : m.number[k] = l.number[k + 1]
  <2> DEFINE t == l.number
  <2>1. t \in Seq(Nat) /\ Len(t) = n /\ at \in 1 .. Len(t)
    BY <1>1, <1>4
  <2> HIDE DEF t
  <2>2. /\ DeleteAt(t, at) \in Seq(Nat) /\ Len(DeleteAt(t, at)) = Len(t) - 1
        /\ \A k \in 1 .. at - 1 : DeleteAt(t, at)[k] = t[k]
        /\ \A k \in at .. Len(t) - 1 : DeleteAt(t, at)[k] = t[k + 1]
    BY <2>1, DeleteAtEntries
  <2>3. m.number = DeleteAt(t, at)
    BY <1>6 DEF t
  <2> QED BY <2>1, <2>2, <2>3, Zenon DEF t
<1>12. /\ m.iSort \in Seq(Nat) /\ Len(m.iSort) = n - 1
       /\ \A k \in 1 .. f - 1 : m.iSort[k] = moved[k]
       /\ \A k \in f .. n - 1 : m.iSort[k] = moved[k + 1]
  <2>1. f \in 1 .. Len(moved)
    BY <1>10, <1>4
  <2>2. /\ DeleteAt(moved, f) \in Seq(Nat) /\ Len(DeleteAt(moved, f)) = Len(moved) - 1
        /\ \A k \in 1 .. f - 1 : DeleteAt(moved, f)[k] = moved[k]
        /\ \A k \in f .. Len(moved) - 1 : DeleteAt(moved, f)[k] = moved[k + 1]
    BY <1>10, <2>1, DeleteAtEntries
  <2> QED BY <1>6, <1>10, <2>2, Zenon
<1> DEFINE old(k) == IF k < f THEN k ELSE k + 1
<1>13. \A k \in 1 .. n - 1 : /\ old(k) \in 1 .. n /\ old(k) # f /\ old(k) < old(k + 1)
                             /\ m.iSort[k] = moved[old(k)]
  <2> TAKE k \in 1 .. n - 1
  <2>1. old(k) \in 1 .. n /\ old(k) # f /\ old(k) < old(k + 1)
    BY <1>1, <1>4
  <2>2. CASE k < f
    <3>1. k \in 1 .. f - 1
      BY <1>4, <2>2
    <3> QED BY <2>1, <2>2, <3>1, <1>12
  <2>3. CASE ~(k < f)
    <3>1. k \in f .. n - 1
      BY <1>1, <1>4, <2>3
    <3> QED BY <2>1, <2>3, <3>1, <1>12
  <2> QED BY <2>2, <2>3
<1>14. ASSUME NEW k \in 1 .. n - 1
       PROVE  m.iSort[k] \in 1 .. n - 1 /\ Sorted(m, k) = Sorted(l, old(k))
  <2>1. old(k) \in 1 .. n /\ old(k) # f /\ m.iSort[k] = moved[old(k)]
    BY <1>13
  <2> DEFINE p == m.iSort[k]
  <2>2. p \in 1 .. n - 1 /\ l.iSort[old(k)] = IF p < at THEN p ELSE p + 1
    <3> HIDE DEF old
    <3> QED BY <2>1, <1>9
  <2>3. Sorted(m, k) = m.number[p] /\ Sorted(l, old(k)) = l.number[l.iSort[old(k)]]
    BY DEF Sorted
  <2> HIDE DEF p, old
  <2>4. m.number[p] = l.number[l.iSort[old(k)]]
    <3>1. CASE p < at
      <4>1. p \in 1 .. at - 1
        BY <2>2, <3>1, <1>4
      <4> QED BY <2>2, <3>1, <4>1, <1>11
    <3>2. CASE ~(p < at)
      <4>1. p \in at .. n - 1
        BY <2>2, <3>2, <1>1, <1>4
      <4> QED BY <2>2, <3>2, <4>1, <1>11
    <3> QED BY <3>1, <3>2
  <2> QED BY <2>2, <2>3, <2>4 DEF p
<1>15. ASSUME NEW p \in 1 .. n - 1 PROVE \E k \in 1 .. n - 1 : m.iSort[k] = p
  <2> DEFINE was == IF p < at THEN p ELSE p + 1
  <2>1. was \in 1 .. n /\ was # at /\ p = IF was > at THEN was - 1 ELSE was
    BY <1>1, <1>4
  <2> HIDE DEF was
  <2>2. PICK c \in 1 .. n : l.iSort[c] = was
    BY <2>1, <1>3
  <2>3. c # f
    BY <2>1, <2>2, <1>4
  <2>4. moved[c] = p
    BY <2>1, <2>2 DEF moved
  <2> DEFINE k == IF c < f THEN c ELSE c - 1
  <2>5. k \in 1 .. n - 1 /\ old(k) = c
    BY <1>1, <1>4, <2>3
  <2> HIDE DEF k, old
  <2> QED BY <2>4, <2>5, <1>13
<1>16. ASSUME NEW k \in 1 .. (n - 1) - 1 PROVE Sorted(m, k) < Sorted(m, k + 1)
  <2>1. k \in 1 .. n - 1 /\ k + 1 \in 1 .. n - 1
    BY <1>1
  <2>2. old(k) \in 1 .. n /\ old(k + 1) \in 1 .. n /\ old(k) < old(k + 1)
    BY <2>1, <1>13
  <2>3. Sorted(m, k) = Sorted(l, old(k)) /\ Sorted(m, k + 1) = Sorted(l, old(k + 1))
    BY <2>1, <1>14
  <2> HIDE DEF old
  <2>4. Sorted(l, old(k)) < Sorted(l, old(k + 1))
    BY <2>2, SortedIncreases DEF n
  <2> QED BY <2>3, <2>4
<1>17. IsList(m) /\ Length(m) = n - 1
  <2>1. n - 1 \in Nat
    BY <1>1, <1>4
  <2> DEFINE N == n - 1
  <2>2. N \in Nat /\ Len(m.number) = N /\ Len(m.iSort) = N
    BY <2>1, <1>11, <1>12
  <2>3. \A k \in 1 .. N : m.iSort[k] \in 1 .. N
    BY <1>14
  <2>4. \A p \in 1 .. N : \E k \in 1 .. N : m.iSort[k] = p
    BY <1>15
  <2>5. \A k \in 1 .. N - 1 : Sorted(m, k) < Sorted(m, k + 1)
    BY <1>16
  <2> HIDE DEF N
  <2>6. IsList(m) /\ Length(m) = N
    BY <2>2, <2>3, <2>4, <2>5, <1>6, <1>11, <1>12, SortedIsList
  <2> QED BY <2>6 DEF N
<1>18. Numbers(m) = Numbers(l) \ {i}
  <2>1. Numbers(m) = {m.number[k] : k \in 1 .. n - 1} /\ Numbers(l) = {l.number[k] : k \in 1 .. n}
    BY <1>17 DEF Numbers, n
  <2>2. l.number[at] = i
    BY <1>4 DEF Sorted
  <2>3. ASSUME NEW k \in 1 .. n - 1 PROVE \E p \in 1 .. n : p # at /\ m.number[k] = l.number[p]
    <3>0. k \in 1 .. n
      BY <1>1
    <3>1. k \in 1 .. at - 1 => k \in 1 .. n /\ k # at
      BY <3>0, <1>4
    <3>2. k \in at .. n - 1 => k + 1 \in 1 .. n /\ k + 1 # at
      BY <1>1, <1>4
    <3>3. k \in 1 .. at - 1 \/ k \in at .. n - 1
      BY <1>1, <1>4
    <3> QED BY <3>1, <3>2, <3>3, <1>11
  <2>4. ASSUME NEW p \in 1 .. n, p # at PROVE \E k \in 1 .. n - 1 : m.number[k] = l.number[p]
    <3>0. n \in Nat /\ at \in Nat /\ 1 <= at /\ at <= n /\ p \in Nat /\ 1 <= p /\ p <= n
      BY <1>1, <1>4
    <3>1. CASE p < at
      <4>1. p \in 1 .. at - 1 /\ p \in 1 .. n - 1
        BY <3>0, <3>1
      <4> QED BY <4>1, <1>11
    <3>2. CASE p > at
      <4>1. p - 1 \in at .. n - 1 /\ p - 1 \in 1 .. n - 1 /\ (p - 1) + 1 = p
        BY <3>0, <3>2
      <4> QED BY <4>1, <1>11
    <3> QED BY <3>0, <3>1, <3>2, <2>4
  <2>5. \A p \in 1 .. n : p # at => l.number[p] # i
    BY <2>2, <1>7, <1>4
  <2>6. ASSUME NEW x \in Numbers(m) PROVE x \in Numbers(l) \ {i}
    BY <2>1, <2>3, <2>5
  <2>7. ASSUME NEW x \in Numbers(l) \ {i} PROVE x \in Numbers(m)
    <3>1. PICK p \in 1 .. n : x = l.number[p]
      BY <2>1
    <3>2. p # at
      BY <3>1, <2>2
    <3> QED BY <3>1, <3>2, <2>4, <2>1
  <2> QED BY <2>6, <2>7
<1> QED BY <1>17, <1>18 DEF m, n

(* swapNumbers(): two indices of a list change places; the sorted order    *)
(* reads as before.                                                        *)
LEMMA SwapNumbersSwaps ==
  ASSUME NEW l, IsList(l), NEW i \in Nat, NEW j \in Nat, i \in Numbers(l), j \in Numbers(l), i # j
  PROVE  /\ IsList(SwapNumbers(l, i, j)) /\ Numbers(SwapNumbers(l, i, j)) = Numbers(l)
         /\ Length(SwapNumbers(l, i, j)) = Length(l)
<1> DEFINE m == SwapNumbers(l, i, j)
           n == Length(l)
           p == FindInsert(l, i)
           q == FindInsert(l, j)
           a == l.iSort[p]
           b == l.iSort[q]
<1>1. n \in Nat /\ n = Len(l.number) /\ Len(l.iSort) = n /\ l.number \in Seq(Nat) /\ l.iSort \in Seq(Nat)
  BY ListPositions DEF Length, IsList
<1>2. \A k \in 1 .. n : l.iSort[k] \in 1 .. n /\ Sorted(l, k) \in Nat
  BY ListPositions
<1>3. \A k \in 1 .. n : \E c \in 1 .. n : l.iSort[c] = k
  BY ListPositions
<1>4. p \in 1 .. n /\ a \in 1 .. n /\ Sorted(l, p) = i /\ q \in 1 .. n /\ b \in 1 .. n /\ Sorted(l, q) = j
  BY HoldsNumbers
<1>5. l.number[a] = i /\ l.number[b] = j /\ a # b /\ p # q
  BY <1>4 DEF Sorted
<1>6. \A k \in 1 .. n - 1 : Sorted(l, k) < Sorted(l, k + 1)
  BY DEF IsList, IsSorted
<1>7. ASSUME NEW k \in 1 .. n, k # p, k # q PROVE l.iSort[k] # a /\ l.iSort[k] # b
  <2>1. \A c \in 1 .. n : k # c => Sorted(l, k) # Sorted(l, c)
    <3> TAKE c \in 1 .. n
    <3> HAVE k # c
    <3>1. k < c \/ c < k
      BY <1>1
    <3>2. Sorted(l, k) < Sorted(l, c) \/ Sorted(l, c) < Sorted(l, k)
      BY <3>1, SortedIncreases
    <3> QED BY <3>2, <1>2
  <2>2. Sorted(l, k) # Sorted(l, p) /\ Sorted(l, k) # Sorted(l, q)
    BY <2>1, <1>4, <1>7
  <2> QED BY <2>2, <1>4, <1>5 DEF Sorted
<1>8. m.number = [l.number EXCEPT ![a] = j, ![b] = i] /\ m.iSort = [l.iSort EXCEPT ![p] = b, ![q] = a]
      /\ m = [number |-> m.number, iSort |-> m.iSort]
  BY DEF SwapNumbers
<1> HIDE DEF m, n, p, q, a, b
<1>9. /\ m.number \in Seq(Nat) /\ Len(m.number) = n
      /\ \A k \in 1 .. n : m.number[k] = IF k = b THEN i ELSE IF k = a THEN j ELSE l.number[k]
  <2> DEFINE t == l.number
             u == [t EXCEPT ![a] = j]
             v == [u EXCEPT ![b] = i]
  <2>1. t \in Seq(Nat) /\ Len(t) = n /\ a \in 1 .. Len(t)
    BY <1>1, <1>4
  <2>2. m.number = v
    BY <1>8
  <2> HIDE DEF t
  <2>3. u \in Seq(Nat) /\ Len(u) = n /\ b \in 1 .. Len(u) /\ \A k \in 1 .. n : u[k] = IF k = a THEN j ELSE t[k]
    BY <2>1, <1>4, ExceptSeq
  <2> HIDE DEF u
  <2>4. v \in Seq(Nat) /\ Len(v) = n /\ \A k \in 1 .. n : v[k] = IF k = b THEN i ELSE u[k]
    BY <2>3, ExceptSeq
  <2> HIDE DEF v
  <2> QED BY <2>2, <2>3, <2>4 DEF t
<1>10. /\ m.iSort \in Seq(Nat) /\ Len(m.iSort) = n
       /\ \A k \in 1 .. n : m.iSort[k] = IF k = q THEN a ELSE IF k = p THEN b ELSE l.iSort[k]
  <2> DEFINE t == l.iSort
             u == [t EXCEPT ![p] = b]
             v == [u EXCEPT ![q] = a]
  <2>1. t \in Seq(Nat) /\ Len(t) = n /\ p \in 1 .. Len(t) /\ a \in Nat /\ b \in Nat
    BY <1>1, <1>4
  <2>2. m.iSort = v
    BY <1>8
  <2> HIDE DEF t
  <2>3. u \in Seq(Nat) /\ Len(u) = n /\ q \in 1 .. Len(u) /\ \A k \in 1 .. n : u[k] = IF k = p THEN b ELSE t[k]
    BY <2>1, <1>4, ExceptSeq
  <2> HIDE DEF u
  <2>4. v \in Seq(Nat) /\ Len(v) = n /\ \A k \in 1 .. n : v[k] = IF k = q THEN a ELSE u[k]
    BY <2>1, <2>3, ExceptSeq
  <2> HIDE DEF v
  <2> QED BY <2>2, <2>3, <2>4 DEF t
<1>11. \A k \in 1 .. n : m.iSort[k] \in 1 .. n
  BY <1>2, <1>4, <1>10
<1>12. ASSUME NEW k \in 1 .. n PROVE \E c \in 1 .. n : m.iSort[c] = k
  <2>1. CASE k = a
    BY <2>1, <1>4, <1>10
  <2>2. CASE k = b
    BY <2>2, <1>4, <1>5, <1>10
  <2>3. CASE k # a /\ k # b
    <3>1. PICK c \in 1 .. n : l.iSort[c] = k
      BY <1>3
    <3>2. c # p /\ c # q
      BY <3>1, <2>3 DEF a, b
    <3> QED BY <3>1, <3>2, <1>10
  <2> QED BY <2>1, <2>2, <2>3
<1>13. ASSUME NEW k \in 1 .. n PROVE Sorted(m, k) = Sorted(l, k)
  <2>1. CASE k = p
    <3>1. m.iSort[k] = b
      BY <2>1, <1>4, <1>5, <1>10
    <3> QED BY <2>1, <3>1, <1>4, <1>9 DEF Sorted
  <2>2. CASE k = q
    <3>1. m.iSort[k] = a
      BY <2>2, <1>4, <1>10
    <3> QED BY <2>2, <3>1, <1>4, <1>5, <1>9 DEF Sorted
  <2>3. CASE k # p /\ k # q
    <3>1. m.iSort[k] = l.iSort[k] /\ l.iSort[k] # a /\ l.iSort[k] # b /\ l.iSort[k] \in 1 .. n
      BY <2>3, <1>2, <1>7, <1>10
    <3> QED BY <3>1, <1>9 DEF Sorted
  <2> QED BY <2>1, <2>2, <2>3
<1>14. \A k \in 1 .. n - 1 : Sorted(m, k) < Sorted(m, k + 1)
  <2> TAKE k \in 1 .. n - 1
  <2>1. k \in 1 .. n /\ k + 1 \in 1 .. n
    BY <1>1
  <2>2. Sorted(m, k) = Sorted(l, k) /\ Sorted(m, k + 1) = Sorted(l, k + 1)
    BY <2>1, <1>13
  <2> QED BY <2>2, <1>6 DEF n
<1>15. IsList(m) /\ Length(m) = n
  BY <1>1, <1>8, <1>9, <1>10, <1>11, <1>12, <1>14, SortedIsList
<1>16. Numbers(m) = Numbers(l)
  <2>1. Numbers(m) = {m.number[k] : k \in 1 .. n} /\ Numbers(l) = {l.number[k] : k \in 1 .. n}
    BY <1>15 DEF Numbers, n
  <2>2. m.number[a] = j /\ m.number[b] = i
    BY <1>4, <1>5, <1>9
  <2>3. \A k \in 1 .. n : k # a /\ k # b => m.number[k] = l.number[k]
    BY <1>9
  <2>4. \A k \in 1 .. n : \E c \in 1 .. n : m.number[k] = l.number[c]
    BY <2>2, <2>3, <1>4, <1>5
  <2>5. \A k \in 1 .. n : \E c \in 1 .. n : l.number[k] = m.number[c]
    BY <2>2, <2>3, <1>4, <1>5
  <2> QED BY <2>1, <2>4, <2>5
<1> QED BY <1>15, <1>16 DEF m, n

(* A list of indices below n that leaves one out is shorter than n.        *)
LEMMA ListIsShort ==
  ASSUME NEW l, IsList(l), NEW n \in Nat, NEW i \in 1 .. n, Numbers(l) \subseteq 1 .. n, i \notin Numbers(l)
  PROVE  Length(l) < n
<1> DEFINE N == Length(l)
           T == (1 .. n) \ {i}
<1>1. N \in Nat
  BY ListPositions
<1> SUFFICES ASSUME N >= n PROVE FALSE
  BY <1>1
<1>2. IsFiniteSet(1 .. N) /\ Cardinality(1 .. N) = N
  BY <1>1, FS_Interval
<1>3. IsFiniteSet(1 .. n) /\ Cardinality(1 .. n) = n
  BY FS_Interval
<1>4. IsFiniteSet(T) /\ Cardinality(T) = n - 1
  BY <1>3, FS_RemoveElement
<1>5. Cardinality(T) < Cardinality(1 .. N)
  BY <1>1, <1>2, <1>4
<1> DEFINE f == [k \in 1 .. N |-> l.number[k]]
<1>6. f \in [1 .. N -> T]
  <2>1. \A k \in 1 .. N : l.number[k] \in Numbers(l)
    BY DEF Numbers
  <2> QED BY <2>1
<1>7. PICK p, q \in 1 .. N : p # q /\ f[p] = f[q]
  <2> HIDE DEF f, T, N
  <2> QED BY <1>2, <1>4, <1>5, <1>6, FS_PigeonHole
<1>8. l.number[p] = l.number[q]
  BY <1>7
<1> QED BY <1>7, <1>8, NumbersDiffer

-----------------------------------------------------------------------------
(* The operations on an object.                                            *)

NotHeld == {"INACTIVE", "INFEASIBLE_LOWER", "INFEASIBLE_UPPER"}
Settable == Held \cup {"INACTIVE"}
Statuses == Held \cup NotHeld \cup {"UNDEFINED"}

IsObject(o) ==
  /\ o = [n |-> o.n, type |-> o.type, status |-> o.status, in |-> o.in, out |-> o.out]
  /\ o.n \in Sizes /\ o.type \in [1 .. o.n -> AllTypes] /\ o.status \in [1 .. o.n -> Statuses]
  /\ IsList(o.in) /\ Numbers(o.in) \subseteq 1 .. o.n
  /\ IsList(o.out) /\ Numbers(o.out) \subseteq 1 .. o.n

(* The lists hold what the statuses say.                                   *)
Agrees(o) ==
  /\ Numbers(o.in) = {i \in 1 .. o.n : o.status[i] \in Held}
  /\ Numbers(o.out) = {i \in 1 .. o.n : o.status[i] \in NotHeld}

(* The object o with other statuses and lists.                             *)
With(o, st, a, b) == [n |-> o.n, type |-> o.type, status |-> st, in |-> a, out |-> b]

LEMMA WithFields ==
  ASSUME NEW o, NEW st, NEW a, NEW b
  PROVE  /\ With(o, st, a, b).n = o.n /\ With(o, st, a, b).type = o.type /\ With(o, st, a, b).status = st
         /\ With(o, st, a, b).in = a /\ With(o, st, a, b).out = b
  BY DEF With

LEMMA WithIsObject ==
  ASSUME NEW o, IsObject(o), NEW st \in [1 .. o.n -> Statuses],
         NEW a, IsList(a), Numbers(a) \subseteq 1 .. o.n, NEW b, IsList(b), Numbers(b) \subseteq 1 .. o.n
  PROVE  IsObject(With(o, st, a, b))
<1> DEFINE v == With(o, st, a, b)
<1>1. v.n = o.n /\ v.type = o.type /\ v.status = st /\ v.in = a /\ v.out = b
  BY WithFields
<1>2. v = [n |-> v.n, type |-> v.type, status |-> v.status, in |-> v.in, out |-> v.out]
  BY DEF With
<1> HIDE DEF v
<1>3. o.n \in Sizes /\ o.type \in [1 .. o.n -> AllTypes]
  BY DEF IsObject
<1>4. IsObject(v)
  BY <1>1, <1>2, <1>3 DEF IsObject
<1> QED BY <1>4 DEF v

LEMMA ObjectParts ==
  ASSUME NEW o, IsObject(o)
  PROVE  /\ o = With(o, o.status, o.in, o.out) /\ o.n \in Nat /\ o.n # 0
         /\ \A i \in 1 .. o.n : i \in Nat /\ o.status[i] \in Statuses /\ o.type[i] \in AllTypes
  BY SubjectToAssumption DEF IsObject, With

LEMMA TwoFields ==
  ASSUME NEW o, NEW c, NEW d, IsObject(o)
  PROVE  /\ [o EXCEPT !.in = c, !.out = d] = [n |-> o.n, type |-> o.type, status |-> o.status, in |-> c, out |-> d]
         /\ [o EXCEPT !.type = c, !.status = d] = [n |-> o.n, type |-> c, status |-> d, in |-> o.in, out |-> o.out]
<1>0. o = [n |-> o.n, type |-> o.type, status |-> o.status, in |-> o.in, out |-> o.out]
  BY DEF IsObject
<1>1. [o EXCEPT !.in = c] = [n |-> o.n, type |-> o.type, status |-> o.status, in |-> c, out |-> o.out]
  BY <1>0
<1>2. [o EXCEPT !.type = c] = [n |-> o.n, type |-> c, status |-> o.status, in |-> o.in, out |-> o.out]
  BY <1>0
<1>3. [[n |-> o.n, type |-> o.type, status |-> o.status, in |-> c, out |-> o.out] EXCEPT !.out = d]
        = [n |-> o.n, type |-> o.type, status |-> o.status, in |-> c, out |-> d]
  OBVIOUS
<1>4. [[n |-> o.n, type |-> c, status |-> o.status, in |-> o.in, out |-> o.out] EXCEPT !.status = d]
        = [n |-> o.n, type |-> c, status |-> d, in |-> o.in, out |-> o.out]
  OBVIOUS
<1> QED BY <1>1, <1>2, <1>3, <1>4, Zenon

(* setStatus().                                                            *)
LEMMA StatusSet ==
  ASSUME NEW o, IsObject(o), NEW i \in 1 .. o.n, NEW st \in Statuses
  PROVE  /\ [o EXCEPT !.status[i] = st] = With(o, [o.status EXCEPT ![i] = st], o.in, o.out)
         /\ [o.status EXCEPT ![i] = st] \in [1 .. o.n -> Statuses]
         /\ IsObject([o EXCEPT !.status[i] = st])
<1>1. [o EXCEPT !.status[i] = st] = With(o, [o.status EXCEPT ![i] = st], o.in, o.out)
  BY DEF IsObject, With
<1>2. [o.status EXCEPT ![i] = st] \in [1 .. o.n -> Statuses]
  BY DEF IsObject
<1>3. IsList(o.in) /\ Numbers(o.in) \subseteq 1 .. o.n /\ IsList(o.out) /\ Numbers(o.out) \subseteq 1 .. o.n
  BY DEF IsObject
<1> DEFINE u == [o.status EXCEPT ![i] = st]
           v == [o EXCEPT !.status[i] = st]
<1>4. v = With(o, u, o.in, o.out) /\ u \in [1 .. o.n -> Statuses]
  BY <1>1, <1>2
<1> HIDE DEF u, v
<1>5. IsObject(v)
  BY <1>3, <1>4, WithIsObject
<1> QED BY <1>1, <1>2, <1>5 DEF v

(* addIndex(): an index enters the list its status belongs in.             *)
Entered(o, i, st) ==
  With(o, [o.status EXCEPT ![i] = st],
       IF st \in Held THEN AddNumber(o.in, i) ELSE o.in, IF st \in Held THEN o.out ELSE AddNumber(o.out, i))

HasEntered(o, i, st, r) ==
  /\ r.ok = TRUE /\ IsObject(r.o) /\ r.o.n = o.n /\ r.o.type = o.type
  /\ r.o.status = [o.status EXCEPT ![i] = st]
  /\ Numbers(r.o.in) = IF st \in Held THEN Numbers(o.in) \cup {i} ELSE Numbers(o.in)
  /\ Numbers(r.o.out) = IF st \in Held THEN Numbers(o.out) ELSE Numbers(o.out) \cup {i}

LEMMA AddIndexAdds ==
  ASSUME NEW o, IsObject(o), NEW i \in 1 .. o.n, NEW st \in Settable, o.status[i] # st,
         i \notin Numbers(o.in), i \notin Numbers(o.out)
  PROVE  HasEntered(o, i, st, AddIndex(o, ListFor(st), i, st))
<1> DEFINE r == AddIndex(o, ListFor(st), i, st)
<1>0. SUFFICES
         /\ AddIndex(o, ListFor(st), i, st) = [o |-> Entered(o, i, st), ok |-> TRUE]
         /\ IsObject(Entered(o, i, st))
         /\ Entered(o, i, st).n = o.n /\ Entered(o, i, st).type = o.type
         /\ Entered(o, i, st).status = [o.status EXCEPT ![i] = st]
         /\ Numbers(Entered(o, i, st).in) = IF st \in Held THEN Numbers(o.in) \cup {i} ELSE Numbers(o.in)
         /\ Numbers(Entered(o, i, st).out) = IF st \in Held THEN Numbers(o.out) ELSE Numbers(o.out) \cup {i}
  <2> HIDE DEF r
  <2>1. r = [o |-> Entered(o, i, st), ok |-> TRUE]
    BY <1>0 DEF r
  <2>2. r.ok = TRUE /\ r.o = Entered(o, i, st)
    BY <2>1
  <2> QED BY <1>0, <2>2, Zenon DEF HasEntered, r
<1> DEFINE v == Entered(o, i, st)
           u == [o.status EXCEPT ![i] = st]
           marked == [o EXCEPT !.status[i] = st]
<1>1. st \in Statuses /\ (st \in Held <=> st # "INACTIVE")
  BY DEF Settable, Statuses, Held, NotHeld
<1>2. marked = With(o, u, o.in, o.out) /\ u \in [1 .. o.n -> Statuses]
  BY <1>1, StatusSet
<1>3. /\ IsList(o.in) /\ Numbers(o.in) \subseteq 1 .. o.n /\ IsList(o.out) /\ Numbers(o.out) \subseteq 1 .. o.n
      /\ o.n \in Nat /\ i \in Nat
  BY ObjectParts DEF IsObject
<1>4. Length(o.in) < o.n /\ Length(o.out) < o.n /\ Length(o.in) \in Nat /\ Length(o.out) \in Nat
  BY <1>3, ListIsShort, ListPositions
<1>5. /\ IsList(AddNumber(o.in, i)) /\ Numbers(AddNumber(o.in, i)) = Numbers(o.in) \cup {i}
      /\ IsList(AddNumber(o.out, i)) /\ Numbers(AddNumber(o.out, i)) = Numbers(o.out) \cup {i}
  BY <1>3, AddNumberAdds
<1>6. ~(Length(o.in) >= o.n) /\ ~(Length(o.out) >= o.n)
  BY <1>3, <1>4
<1>7. CASE st \in Held
  <2>1. ListFor(st) = "in"
    BY <1>1, <1>7 DEF ListFor
  <2>2. v = With(o, u, AddNumber(o.in, i), o.out)
    BY <1>7 DEF Entered
  <2>3. AddIndex(o, "in", i, st) = [o |-> [marked EXCEPT !.in = AddNumber(@, i)], ok |-> TRUE]
    <3>1. o["in"] = o.in
      OBVIOUS
    <3> QED BY <3>1, <1>6, Zenon DEF AddIndex
  <2>4. [With(o, u, o.in, o.out) EXCEPT !.in = AddNumber(@, i)] = With(o, u, AddNumber(o.in, i), o.out)
    BY DEF With
  <2>5. AddIndex(o, ListFor(st), i, st) = [o |-> v, ok |-> TRUE]
    BY <2>1, <2>2, <2>3, <2>4, <1>2, Zenon
  <2>6. Numbers(o.in) \cup {i} \subseteq 1 .. o.n
    BY <1>3
  <2>7. IsObject(v)
    <3> HIDE DEF u, v
    <3> QED BY <2>2, <2>6, <1>2, <1>3, <1>5, WithIsObject
  <2> QED BY <2>2, <2>5, <2>7, <1>5, <1>7, WithFields
<1>8. CASE st \notin Held
  <2>1. ListFor(st) = "out"
    BY <1>1, <1>8 DEF ListFor
  <2>2. v = With(o, u, o.in, AddNumber(o.out, i))
    BY <1>8 DEF Entered
  <2>3. AddIndex(o, "out", i, st) = [o |-> [marked EXCEPT !.out = AddNumber(@, i)], ok |-> TRUE]
    <3>1. o["out"] = o.out
      OBVIOUS
    <3> QED BY <3>1, <1>6, Zenon DEF AddIndex
  <2>4. [With(o, u, o.in, o.out) EXCEPT !.out = AddNumber(@, i)] = With(o, u, o.in, AddNumber(o.out, i))
    BY DEF With
  <2>5. AddIndex(o, ListFor(st), i, st) = [o |-> v, ok |-> TRUE]
    BY <2>1, <2>2, <2>3, <2>4, <1>2, Zenon
  <2>6. Numbers(o.out) \cup {i} \subseteq 1 .. o.n
    BY <1>3
  <2>7. IsObject(v)
    <3> HIDE DEF u, v
    <3> QED BY <2>2, <2>6, <1>2, <1>3, <1>5, WithIsObject
  <2> QED BY <2>2, <2>5, <2>7, <1>5, <1>8, WithFields
<1> QED BY <1>7, <1>8

(* removeIndex(): an index leaves a list and has no status any more.       *)
HasLeft(o, list, i, v) ==
  /\ IsObject(v) /\ v.n = o.n /\ v.type = o.type /\ v.status = [o.status EXCEPT ![i] = "UNDEFINED"]
  /\ Numbers(v.in) = IF list = "in" THEN Numbers(o.in) \ {i} ELSE Numbers(o.in)
  /\ Numbers(v.out) = IF list = "out" THEN Numbers(o.out) \ {i} ELSE Numbers(o.out)

LEMMA RemoveIndexRemoves ==
  ASSUME NEW o, IsObject(o), NEW i \in 1 .. o.n, NEW list \in {"in", "out"},
         i \in Numbers(IF list = "in" THEN o.in ELSE o.out)
  PROVE  HasLeft(o, list, i, RemoveIndex(o, list, i))
<1> DEFINE v == RemoveIndex(o, list, i)
           u == [o.status EXCEPT ![i] = "UNDEFINED"]
<1>1. u \in [1 .. o.n -> Statuses]
  BY StatusSet DEF Statuses
<1>2. /\ IsList(o.in) /\ Numbers(o.in) \subseteq 1 .. o.n /\ IsList(o.out) /\ Numbers(o.out) \subseteq 1 .. o.n
      /\ o.n \in Nat /\ i \in Nat
  BY ObjectParts DEF IsObject
<1>3. CASE list = "in"
  <2>1. i \in Numbers(o.in)
    BY <1>3
  <2> DEFINE a == RemoveNumber(o.in, i)
  <2>2. IsList(a) /\ Numbers(a) = Numbers(o.in) \ {i}
    BY <1>2, <2>1, RemoveNumberRemoves
  <2>3. v = [o EXCEPT !.status[i] = "UNDEFINED", !.in = a]
    BY <1>3 DEF RemoveIndex
  <2> HIDE DEF a, v
  <2>4. v = With(o, u, a, o.out)
    BY <2>3 DEF IsObject, With
  <2> HIDE DEF u
  <2>5. IsObject(v)
    BY <2>2, <2>4, <1>1, <1>2, WithIsObject
  <2> QED BY <2>2, <2>4, <2>5, <1>3, WithFields DEF u, v, HasLeft
<1>4. CASE list = "out"
  <2>1. i \in Numbers(o.out)
    BY <1>4
  <2> DEFINE a == RemoveNumber(o.out, i)
  <2>2. IsList(a) /\ Numbers(a) = Numbers(o.out) \ {i}
    BY <1>2, <2>1, RemoveNumberRemoves
  <2>3. v = [o EXCEPT !.status[i] = "UNDEFINED", !.out = a]
    BY <1>4 DEF RemoveIndex
  <2> HIDE DEF a, v
  <2>4. v = With(o, u, o.in, a)
    BY <2>3 DEF IsObject, With
  <2> HIDE DEF u
  <2>5. IsObject(v)
    BY <2>2, <2>4, <1>1, <1>2, WithIsObject
  <2> QED BY <2>2, <2>4, <2>5, <1>4, WithFields DEF u, v, HasLeft
<1> QED BY <1>3, <1>4

(* moveFixedToFree() and its three likes: an index leaves one list and     *)
(* enters the other.                                                       *)
HasMoved(o, i, st, r) ==
  /\ r.ok = TRUE /\ IsObject(r.o) /\ r.o.n = o.n /\ r.o.status = [o.status EXCEPT ![i] = st]
  /\ Numbers(r.o.in) = IF st \in Held THEN Numbers(o.in) \cup {i} ELSE Numbers(o.in) \ {i}
  /\ Numbers(r.o.out) = IF st \in Held THEN Numbers(o.out) \ {i} ELSE Numbers(o.out) \cup {i}

LEMMA MoveMoves ==
  ASSUME NEW o, IsObject(o), Agrees(o), NEW i \in 1 .. o.n, NEW st \in Settable,
         NEW list \in {"in", "out"}, list # ListFor(st), i \in Numbers(IF list = "in" THEN o.in ELSE o.out)
  PROVE  HasMoved(o, i, st, AddIndex(RemoveIndex(o, list, i), ListFor(st), i, st))
<1> DEFINE v == RemoveIndex(o, list, i)
           r == AddIndex(v, ListFor(st), i, st)
<1>1. HasLeft(o, list, i, v)
  BY RemoveIndexRemoves
<1> HIDE DEF v
<1>2. o.status \in [1 .. o.n -> Statuses] /\ (st \in Held <=> list = "out") /\ st # "UNDEFINED"
  BY DEF IsObject, ListFor, Settable, Held
<1>3. i \notin Numbers(v.in) /\ i \notin Numbers(v.out)
  <2>1. ~(i \in Numbers(o.in) /\ i \in Numbers(o.out))
    BY DEF Agrees, Held, NotHeld
  <2> QED BY <2>1, <1>1 DEF HasLeft
<1>4. IsObject(v) /\ i \in 1 .. v.n /\ v.status[i] # st
  BY <1>1, <1>2 DEF HasLeft
<1>5. HasEntered(v, i, st, r)
  BY <1>3, <1>4, AddIndexAdds
<1> HIDE DEF r
<1>6. r.o.status = [o.status EXCEPT ![i] = st]
  <2> DEFINE u == [o.status EXCEPT ![i] = "UNDEFINED"]
  <2>1. [u EXCEPT ![i] = st] = [o.status EXCEPT ![i] = st]
    BY <1>2
  <2>2. v.status = u /\ r.o.status = [v.status EXCEPT ![i] = st]
    BY <1>1, <1>5, Zenon DEF HasLeft, HasEntered
  <2> QED BY <2>1, <2>2, Zenon
<1>7. /\ Numbers(r.o.in) = IF st \in Held THEN Numbers(o.in) \cup {i} ELSE Numbers(o.in) \ {i}
      /\ Numbers(r.o.out) = IF st \in Held THEN Numbers(o.out) \ {i} ELSE Numbers(o.out) \cup {i}
  BY <1>1, <1>2, <1>5 DEF HasLeft, HasEntered
<1>8. r.ok = TRUE /\ IsObject(r.o) /\ r.o.n = o.n
  BY <1>1, <1>5, Zenon DEF HasLeft, HasEntered
<1> QED BY <1>6, <1>7, <1>8, Zenon DEF r, v, HasMoved

(* swapIndex(): two indices of the same status change places.              *)
LEMMA SwapIndexSwaps ==
  ASSUME NEW o, IsObject(o), NEW i \in 1 .. o.n, NEW j \in 1 .. o.n,
         i \in Numbers(o.out), j \in Numbers(o.out)
  PROVE  LET r == SwapIndex(o, "out", i, j)
         IN  /\ r.ok \in BOOLEAN /\ IsObject(r.o) /\ r.o.n = o.n /\ r.o.type = o.type /\ r.o.status = o.status
             /\ Numbers(r.o.in) = Numbers(o.in) /\ Numbers(r.o.out) = Numbers(o.out)
<1> DEFINE r == SwapIndex(o, "out", i, j)
           a == SwapNumbers(o.out, i, j)
<1>1. /\ IsList(o.in) /\ Numbers(o.in) \subseteq 1 .. o.n /\ IsList(o.out) /\ Numbers(o.out) \subseteq 1 .. o.n
      /\ o.n \in Nat /\ i \in Nat /\ j \in Nat /\ o.status \in [1 .. o.n -> Statuses]
  BY ObjectParts DEF IsObject
<1>2. \/ r = [o |-> o, ok |-> FALSE]
      \/ r = [o |-> o, ok |-> TRUE]
      \/ i # j /\ r = [o |-> [o EXCEPT !.out = a], ok |-> TRUE]
  <2>1. o["out"] = o.out
    OBVIOUS
  <2> QED BY <2>1, Zenon DEF SwapIndex
<1>3. CASE r = [o |-> o, ok |-> FALSE] \/ r = [o |-> o, ok |-> TRUE]
  <2> HIDE DEF r
  <2>1. CASE r = [o |-> o, ok |-> FALSE]
    <3>1. r.o = o /\ r.ok = FALSE
      BY <2>1
    <3> QED BY <3>1, Zenon DEF r
  <2>2. CASE r = [o |-> o, ok |-> TRUE]
    <3>1. r.o = o /\ r.ok = TRUE
      BY <2>2
    <3> QED BY <3>1, Zenon DEF r
  <2> QED BY <2>1, <2>2, <1>3
<1>4. CASE i # j /\ r = [o |-> [o EXCEPT !.out = a], ok |-> TRUE]
  <2>1. IsList(a) /\ Numbers(a) = Numbers(o.out)
    BY <1>1, <1>4, SwapNumbersSwaps
  <2> DEFINE v == [o EXCEPT !.out = a]
  <2>2. v = With(o, o.status, o.in, a)
    BY DEF IsObject, With
  <2> HIDE DEF r, a, v
  <2>3. IsObject(v)
    BY <2>1, <2>2, <1>1, WithIsObject
  <2>4. r.o = v /\ r.ok = TRUE
    BY <1>4 DEF v
  <2>5. v.n = o.n /\ v.type = o.type /\ v.status = o.status /\ v.in = o.in /\ v.out = a
    BY <2>2, WithFields
  <2> QED BY <2>1, <2>3, <2>4, <2>5, Zenon DEF r
<1> QED BY <1>2, <1>3, <1>4

-----------------------------------------------------------------------------
(* setupAll().                                                             *)

(* The function of a loop satisfies the equation that defines it.          *)
LEMMA SetupLoopRecursion ==
  ASSUME NEW r, NEW rank, NEW st, r.o.n \in Nat
  PROVE  /\ SetupBoundLoop(r, rank, st)[0] = r
         /\ \A k \in 1 .. r.o.n :
              SetupBoundLoop(r, rank, st)[k] = SetupBoundTurn(SetupBoundLoop(r, rank, st)[k - 1], rank, k, st)
<1> DEFINE N == r.o.n
           D == 0 .. N
           Body(f, k) == IF k = 0 THEN r ELSE SetupBoundTurn(f[k - 1], rank, k, st)
           P == {m \in Nat : \E f : \A k \in D : k <= m => f[k] = Body(f, k)}
<1>0. N \in Nat
  OBVIOUS
<1>9. SetupBoundLoop(r, rank, st) = CHOOSE h : h = [k \in D |-> Body(h, k)]
  BY Zenon DEF SetupBoundLoop
<1> HIDE DEF N
<1>1. 0 \in P
  <2> DEFINE f == [k \in D |-> r]
  <2>1. \A k \in D : k <= 0 => f[k] = Body(f, k)
    BY <1>0
  <2> HIDE DEF f
  <2> QED BY <2>1
<1>2. ASSUME NEW m \in Nat, m \in P PROVE m + 1 \in P
  <2>1. PICK f : \A k \in D : k <= m => f[k] = Body(f, k)
    BY <1>2
  <2> DEFINE g == [k \in D |-> Body(f, k)]
  <2> SUFFICES \A k \in D : k <= m + 1 => g[k] = Body(g, k)
    <3> HIDE DEF g
    <3> QED OBVIOUS
  <2> SUFFICES ASSUME NEW k \in D, k <= m + 1, k # 0 PROVE g[k] = Body(g, k)
    OBVIOUS
  <2>2. k - 1 \in D /\ k - 1 <= m
    BY <1>0
  <2>3. g[k - 1] = f[k - 1]
    BY <2>1, <2>2
  <2>4. g[k] = Body(f, k)
    OBVIOUS
  <2> HIDE DEF g
  <2> QED BY <2>3, <2>4
<1>3. N \in P
  <2> HIDE DEF P
  <2> QED BY <1>0, <1>1, <1>2, NatSetInduction
<1>4. PICK f : \A k \in D : k <= N => f[k] = Body(f, k)
  BY <1>3
<1> DEFINE g == [k \in D |-> f[k]]
<1>5. \A k \in D : f[k] = Body(f, k)
  BY <1>4, <1>0
<1>6. g = [k \in D |-> Body(g, k)]
  <2> SUFFICES ASSUME NEW k \in D PROVE f[k] = Body(g, k)
    OBVIOUS
  <2>1. k # 0 => k - 1 \in D
    BY <1>0
  <2>2. k # 0 => g[k - 1] = f[k - 1]
    BY <2>1
  <2>3. f[k] = Body(f, k)
    BY <1>5
  <2> HIDE DEF g
  <2> QED BY <2>2, <2>3
<1> DEFINE L == SetupBoundLoop(r, rank, st)
<1>7. L = [k \in D |-> Body(L, k)]
  <2> HIDE DEF g, D, Body
  <2> QED BY <1>6, <1>9, Zenon
<1>8. \A k \in D : L[k] = Body(L, k)
  <2> HIDE DEF Body, L
  <2> QED BY <1>7, Zenon
<1> HIDE DEF L
<1>10. 0 \in D /\ \A k \in 1 .. N : k \in D /\ k # 0
  BY <1>0
<1> QED BY <1>8, <1>10 DEF N, L

(* The indices I of o have been set up with status st, and no others.      *)
SetUp(o, r, st, I) ==
  /\ r.ok = TRUE /\ IsObject(r.o) /\ r.o.n = o.n /\ r.o.type = o.type
  /\ r.o.status = [i \in 1 .. o.n |-> IF i \in I THEN st ELSE o.status[i]]
  /\ Numbers(r.o.in) = IF st \in Held THEN Numbers(o.in) \cup I ELSE Numbers(o.in)
  /\ Numbers(r.o.out) = IF st \in Held THEN Numbers(o.out) ELSE Numbers(o.out) \cup I

LEMMA OneMoreSetUp ==
  ASSUME NEW o, IsObject(o), NEW r, NEW st \in Settable, NEW I, SetUp(o, r, st, I), NEW i \in 1 .. o.n, i \notin I,
         o.status[i] = "UNDEFINED", i \notin Numbers(o.in), i \notin Numbers(o.out)
  PROVE  SetUp(o, AddIndex(r.o, ListFor(st), i, st), st, I \cup {i})
<1> DEFINE v == r.o
           q == AddIndex(v, ListFor(st), i, st)
<1>1. /\ r.ok = TRUE /\ IsObject(v) /\ v.n = o.n /\ v.type = o.type
      /\ v.status = [k \in 1 .. o.n |-> IF k \in I THEN st ELSE o.status[k]]
      /\ Numbers(v.in) = IF st \in Held THEN Numbers(o.in) \cup I ELSE Numbers(o.in)
      /\ Numbers(v.out) = IF st \in Held THEN Numbers(o.out) ELSE Numbers(o.out) \cup I
  BY DEF SetUp
<1> HIDE DEF v
<1>2. i \in 1 .. v.n /\ v.status[i] # st /\ i \notin Numbers(v.in) /\ i \notin Numbers(v.out)
  BY <1>1 DEF Settable, Held
<1>3. HasEntered(v, i, st, q)
  BY <1>1, <1>2, AddIndexAdds
<1> HIDE DEF q
<1>4. /\ q.ok = TRUE /\ IsObject(q.o) /\ q.o.n = v.n /\ q.o.type = v.type
      /\ q.o.status = [v.status EXCEPT ![i] = st]
      /\ Numbers(q.o.in) = IF st \in Held THEN Numbers(v.in) \cup {i} ELSE Numbers(v.in)
      /\ Numbers(q.o.out) = IF st \in Held THEN Numbers(v.out) ELSE Numbers(v.out) \cup {i}
  BY <1>3, Zenon DEF HasEntered
<1>5. q.o.status = [k \in 1 .. o.n |-> IF k \in I \cup {i} THEN st ELSE o.status[k]]
  BY <1>1, <1>4
<1>6. /\ Numbers(q.o.in) = IF st \in Held THEN Numbers(o.in) \cup (I \cup {i}) ELSE Numbers(o.in)
      /\ Numbers(q.o.out) = IF st \in Held THEN Numbers(o.out) ELSE Numbers(o.out) \cup (I \cup {i})
  BY <1>1, <1>4
<1> QED BY <1>1, <1>4, <1>5, <1>6, Zenon DEF SetUp, q, v

(* What the loops up to rank, and the last one up to k, have set up.       *)
Ranked(o, rank, k) ==
  {i \in 1 .. o.n : RankOf(o.type[i]) < rank \/ (RankOf(o.type[i]) = rank /\ i <= k)}

LEMMA RankRange ==
  ASSUME NEW t \in AllTypes
  PROVE  RankOf(t) \in 1 .. 4
  BY DEF AllTypes, RankOf

LEMMA SetupBoundsSetsUp ==
  ASSUME NEW o, IsObject(o), NEW r, NEW st \in Settable, NEW rank \in 1 .. 4, SetUp(o, r, st, Ranked(o, rank, 0)),
         \A i \in 1 .. o.n : o.status[i] = "UNDEFINED" /\ i \notin Numbers(o.in) /\ i \notin Numbers(o.out)
  PROVE  SetUp(o, SetupBounds(r, rank, st), st, Ranked(o, rank, o.n))
<1> DEFINE L == SetupBoundLoop(r, rank, st)
           P == {k \in Nat : k <= o.n => SetUp(o, L[k], st, Ranked(o, rank, k))}
<1>1. o.n \in Nat /\ r.o.n = o.n /\ o.type \in [1 .. o.n -> AllTypes]
  BY ObjectParts DEF SetUp, IsObject
<1>2. L[0] = r /\ \A k \in 1 .. o.n : L[k] = SetupBoundTurn(L[k - 1], rank, k, st)
  BY <1>1, SetupLoopRecursion
<1> HIDE DEF L
<1>3. 0 \in P
  BY <1>2
<1>4. ASSUME NEW k \in Nat, k \in P PROVE k + 1 \in P
  <2> SUFFICES ASSUME k + 1 <= o.n PROVE SetUp(o, L[k + 1], st, Ranked(o, rank, k + 1))
    OBVIOUS
  <2>1. k + 1 \in 1 .. o.n /\ (k + 1) - 1 = k /\ k <= o.n
    BY <1>1
  <2> DEFINE q == L[k]
  <2>2. SetUp(o, q, st, Ranked(o, rank, k))
    BY <2>1, <1>4
  <2>3. L[k + 1] = SetupBoundTurn(q, rank, k + 1, st)
    BY <2>1, <1>2
  <2> HIDE DEF q
  <2>4. q.ok = TRUE /\ q.o.type = o.type
    BY <2>2, Zenon DEF SetUp
  <2>5. RankOf(o.type[k + 1]) \in Nat
    BY <2>1, <1>1, RankRange
  <2>6. CASE RankOf(o.type[k + 1]) = rank
    <3>1. L[k + 1] = AddIndex(q.o, ListFor(st), k + 1, st)
      BY <2>3, <2>4, <2>6, Zenon DEF SetupBoundTurn, SetupBound
    <3>2. Ranked(o, rank, k + 1) = Ranked(o, rank, k) \cup {k + 1} /\ k + 1 \notin Ranked(o, rank, k)
      BY <2>1, <2>6 DEF Ranked
    <3> DEFINE i == k + 1
               I == Ranked(o, rank, k)
    <3>3. i \in 1 .. o.n /\ i \notin I /\ o.status[i] = "UNDEFINED" /\ i \notin Numbers(o.in) /\ i \notin Numbers(o.out)
      BY <2>1, <3>2
    <3> HIDE DEF i, I
    <3>4. SetUp(o, q, st, I)
      BY <2>2 DEF I
    <3>5. SetUp(o, AddIndex(q.o, ListFor(st), i, st), st, I \cup {i})
      BY <3>3, <3>4, OneMoreSetUp
    <3> QED BY <3>1, <3>2, <3>5, Zenon DEF i, I
  <2>7. CASE RankOf(o.type[k + 1]) # rank
    <3>1. L[k + 1] = q
      BY <2>3, <2>4, <2>7, Zenon DEF SetupBoundTurn
    <3>2. Ranked(o, rank, k + 1) = Ranked(o, rank, k)
      BY <2>1, <2>7 DEF Ranked
    <3> QED BY <3>1, <3>2, <2>2
  <2> QED BY <2>6, <2>7
<1>5. o.n \in P
  <2> HIDE DEF P
  <2> QED BY <1>1, <1>3, <1>4, NatSetInduction
<1>6. SetUp(o, L[o.n], st, Ranked(o, rank, o.n))
  BY <1>1, <1>5
<1> QED BY <1>1, <1>6 DEF SetupBounds, L

(* setupAll(): every index of a blank object, whatever its type, enters    *)
(* one list, once.                                                         *)
LEMMA SetupAllSetsUp ==
  ASSUME NEW o, IsObject(o), Agrees(o), NEW st \in Settable, \A i \in 1 .. o.n : o.status[i] = "UNDEFINED"
  PROVE  SetUp(o, SetupAllBounds(o, st), st, 1 .. o.n)
<1> DEFINE r0 == [o |-> o, ok |-> TRUE]
           r1 == SetupBounds(r0, 1, st)
           r2 == SetupBounds(r1, 2, st)
           r3 == SetupBounds(r2, 3, st)
           r4 == SetupBounds(r3, 4, st)
<1>1. \A i \in 1 .. o.n : o.status[i] = "UNDEFINED" /\ i \notin Numbers(o.in) /\ i \notin Numbers(o.out)
  BY DEF Agrees, Held, NotHeld
<1>2. o.n \in Nat /\ \A i \in 1 .. o.n : RankOf(o.type[i]) \in 1 .. 4
  BY ObjectParts, RankRange
<1>3. /\ Ranked(o, 1, 0) = {} /\ Ranked(o, 1, o.n) = Ranked(o, 2, 0) /\ Ranked(o, 2, o.n) = Ranked(o, 3, 0)
      /\ Ranked(o, 3, o.n) = Ranked(o, 4, 0) /\ Ranked(o, 4, o.n) = 1 .. o.n
  <2>1. \A i \in 1 .. o.n : i <= o.n /\ ~(i <= 0)
    BY <1>2
  <2>2. ASSUME NEW a \in 1 .. 3 PROVE Ranked(o, a, o.n) = Ranked(o, a + 1, 0)
    BY <1>2, <2>1 DEF Ranked
  <2>3. Ranked(o, 1, 0) = {}
    BY <1>2, <2>1 DEF Ranked
  <2>4. Ranked(o, 4, o.n) = 1 .. o.n
    BY <1>2, <2>1 DEF Ranked
  <2>5. Ranked(o, 1, o.n) = Ranked(o, 2, 0)
    BY <2>2
  <2>6. Ranked(o, 2, o.n) = Ranked(o, 3, 0)
    BY <2>2
  <2>7. Ranked(o, 3, o.n) = Ranked(o, 4, 0)
    BY <2>2
  <2> QED BY <2>3, <2>4, <2>5, <2>6, <2>7
<1>4. SetUp(o, r0, st, {})
  <2>1. r0.o = o /\ r0.ok = TRUE
    OBVIOUS
  <2>2. o.status = [i \in 1 .. o.n |-> IF i \in {} THEN st ELSE o.status[i]]
    BY DEF IsObject
  <2> HIDE DEF r0
  <2> QED BY <2>1, <2>2 DEF SetUp
<1> HIDE DEF r0
<1>5. SetUp(o, r0, st, Ranked(o, 1, 0))
  BY <1>3, <1>4
<1>6. SetUp(o, r1, st, Ranked(o, 1, o.n))
  BY <1>1, <1>5, SetupBoundsSetsUp
<1> HIDE DEF r1
<1>7. SetUp(o, r1, st, Ranked(o, 2, 0))
  BY <1>3, <1>6
<1>8. SetUp(o, r2, st, Ranked(o, 2, o.n))
  BY <1>1, <1>7, SetupBoundsSetsUp
<1> HIDE DEF r2
<1>9. SetUp(o, r2, st, Ranked(o, 3, 0))
  BY <1>3, <1>8
<1>10. SetUp(o, r3, st, Ranked(o, 3, o.n))
  BY <1>1, <1>9, SetupBoundsSetsUp
<1> HIDE DEF r3
<1>11. SetUp(o, r3, st, Ranked(o, 4, 0))
  BY <1>3, <1>10
<1>12. SetUp(o, r4, st, Ranked(o, 4, o.n))
  BY <1>1, <1>11, SetupBoundsSetsUp
<1> HIDE DEF r4
<1>13. SetUp(o, r4, st, 1 .. o.n)
  BY <1>3, <1>12
<1> QED BY <1>13, Zenon DEF SetupAllBounds, r0, r1, r2, r3, r4

(* Constraints::setupAll() does what Bounds::setupAll() does.              *)
LEMMA SetupAllAlike ==
  ASSUME NEW o, NEW st
  PROVE  SetupAllConstraints(o, st) = SetupAllBounds(o, st)
<1>1. ASSUME NEW r, NEW rank PROVE SetupConstraints(r, rank, st) = SetupBounds(r, rank, st)
  <2>1. SetupConstraintLoop(r, rank, st) = SetupBoundLoop(r, rank, st)
    BY Zenon DEF SetupConstraintLoop, SetupBoundLoop, SetupConstraintTurn, SetupBoundTurn, SetupConstraint, SetupBound
  <2> QED BY <2>1, Zenon DEF SetupConstraints, SetupBounds
<1> QED BY <1>1, Zenon DEF SetupAllConstraints, SetupAllBounds

-----------------------------------------------------------------------------
(* shift() and rotate().                                                   *)

(* The function that fills the lists satisfies the equation that defines   *)
(* it.                                                                     *)
LEMMA FiledRecursion ==
  ASSUME NEW o, o.n \in Nat
  PROVE  /\ FiledUpTo(o)[0] = [in |-> EmptyList, out |-> EmptyList]
         /\ \A k \in 1 .. o.n : FiledUpTo(o)[k] = Filed(o, k, FiledUpTo(o)[k - 1])
<1> DEFINE N == o.n
           D == 0 .. N
           r == [in |-> EmptyList, out |-> EmptyList]
           Body(f, k) == IF k = 0 THEN r ELSE Filed(o, k, f[k - 1])
           P == {m \in Nat : \E f : \A k \in D : k <= m => f[k] = Body(f, k)}
<1>0. N \in Nat
  OBVIOUS
<1>9. FiledUpTo(o) = CHOOSE h : h = [k \in D |-> Body(h, k)]
  BY Zenon DEF FiledUpTo
<1> HIDE DEF N, r
<1>1. 0 \in P
  <2> DEFINE f == [k \in D |-> r]
  <2>1. \A k \in D : k <= 0 => f[k] = Body(f, k)
    BY <1>0
  <2> HIDE DEF f
  <2> QED BY <2>1
<1>2. ASSUME NEW m \in Nat, m \in P PROVE m + 1 \in P
  <2>1. PICK f : \A k \in D : k <= m => f[k] = Body(f, k)
    BY <1>2
  <2> DEFINE g == [k \in D |-> Body(f, k)]
  <2> SUFFICES \A k \in D : k <= m + 1 => g[k] = Body(g, k)
    <3> HIDE DEF g
    <3> QED OBVIOUS
  <2> SUFFICES ASSUME NEW k \in D, k <= m + 1, k # 0 PROVE g[k] = Body(g, k)
    OBVIOUS
  <2>2. k - 1 \in D /\ k - 1 <= m
    BY <1>0
  <2>3. g[k - 1] = f[k - 1]
    BY <2>1, <2>2
  <2>4. g[k] = Body(f, k)
    OBVIOUS
  <2> HIDE DEF g
  <2> QED BY <2>3, <2>4
<1>3. N \in P
  <2> HIDE DEF P
  <2> QED BY <1>0, <1>1, <1>2, NatSetInduction
<1>4. PICK f : \A k \in D : k <= N => f[k] = Body(f, k)
  BY <1>3
<1> DEFINE g == [k \in D |-> f[k]]
<1>5. \A k \in D : f[k] = Body(f, k)
  BY <1>4, <1>0
<1>6. g = [k \in D |-> Body(g, k)]
  <2> SUFFICES ASSUME NEW k \in D PROVE f[k] = Body(g, k)
    OBVIOUS
  <2>1. k # 0 => k - 1 \in D
    BY <1>0
  <2>2. k # 0 => g[k - 1] = f[k - 1]
    BY <2>1
  <2>3. f[k] = Body(f, k)
    BY <1>5
  <2> HIDE DEF g
  <2> QED BY <2>2, <2>3
<1> DEFINE L == FiledUpTo(o)
<1>7. L = [k \in D |-> Body(L, k)]
  <2> HIDE DEF g, D, Body
  <2> QED BY <1>6, <1>9, Zenon
<1>8. \A k \in D : L[k] = Body(L, k)
  <2> HIDE DEF Body, L
  <2> QED BY <1>7, Zenon
<1> HIDE DEF L
<1>10. 0 \in D /\ \A k \in 1 .. N : k \in D /\ k # 0
  BY <1>0
<1> QED BY <1>8, <1>10 DEF N, L, r

(* The lists of the first k indices.                                       *)
AreLists(o, k, ls) ==
  /\ ls = [in |-> ls.in, out |-> ls.out] /\ IsList(ls.in) /\ IsList(ls.out)
  /\ Numbers(ls.in) = {i \in 1 .. k : o.status[i] \in Held}
  /\ Numbers(ls.out) = {i \in 1 .. k : o.status[i] \in NotHeld}

LEMMA FiledFiles ==
  ASSUME NEW o, IsObject(o), \A i \in 1 .. o.n : o.status[i] \in Settable
  PROVE  AreLists(o, o.n, FiledUpTo(o)[o.n])
<1> DEFINE L == FiledUpTo(o)
           P == {k \in Nat : k <= o.n => AreLists(o, k, L[k])}
<1>1. o.n \in Nat
  BY ObjectParts
<1>2. L[0] = [in |-> EmptyList, out |-> EmptyList] /\ \A k \in 1 .. o.n : L[k] = Filed(o, k, L[k - 1])
  BY <1>1, FiledRecursion
<1> HIDE DEF L
<1>3. 0 \in P
  <2>1. L[0].in = EmptyList /\ L[0].out = EmptyList /\ L[0] = [in |-> L[0].in, out |-> L[0].out]
    BY <1>2
  <2>2. AreLists(o, 0, L[0])
    BY <2>1, EmptyIsList DEF AreLists
  <2> QED BY <2>2
<1>4. ASSUME NEW k \in Nat, k \in P PROVE k + 1 \in P
  <2> SUFFICES ASSUME k + 1 <= o.n PROVE AreLists(o, k + 1, L[k + 1])
    OBVIOUS
  <2> DEFINE j == k + 1
             a == L[k].in
             b == L[k].out
             w == L[j]
  <2>1. j \in 1 .. o.n /\ j \in Nat /\ j - 1 = k /\ k <= o.n /\ j \notin 1 .. k /\ 1 .. j = (1 .. k) \cup {j}
    BY <1>1
  <2>2. AreLists(o, k, L[k])
    BY <2>1, <1>4
  <2>3. L[k] = [in |-> a, out |-> b] /\ IsList(a) /\ IsList(b)
    BY <2>2, Zenon DEF AreLists
  <2>4. /\ Numbers(a) = {i \in 1 .. k : o.status[i] \in Held}
        /\ Numbers(b) = {i \in 1 .. k : o.status[i] \in NotHeld}
    BY <2>2, Zenon DEF AreLists
  <2>5. w = [[in |-> a, out |-> b] EXCEPT ![ListFor(o.status[j])] = AddNumber(@, j)]
    BY <2>1, <2>3, <1>2, Zenon DEF Filed
  <2>6. o.status[j] \in Settable
    BY <2>1
  <2> HIDE DEF j, a, b, w
  <2>7. j \notin Numbers(a) /\ j \notin Numbers(b)
    BY <2>1, <2>4
  <2>8. /\ IsList(AddNumber(a, j)) /\ Numbers(AddNumber(a, j)) = Numbers(a) \cup {j}
        /\ IsList(AddNumber(b, j)) /\ Numbers(AddNumber(b, j)) = Numbers(b) \cup {j}
    BY <2>1, <2>3, <2>7, AddNumberAdds
  <2>9. CASE o.status[j] \in Held
    <3>1. o.status[j] \notin NotHeld /\ ListFor(o.status[j]) = "in"
      BY <2>9 DEF Held, NotHeld, ListFor
    <3>2. w = [in |-> AddNumber(a, j), out |-> b]
      <4>1. w = [[in |-> a, out |-> b] EXCEPT !.in = AddNumber(@, j)]
        BY <2>5, <3>1, Zenon
      <4> QED BY <4>1
    <3>3. w.in = AddNumber(a, j) /\ w.out = b /\ w = [in |-> w.in, out |-> w.out]
      BY <3>2
    <3>4. Numbers(w.in) = {i \in 1 .. j : o.status[i] \in Held}
      BY <3>3, <2>1, <2>4, <2>8, <2>9
    <3>5. Numbers(w.out) = {i \in 1 .. j : o.status[i] \in NotHeld}
      BY <3>1, <3>3, <2>1, <2>4
    <3>6. AreLists(o, j, w)
      BY <3>3, <3>4, <3>5, <2>3, <2>8, Zenon DEF AreLists
    <3> QED BY <3>6 DEF j, w
  <2>10. CASE o.status[j] \notin Held
    <3>1. o.status[j] \in NotHeld /\ ListFor(o.status[j]) = "out"
      BY <2>6, <2>10 DEF Settable, Held, NotHeld, ListFor
    <3>2. w = [in |-> a, out |-> AddNumber(b, j)]
      <4>1. w = [[in |-> a, out |-> b] EXCEPT !.out = AddNumber(@, j)]
        BY <2>5, <3>1, Zenon
      <4> QED BY <4>1
    <3>3. w.in = a /\ w.out = AddNumber(b, j) /\ w = [in |-> w.in, out |-> w.out]
      BY <3>2
    <3>4. Numbers(w.in) = {i \in 1 .. j : o.status[i] \in Held}
      BY <3>3, <2>1, <2>4, <2>10
    <3>5. Numbers(w.out) = {i \in 1 .. j : o.status[i] \in NotHeld}
      BY <3>1, <3>3, <2>1, <2>4, <2>8
    <3>6. AreLists(o, j, w)
      BY <3>3, <3>4, <3>5, <2>3, <2>8, Zenon DEF AreLists
    <3> QED BY <3>6 DEF j, w
  <2> QED BY <2>9, <2>10
<1>5. o.n \in P
  <2> HIDE DEF P
  <2> QED BY <1>1, <1>3, <1>4, NatSetInduction
<1> QED BY <1>1, <1>5 DEF L

(* The lists are rebuilt from the statuses, or left as they were.          *)
LEMMA RebuiltAgrees ==
  ASSUME NEW o, IsObject(o)
  PROVE  /\ Rebuilt(o).ok \in BOOLEAN /\ IsObject(Rebuilt(o).o)
         /\ Rebuilt(o).o.n = o.n /\ Rebuilt(o).o.status = o.status
         /\ Rebuilt(o).ok => Agrees(Rebuilt(o).o)
<1> DEFINE r == Rebuilt(o)
           ls == FiledUpTo(o)[o.n]
           v == [o EXCEPT !.in = ls.in, !.out = ls.out]
<1>0. o.status \in [1 .. o.n -> Statuses]
  BY DEF IsObject
<1>1. CASE \A i \in 1 .. o.n : o.status[i] \in Settable
  <2>1. r = [o |-> v, ok |-> TRUE]
    BY <1>1, Zenon DEF Rebuilt, Settable
  <2>2. AreLists(o, o.n, ls)
    BY <1>1, FiledFiles
  <2>3. v = With(o, o.status, ls.in, ls.out)
    <3> DEFINE a == ls.in
               b == ls.out
    <3> HIDE DEF a, b
    <3>2. [o EXCEPT !.in = a, !.out = b] = [n |-> o.n, type |-> o.type, status |-> o.status, in |-> a, out |-> b]
      BY TwoFields, Zenon
    <3> QED BY <3>2, Zenon DEF a, b, With
  <2>4. v.n = o.n /\ v.status = o.status /\ v.in = ls.in /\ v.out = ls.out
    BY <2>3, WithFields
  <2> HIDE DEF v, r, ls
  <2>5. IsList(ls.in) /\ IsList(ls.out) /\ Numbers(ls.in) \subseteq 1 .. o.n /\ Numbers(ls.out) \subseteq 1 .. o.n
    BY <2>2 DEF AreLists
  <2>6. IsObject(v)
    BY <2>3, <2>5, <1>0, WithIsObject
  <2>7. Agrees(v)
    BY <2>2, <2>4, Zenon DEF AreLists, Agrees
  <2>8. r.ok = TRUE /\ r.o = v
    BY <2>1
  <2> QED BY <2>4, <2>6, <2>7, <2>8, Zenon DEF r
<1>2. CASE ~(\A i \in 1 .. o.n : o.status[i] \in Settable)
  <2>1. r = [o |-> o, ok |-> FALSE]
    BY <1>2, Zenon DEF Rebuilt, Settable
  <2> HIDE DEF r
  <2>2. r.ok = FALSE /\ r.o = o
    BY <2>1
  <2> QED BY <2>2, Zenon DEF r
<1> QED BY <1>1, <1>2

(* shift() and rotate(): the statuses move, and the lists with them.       *)
HasRearranged(o, from, r) ==
  /\ r.ok \in BOOLEAN /\ IsObject(r.o) /\ r.o.n = o.n
  /\ r.o.status = [i \in 1 .. o.n |-> o.status[from[i]]]
  /\ r.ok => Agrees(r.o)

LEMMA RearrangedAgrees ==
  ASSUME NEW o, IsObject(o), NEW from \in [1 .. o.n -> 1 .. o.n]
  PROVE  HasRearranged(o, from, Rearranged(o, from))
<1> DEFINE T == [i \in 1 .. o.n |-> o.type[from[i]]]
           U == [i \in 1 .. o.n |-> o.status[from[i]]]
           v == [o EXCEPT !.type = T, !.status = U]
<1>1. T \in [1 .. o.n -> AllTypes] /\ U \in [1 .. o.n -> Statuses]
  BY DEF IsObject
<1>2. Rearranged(o, from) = Rebuilt(v)
  BY Zenon DEF Rearranged
<1>3. U = [i \in 1 .. o.n |-> o.status[from[i]]]
  OBVIOUS
<1> HIDE DEF T, U
<1>4. v = [n |-> o.n, type |-> T, status |-> U, in |-> o.in, out |-> o.out]
  BY TwoFields, Zenon
<1> HIDE DEF v
<1>5. v.n = o.n /\ v.type = T /\ v.status = U /\ v.in = o.in /\ v.out = o.out
  BY <1>4
<1>6. v = [n |-> v.n, type |-> v.type, status |-> v.status, in |-> v.in, out |-> v.out]
  BY <1>4, <1>5, Zenon
<1>7. o.n \in Sizes /\ IsList(o.in) /\ Numbers(o.in) \subseteq 1 .. o.n /\ IsList(o.out) /\ Numbers(o.out) \subseteq 1 .. o.n
  BY DEF IsObject
<1>8. IsObject(v)
  BY <1>1, <1>5, <1>6, <1>7, Zenon DEF IsObject
<1>9. /\ Rebuilt(v).ok \in BOOLEAN /\ IsObject(Rebuilt(v).o)
      /\ Rebuilt(v).o.n = v.n /\ Rebuilt(v).o.status = v.status
      /\ Rebuilt(v).ok => Agrees(Rebuilt(v).o)
  BY <1>8, RebuiltAgrees
<1> QED BY <1>2, <1>3, <1>5, <1>9, Zenon DEF HasRearranged

-----------------------------------------------------------------------------
(* The lists agree with the statuses after an operation that succeeds.     *)

LEMMA SetUpAgrees ==
  ASSUME NEW o, IsObject(o), Agrees(o), NEW st \in Settable, NEW I \in SUBSET (1 .. o.n), NEW r, SetUp(o, r, st, I),
         \A i \in I : o.status[i] = "UNDEFINED"
  PROVE  Agrees(r.o)
<1> DEFINE v == r.o
<1>1. /\ v.n = o.n /\ v.status = [i \in 1 .. o.n |-> IF i \in I THEN st ELSE o.status[i]]
      /\ Numbers(v.in) = IF st \in Held THEN Numbers(o.in) \cup I ELSE Numbers(o.in)
      /\ Numbers(v.out) = IF st \in Held THEN Numbers(o.out) ELSE Numbers(o.out) \cup I
  BY DEF SetUp
<1>2. Numbers(o.in) = {i \in 1 .. o.n : o.status[i] \in Held} /\ Numbers(o.out) = {i \in 1 .. o.n : o.status[i] \in NotHeld}
  BY DEF Agrees
<1>3. "UNDEFINED" \notin Held \cup NotHeld /\ (st \notin Held <=> st \in NotHeld)
  BY DEF Settable, Held, NotHeld
<1> HIDE DEF v
<1>4. Numbers(v.in) = {i \in 1 .. v.n : v.status[i] \in Held}
  BY <1>1, <1>2, <1>3
<1>5. Numbers(v.out) = {i \in 1 .. v.n : v.status[i] \in NotHeld}
  BY <1>1, <1>2, <1>3
<1> QED BY <1>4, <1>5 DEF Agrees, v

LEMMA EnteredIsSetUp ==
  ASSUME NEW o, IsObject(o), NEW i \in 1 .. o.n, NEW st \in Settable, NEW r, HasEntered(o, i, st, r)
  PROVE  SetUp(o, r, st, {i})
<1>1. [o.status EXCEPT ![i] = st] = [k \in 1 .. o.n |-> IF k \in {i} THEN st ELSE o.status[k]]
  BY DEF IsObject
<1> QED BY <1>1, Zenon DEF SetUp, HasEntered

LEMMA MovedAgrees ==
  ASSUME NEW o, IsObject(o), Agrees(o), NEW i \in 1 .. o.n, NEW st \in Settable, NEW r, HasMoved(o, i, st, r)
  PROVE  Agrees(r.o)
<1> DEFINE v == r.o
<1>1. /\ v.n = o.n /\ v.status = [o.status EXCEPT ![i] = st]
      /\ Numbers(v.in) = IF st \in Held THEN Numbers(o.in) \cup {i} ELSE Numbers(o.in) \ {i}
      /\ Numbers(v.out) = IF st \in Held THEN Numbers(o.out) \ {i} ELSE Numbers(o.out) \cup {i}
  BY DEF HasMoved
<1>2. Numbers(o.in) = {k \in 1 .. o.n : o.status[k] \in Held} /\ Numbers(o.out) = {k \in 1 .. o.n : o.status[k] \in NotHeld}
  BY DEF Agrees
<1>3. (st \notin Held <=> st \in NotHeld) /\ o.status \in [1 .. o.n -> Statuses]
  BY DEF Settable, Held, NotHeld, IsObject
<1> HIDE DEF v
<1>4. Numbers(v.in) = {k \in 1 .. v.n : v.status[k] \in Held}
  BY <1>1, <1>2, <1>3
<1>5. Numbers(v.out) = {k \in 1 .. v.n : v.status[k] \in NotHeld}
  BY <1>1, <1>2, <1>3
<1> QED BY <1>4, <1>5 DEF Agrees, v

(* A status that changes without the index changing its list.              *)
LEMMA MarkedAgrees ==
  ASSUME NEW o, IsObject(o), Agrees(o), NEW i \in 1 .. o.n, NEW st,
         (o.status[i] \in Held /\ st \in Held) \/ (o.status[i] \in NotHeld /\ st \in NotHeld)
  PROVE  LET v == [o EXCEPT !.status[i] = st]
         IN  /\ IsObject(v) /\ Agrees(v) /\ v.n = o.n /\ v.status = [o.status EXCEPT ![i] = st]
             /\ Numbers(v.in) = Numbers(o.in) /\ Numbers(v.out) = Numbers(o.out)
<1> DEFINE v == [o EXCEPT !.status[i] = st]
           u == [o.status EXCEPT ![i] = st]
<1>1. st \in Statuses /\ Held \cap NotHeld = {} /\ o.status \in [1 .. o.n -> Statuses]
  BY DEF Statuses, Held, NotHeld, IsObject
<1>2. v = With(o, u, o.in, o.out) /\ IsObject(v)
  BY <1>1, StatusSet
<1>3. \A k \in 1 .. o.n : u[k] = IF k = i THEN st ELSE o.status[k]
  BY <1>1
<1> HIDE DEF v, u
<1>4. v.n = o.n /\ v.status = u /\ v.in = o.in /\ v.out = o.out
  BY <1>2, WithFields
<1>5. Numbers(o.in) = {k \in 1 .. o.n : o.status[k] \in Held} /\ Numbers(o.out) = {k \in 1 .. o.n : o.status[k] \in NotHeld}
  BY DEF Agrees
<1>6. Numbers(v.in) = {k \in 1 .. v.n : v.status[k] \in Held}
  BY <1>1, <1>3, <1>4, <1>5
<1>7. Numbers(v.out) = {k \in 1 .. v.n : v.status[k] \in NotHeld}
  BY <1>1, <1>3, <1>4, <1>5
<1> QED BY <1>2, <1>4, <1>6, <1>7, Zenon DEF Agrees, v, u

-----------------------------------------------------------------------------
(* The inductive invariant: the object is well formed, with both lists     *)
(* sorted, even after a failure; before one, the lists hold what the       *)
(* statuses say.  That is why no addIndex() of the solver finds a list     *)
(* full, and no removeIndex() an index that is not there.                  *)
SubjectToInv ==
  /\ class \in {"Bounds", "Constraints"} /\ ok \in BOOLEAN
  /\ IsObject(s)
  /\ ok => Agrees(s)

(* SubjectTo::init().                                                      *)
LEMMA BlankObject ==
  ASSUME NEW n \in Sizes
  PROVE  LET o == SubjectToInit(n)
         IN  /\ IsObject(o) /\ Agrees(o) /\ o.n = n /\ o.status = [i \in 1 .. n |-> "UNDEFINED"]
             /\ Numbers(o.in) = {} /\ Numbers(o.out) = {}
<1> DEFINE o == SubjectToInit(n)
           U == [i \in 1 .. n |-> "UNDEFINED"]
           T == [i \in 1 .. n |-> "UNKNOWN"]
<1>1. U \in [1 .. n -> Statuses] /\ T \in [1 .. n -> AllTypes] /\ \A i \in 1 .. n : U[i] \notin Held /\ U[i] \notin NotHeld
  BY DEF Statuses, AllTypes, Held, NotHeld
<1>2. o = [n |-> n, type |-> T, status |-> U, in |-> EmptyList, out |-> EmptyList]
  BY Zenon DEF SubjectToInit
<1> HIDE DEF o, U, T
<1>3. o.n = n /\ o.type = T /\ o.status = U /\ o.in = EmptyList /\ o.out = EmptyList
  BY <1>2
<1>4. o = [n |-> o.n, type |-> o.type, status |-> o.status, in |-> o.in, out |-> o.out]
  BY <1>2, <1>3, Zenon
<1>5. IsObject(o)
  <2>1. {} \subseteq 1 .. n
    OBVIOUS
  <2> QED BY <1>1, <1>3, <1>4, <2>1, EmptyIsList, Zenon DEF IsObject
<1>6. Agrees(o)
  BY <1>1, <1>3, EmptyIsList DEF Agrees
<1> QED BY <1>3, <1>5, <1>6, EmptyIsList, Zenon DEF o, U

LEMMA InitEstablishes ==
  Init => SubjectToInv /\ Abstract!Init
<1> SUFFICES ASSUME Init PROVE SubjectToInv /\ Abstract!Init
  OBVIOUS
<1>1. PICK n \in Sizes : s = SubjectToInit(n)
  BY DEF Init
<1>2. /\ IsObject(s) /\ Agrees(s) /\ s.n = n /\ s.status = [i \in 1 .. n |-> "UNDEFINED"]
      /\ Numbers(s.in) = {} /\ Numbers(s.out) = {}
  BY <1>1, BlankObject, Zenon
<1>3. class \in {"Bounds", "Constraints"} /\ ok = TRUE
  BY DEF Init
<1>4. SubjectToInv
  BY <1>2, <1>3 DEF SubjectToInv
<1>5. Abstract!Init
  BY <1>1, <1>2, <1>3, Zenon DEF Abstract!Init, Abstract!Indices
<1> QED BY <1>4, <1>5

-----------------------------------------------------------------------------
(* One lemma per action: it keeps the invariant, and is a step of          *)
(* WorkingSet or changes nothing that WorkingSet shows.                    *)

StepIsRight == SubjectToInv' /\ [Abstract!Next]_(Abstract!vars)

(* A step that fails may leave behind any well-formed object.              *)
LEMMA FailureIsRight ==
  ASSUME SubjectToInv, class' = class, ok' = FALSE, IsObject(s'), s'.n = s.n
  PROVE  StepIsRight
<1>1. SubjectToInv'
  BY DEF SubjectToInv
<1>2. /\ s'.status \in [1 .. s.n -> Statuses] /\ Numbers(s'.in) \subseteq 1 .. s.n /\ Numbers(s'.out) \subseteq 1 .. s.n
  BY DEF IsObject
<1>3. Abstract!Fail
  BY <1>2 DEF Abstract!Fail, Abstract!Indices, Abstract!Held, Abstract!NotHeld, Statuses, Held, NotHeld
<1> QED BY <1>1, <1>3, Zenon DEF StepIsRight, Abstract!Next

(* A step that WorkingSet does not see.                                    *)
LEMMA UnseenIsRight ==
  ASSUME SubjectToInv, class' = class, ok' = ok, IsObject(s'), s'.n = s.n, s'.status = s.status,
         Numbers(s'.in) = Numbers(s.in), Numbers(s'.out) = Numbers(s.out)
  PROVE  StepIsRight
<1>1. ok => Agrees(s')
  BY Zenon DEF SubjectToInv, Agrees
<1>2. SubjectToInv'
  BY <1>1, Zenon DEF SubjectToInv
<1>3. UNCHANGED Abstract!vars
  BY Zenon DEF Abstract!vars
<1> QED BY <1>2, <1>3, Zenon DEF StepIsRight

LEMMA RestartIsRight ==
  ASSUME SubjectToInv, Restart
  PROVE  StepIsRight
<1>1. PICK n \in Sizes : s' = SubjectToInit(n)
  BY DEF Restart
<1>2. /\ IsObject(s') /\ Agrees(s') /\ s'.n = n /\ s'.status = [i \in 1 .. n |-> "UNDEFINED"]
      /\ Numbers(s'.in) = {} /\ Numbers(s'.out) = {}
  BY <1>1, BlankObject, Zenon
<1>3. class' = class /\ ok' = TRUE
  BY DEF Restart
<1>4. SubjectToInv'
  BY <1>2, <1>3 DEF SubjectToInv
<1>5. Abstract!Restart
  BY <1>1, <1>2, <1>3, Zenon DEF Abstract!Restart, Abstract!Blank
<1> QED BY <1>4, <1>5, Zenon DEF StepIsRight, Abstract!Next

LEMMA SetTypesIsRight ==
  ASSUME SubjectToInv, SetTypes
  PROVE  StepIsRight
<1>1. PICK t \in [1 .. s.n -> Types] : s' = [s EXCEPT !.type = t]
  BY DEF SetTypes
<1>2. class' = class /\ ok' = ok /\ IsObject(s)
  BY DEF SetTypes, SubjectToInv
<1>3. s = [n |-> s.n, type |-> s.type, status |-> s.status, in |-> s.in, out |-> s.out]
  BY <1>2 DEF IsObject
<1> DEFINE v == s'
<1>4. v = [n |-> s.n, type |-> t, status |-> s.status, in |-> s.in, out |-> s.out]
  BY <1>1, <1>3
<1> HIDE DEF v
<1>5. v.n = s.n /\ v.type = t /\ v.status = s.status /\ v.in = s.in /\ v.out = s.out
  BY <1>4
<1>6. v = [n |-> v.n, type |-> v.type, status |-> v.status, in |-> v.in, out |-> v.out]
  BY <1>4, <1>5, Zenon
<1>7. t \in [1 .. s.n -> AllTypes]
  BY SubjectToAssumption
<1>8. IsObject(v)
  BY <1>2, <1>5, <1>6, <1>7, Zenon DEF IsObject
<1> QED BY <1>2, <1>5, <1>8, UnseenIsRight, Zenon DEF v

(* Indices that were in neither list have been set up.                     *)
LEMMA SetUpIsRight ==
  ASSUME SubjectToInv, ok, NEW I \in SUBSET (1 .. s.n), NEW st \in Settable, NEW r, SetUp(s, r, st, I),
         \A i \in I : s.status[i] = "UNDEFINED", s' = r.o, ok' = r.ok, class' = class
  PROVE  StepIsRight
<1>1. IsObject(s) /\ Agrees(s) /\ class \in {"Bounds", "Constraints"}
  BY DEF SubjectToInv
<1>2. Agrees(r.o)
  BY <1>1, SetUpAgrees
<1>3. r.ok = TRUE /\ IsObject(r.o)
  BY Zenon DEF SetUp
<1>4. SubjectToInv'
  BY <1>1, <1>2, <1>3, Zenon DEF SubjectToInv
<1>5. I \cap (Numbers(s.in) \cup Numbers(s.out)) = {}
  BY <1>1 DEF Agrees, Held, NotHeld
<1>6. ok' = ok
  BY <1>3 DEF SubjectToInv
<1>7. Abstract!Setup(I, st)
  BY <1>5, <1>6, Zenon DEF SetUp, Abstract!Setup, Abstract!Indices, Abstract!Held, Held
<1>8. st \in Abstract!Held \cup {"INACTIVE"} /\ I \in SUBSET Abstract!Indices
  BY Zenon DEF Settable, Held, Abstract!Held, Abstract!Indices
<1> QED BY <1>4, <1>7, <1>8, Zenon DEF StepIsRight, Abstract!Next

LEMMA SetupIsRight ==
  ASSUME SubjectToInv, NEW i \in 1 .. s.n, NEW st \in Settable, Setup(i, st)
  PROVE  StepIsRight
<1> DEFINE r == AddIndex(s, ListFor(st), i, st)
<1>1. ok /\ s.status[i] = "UNDEFINED" /\ s' = r.o /\ ok' = r.ok /\ class' = class
  BY Zenon DEF Setup, Returns, SetupBound, SetupConstraint
<1>2. IsObject(s) /\ Agrees(s)
  BY <1>1 DEF SubjectToInv
<1>3. s.status[i] # st /\ i \notin Numbers(s.in) /\ i \notin Numbers(s.out)
  BY <1>1, <1>2 DEF Agrees, Settable, Held, NotHeld
<1>4. HasEntered(s, i, st, r)
  BY <1>2, <1>3, AddIndexAdds
<1> HIDE DEF r
<1>5. SetUp(s, r, st, {i})
  BY <1>2, <1>4, EnteredIsSetUp
<1>6. {i} \in SUBSET (1 .. s.n) /\ \A k \in {i} : s.status[k] = "UNDEFINED"
  BY <1>1
<1> QED BY <1>1, <1>5, <1>6, SetUpIsRight, Zenon

LEMMA SetupAllIsRight ==
  ASSUME SubjectToInv, NEW st \in Settable, SetupAll(st)
  PROVE  StepIsRight
<1> DEFINE r == SetupAllBounds(s, st)
<1>1. ok /\ (\A i \in 1 .. s.n : s.status[i] = "UNDEFINED") /\ s' = r.o /\ ok' = r.ok /\ class' = class
  BY SetupAllAlike, Zenon DEF SetupAll, Returns
<1>2. IsObject(s) /\ Agrees(s)
  BY <1>1 DEF SubjectToInv
<1>3. SetUp(s, r, st, 1 .. s.n)
  BY <1>1, <1>2, SetupAllSetsUp
<1> HIDE DEF r
<1>4. 1 .. s.n \in SUBSET (1 .. s.n)
  OBVIOUS
<1> QED BY <1>1, <1>3, <1>4, SetUpIsRight, Zenon

LEMMA MoveOutIsRight ==
  ASSUME SubjectToInv, NEW i \in 1 .. s.n, MoveOut(i)
  PROVE  StepIsRight
<1> DEFINE st == "INACTIVE"
           r == AddIndex(RemoveIndex(s, "in", i), ListFor(st), i, st)
<1>0. ListFor(st) = "out" /\ st \in Settable /\ st \notin Held
  BY DEF ListFor, Settable, Held
<1>1. ok /\ i \in Numbers(s.in) /\ s' = r.o /\ ok' = r.ok /\ class' = class
  BY <1>0, Zenon DEF MoveOut, Returns, MoveFixedToFree, MoveActiveToInactive
<1>2. IsObject(s) /\ Agrees(s) /\ class \in {"Bounds", "Constraints"}
  BY <1>1 DEF SubjectToInv
<1>3. HasMoved(s, i, st, r)
  BY <1>0, <1>1, <1>2, MoveMoves
<1> HIDE DEF r
<1>4. Agrees(r.o)
  BY <1>0, <1>2, <1>3, MovedAgrees
<1>5. r.ok = TRUE /\ IsObject(r.o)
  BY <1>3, Zenon DEF HasMoved
<1>6. SubjectToInv'
  BY <1>1, <1>2, <1>4, <1>5, Zenon DEF SubjectToInv
<1>7. ok' = ok
  BY <1>1, <1>5 DEF SubjectToInv
<1>8. Abstract!Leave(i)
  BY <1>0, <1>1, <1>3, <1>7, Zenon DEF HasMoved, Abstract!Leave
<1> QED BY <1>6, <1>8, Zenon DEF StepIsRight, Abstract!Next, Abstract!Indices

LEMMA MoveInIsRight ==
  ASSUME SubjectToInv, NEW i \in 1 .. s.n, NEW st \in Held, MoveIn(i, st)
  PROVE  StepIsRight
<1> DEFINE r == AddIndex(RemoveIndex(s, "out", i), ListFor(st), i, st)
<1>0. ListFor(st) = "in" /\ st \in Settable
  BY DEF ListFor, Settable, Held
<1>1. ok /\ i \in Numbers(s.out) /\ s' = r.o /\ ok' = r.ok /\ class' = class
  BY <1>0, Zenon DEF MoveIn, Returns, MoveFreeToFixed, MoveInactiveToActive
<1>2. IsObject(s) /\ Agrees(s) /\ class \in {"Bounds", "Constraints"}
  BY <1>1 DEF SubjectToInv
<1>3. HasMoved(s, i, st, r)
  BY <1>0, <1>1, <1>2, MoveMoves
<1> HIDE DEF r
<1>4. Agrees(r.o)
  BY <1>0, <1>2, <1>3, MovedAgrees
<1>5. r.ok = TRUE /\ IsObject(r.o)
  BY <1>3, Zenon DEF HasMoved
<1>6. SubjectToInv'
  BY <1>1, <1>2, <1>4, <1>5, Zenon DEF SubjectToInv
<1>7. ok' = ok
  BY <1>1, <1>5 DEF SubjectToInv
<1>8. Abstract!Enter(i, st) /\ st \in Abstract!Held
  BY <1>0, <1>1, <1>3, <1>7, Zenon DEF HasMoved, Abstract!Enter, Abstract!Held, Held
<1> QED BY <1>6, <1>8, Zenon DEF StepIsRight, Abstract!Next, Abstract!Indices

(* A status has changed without the index changing its list.               *)
LEMMA MarkIsRight ==
  ASSUME SubjectToInv, ok, NEW i \in 1 .. s.n, NEW st, s' = [s EXCEPT !.status[i] = st], ok' = TRUE, class' = class,
         (s.status[i] \in Held /\ st \in Held) \/ (s.status[i] \in NotHeld /\ st \in NotHeld)
  PROVE  StepIsRight
<1>1. IsObject(s) /\ Agrees(s) /\ class \in {"Bounds", "Constraints"} /\ ok = TRUE
  BY DEF SubjectToInv
<1>2. /\ IsObject(s') /\ Agrees(s') /\ s'.n = s.n /\ s'.status = [s.status EXCEPT ![i] = st]
      /\ Numbers(s'.in) = Numbers(s.in) /\ Numbers(s'.out) = Numbers(s.out)
  BY <1>1, MarkedAgrees, Zenon
<1>3. SubjectToInv'
  BY <1>1, <1>2, Zenon DEF SubjectToInv
<1>4. IF i \in Numbers(s.in) THEN st \in Held ELSE i \in Numbers(s.out) /\ st \in NotHeld
  BY <1>1 DEF Agrees, Held, NotHeld
<1>5. Abstract!Mark(i, st)
  BY <1>1, <1>2, <1>4, Zenon DEF Abstract!Mark, Abstract!Held, Abstract!NotHeld, Held, NotHeld
<1>6. st \in Abstract!Held \cup Abstract!NotHeld
  BY Zenon DEF Abstract!Held, Abstract!NotHeld, Held, NotHeld
<1> QED BY <1>3, <1>5, <1>6, Zenon DEF StepIsRight, Abstract!Next, Abstract!Indices

LEMMA FlipIsRight ==
  ASSUME SubjectToInv, NEW i \in 1 .. s.n, Flip(i)
  PROVE  StepIsRight
<1> DEFINE r == FlipFixedBound(s, i)
           st == IF s.status[i] = "LOWER" THEN "UPPER" ELSE "LOWER"
           v == [s EXCEPT !.status[i] = st]
<1>1. ok /\ s' = r.o /\ ok' = r.ok /\ class' = class /\ IsObject(s)
  BY Zenon DEF Flip, Returns, FlipFixedConstraint, SubjectToInv
<1>2. CASE s.status[i] \in Held
  <2>1. r = [o |-> v, ok |-> TRUE]
    BY <1>2, Zenon DEF FlipFixedBound
  <2>2. st \in Held
    BY DEF Held
  <2> HIDE DEF r, v, st
  <2>3. r.o = v /\ r.ok = TRUE
    BY <2>1
  <2>4. s' = [s EXCEPT !.status[i] = st] /\ ok' = TRUE
    BY <1>1, <2>3, Zenon DEF v
  <2> QED BY <1>1, <1>2, <2>2, <2>4, MarkIsRight, Zenon
<1>3. CASE s.status[i] \notin Held
  <2>1. r = [o |-> s, ok |-> FALSE]
    BY <1>3, Zenon DEF FlipFixedBound
  <2> HIDE DEF r
  <2>2. r.o = s /\ r.ok = FALSE
    BY <2>1
  <2>3. s' = s /\ ok' = FALSE
    BY <1>1, <2>2, Zenon
  <2> QED BY <1>1, <2>3, FailureIsRight, Zenon
<1> QED BY <1>2, <1>3

LEMMA SwapIsRight ==
  ASSUME SubjectToInv, NEW i \in 1 .. s.n, NEW j \in 1 .. s.n, Swap(i, j)
  PROVE  StepIsRight
<1> DEFINE r == SwapIndex(s, "out", i, j)
<1>1. ok /\ i \in Numbers(s.out) /\ j \in Numbers(s.out) /\ s' = r.o /\ ok' = r.ok /\ class' = class
  BY Zenon DEF Swap, Returns, SwapFree
<1>2. IsObject(s) /\ ok = TRUE
  BY <1>1 DEF SubjectToInv
<1>3. /\ r.ok \in BOOLEAN /\ IsObject(r.o) /\ r.o.n = s.n /\ r.o.status = s.status
      /\ Numbers(r.o.in) = Numbers(s.in) /\ Numbers(r.o.out) = Numbers(s.out)
  BY <1>1, <1>2, SwapIndexSwaps, Zenon
<1> HIDE DEF r
<1>4. CASE r.ok = TRUE
  BY <1>1, <1>2, <1>3, <1>4, UnseenIsRight, Zenon
<1>5. CASE r.ok = FALSE
  BY <1>1, <1>2, <1>3, <1>5, FailureIsRight, Zenon
<1> QED BY <1>3, <1>4, <1>5

LEMMA GiveUpIsRight ==
  ASSUME SubjectToInv, NEW i \in 1 .. s.n, NEW st \in {"INFEASIBLE_LOWER", "INFEASIBLE_UPPER"}, GiveUp(i, st)
  PROVE  StepIsRight
<1>1. ok /\ i \in Numbers(s.out) /\ s' = [s EXCEPT !.status[i] = st] /\ class' = class /\ ok' = ok
  BY Zenon DEF GiveUp
<1>2. Agrees(s) /\ ok = TRUE
  BY <1>1 DEF SubjectToInv
<1>3. s.status[i] \in NotHeld /\ st \in NotHeld
  BY <1>1, <1>2 DEF Agrees, NotHeld
<1> QED BY <1>1, <1>2, <1>3, MarkIsRight, Zenon

(* Statuses and lists have been rearranged, or nothing was to be done, or  *)
(* the offset was refused.                                                 *)
LEMMA RearrangeIsRight ==
  ASSUME SubjectToInv, ok, Numbers(s.in) \cup Numbers(s.out) = 1 .. s.n, NEW r, s' = r.o, ok' = r.ok, class' = class,
         NEW from \in [1 .. s.n -> 1 .. s.n],
         \/ r = [o |-> s, ok |-> TRUE]
         \/ r = [o |-> s, ok |-> FALSE]
         \/ r = Rearranged(s, from)
  PROVE  StepIsRight
<1>1. IsObject(s) /\ Agrees(s) /\ ok = TRUE /\ class \in {"Bounds", "Constraints"}
  BY DEF SubjectToInv
<1>2. CASE r = [o |-> s, ok |-> TRUE]
  <2>1. r.o = s /\ r.ok = TRUE
    BY <1>2
  <2> QED BY <1>1, <2>1, UnseenIsRight, Zenon
<1>3. CASE r = [o |-> s, ok |-> FALSE]
  <2>1. r.o = s /\ r.ok = FALSE
    BY <1>3
  <2> QED BY <1>1, <2>1, FailureIsRight, Zenon
<1>4. CASE r = Rearranged(s, from)
  <2>1. HasRearranged(s, from, r)
    BY <1>1, <1>4, RearrangedAgrees
  <2>2. /\ ok' \in BOOLEAN /\ IsObject(s') /\ s'.n = s.n
        /\ s'.status = [i \in 1 .. s.n |-> s.status[from[i]]]
        /\ ok' => Agrees(s')
    BY <2>1, Zenon DEF HasRearranged
  <2>3. CASE ok' = FALSE
    BY <2>2, <2>3, FailureIsRight, Zenon
  <2>4. CASE ok' = TRUE
    <3>1. SubjectToInv'
      BY <1>1, <2>2, <2>4, Zenon DEF SubjectToInv
    <3> DEFINE v == s'
    <3>2. v.n = s.n /\ v.status = [i \in 1 .. s.n |-> s.status[from[i]]] /\ Agrees(v)
      BY <2>2, <2>4
    <3> HIDE DEF v
    <3>3. \A i \in 1 .. s.n : from[i] \in 1 .. s.n /\ v.status[i] = s.status[from[i]]
      BY <3>2
    <3>4. Numbers(v.in) = {i \in 1 .. s.n : from[i] \in Numbers(s.in)}
      BY <1>1, <3>2, <3>3 DEF Agrees
    <3>5. Numbers(v.out) = {i \in 1 .. s.n : from[i] \in Numbers(s.out)}
      BY <1>1, <3>2, <3>3 DEF Agrees
    <3>6. Abstract!Rearrange(from)
      BY <1>1, <2>2, <2>4, <3>4, <3>5, Zenon DEF v, Abstract!Rearrange, Abstract!Indices
    <3> QED BY <3>1, <3>6, Zenon DEF StepIsRight, Abstract!Next, Abstract!Indices
  <2> QED BY <2>2, <2>3, <2>4
<1> QED BY <1>2, <1>3, <1>4

LEMMA ShiftIsRight ==
  ASSUME SubjectToInv, NEW offset \in 0 .. s.n, Shift(offset)
  PROVE  StepIsRight
<1> DEFINE r == ShiftBounds(s, offset)
           from == [i \in 1 .. s.n |-> IF i <= s.n - offset THEN i + offset ELSE i]
<1>1. ok /\ Numbers(s.in) \cup Numbers(s.out) = 1 .. s.n /\ s' = r.o /\ ok' = r.ok /\ class' = class
  BY Zenon DEF Shift, Returns, ShiftConstraints
<1>2. from \in [1 .. s.n -> 1 .. s.n]
  BY ObjectParts DEF SubjectToInv
<1>3. r = [o |-> s, ok |-> TRUE] \/ r = [o |-> s, ok |-> FALSE] \/ r = Rearranged(s, from)
  BY Zenon DEF ShiftBounds
<1> HIDE DEF r, from
<1> QED BY <1>1, <1>2, <1>3, RearrangeIsRight

LEMMA RotateIsRight ==
  ASSUME SubjectToInv, NEW offset \in 0 .. s.n, Rotate(offset)
  PROVE  StepIsRight
<1> DEFINE r == RotateBounds(s, offset)
           from == [i \in 1 .. s.n |-> IF i <= s.n - offset THEN i + offset ELSE i - s.n + offset]
<1>1. ok /\ Numbers(s.in) \cup Numbers(s.out) = 1 .. s.n /\ s' = r.o /\ ok' = r.ok /\ class' = class
  BY Zenon DEF Rotate, Returns, RotateConstraints
<1>2. from \in [1 .. s.n -> 1 .. s.n]
  BY ObjectParts DEF SubjectToInv
<1>3. r = [o |-> s, ok |-> TRUE] \/ r = [o |-> s, ok |-> FALSE] \/ r = Rearranged(s, from)
  BY Zenon DEF RotateBounds
<1> HIDE DEF r, from
<1> QED BY <1>1, <1>2, <1>3, RearrangeIsRight

LEMMA NextIsRight ==
  ASSUME SubjectToInv, [Next]_vars
  PROVE  StepIsRight
<1>1. CASE UNCHANGED vars
  <2>1. s' = s /\ ok' = ok /\ class' = class /\ IsObject(s)
    BY <1>1 DEF vars, SubjectToInv
  <2> QED BY <2>1, UnseenIsRight, Zenon
<1>2. CASE Restart
  BY <1>2, RestartIsRight
<1>3. CASE SetTypes
  BY <1>3, SetTypesIsRight
<1>4. ASSUME NEW st \in Settable, SetupAll(st) \/ \E i \in 1 .. s.n : Setup(i, st) PROVE StepIsRight
  BY <1>4, SetupAllIsRight, SetupIsRight, Zenon
<1>5. ASSUME NEW i \in 1 .. s.n, MoveOut(i) \/ Flip(i) \/ \E st \in Held : MoveIn(i, st) PROVE StepIsRight
  BY <1>5, MoveOutIsRight, FlipIsRight, MoveInIsRight, Zenon
<1>6. ASSUME NEW i \in 1 .. s.n, NEW j \in 1 .. s.n, Swap(i, j) PROVE StepIsRight
  BY <1>6, SwapIsRight
<1>7. ASSUME NEW i \in 1 .. s.n, NEW st \in {"INFEASIBLE_LOWER", "INFEASIBLE_UPPER"}, GiveUp(i, st) PROVE StepIsRight
  BY <1>7, GiveUpIsRight
<1>8. ASSUME NEW offset \in 0 .. s.n, Shift(offset) \/ Rotate(offset) PROVE StepIsRight
  BY <1>8, ShiftIsRight, RotateIsRight
<1> QED BY <1>1, <1>2, <1>3, <1>4, <1>5, <1>6, <1>7, <1>8, Zenon DEF Next, Settable

-----------------------------------------------------------------------------
(* Objects of every size keep both lists sorted and free of duplicates,    *)
(* through every sequence of operations of Bounds and Constraints and      *)
(* through the failures (Indexlist::addNumber, removeNumber, swapNumbers). *)
THEOREM ListsStaySorted == Spec => []ListsAreSorted
<1>1. Init => SubjectToInv
  BY InitEstablishes
<1>2. SubjectToInv /\ [Next]_vars => SubjectToInv'
  BY NextIsRight DEF StepIsRight
<1>3. SubjectToInv => ListsAreSorted
  BY DEF SubjectToInv, IsObject, IsList, ListsAreSorted
<1> QED BY <1>1, <1>2, <1>3, PTL DEF Spec

(* Bounds and Constraints of every size implement WorkingSet: what         *)
(* setupAll, moveFixedToFree, moveFreeToFixed, flipFixed, swapFree, shift  *)
(* and rotate do to lists and bisections is what WorkingSet says of sets.  *)
THEOREM ListsImplementWorkingSet == Spec => ImplementsWorkingSet
<1>1. Init => SubjectToInv /\ Abstract!Init
  BY InitEstablishes
<1>2. SubjectToInv /\ [Next]_vars => SubjectToInv' /\ [Abstract!Next]_(Abstract!vars)
  BY NextIsRight DEF StepIsRight
<1> QED BY <1>1, <1>2, PTL DEF Spec, ImplementsWorkingSet, Abstract!Spec

-----------------------------------------------------------------------------
(* SQProblemSchur.                                                         *)

(* The Schur complement that updates u call for.                           *)
SchurOf(u) == [i \in 1 .. Len(u) |-> [j \in 1 .. Len(u) |-> {u[i], u[j]}]]

(* The updates that lead from what was factorised to the lists.            *)
IsDifference(q, v) ==
  \/ v.t = "VarFixed" /\ v.i \in q.freeStart \ q.free
  \/ v.t = "VarFreed" /\ v.i \in q.free \ q.freeStart
  \/ v.t = "ConRemoved" /\ v.i \in q.activeStart \ q.active
  \/ v.t = "ConAdded" /\ v.i \in q.active \ q.activeStart
DifferencesOf(q) == {v \in Updates : IsDifference(q, v)}

(* Updates as a set, and without repetition.                               *)
Entries(u) == {u[k] : k \in 1 .. Len(u)}
Distinct(u) == \A j, k \in 1 .. Len(u) : u[j] = u[k] => j = k

(* The Schur complement is the one of the updates.                         *)
IsWhole(q) ==
  /\ q \in SchurObjects /\ q.nS \in 0 .. NSmax
  /\ Len(q.upd) = q.nS /\ q.M = q.upd /\ q.S = SchurOf(q.upd)

(* The sparse solver has factorised the matrix of the factorised lists.    *)
CanSolve(q) == q.sol.have /\ q.sol.dim = StartDim(q) /\ q.sol.rank = StartDim(q)

(* The updates are the differences, each of them once.                     *)
HasDifferences(q) == Distinct(q.upd) /\ Entries(q.upd) = DifferencesOf(q)

(* What every call leaves behind.  A failure may keep a change from the    *)
(* factorisation, and a forgotten update its difference, but neither       *)
(* disturbs the Schur complement.                                          *)
IsGood(q) ==
  /\ IsWhole(q)
  /\ ~q.failed => CanSolve(q)
  /\ ~q.failed /\ ~q.dropped => HasDifferences(q)

(* Before init() there is only the object that the constructor built.      *)
SchurInv == (ret = "NOT_INITIALISED" /\ \E kind \in Solvers : sq = Fresh(kind)) \/ IsGood(sq)

-----------------------------------------------------------------------------
(* Objects by their fields.                                                *)

Lists(q) == <<q.free, q.active>>
Factored(q) == <<q.freeStart, q.activeStart, q.sol>>
Marks(q) == <<q.failed, q.dropped>>

(* The parts of an object.                                                 *)
LEMMA SchurObjectParts ==
  ASSUME NEW q \in SchurObjects
  PROVE  /\ q.free \in SUBSET Vars /\ q.active \in SUBSET Cons
         /\ q.freeStart \in SUBSET Vars /\ q.activeStart \in SUBSET Cons
         /\ q.nS \in Int /\ q.upd \in Seq(Updates) /\ q.S \in Seq(Seq(SUBSET Updates)) /\ q.M \in Seq(Updates)
         /\ q.sol \in SparseSolvers /\ q.failed \in BOOLEAN /\ q.dropped \in BOOLEAN
BY DEF SchurObjects

(* Two objects with the same fields are the same.                          *)
LEMMA SameObject ==
  ASSUME NEW q \in SchurObjects, NEW p \in SchurObjects,
         Lists(q) = Lists(p), Factored(q) = Factored(p), Marks(q) = Marks(p),
         q.nS = p.nS, q.upd = p.upd, q.S = p.S, q.M = p.M
  PROVE  q = p
<1> DEFINE Rec(o) == [free |-> o.free, active |-> o.active, freeStart |-> o.freeStart, activeStart |-> o.activeStart,
                      nS |-> o.nS, upd |-> o.upd, S |-> o.S, M |-> o.M, sol |-> o.sol,
                      failed |-> o.failed, dropped |-> o.dropped]
<1>1. \A o \in SchurObjects : o = Rec(o)
  BY DEF SchurObjects
<1>2. Rec(q) = Rec(p)
  BY Zenon DEF Lists, Factored, Marks
<1> HIDE DEF Rec
<1> QED BY <1>1, <1>2, Zenon

(* An object with another sparse solver.                                   *)
LEMMA WithSolver ==
  ASSUME NEW q \in SchurObjects, NEW a \in SparseSolvers
  PROVE  LET p == [q EXCEPT !.sol = a]
         IN  /\ p \in SchurObjects /\ p.sol = a
             /\ Lists(p) = Lists(q) /\ Marks(p) = Marks(q)
             /\ p.freeStart = q.freeStart /\ p.activeStart = q.activeStart
             /\ p.nS = q.nS /\ p.upd = q.upd /\ p.S = q.S /\ p.M = q.M
BY DEF SchurObjects, Lists, Factored, Marks

(* An object that records a failure.                                       *)
LEMMA FailedObject ==
  ASSUME NEW q \in SchurObjects, NEW e
  PROVE  LET p == Failed(q, e).q
         IN  /\ p \in SchurObjects /\ Failed(q, e).ret = e /\ p.failed
             /\ Lists(p) = Lists(q) /\ Factored(p) = Factored(q) /\ p.dropped = q.dropped
             /\ p.nS = q.nS /\ p.upd = q.upd /\ p.S = q.S /\ p.M = q.M
BY DEF SchurObjects, Lists, Factored, Marks, Failed, Out

WithUpdates(q, n, u, M, S) == [q EXCEPT !.nS = n, !.upd = u, !.M = M, !.S = S]

Arrays == Seq(Seq(SUBSET Updates))

(* An object with other updates.                                           *)
LEMMA WithUpdatesObject ==
  ASSUME NEW q \in SchurObjects, NEW n \in Int, NEW u \in Seq(Updates), NEW M \in Seq(Updates), NEW S \in Arrays
  PROVE  LET p == WithUpdates(q, n, u, M, S)
         IN  /\ p \in SchurObjects
             /\ Lists(p) = Lists(q) /\ Factored(p) = Factored(q) /\ Marks(p) = Marks(q)
             /\ p.nS = n /\ p.upd = u /\ p.M = M /\ p.S = S
BY DEF SchurObjects, Lists, Factored, Marks, WithUpdates, Arrays

-----------------------------------------------------------------------------
(* Updates and the Schur complement they call for.                         *)

(* A function on the first numbers is a sequence.                          *)
LEMMA FcnIsSeq ==
  ASSUME NEW T, NEW n \in Nat, NEW f \in [1 .. n -> T]
  PROVE  f \in Seq(T) /\ Len(f) = n
<1>1. f \in Seq(T)
  BY SeqDef, Zenon
<1>2. DOMAIN f = 1 .. Len(f) /\ Len(f) \in Nat /\ DOMAIN f = 1 .. n
  BY <1>1, LenProperties
<1> QED BY <1>1, <1>2

(* The Schur complement of updates is as large as there are updates.       *)
LEMMA SchurOfShape ==
  ASSUME NEW u \in Seq(Updates)
  PROVE  /\ SchurOf(u) \in Seq(Seq(SUBSET Updates)) /\ Len(SchurOf(u)) = Len(u)
         /\ \A i \in 1 .. Len(u) : Len(SchurOf(u)[i]) = Len(u)
         /\ \A i, j \in 1 .. Len(u) : SchurOf(u)[i][j] = {u[i], u[j]}
<1>1. Len(u) \in Nat /\ \A i \in 1 .. Len(u) : u[i] \in Updates
  OBVIOUS
<1>2. \A i \in 1 .. Len(u) : /\ [j \in 1 .. Len(u) |-> {u[i], u[j]}] \in Seq(SUBSET Updates)
                              /\ Len([j \in 1 .. Len(u) |-> {u[i], u[j]}]) = Len(u)
  <2> SUFFICES ASSUME NEW i \in 1 .. Len(u)
               PROVE  /\ [j \in 1 .. Len(u) |-> {u[i], u[j]}] \in Seq(SUBSET Updates)
                      /\ Len([j \in 1 .. Len(u) |-> {u[i], u[j]}]) = Len(u)
    OBVIOUS
  <2>1. [j \in 1 .. Len(u) |-> {u[i], u[j]}] \in [1 .. Len(u) -> SUBSET Updates]
    BY <1>1
  <2> QED BY <1>1, <2>1, FcnIsSeq
<1>3. SchurOf(u) \in Seq(Seq(SUBSET Updates)) /\ Len(SchurOf(u)) = Len(u)
  <2>1. \A i \in 1 .. Len(u) : [j \in 1 .. Len(u) |-> {u[i], u[j]}] \in Seq(SUBSET Updates)
    BY <1>2
  <2> DEFINE T == Seq(SUBSET Updates)
             e(i) == [j \in 1 .. Len(u) |-> {u[i], u[j]}]
  <2>2. \A i \in 1 .. Len(u) : e(i) \in T
    BY <2>1
  <2> HIDE DEF T, e
  <2>3. [i \in 1 .. Len(u) |-> e(i)] \in [1 .. Len(u) -> T]
    BY <2>2
  <2>4. [i \in 1 .. Len(u) |-> e(i)] \in Seq(T) /\ Len([i \in 1 .. Len(u) |-> e(i)]) = Len(u)
    BY <1>1, <2>3, FcnIsSeq
  <2> QED BY <2>4, Zenon DEF SchurOf, T, e
<1> QED BY <1>1, <1>2, <1>3 DEF SchurOf

(* An object cut down to its first n updates.                              *)
LEMMA FirstUpdatesObject ==
  ASSUME NEW q \in SchurObjects, NEW n \in Nat, n <= Len(q.upd), n <= Len(q.M), n <= Len(q.S),
         \A i \in 1 .. n : n <= Len(q.S[i])
  PROVE  LET p == FirstUpdates(q, n)
         IN  /\ p \in SchurObjects
             /\ Lists(p) = Lists(q) /\ Factored(p) = Factored(q) /\ Marks(p) = Marks(q) /\ p.nS = n
             /\ p.upd \in Seq(Updates) /\ Len(p.upd) = n /\ (\A i \in 1 .. n : p.upd[i] = q.upd[i])
             /\ p.M \in Seq(Updates) /\ Len(p.M) = n /\ (\A i \in 1 .. n : p.M[i] = q.M[i])
             /\ p.S \in Seq(Seq(SUBSET Updates)) /\ Len(p.S) = n
             /\ (\A i \in 1 .. n : Len(p.S[i]) = n)
             /\ (\A i, j \in 1 .. n : p.S[i][j] = q.S[i][j])
<1> DEFINE u == SubSeq(q.upd, 1, n)
           M == SubSeq(q.M, 1, n)
           S == [i \in 1 .. n |-> SubSeq(q.S[i], 1, n)]
           T == SUBSET Updates
<1>1. q.upd \in Seq(Updates) /\ q.M \in Seq(Updates) /\ q.S \in Seq(Seq(T))
  BY SchurObjectParts
<1>2. u \in Seq(Updates) /\ Len(u) = n /\ \A i \in 1 .. n : u[i] = q.upd[i]
  BY <1>1
<1>3. M \in Seq(Updates) /\ Len(M) = n /\ \A i \in 1 .. n : M[i] = q.M[i]
  BY <1>1
<1> HIDE DEF T
<1>4. \A i \in 1 .. n : q.S[i] \in Seq(T)
  BY <1>1
<1>5. \A i \in 1 .. n : /\ SubSeq(q.S[i], 1, n) \in Seq(T) /\ Len(SubSeq(q.S[i], 1, n)) = n
                         /\ \A j \in 1 .. n : SubSeq(q.S[i], 1, n)[j] = q.S[i][j]
  BY <1>4
<1>6. S \in Seq(Seq(T)) /\ Len(S) = n
  <2>1. S \in [1 .. n -> Seq(T)]
    BY <1>5
  <2> HIDE DEF S
  <2> QED BY <2>1, FcnIsSeq
<1>7. Len(S) = n /\ (\A i \in 1 .. n : S[i] = SubSeq(q.S[i], 1, n))
  BY <1>6
<1>8. (\A i \in 1 .. n : Len(S[i]) = n) /\ \A i, j \in 1 .. n : S[i][j] = q.S[i][j]
  BY <1>5, <1>7
<1> HIDE DEF u, M, S
<1>9. FirstUpdates(q, n) = WithUpdates(q, n, u, M, S)
  BY DEF FirstUpdates, WithUpdates, u, M, S
<1>10. S \in Seq(Seq(SUBSET Updates))
  BY <1>6, Zenon DEF T
<1>11. LET p == WithUpdates(q, n, u, M, S)
       IN  /\ p \in SchurObjects
           /\ Lists(p) = Lists(q) /\ Factored(p) = Factored(q) /\ Marks(p) = Marks(q) /\ p.nS = n
           /\ p.upd = u /\ p.M = M /\ p.S = S
  <2>1. n \in Int /\ u \in Seq(Updates) /\ M \in Seq(Updates)
    BY <1>2, <1>3
  <2>2. S \in Arrays
    BY <1>10 DEF Arrays
  <2> QED BY <2>1, <2>2, WithUpdatesObject
<1> QED BY <1>2, <1>3, <1>7, <1>8, <1>9, <1>10, <1>11

(* Updates and Schur complements of the same entries are the same.         *)
LEMMA SameUpdates ==
  ASSUME NEW u \in Seq(Updates), NEW v \in Seq(Updates), Len(u) = Len(v), \A i \in 1 .. Len(u) : u[i] = v[i]
  PROVE  u = v
BY SeqEqual

(* Arrays of the same size with the same entries are the same.             *)
LEMMA SameSquare ==
  ASSUME NEW A \in Seq(Seq(SUBSET Updates)), NEW B \in Seq(Seq(SUBSET Updates)), NEW n \in Nat, Len(A) = n, Len(B) = n,
         \A i \in 1 .. n : Len(A[i]) = n /\ Len(B[i]) = n,
         \A i, j \in 1 .. n : A[i][j] = B[i][j]
  PROVE  A = B
<1> DEFINE T == SUBSET Updates
<1> HIDE DEF T
<1>0. A \in Seq(Seq(T)) /\ B \in Seq(Seq(T))
  BY DEF T
<1>1. \A i \in 1 .. n : A[i] \in Seq(T) /\ B[i] \in Seq(T)
  BY <1>0
<1>2. \A i \in 1 .. n : A[i] = B[i]
  BY <1>1, SeqEqual
<1> DEFINE R == Seq(T)
<1> HIDE DEF R
<1>3. A \in Seq(R) /\ B \in Seq(R)
  BY <1>0 DEF R
<1> QED BY <1>2, <1>3, SeqEqual

(* updateSchurQR() of an object without anything left behind.              *)
LEMMA WholeStays ==
  ASSUME NEW q, IsWhole(q)
  PROVE  UpdateSchurQR(q) = q
<1> DEFINE n == q.nS
           p == FirstUpdates(q, n)
<1>1. q \in SchurObjects /\ n \in Nat /\ Len(q.upd) = n /\ q.M = q.upd /\ q.S = SchurOf(q.upd) /\ q.upd \in Seq(Updates)
  BY SchurAssumption, SchurObjectParts DEF IsWhole
<1>2. Len(q.S) = n /\ \A i \in 1 .. n : Len(q.S[i]) = n
  BY <1>1, SchurOfShape
<1> HIDE DEF n, p
<1>3. /\ p \in SchurObjects
      /\ Lists(p) = Lists(q) /\ Factored(p) = Factored(q) /\ Marks(p) = Marks(q) /\ p.nS = n
      /\ p.upd \in Seq(Updates) /\ Len(p.upd) = n /\ (\A i \in 1 .. n : p.upd[i] = q.upd[i])
      /\ p.M \in Seq(Updates) /\ Len(p.M) = n /\ (\A i \in 1 .. n : p.M[i] = q.M[i])
      /\ p.S \in Seq(Seq(SUBSET Updates)) /\ Len(p.S) = n
      /\ (\A i \in 1 .. n : Len(p.S[i]) = n)
      /\ (\A i, j \in 1 .. n : p.S[i][j] = q.S[i][j])
  BY <1>1, <1>2, FirstUpdatesObject DEF p
<1>4. p.upd = q.upd /\ p.M = q.M
  BY <1>1, <1>3, SameUpdates
<1>5. p.S = q.S
  BY <1>1, <1>2, <1>3, SameSquare, SchurObjectParts
<1>6. p = q
  BY <1>1, <1>3, <1>4, <1>5, SameObject DEF n
<1> QED BY <1>6 DEF UpdateSchurQR, p, n

(* An object is whole if its parts are.                                    *)
LEMMA WholeParts ==
  ASSUME NEW q, IsWhole(q)
  PROVE  /\ q \in SchurObjects /\ q.nS \in Nat /\ q.nS <= NSmax /\ q.upd \in Seq(Updates) /\ Len(q.upd) = q.nS
         /\ q.M = q.upd /\ q.S \in Arrays /\ Len(q.S) = q.nS /\ (\A i \in 1 .. q.nS : Len(q.S[i]) = q.nS)
         /\ \A i, j \in 1 .. q.nS : q.S[i][j] = {q.upd[i], q.upd[j]}
<1>1. q \in SchurObjects /\ q.nS \in Nat /\ q.nS <= NSmax /\ Len(q.upd) = q.nS /\ q.M = q.upd /\ q.S = SchurOf(q.upd)
  BY SchurAssumption DEF IsWhole
<1> DEFINE u == q.upd
<1>2. u \in Seq(Updates)
  BY <1>1, SchurObjectParts
<1> HIDE DEF u
<1>3. /\ SchurOf(u) \in Arrays /\ Len(SchurOf(u)) = Len(u)
      /\ \A i \in 1 .. Len(u) : Len(SchurOf(u)[i]) = Len(u)
      /\ \A i, j \in 1 .. Len(u) : SchurOf(u)[i][j] = {u[i], u[j]}
  BY <1>2, SchurOfShape, Zenon DEF Arrays
<1>4. Len(u) = q.nS /\ q.S = SchurOf(u) /\ q.upd = u
  BY <1>1 DEF u
<1>5. /\ q.S \in Arrays /\ Len(q.S) = q.nS /\ (\A i \in 1 .. q.nS : Len(q.S[i]) = q.nS)
      /\ \A i, j \in 1 .. q.nS : q.S[i][j] = {q.upd[i], q.upd[j]}
  BY <1>3, <1>4
<1> QED BY <1>1, <1>2, <1>4, <1>5, Zenon

(* An object with these parts is whole.                                    *)
LEMMA PartsMakeWhole ==
  ASSUME NEW q \in SchurObjects, q.nS \in Nat, q.nS <= NSmax, Len(q.upd) = q.nS, q.M = q.upd,
         Len(q.S) = q.nS, \A i \in 1 .. q.nS : Len(q.S[i]) = q.nS,
         \A i, j \in 1 .. q.nS : q.S[i][j] = {q.upd[i], q.upd[j]}
  PROVE  IsWhole(q)
<1> DEFINE u == q.upd
           n == q.nS
           A == q.S
           B == SchurOf(u)
<1>1. u \in Seq(Updates) /\ A \in Seq(Seq(SUBSET Updates)) /\ n \in Nat /\ Len(u) = n
  BY SchurObjectParts
<1>0. Len(A) = n /\ (\A i \in 1 .. n : Len(A[i]) = n) /\ \A i, j \in 1 .. n : A[i][j] = {u[i], u[j]}
  BY Zenon
<1> HIDE DEF u, n, A
<1>2. /\ B \in Seq(Seq(SUBSET Updates)) /\ Len(B) = n /\ (\A i \in 1 .. n : Len(B[i]) = n)
      /\ \A i, j \in 1 .. n : B[i][j] = {u[i], u[j]}
  BY <1>1, SchurOfShape, Zenon
<1> HIDE DEF B
<1>3. (\A i \in 1 .. n : Len(A[i]) = n /\ Len(B[i]) = n) /\ \A i, j \in 1 .. n : A[i][j] = B[i][j]
  BY <1>0, <1>2, Zenon
<1>4. A = B
  BY <1>0, <1>1, <1>2, <1>3, SameSquare, Zenon
<1> QED BY <1>4, SchurAssumption DEF IsWhole, B, A, u, n

(* After a failure no more is asked than that an object is whole.          *)
LEMMA FailedIsGood ==
  ASSUME NEW q, IsWhole(q), NEW e
  PROVE  IsGood(Failed(q, e).q)
<1> DEFINE p == Failed(q, e).q
<1>1. q \in SchurObjects
  BY DEF IsWhole
<1>2. p \in SchurObjects /\ p.failed /\ p.nS = q.nS /\ p.upd = q.upd /\ p.S = q.S /\ p.M = q.M
  BY <1>1, FailedObject
<1> HIDE DEF p
<1>3. IsGood(p)
  BY <1>2 DEF IsWhole, IsGood
<1> QED BY <1>3 DEF p

(* The sparse solver does not matter for that.                             *)
LEMMA WholeWithSolver ==
  ASSUME NEW q, IsWhole(q), NEW a \in SparseSolvers
  PROVE  IsWhole([q EXCEPT !.sol = a])
<1> DEFINE p == [q EXCEPT !.sol = a]
<1>1. q \in SchurObjects
  BY DEF IsWhole
<1>2. p \in SchurObjects /\ p.nS = q.nS /\ p.upd = q.upd /\ p.S = q.S /\ p.M = q.M
  BY <1>1, WithSolver
<1> HIDE DEF p
<1>3. IsWhole(p)
  BY <1>2 DEF IsWhole
<1> QED BY <1>3 DEF p

-----------------------------------------------------------------------------
(* The sparse solver.                                                      *)

(* A solve that succeeds leaves the solver as it was.                      *)
LEMMA SolverAnswers ==
  ASSUME NEW sv \in SparseSolvers, NEW n, NEW faults, NEW a \in Solve(sv, n, faults)
  PROVE  a.s \in SparseSolvers /\ (a.ret = "OK" => a.s = sv)
<1>1. NewSolver("MA57") \in SparseSolvers
  BY DEF NewSolver, SparseSolvers, SolverKinds
<1>2. CASE sv.kind = "MA27"
  <2>1. a \in SolveMa27(sv, n)
    BY <1>2, Zenon DEF Solve
  <2>2. a = [s |-> sv, ret |-> IF n # sv.dim \/ ~sv.have THEN "INVALID_ARGUMENTS" ELSE "OK"]
    BY <2>1, Zenon DEF SolveMa27, Answer
  <2> QED BY <2>2
<1>3. CASE sv.kind = "MA57"
  <2>1. a \in SolveMa57(sv, n, faults)
    BY <1>3 DEF Solve
  <2>2. \/ a = [s |-> sv, ret |-> "INVALID_ARGUMENTS"] \/ a = [s |-> sv, ret |-> "OK"]
        \/ a = [s |-> NewSolver("MA57"), ret |-> "MATRIX_FACTORISATION_FAILED"]
    BY <2>1, Zenon DEF SolveMa57, Answer, ClearMa57
  <2> QED BY <1>1, <2>2
<1>4. CASE sv.kind # "MA27" /\ sv.kind # "MA57"
  <2>1. a \in SolveDummy(sv)
    BY <1>4 DEF Solve
  <2>2. a = [s |-> sv, ret |-> "NO_SPARSE_SOLVER"]
    BY <2>1, Zenon DEF SolveDummy, Answer
  <2> QED BY <2>2
<1> QED BY <1>2, <1>3, <1>4

(* A solve with the KKT matrix leaves the object as it was, or fails.      *)
LEMMA SolveKKTOutcomes ==
  ASSUME NEW q, IsWhole(q), NEW r \in SolveKKT(q)
  PROVE  (r.ret = "OK" /\ r.q = q) \/ (r.ret # "OK" /\ IsGood(r.q))
<1>1. PICK a \in Solve(q.sol, StartDim(q), Numerics) :
        r = LET p == [q EXCEPT !.sol = a.s]
            IN  IF a.ret = "OK" THEN Out(p, "OK") ELSE Failed(p, "MATRIX_FACTORISATION_FAILED")
  BY Zenon DEF SolveKKT
<1>2. q \in SchurObjects /\ q.sol \in SparseSolvers
  BY SchurObjectParts DEF IsWhole
<1>3. a.s \in SparseSolvers /\ (a.ret = "OK" => a.s = q.sol)
  BY <1>2, SolverAnswers
<1> DEFINE p == [q EXCEPT !.sol = a.s]
<1>4. CASE a.ret = "OK"
  <2>1. p = q
    BY <1>2, <1>3, <1>4 DEF SchurObjects
  <2>2. r = Out(p, "OK")
    BY <1>1, <1>4
  <2> QED BY <2>1, <2>2 DEF Out
<1>5. CASE a.ret # "OK"
  <2>1. r = Failed(p, "MATRIX_FACTORISATION_FAILED")
    BY <1>1, <1>5
  <2>2. IsWhole(p)
    BY <1>3, WholeWithSolver
  <2> HIDE DEF p
  <2>3. r.ret = "MATRIX_FACTORISATION_FAILED"
    BY <2>1 DEF Failed, Out
  <2> QED BY <2>1, <2>2, <2>3, FailedIsGood
<1> QED BY <1>4, <1>5

(* Rows that are added, deleted and brought back.                          *)
LEMMA UpdatesSeq ==
  ASSUME NEW n \in Nat, NEW f \in [1 .. n -> Updates]
  PROVE  f \in Seq(Updates) /\ Len(f) = n
BY FcnIsSeq

(* A square of sets of updates is an array, with rows of its size.         *)
LEMMA SquareIsArray ==
  ASSUME NEW n \in Nat, NEW A \in [1 .. n -> [1 .. n -> SUBSET Updates]]
  PROVE  A \in Arrays /\ Len(A) = n /\ \A i \in 1 .. n : Len(A[i]) = n
<1> DEFINE T == SUBSET Updates
           R == Seq(T)
<1>1. \A i \in 1 .. n : A[i] \in [1 .. n -> T]
  OBVIOUS
<1>2. A = [i \in 1 .. n |-> A[i]]
  OBVIOUS
<1> HIDE DEF T
<1>3. \A i \in 1 .. n : A[i] \in Seq(T) /\ Len(A[i]) = n
  BY <1>1, FcnIsSeq
<1>4. \A i \in 1 .. n : A[i] \in R
  BY <1>3
<1> HIDE DEF R
<1>5. [i \in 1 .. n |-> A[i]] \in [1 .. n -> R]
  BY <1>4
<1>6. A \in [1 .. n -> R]
  BY <1>2, <1>5, Zenon
<1>7. A \in Seq(R) /\ Len(A) = n
  BY <1>6, FcnIsSeq
<1> QED BY <1>3, <1>7 DEF R, T, Arrays

(* An entry of a whole object is an update.                                *)
LEMMA GetUpdate ==
  ASSUME NEW q, IsWhole(q), NEW i \in 1 .. q.nS
  PROVE  q.upd[i] \in Updates
<1> DEFINE u == q.upd
<1>1. u \in Seq(Updates) /\ Len(u) = q.nS
  BY WholeParts
<1> QED BY <1>1

(* addToSchurComplement(): the result is whole, with the update as its     *)
(* last.                                                                   *)
LEMMA AddedRow ==
  ASSUME NEW q, IsWhole(q), q.nS < NSmax, NEW v \in Updates, NEW r \in AddToSchurComplement(q, v)
  PROVE  \/ r.ret # "OK" /\ IsGood(r.q)
         \/ /\ r.ret = "OK" /\ IsWhole(r.q) /\ r.q.nS = q.nS + 1 /\ r.q.upd = Append(q.upd, v)
            /\ Lists(r.q) = Lists(q) /\ Factored(r.q) = Factored(q) /\ Marks(r.q) = Marks(q)
<1> DEFINE n == q.nS + 1
           old == Append(q.upd, v)
           M(p) == Append(p.M, v)
           S == [i \in 1 .. n |-> [j \in 1 .. n |-> IF i < n /\ j < n THEN q.S[i][j] ELSE {old[i], old[j]}]]
           added(p) == Out([p EXCEPT !.nS = n, !.upd = old, !.M = Append(@, v), !.S = S], "OK")
<1>1. PICK x \in SolveKKT(q) : r \in IF x.ret = "OK" THEN {added(x.q)} ELSE {x}
  BY DEF AddToSchurComplement, Then
<1>2. (x.ret = "OK" /\ x.q = q) \/ (x.ret # "OK" /\ IsGood(x.q))
  BY SolveKKTOutcomes
<1>3. CASE x.ret # "OK"
  BY <1>1, <1>2, <1>3
<1>4. CASE x.ret = "OK" /\ x.q = q
  <2>1. r = added(q)
    BY <1>1, <1>4
  <2>2. /\ q \in SchurObjects /\ q.nS \in Nat /\ q.nS <= NSmax /\ q.upd \in Seq(Updates) /\ Len(q.upd) = q.nS
        /\ q.M = q.upd /\ \A i, j \in 1 .. q.nS : q.S[i][j] = {q.upd[i], q.upd[j]}
    BY WholeParts
  <2>3. n \in Nat /\ n <= NSmax
    BY <2>2, SchurAssumption
  <2>4. old \in Seq(Updates) /\ Len(old) = n /\ old[n] = v /\ \A i \in 1 .. n - 1 : old[i] = q.upd[i]
    BY <2>2
  <2>5. \A i \in 1 .. n : old[i] \in Updates
    BY <2>4
  <2> DEFINE A == q.S
             e(i, j) == IF i < n /\ j < n THEN A[i][j] ELSE {old[i], old[j]}
  <2>14. \A i, j \in 1 .. n - 1 : A[i][j] = {old[i], old[j]}
    BY <2>2, <2>4
  <2>15. \A i, j \in 1 .. n : e(i, j) = {old[i], old[j]}
    <3> HIDE DEF A, old
    <3>1. \A i \in 1 .. n : i < n => i \in 1 .. n - 1
      BY <2>2
    <3> HIDE DEF n
    <3> QED BY <2>14, <3>1
  <2>16. \A i, j \in 1 .. n : e(i, j) \in SUBSET Updates
    <3> HIDE DEF e, n, old
    <3> QED BY <2>5, <2>15
  <2>17. S = [i \in 1 .. n |-> [j \in 1 .. n |-> e(i, j)]]
    BY Zenon
  <2>7. S \in [1 .. n -> [1 .. n -> SUBSET Updates]]
    <3> HIDE DEF e, n, S
    <3> QED BY <2>16, <2>17
  <2>6. \A i, j \in 1 .. n : S[i][j] = {old[i], old[j]}
    <3> HIDE DEF e, n, S, old
    <3> QED BY <2>15, <2>17
  <2>8. added(q) = Out(WithUpdates(q, n, old, old, S), "OK")
    BY <2>2 DEF WithUpdates
  <2> HIDE DEF n, old, S, added
  <2>9. S \in Arrays /\ Len(S) = n /\ \A i \in 1 .. n : Len(S[i]) = n
    BY <2>3, <2>7, SquareIsArray
  <2> DEFINE p == WithUpdates(q, n, old, old, S)
  <2>10. n \in Int
    BY <2>3
  <2>11. /\ p \in SchurObjects
         /\ Lists(p) = Lists(q) /\ Factored(p) = Factored(q) /\ Marks(p) = Marks(q)
         /\ p.nS = n /\ p.upd = old /\ p.M = old /\ p.S = S
    BY <2>2, <2>4, <2>9, <2>10, WithUpdatesObject
  <2> HIDE DEF p
  <2>12. IsWhole(p)
    BY <2>3, <2>4, <2>6, <2>9, <2>11, PartsMakeWhole
  <2>13. r.ret = "OK" /\ r.q = p
    BY <2>1, <2>8 DEF Out, p
  <2> QED BY <2>11, <2>12, <2>13 DEF n, old
<1> QED BY <1>2, <1>3, <1>4

(* Whole objects are the same if their updates and lists are.              *)
LEMMA SameWhole ==
  ASSUME NEW q, IsWhole(q), NEW p, IsWhole(p), p.upd = q.upd,
         Lists(p) = Lists(q), Factored(p) = Factored(q), Marks(p) = Marks(q)
  PROVE  p = q
<1>1. q \in SchurObjects /\ Len(q.upd) = q.nS /\ q.M = q.upd /\ q.S = SchurOf(q.upd)
  BY Zenon DEF IsWhole
<1>2. p \in SchurObjects /\ Len(p.upd) = p.nS /\ p.M = p.upd /\ p.S = SchurOf(p.upd)
  BY Zenon DEF IsWhole
<1>3. p.nS = q.nS /\ p.M = q.M /\ p.S = q.S
  BY <1>1, <1>2, Zenon
<1> QED BY <1>1, <1>2, <1>3, SameObject, Zenon

(* The first n updates of an object, with their part of M and S.           *)
IsBlock(p, n) ==
  /\ p \in SchurObjects /\ n \in Nat /\ n <= NSmax
  /\ n <= Len(p.upd) /\ n <= Len(p.M) /\ n <= Len(p.S) /\ \A i \in 1 .. n : n <= Len(p.S[i])
  /\ \A i \in 1 .. n : p.M[i] = p.upd[i]
  /\ \A i, j \in 1 .. n : p.S[i][j] = {p.upd[i], p.upd[j]}

IsTaken(b, p, n) ==
  /\ IsWhole(b) /\ Lists(b) = Lists(p) /\ Factored(b) = Factored(p) /\ Marks(b) = Marks(p)
  /\ b.nS = n /\ b.upd \in Seq(Updates) /\ Len(b.upd) = n
  /\ \A i \in 1 .. n : b.upd[i] = p.upd[i]

(* Such a block is whole by itself.                                        *)
LEMMA BlockIsWhole ==
  ASSUME NEW p, NEW n, IsBlock(p, n)
  PROVE  IsTaken(FirstUpdates(p, n), p, n)
<1> DEFINE b == FirstUpdates(p, n)
<1>1. p \in SchurObjects /\ n \in Nat /\ n <= NSmax
  BY DEF IsBlock
<1>2. n <= Len(p.upd) /\ n <= Len(p.M) /\ n <= Len(p.S) /\ \A i \in 1 .. n : n <= Len(p.S[i])
  BY Zenon DEF IsBlock
<1>3. /\ \A i \in 1 .. n : p.M[i] = p.upd[i]
      /\ \A i, j \in 1 .. n : p.S[i][j] = {p.upd[i], p.upd[j]}
  BY Zenon DEF IsBlock
<1> HIDE DEF b
<1>6. /\ b \in SchurObjects
      /\ Lists(b) = Lists(p) /\ Factored(b) = Factored(p) /\ Marks(b) = Marks(p) /\ b.nS = n
      /\ b.upd \in Seq(Updates) /\ Len(b.upd) = n /\ (\A i \in 1 .. n : b.upd[i] = p.upd[i])
      /\ b.M \in Seq(Updates) /\ Len(b.M) = n /\ (\A i \in 1 .. n : b.M[i] = p.M[i])
      /\ b.S \in Seq(Seq(SUBSET Updates)) /\ Len(b.S) = n
      /\ (\A i \in 1 .. n : Len(b.S[i]) = n)
      /\ (\A i, j \in 1 .. n : b.S[i][j] = p.S[i][j])
  BY <1>1, <1>2, FirstUpdatesObject DEF b
<1>7. b.M = b.upd
  <2> DEFINE m == b.M
             u == b.upd
  <2>1. \A i \in 1 .. n : m[i] = u[i]
    BY <1>3, <1>6, Zenon
  <2>2. m \in Seq(Updates) /\ u \in Seq(Updates) /\ Len(m) = n /\ Len(u) = n
    BY <1>6
  <2> HIDE DEF m, u
  <2>3. m = u
    BY <2>1, <2>2, SameUpdates
  <2> QED BY <2>3 DEF m, u
<1>8. \A i, j \in 1 .. n : b.S[i][j] = {b.upd[i], b.upd[j]}
  <2> SUFFICES ASSUME NEW i \in 1 .. n, NEW j \in 1 .. n PROVE b.S[i][j] = {b.upd[i], b.upd[j]}
    OBVIOUS
  <2>1. b.S[i][j] = p.S[i][j] /\ p.S[i][j] = {p.upd[i], p.upd[j]}
    BY <1>3, <1>6, Zenon
  <2>2. b.upd[i] = p.upd[i] /\ b.upd[j] = p.upd[j]
    BY <1>6, Zenon
  <2> QED BY <2>1, <2>2, Zenon
<1>9. IsWhole(b)
  BY <1>1, <1>6, <1>7, <1>8, PartsMakeWhole
<1>10. Lists(b) = Lists(p) /\ Factored(b) = Factored(p) /\ Marks(b) = Marks(p)
       /\ b.nS = n /\ b.upd \in Seq(Updates) /\ Len(b.upd) = n /\ \A i \in 1 .. n : b.upd[i] = p.upd[i]
  BY <1>6, Zenon
<1> QED BY <1>9, <1>10 DEF b, IsTaken

(* Every beginning of a whole object is such a block.                      *)
LEMMA WholeIsBlock ==
  ASSUME NEW q, IsWhole(q), NEW n \in Nat, n <= q.nS
  PROVE  IsBlock(q, n)
<1>1. /\ q \in SchurObjects /\ q.nS \in Nat /\ q.nS <= NSmax /\ Len(q.upd) = q.nS
      /\ q.M = q.upd /\ Len(q.S) = q.nS /\ (\A i \in 1 .. q.nS : Len(q.S[i]) = q.nS)
      /\ \A i, j \in 1 .. q.nS : q.S[i][j] = {q.upd[i], q.upd[j]}
  BY WholeParts
<1>2. \A i \in 1 .. n : i \in 1 .. q.nS
  BY <1>1
<1>3. n <= NSmax
  BY <1>1, SchurAssumption
<1>4. \A i \in 1 .. n : n <= Len(q.S[i])
  BY <1>1, <1>2
<1>5. \A i, j \in 1 .. n : q.S[i][j] = {q.upd[i], q.upd[j]}
  BY <1>1, <1>2, Zenon
<1>6. n <= Len(q.upd) /\ n <= Len(q.M) /\ n <= Len(q.S)
  BY <1>1
<1>7. \A i \in 1 .. n : q.M[i] = q.upd[i]
  BY <1>1, Zenon
<1> QED BY <1>1, <1>3, <1>4, <1>5, <1>6, <1>7, Zenon DEF IsBlock

(* An update that was just added is taken back.                            *)
LEMMA AddedTakenBack ==
  ASSUME NEW q, IsWhole(q), NEW p, IsWhole(p), NEW v \in Updates, p.nS = q.nS + 1, p.upd = Append(q.upd, v),
         Lists(p) = Lists(q), Factored(p) = Factored(q), Marks(p) = Marks(q)
  PROVE  FirstUpdates(p, p.nS - 1) = q
<1> DEFINE n == q.nS
           b == FirstUpdates(p, n)
           u == q.upd
<1>1. n \in Nat /\ u \in Seq(Updates) /\ Len(u) = n
  BY WholeParts, Zenon
<1>2. IsBlock(p, n)
  <2>1. n <= p.nS
    BY <1>1
  <2> QED BY <1>1, <2>1, WholeIsBlock, Zenon
<1>3. /\ IsWhole(b) /\ Lists(b) = Lists(p) /\ Factored(b) = Factored(p) /\ Marks(b) = Marks(p)
      /\ b.nS = n /\ b.upd \in Seq(Updates) /\ Len(b.upd) = n
      /\ \A i \in 1 .. n : b.upd[i] = p.upd[i]
  <2>1. IsTaken(b, p, n)
    BY <1>2, BlockIsWhole, Zenon
  <2> HIDE DEF b
  <2> QED BY <2>1, Zenon DEF IsTaken
<1>4. p.upd = Append(u, v) /\ p.nS - 1 = n
  BY <1>1
<1> HIDE DEF b, u, n
<1>5. \A i \in 1 .. n : Append(u, v)[i] = u[i]
  BY <1>1
<1> DEFINE w == b.upd
<1>6. \A i \in 1 .. n : w[i] = u[i]
  BY <1>3, <1>4, <1>5, Zenon
<1>7. w \in Seq(Updates) /\ Len(w) = n
  BY <1>3
<1>8. w = u
  <2> HIDE DEF w
  <2> QED BY <1>1, <1>6, <1>7, SameUpdates
<1>9. b = q
  BY <1>3, <1>8, SameWhole, Zenon DEF u
<1> QED BY <1>9, <1>4, Zenon DEF b

IsDeleted(d, q, k) ==
  /\ d \in SchurObjects /\ Lists(d) = Lists(q) /\ Factored(d) = Factored(q) /\ Marks(d) = Marks(q)
  /\ d.nS = q.nS - 1 /\ Len(d.upd) = q.nS /\ d.M = d.upd
  /\ Len(d.S) = q.nS /\ (\A i \in 1 .. q.nS : Len(d.S[i]) = q.nS)
  /\ d.upd[q.nS] = q.upd[k] /\ (\A i \in 1 .. q.nS - 1 : d.upd[i] = q.upd[From(k, i)])
  /\ \A j \in 1 .. q.nS : d.S[q.nS][j] = {q.upd[k], q.upd[j]}
  /\ \A i, j \in 1 .. q.nS - 1 : d.S[i][j] = {d.upd[i], d.upd[j]}

(* Positions that a deletion takes entries from: all but the k-th.         *)
LEMMA FromRange ==
  ASSUME NEW n \in Nat, NEW k \in 1 .. n, NEW i \in 1 .. n - 1
  PROVE  From(k, i) \in 1 .. n /\ From(k, i) # k
BY DEF From

(* Positions that an undone deletion takes them from.                      *)
LEMMA ToRange ==
  ASSUME NEW n \in Nat, NEW k \in 1 .. n, NEW i \in 1 .. n, i # k
  PROVE  To(k, i) \in 1 .. n - 1 /\ From(k, To(k, i)) = i
BY DEF From, To

(* deleteFromSchurComplement(): what it leaves behind.                     *)
LEMMA Deleted ==
  ASSUME NEW q, IsWhole(q), NEW k \in 1 .. q.nS
  PROVE  IsDeleted(DeleteFromSchurComplement(q, k), q, k)
<1> DEFINE n == q.nS
           u == q.upd
           A == q.S
           v(i) == IF i = n THEN u[k] ELSE u[From(k, i)]
           w == [i \in 1 .. n |-> v(i)]
           e(i, j) == IF i = n THEN A[k][j] ELSE IF j = n THEN A[k][i] ELSE A[From(k, i)][From(k, j)]
           S == [i \in 1 .. n |-> [j \in 1 .. n |-> e(i, j)]]
           d == WithUpdates(q, n - 1, w, w, S)
<1>1. /\ q \in SchurObjects /\ n \in Nat /\ n <= NSmax /\ u \in Seq(Updates) /\ Len(u) = n
      /\ q.M = u /\ \A i, j \in 1 .. n : A[i][j] = {u[i], u[j]}
  BY WholeParts, Zenon
<1>2. DeleteFromSchurComplement(q, k) = d
  BY <1>1 DEF DeleteFromSchurComplement, WithUpdates
<1>3. k \in 1 .. n
  OBVIOUS
<1> HIDE DEF n, u, A
<1>4. \A i \in 1 .. n : i = n \/ i \in 1 .. n - 1
  BY <1>1
<1>5. n \in 1 .. n /\ \A i \in 1 .. n - 1 : i \in 1 .. n /\ i # n
  BY <1>1, <1>3
<1>6. \A i \in 1 .. n - 1 : From(k, i) \in 1 .. n
  BY <1>1, <1>3, FromRange
<1>7. \A i \in 1 .. n : u[i] \in Updates
  BY <1>1
<1>8. v(n) = u[k] /\ \A i \in 1 .. n - 1 : v(i) = u[From(k, i)]
  BY <1>5
<1>9. \A i \in 1 .. n : v(i) \in Updates
  BY <1>3, <1>4, <1>6, <1>7
<1>10. \A j \in 1 .. n : e(n, j) = {u[k], u[j]}
  BY <1>1, <1>3
<1>11. \A i, j \in 1 .. n - 1 : e(i, j) = {v(i), v(j)}
  <2> SUFFICES ASSUME NEW i \in 1 .. n - 1, NEW j \in 1 .. n - 1 PROVE e(i, j) = {v(i), v(j)}
    OBVIOUS
  <2>1. e(i, j) = A[From(k, i)][From(k, j)]
    BY <1>5
  <2> DEFINE a == From(k, i)
             b == From(k, j)
  <2>3. a \in 1 .. n /\ b \in 1 .. n
    BY <1>6, Zenon
  <2>2. A[From(k, i)][From(k, j)] = {u[From(k, i)], u[From(k, j)]}
    <3> HIDE DEF a, b, e, v
    <3>1. A[a][b] = {u[a], u[b]}
      BY <1>1, <2>3, Zenon
    <3> QED BY <3>1 DEF a, b
  <2> HIDE DEF e, v
  <2> QED BY <1>8, <2>1, <2>2, Zenon
<1>12. \A i, j \in 1 .. n : e(i, j) \in SUBSET Updates
  <2>1. \A i, j \in 1 .. n : A[i][j] \in SUBSET Updates
    BY <1>1, <1>7
  <2> QED BY <1>3, <1>4, <1>6, <2>1
<1> HIDE DEF v, e
<1>13. w \in [1 .. n -> Updates] /\ S \in [1 .. n -> [1 .. n -> SUBSET Updates]]
  BY <1>9, <1>12
<1>14. (\A i \in 1 .. n : w[i] = v(i)) /\ \A i, j \in 1 .. n : S[i][j] = e(i, j)
  OBVIOUS
<1> HIDE DEF w, S
<1>15. w \in Seq(Updates) /\ Len(w) = n
  BY <1>1, <1>13, UpdatesSeq
<1>16. S \in Arrays /\ Len(S) = n /\ \A i \in 1 .. n : Len(S[i]) = n
  BY <1>1, <1>13, SquareIsArray
<1>17. /\ d \in SchurObjects
       /\ Lists(d) = Lists(q) /\ Factored(d) = Factored(q) /\ Marks(d) = Marks(q)
       /\ d.nS = n - 1 /\ d.upd = w /\ d.M = w /\ d.S = S
  <2> DEFINE m == n - 1
  <2>1. m \in Int
    BY <1>1
  <2> HIDE DEF m
  <2>2. LET p == WithUpdates(q, m, w, w, S)
        IN  /\ p \in SchurObjects
            /\ Lists(p) = Lists(q) /\ Factored(p) = Factored(q) /\ Marks(p) = Marks(q)
            /\ p.nS = m /\ p.upd = w /\ p.M = w /\ p.S = S
    BY <1>1, <1>15, <1>16, <2>1, WithUpdatesObject
  <2> QED BY <2>2, Zenon DEF m
<1> HIDE DEF d
<1>18. w[n] = u[k] /\ (\A i \in 1 .. n - 1 : w[i] = u[From(k, i)]) /\ \A j \in 1 .. n : S[n][j] = {u[k], u[j]}
  BY <1>5, <1>8, <1>10, <1>14
<1>19. \A i, j \in 1 .. n - 1 : S[i][j] = {w[i], w[j]}
  BY <1>5, <1>11, <1>14
<1>20. IsDeleted(d, q, k)
  BY <1>15, <1>16, <1>17, <1>18, <1>19, Zenon DEF IsDeleted, n, u
<1> QED BY <1>2, <1>20

(* updateSchurQR() after a deletion.                                       *)
IsTrimmed(p, q, k) ==
  /\ IsWhole(p) /\ Lists(p) = Lists(q) /\ Factored(p) = Factored(q) /\ Marks(p) = Marks(q)
  /\ p.nS = q.nS - 1 /\ \A i \in 1 .. q.nS - 1 : p.upd[i] = q.upd[From(k, i)]

(* The rest is whole.                                                      *)
LEMMA DeletedTrimmed ==
  ASSUME NEW q, IsWhole(q), NEW k \in 1 .. q.nS
  PROVE  IsTrimmed(UpdateSchurQR(DeleteFromSchurComplement(q, k)), q, k)
<1> DEFINE d == DeleteFromSchurComplement(q, k)
           n == q.nS - 1
           b == FirstUpdates(d, n)
<1>1. IsDeleted(d, q, k)
  BY Deleted
<1>2. q.nS \in Nat /\ q.nS <= NSmax
  BY WholeParts, Zenon
<1>3. n \in Nat /\ n <= NSmax /\ n <= q.nS /\ \A i \in 1 .. n : i \in 1 .. q.nS
  BY <1>2, SchurAssumption
<1> HIDE DEF d
<1>4. /\ d \in SchurObjects /\ Lists(d) = Lists(q) /\ Factored(d) = Factored(q) /\ Marks(d) = Marks(q)
      /\ d.nS = n /\ Len(d.upd) = q.nS /\ d.M = d.upd
      /\ Len(d.S) = q.nS /\ (\A i \in 1 .. q.nS : Len(d.S[i]) = q.nS)
      /\ (\A i \in 1 .. n : d.upd[i] = q.upd[From(k, i)])
      /\ \A i, j \in 1 .. n : d.S[i][j] = {d.upd[i], d.upd[j]}
  BY <1>1, Zenon DEF IsDeleted
<1> HIDE DEF n
<1>5. IsBlock(d, n)
  <2>1. n <= Len(d.upd) /\ n <= Len(d.M) /\ n <= Len(d.S)
    BY <1>3, <1>4
  <2>2. \A i \in 1 .. n : n <= Len(d.S[i])
    BY <1>3, <1>4
  <2>3. \A i \in 1 .. n : d.M[i] = d.upd[i]
    BY <1>4, Zenon
  <2> QED BY <1>3, <1>4, <2>1, <2>2, <2>3, Zenon DEF IsBlock
<1>6. IsTaken(b, d, n)
  BY <1>5, BlockIsWhole, Zenon
<1> HIDE DEF b
<1>7. IsTrimmed(b, q, k)
  BY <1>4, <1>6, Zenon DEF IsTrimmed, IsTaken, n
<1> QED BY <1>4, <1>7, Zenon DEF UpdateSchurQR, d, b

(* undoDeleteFromSchurComplement() after a deletion.                       *)
LEMMA DeletedUndone ==
  ASSUME NEW q, IsWhole(q), NEW k \in 1 .. q.nS
  PROVE  UndoDeleteFromSchurComplement(DeleteFromSchurComplement(q, k), k) = q
<1> DEFINE d == DeleteFromSchurComplement(q, k)
           n == q.nS
           u == q.upd
           D == d.S
           c == d.upd
           v(i) == IF i = k THEN c[n] ELSE c[To(k, i)]
           w == [i \in 1 .. n |-> v(i)]
           e(i, j) == IF i = k THEN D[n][j] ELSE IF j = k THEN D[n][i] ELSE D[To(k, i)][To(k, j)]
           S == [i \in 1 .. n |-> [j \in 1 .. n |-> e(i, j)]]
           p == WithUpdates(d, n, w, w, S)
<1>1. IsDeleted(d, q, k)
  BY Deleted
<1>2. n \in Nat /\ n <= NSmax /\ u \in Seq(Updates) /\ Len(u) = n
  BY WholeParts, Zenon
<1>3. k \in 1 .. n
  OBVIOUS
<1> HIDE DEF d, n, u
<1>4. /\ d \in SchurObjects /\ Lists(d) = Lists(q) /\ Factored(d) = Factored(q) /\ Marks(d) = Marks(q)
      /\ d.nS = n - 1 /\ d.M = c
      /\ c[n] = u[k] /\ (\A i \in 1 .. n - 1 : c[i] = u[From(k, i)])
      /\ (\A j \in 1 .. n : D[n][j] = {u[k], u[j]})
      /\ \A i, j \in 1 .. n - 1 : D[i][j] = {c[i], c[j]}
  BY <1>1, Zenon DEF IsDeleted, n, u
<1>5. d.nS + 1 = n
  BY <1>2, <1>4
<1>6. UndoDeleteFromSchurComplement(d, k) = p
  BY <1>4, <1>5 DEF UndoDeleteFromSchurComplement, WithUpdates
<1> HIDE DEF c, D
<1>7. \A i \in 1 .. n : i # k => To(k, i) \in 1 .. n - 1 /\ From(k, To(k, i)) = i
  BY <1>2, <1>3, ToRange
<1>8. \A i \in 1 .. n : v(i) = u[i]
  <2>1. \A i \in 1 .. n : i # k => c[To(k, i)] = u[i]
    BY <1>4, <1>7, Zenon
  <2> QED BY <1>4, <2>1
<1>9. \A i, j \in 1 .. n : e(i, j) = {u[i], u[j]}
  <2> SUFFICES ASSUME NEW i \in 1 .. n, NEW j \in 1 .. n PROVE e(i, j) = {u[i], u[j]}
    OBVIOUS
  <2>1. CASE i = k
    BY <1>4, <2>1
  <2>2. CASE i # k /\ j = k
    BY <1>4, <2>2
  <2>3. CASE i # k /\ j # k
    <3>1. e(i, j) = D[To(k, i)][To(k, j)]
      BY <2>3
    <3>2. To(k, i) \in 1 .. n - 1 /\ From(k, To(k, i)) = i
      BY <1>7, <2>3, Zenon
    <3>3. To(k, j) \in 1 .. n - 1 /\ From(k, To(k, j)) = j
      BY <1>7, <2>3, Zenon
    <3>4. D[To(k, i)][To(k, j)] = {c[To(k, i)], c[To(k, j)]}
      BY <1>4, <3>2, <3>3, Zenon
    <3>5. c[To(k, i)] = u[i] /\ c[To(k, j)] = u[j]
      BY <1>4, <3>2, <3>3, Zenon
    <3> HIDE DEF e
    <3> QED BY <3>1, <3>4, <3>5, Zenon
  <2> QED BY <2>1, <2>2, <2>3, Zenon
<1>10. \A i \in 1 .. n : u[i] \in Updates
  BY <1>2
<1> HIDE DEF v, e
<1>11. w \in [1 .. n -> Updates] /\ \A i \in 1 .. n : w[i] = u[i]
  BY <1>8, <1>10
<1>12. S \in [1 .. n -> [1 .. n -> SUBSET Updates]] /\ \A i, j \in 1 .. n : S[i][j] = {u[i], u[j]}
  <2>1. \A i, j \in 1 .. n : e(i, j) \in SUBSET Updates
    BY <1>9, <1>10
  <2> QED BY <1>9, <2>1
<1> HIDE DEF w, S
<1>13. w \in Seq(Updates) /\ Len(w) = n
  BY <1>2, <1>11, UpdatesSeq
<1>14. w = u
  BY <1>2, <1>11, <1>13, SameUpdates
<1>15. S \in Arrays /\ Len(S) = n /\ \A i \in 1 .. n : Len(S[i]) = n
  BY <1>2, <1>12, SquareIsArray
<1>16. /\ p \in SchurObjects
       /\ Lists(p) = Lists(q) /\ Factored(p) = Factored(q) /\ Marks(p) = Marks(q)
       /\ p.nS = n /\ p.upd = u /\ p.M = u /\ p.S = S
  <2>1. n \in Int
    BY <1>2
  <2> QED BY <1>4, <1>13, <1>14, <1>15, <2>1, WithUpdatesObject
<1> HIDE DEF p
<1>17. IsWhole(p)
  BY <1>2, <1>12, <1>15, <1>16, PartsMakeWhole
<1>18. p = q
  BY <1>16, <1>17, SameWhole, Zenon DEF u
<1> QED BY <1>6, <1>18, Zenon DEF d

(* A new update is one more.                                               *)
LEMMA AppendEntries ==
  ASSUME NEW u \in Seq(Updates), NEW v \in Updates, Distinct(u), v \notin Entries(u)
  PROVE  Distinct(Append(u, v)) /\ Entries(Append(u, v)) = Entries(u) \cup {v}
<1> DEFINE n == Len(u)
           w == Append(u, v)
<1>1. n \in Nat /\ Len(w) = n + 1 /\ w[n + 1] = v /\ \A i \in 1 .. n : w[i] = u[i]
  OBVIOUS
<1>2. (\A i \in 1 .. n : u[i] # v) /\ \A j, k \in 1 .. n : u[j] = u[k] => j = k
  BY DEF Entries, Distinct
<1> HIDE DEF n, w
<1>3. \A i \in 1 .. n + 1 : i = n + 1 \/ i \in 1 .. n
  BY <1>1
<1>4. n + 1 \in 1 .. n + 1 /\ \A i \in 1 .. n : i \in 1 .. n + 1
  BY <1>1
<1>5. Distinct(w)
  <2> SUFFICES ASSUME NEW j \in 1 .. n + 1, NEW k \in 1 .. n + 1, w[j] = w[k] PROVE j = k
    BY <1>1 DEF Distinct
  <2> QED BY <1>1, <1>2, <1>3
<1>6. Entries(w) = {w[k] : k \in 1 .. n + 1} /\ Entries(u) = {u[k] : k \in 1 .. n}
  BY <1>1 DEF Entries, n
<1>7. {w[k] : k \in 1 .. n + 1} = {u[k] : k \in 1 .. n} \cup {v}
  BY <1>1, <1>3, <1>4
<1> QED BY <1>5, <1>6, <1>7 DEF w

HasNoMore(w, u, k) ==
  /\ u \in Seq(Updates) /\ w \in Seq(Updates) /\ k \in 1 .. Len(u) /\ Len(w) = Len(u) - 1
  /\ \A i \in 1 .. Len(u) - 1 : w[i] = u[From(k, i)]

(* A deleted update is one less.                                           *)
LEMMA RemovedEntries ==
  ASSUME NEW u, NEW w, NEW k, HasNoMore(w, u, k), Distinct(u)
  PROVE  Distinct(w) /\ Entries(w) = Entries(u) \ {u[k]}
<1> DEFINE n == Len(u)
<1>0. u \in Seq(Updates) /\ w \in Seq(Updates) /\ n \in Nat /\ k \in 1 .. n /\ Len(w) = n - 1
  BY DEF HasNoMore
<1>8. \A i \in 1 .. n - 1 : w[i] = u[From(k, i)]
  BY DEF HasNoMore
<1>9. Len(u) = n
  OBVIOUS
<1> HIDE DEF n
<1>1. \A i, j \in 1 .. n : u[i] = u[j] => i = j
  BY <1>9 DEF Distinct
<1>2. \A i \in 1 .. n - 1 : From(k, i) \in 1 .. n /\ From(k, i) # k
  BY <1>0, FromRange
<1>3. \A i, j \in 1 .. n - 1 : From(k, i) = From(k, j) => i = j
  BY <1>0 DEF From
<1>4. \A i \in 1 .. n : i # k => \E j \in 1 .. n - 1 : From(k, j) = i
  BY <1>0, ToRange
<1>5. Distinct(w)
  <2> SUFFICES ASSUME NEW i \in 1 .. n - 1, NEW j \in 1 .. n - 1, w[i] = w[j] PROVE i = j
    BY <1>0 DEF Distinct
  <2> QED BY <1>1, <1>2, <1>3, <1>8
<1>6. Entries(w) = {w[i] : i \in 1 .. n - 1} /\ Entries(u) = {u[i] : i \in 1 .. n}
  BY <1>0, <1>9 DEF Entries
<1>7. {w[i] : i \in 1 .. n - 1} = {u[i] : i \in 1 .. n} \ {u[k]}
  <2>1. ASSUME NEW i \in 1 .. n - 1 PROVE w[i] \in {u[j] : j \in 1 .. n} \ {u[k]}
    BY <1>0, <1>1, <1>2, <1>8
  <2>2. ASSUME NEW i \in 1 .. n, u[i] # u[k] PROVE u[i] \in {w[j] : j \in 1 .. n - 1}
    <3>1. PICK j \in 1 .. n - 1 : From(k, j) = i
      BY <1>4, <2>2
    <3> QED BY <1>8, <3>1
  <2> QED BY <2>1, <2>2
<1> QED BY <1>5, <1>6, <1>7

(* Without updates.                                                        *)
LEMMA NoEntries == Distinct(<<>>) /\ Entries(<<>>) = {}
BY DEF Distinct, Entries

(* A search finds an update exactly if there is one.                       *)
LEMMA PositionFinds ==
  ASSUME NEW q, IsWhole(q), NEW v
  PROVE  /\ Position(q, v) > 0 => Position(q, v) \in 1 .. q.nS /\ q.upd[Position(q, v)] = v
         /\ ~(Position(q, v) > 0) => v \notin Entries(q.upd)
<1> DEFINE n == q.nS
           u == q.upd
           k == CHOOSE k \in 1 .. n : u[k] = v
<1>1. n \in Nat /\ Len(u) = n
  BY WholeParts, Zenon
<1>2. Position(q, v) = IF \E j \in 1 .. n : u[j] = v THEN k ELSE 0
  BY Zenon DEF Position
<1> HIDE DEF n, u
<1>3. CASE \E j \in 1 .. n : u[j] = v
  <2>1. k \in 1 .. n /\ u[k] = v
    BY <1>3, Zenon
  <2> HIDE DEF k
  <2>2. k > 0
    BY <1>1, <2>1
  <2> QED BY <1>2, <1>3, <2>1, <2>2 DEF n, u
<1>4. CASE ~ \E j \in 1 .. n : u[j] = v
  <2>1. Position(q, v) = 0
    BY <1>2, <1>4, Zenon
  <2>2. v \notin Entries(u)
    BY <1>1, <1>4 DEF Entries
  <2> QED BY <2>1, <2>2 DEF u
<1> QED BY <1>3, <1>4

-----------------------------------------------------------------------------
(* Changes of the working set.                                             *)
SameComplement(p, q) == p.nS = q.nS /\ p.upd = q.upd /\ p.S = q.S /\ p.M = q.M
IsChange(c, q) ==
  /\ c.q \in SchurObjects /\ Factored(c.q) = Factored(q) /\ Marks(c.q) = Marks(q) /\ SameComplement(c.q, q)
  /\ c.does \in Updates /\ c.undoes \in Updates /\ c.error # "OK"
  /\ IF c.undoes \in DifferencesOf(q) THEN DifferencesOf(c.q) = DifferencesOf(q) \ {c.undoes}
     ELSE c.admitted /\ c.does \notin DifferencesOf(q) /\ DifferencesOf(c.q) = DifferencesOf(q) \cup {c.does}

(* An update by its parts.                                                 *)
LEMMA UpdateIs ==
  ASSUME NEW i \in Idx, NEW t \in {"VarFixed", "VarFreed", "ConAdded", "ConRemoved"}
  PROVE  Update(i, t) \in Updates /\ Update(i, t).i = i /\ Update(i, t).t = t
BY DEF Update, Updates

(* Updates are the same if their parts are.                                *)
LEMMA UpdateSplit ==
  ASSUME NEW v \in Updates
  PROVE  /\ v.i \in Idx /\ v.t \in {"VarFixed", "VarFreed", "ConAdded", "ConRemoved"}
         /\ \A i, t : v = Update(i, t) <=> v.i = i /\ v.t = t
BY DEF Update, Updates

(* An index is of a variable or of a constraint.                           *)
LEMMA DisjointIdx == Vars \cap Cons = {} /\ Vars \subseteq Idx /\ Cons \subseteq Idx /\ Idx = Vars \cup Cons
BY SchurAssumption DEF Vars, Cons, Idx

(* An object with other free variables.                                    *)
LEMMA WithFree ==
  ASSUME NEW q \in SchurObjects, NEW f \in SUBSET Vars
  PROVE  LET p == [q EXCEPT !.free = f]
         IN  /\ p \in SchurObjects /\ Factored(p) = Factored(q) /\ Marks(p) = Marks(q) /\ SameComplement(p, q)
             /\ p.free = f /\ p.active = q.active /\ p.freeStart = q.freeStart /\ p.activeStart = q.activeStart
BY DEF SchurObjects, Factored, Marks, SameComplement

(* An object with other active constraints.                                *)
LEMMA WithActive ==
  ASSUME NEW q \in SchurObjects, NEW f \in SUBSET Cons
  PROVE  LET p == [q EXCEPT !.active = f]
         IN  /\ p \in SchurObjects /\ Factored(p) = Factored(q) /\ Marks(p) = Marks(q) /\ SameComplement(p, q)
             /\ p.active = f /\ p.free = q.free /\ p.freeStart = q.freeStart /\ p.activeStart = q.activeStart
BY DEF SchurObjects, Factored, Marks, SameComplement

(* Each of the four changes undoes a difference or makes a new one.        *)
LEMMA AddBoundIsChange ==
  ASSUME NEW q \in SchurObjects, NEW i \in q.free
  PROVE  IsChange(AddBound(q, i), q)
<1> DEFINE c == AddBound(q, i)
           p == [q EXCEPT !.free = q.free \ {i}]
           D == DifferencesOf(q)
           E == DifferencesOf(p)
           a == Update(i, "VarFreed")
           b == Update(i, "VarFixed")
<1>1. q.free \in SUBSET Vars /\ i \in Idx
  BY SchurObjectParts, DisjointIdx
<1>2. c.q = p /\ c.undoes = a /\ c.does = b /\ c.error # "OK" /\ c.admitted = (i \in q.freeStart)
  BY DEF AddBound, Change, FixVariable
<1>3. /\ p \in SchurObjects /\ Factored(p) = Factored(q) /\ Marks(p) = Marks(q) /\ SameComplement(p, q)
      /\ p.free = q.free \ {i} /\ p.active = q.active /\ p.freeStart = q.freeStart /\ p.activeStart = q.activeStart
  <2> DEFINE f == q.free \ {i}
  <2>1. f \in SUBSET Vars
    BY <1>1
  <2> HIDE DEF f
  <2>2. LET x == [q EXCEPT !.free = f]
        IN  /\ x \in SchurObjects /\ Factored(x) = Factored(q) /\ Marks(x) = Marks(q) /\ SameComplement(x, q)
            /\ x.free = f /\ x.active = q.active /\ x.freeStart = q.freeStart /\ x.activeStart = q.activeStart
    BY <2>1, WithFree
  <2> QED BY <2>2 DEF f
<1>4. a \in Updates /\ a.i = i /\ a.t = "VarFreed" /\ b \in Updates /\ b.i = i /\ b.t = "VarFixed"
  BY <1>1, UpdateIs
<1>5. \A v \in Updates : (v = a <=> v.i = i /\ v.t = "VarFreed") /\ (v = b <=> v.i = i /\ v.t = "VarFixed")
  BY UpdateSplit
<1> HIDE DEF c, p, a, b
<1>6. a \in D <=> i \notin q.freeStart
  BY <1>4 DEF DifferencesOf, IsDifference
<1>7. b \notin D
  BY <1>4 DEF DifferencesOf, IsDifference
<1>8. i \notin q.freeStart => E = D \ {a}
  BY <1>3, <1>5 DEF DifferencesOf, IsDifference
<1>9. i \in q.freeStart => E = D \cup {b}
  BY <1>3, <1>4, <1>5 DEF DifferencesOf, IsDifference
<1> HIDE DEF D, E
<1>10. IF a \in D THEN E = D \ {a} ELSE i \in q.freeStart /\ b \notin D /\ E = D \cup {b}
  BY <1>6, <1>7, <1>8, <1>9
<1>11. IsChange(c, q)
  BY <1>2, <1>3, <1>4, <1>10 DEF IsChange, D, E
<1> QED BY <1>11 DEF c

(* addConstraint() is such a change.                                       *)
LEMMA AddConstraintIsChange ==
  ASSUME NEW q \in SchurObjects, NEW i \in Cons, i \notin q.active
  PROVE  IsChange(AddConstraint(q, i), q)
<1> DEFINE c == AddConstraint(q, i)
           p == [q EXCEPT !.active = q.active \cup {i}]
           D == DifferencesOf(q)
           E == DifferencesOf(p)
           a == Update(i, "ConRemoved")
           b == Update(i, "ConAdded")
<1>1. q.active \in SUBSET Cons /\ i \in Idx
  BY SchurObjectParts, DisjointIdx
<1>2. c.q = p /\ c.undoes = a /\ c.does = b /\ c.error # "OK" /\ c.admitted = (TRUE)
  BY DEF AddConstraint, Change, ActivateConstraint
<1>3. /\ p \in SchurObjects /\ Factored(p) = Factored(q) /\ Marks(p) = Marks(q) /\ SameComplement(p, q)
      /\ p.active = q.active \cup {i} /\ p.free = q.free /\ p.freeStart = q.freeStart /\ p.activeStart = q.activeStart
  <2> DEFINE f == q.active \cup {i}
  <2>1. f \in SUBSET Cons
    BY <1>1
  <2> HIDE DEF f
  <2>2. LET x == [q EXCEPT !.active = f]
        IN  /\ x \in SchurObjects /\ Factored(x) = Factored(q) /\ Marks(x) = Marks(q) /\ SameComplement(x, q)
            /\ x.active = f /\ x.free = q.free /\ x.freeStart = q.freeStart /\ x.activeStart = q.activeStart
    BY <2>1, WithActive
  <2> QED BY <2>2 DEF f
<1>4. a \in Updates /\ a.i = i /\ a.t = "ConRemoved" /\ b \in Updates /\ b.i = i /\ b.t = "ConAdded"
  BY <1>1, UpdateIs
<1>5. \A v \in Updates : (v = a <=> v.i = i /\ v.t = "ConRemoved") /\ (v = b <=> v.i = i /\ v.t = "ConAdded")
  BY UpdateSplit
<1> HIDE DEF c, p, a, b
<1>6. a \in D <=> i \in q.activeStart
  BY <1>4 DEF DifferencesOf, IsDifference
<1>7. b \notin D
  BY <1>4 DEF DifferencesOf, IsDifference
<1>8. i \in q.activeStart => E = D \ {a}
  BY <1>3, <1>5 DEF DifferencesOf, IsDifference
<1>9. i \notin q.activeStart => E = D \cup {b}
  BY <1>3, <1>4, <1>5 DEF DifferencesOf, IsDifference
<1> HIDE DEF D, E
<1>10. IF a \in D THEN E = D \ {a} ELSE TRUE /\ b \notin D /\ E = D \cup {b}
  BY <1>6, <1>7, <1>8, <1>9
<1>11. IsChange(c, q)
  BY <1>2, <1>3, <1>4, <1>10 DEF IsChange, D, E
<1> QED BY <1>11 DEF c

(* removeBound() is such a change.                                         *)
LEMMA RemoveBoundIsChange ==
  ASSUME NEW q \in SchurObjects, NEW i \in Vars, i \notin q.free
  PROVE  IsChange(RemoveBound(q, i), q)
<1> DEFINE c == RemoveBound(q, i)
           p == [q EXCEPT !.free = q.free \cup {i}]
           D == DifferencesOf(q)
           E == DifferencesOf(p)
           a == Update(i, "VarFixed")
           b == Update(i, "VarFreed")
<1>1. q.free \in SUBSET Vars /\ i \in Idx
  BY SchurObjectParts, DisjointIdx
<1>2. c.q = p /\ c.undoes = a /\ c.does = b /\ c.error # "OK" /\ c.admitted = (TRUE)
  BY DEF RemoveBound, Change, FreeVariable
<1>3. /\ p \in SchurObjects /\ Factored(p) = Factored(q) /\ Marks(p) = Marks(q) /\ SameComplement(p, q)
      /\ p.free = q.free \cup {i} /\ p.active = q.active /\ p.freeStart = q.freeStart /\ p.activeStart = q.activeStart
  <2> DEFINE f == q.free \cup {i}
  <2>1. f \in SUBSET Vars
    BY <1>1
  <2> HIDE DEF f
  <2>2. LET x == [q EXCEPT !.free = f]
        IN  /\ x \in SchurObjects /\ Factored(x) = Factored(q) /\ Marks(x) = Marks(q) /\ SameComplement(x, q)
            /\ x.free = f /\ x.active = q.active /\ x.freeStart = q.freeStart /\ x.activeStart = q.activeStart
    BY <2>1, WithFree
  <2> QED BY <2>2 DEF f
<1>4. a \in Updates /\ a.i = i /\ a.t = "VarFixed" /\ b \in Updates /\ b.i = i /\ b.t = "VarFreed"
  BY <1>1, UpdateIs
<1>5. \A v \in Updates : (v = a <=> v.i = i /\ v.t = "VarFixed") /\ (v = b <=> v.i = i /\ v.t = "VarFreed")
  BY UpdateSplit
<1> HIDE DEF c, p, a, b
<1>6. a \in D <=> i \in q.freeStart
  BY <1>4 DEF DifferencesOf, IsDifference
<1>7. b \notin D
  BY <1>4 DEF DifferencesOf, IsDifference
<1>8. i \in q.freeStart => E = D \ {a}
  BY <1>3, <1>5 DEF DifferencesOf, IsDifference
<1>9. i \notin q.freeStart => E = D \cup {b}
  BY <1>3, <1>4, <1>5 DEF DifferencesOf, IsDifference
<1> HIDE DEF D, E
<1>10. IF a \in D THEN E = D \ {a} ELSE TRUE /\ b \notin D /\ E = D \cup {b}
  BY <1>6, <1>7, <1>8, <1>9
<1>11. IsChange(c, q)
  BY <1>2, <1>3, <1>4, <1>10 DEF IsChange, D, E
<1> QED BY <1>11 DEF c

(* removeConstraint() is such a change.                                    *)
LEMMA RemoveConstraintIsChange ==
  ASSUME NEW q \in SchurObjects, NEW i \in q.active
  PROVE  IsChange(RemoveConstraint(q, i), q)
<1> DEFINE c == RemoveConstraint(q, i)
           p == [q EXCEPT !.active = q.active \ {i}]
           D == DifferencesOf(q)
           E == DifferencesOf(p)
           a == Update(i, "ConAdded")
           b == Update(i, "ConRemoved")
<1>1. q.active \in SUBSET Cons /\ i \in Idx
  BY SchurObjectParts, DisjointIdx
<1>2. c.q = p /\ c.undoes = a /\ c.does = b /\ c.error # "OK" /\ c.admitted = (i \in q.activeStart)
  BY DEF RemoveConstraint, Change, DeactivateConstraint
<1>3. /\ p \in SchurObjects /\ Factored(p) = Factored(q) /\ Marks(p) = Marks(q) /\ SameComplement(p, q)
      /\ p.active = q.active \ {i} /\ p.free = q.free /\ p.freeStart = q.freeStart /\ p.activeStart = q.activeStart
  <2> DEFINE f == q.active \ {i}
  <2>1. f \in SUBSET Cons
    BY <1>1
  <2> HIDE DEF f
  <2>2. LET x == [q EXCEPT !.active = f]
        IN  /\ x \in SchurObjects /\ Factored(x) = Factored(q) /\ Marks(x) = Marks(q) /\ SameComplement(x, q)
            /\ x.active = f /\ x.free = q.free /\ x.freeStart = q.freeStart /\ x.activeStart = q.activeStart
    BY <2>1, WithActive
  <2> QED BY <2>2 DEF f
<1>4. a \in Updates /\ a.i = i /\ a.t = "ConAdded" /\ b \in Updates /\ b.i = i /\ b.t = "ConRemoved"
  BY <1>1, UpdateIs
<1>5. \A v \in Updates : (v = a <=> v.i = i /\ v.t = "ConAdded") /\ (v = b <=> v.i = i /\ v.t = "ConRemoved")
  BY UpdateSplit
<1> HIDE DEF c, p, a, b
<1>6. a \in D <=> i \notin q.activeStart
  BY <1>4 DEF DifferencesOf, IsDifference
<1>7. b \notin D
  BY <1>4 DEF DifferencesOf, IsDifference
<1>8. i \notin q.activeStart => E = D \ {a}
  BY <1>3, <1>5 DEF DifferencesOf, IsDifference
<1>9. i \in q.activeStart => E = D \cup {b}
  BY <1>3, <1>4, <1>5 DEF DifferencesOf, IsDifference
<1> HIDE DEF D, E
<1>10. IF a \in D THEN E = D \ {a} ELSE i \in q.activeStart /\ b \notin D /\ E = D \cup {b}
  BY <1>6, <1>7, <1>8, <1>9
<1>11. IsChange(c, q)
  BY <1>2, <1>3, <1>4, <1>10 DEF IsChange, D, E
<1> QED BY <1>11 DEF c

(* A removed index that is put back.                                       *)
LEMMA BoundPutBack ==
  ASSUME NEW q \in SchurObjects, NEW i \in Vars, i \notin q.free
  PROVE  IntoWorkingSet(RemoveBound(q, i).q, i) = q
<1>1. RemoveBound(q, i).q = [q EXCEPT !.free = @ \cup {i}]
  BY DEF RemoveBound, Change, FreeVariable
<1>2. (q.free \cup {i}) \ {i} = q.free
  OBVIOUS
<1>3. [[q EXCEPT !.free = @ \cup {i}] EXCEPT !.free = @ \ {i}] = q
  BY <1>2 DEF SchurObjects
<1> QED BY <1>1, <1>3 DEF IntoWorkingSet, FixVariable

(* A constraint that is flipped back is active again, as before.           *)
LEMMA ConstraintPutBack ==
  ASSUME NEW q \in SchurObjects, NEW i \in Cons, i \in q.active
  PROVE  IntoWorkingSet(RemoveConstraint(q, i).q, i) = q
<1>1. RemoveConstraint(q, i).q = [q EXCEPT !.active = @ \ {i}]
  BY DEF RemoveConstraint, Change, DeactivateConstraint
<1>2. (q.active \ {i}) \cup {i} = q.active
  OBVIOUS
<1>3. [[q EXCEPT !.active = @ \ {i}] EXCEPT !.active = @ \cup {i}] = q
  BY <1>2 DEF SchurObjects
<1>4. i \notin Vars
  BY DisjointIdx
<1> QED BY <1>1, <1>3, <1>4 DEF IntoWorkingSet, ActivateConstraint

-----------------------------------------------------------------------------
(* What the sparse solver answers.                                         *)
LEMMA NewSolverIs ==
  ASSUME NEW kind \in SolverKinds
  PROVE  /\ NewSolver(kind) \in SparseSolvers
         /\ \A n \in Int : /\ [NewSolver(kind) EXCEPT !.dim = n] \in SparseSolvers
                           /\ [NewSolver(kind) EXCEPT !.dim = n].dim = n
<1> DEFINE sv == NewSolver(kind)
<1>1. sv \in SparseSolvers
  BY DEF NewSolver, SparseSolvers
<1> HIDE DEF sv
<1>2. \A n \in Int : [sv EXCEPT !.dim = n] \in SparseSolvers /\ [sv EXCEPT !.dim = n].dim = n
  BY <1>1 DEF SparseSolvers
<1> QED BY <1>1, <1>2 DEF sv

(* setMatrixData(): the solver has the dimension of its matrix.            *)
LEMMA MatrixIsSet ==
  ASSUME NEW sv \in SparseSolvers, NEW n \in Int, NEW m \in SetMatrixData(sv, n)
  PROVE  m.s \in SparseSolvers /\ (m.ret = "OK" => m.s.dim = n)
<1>1. \/ m = [s |-> [NewSolver("MA27") EXCEPT !.dim = n], ret |-> "OK"]
      \/ m = [s |-> [NewSolver("MA57") EXCEPT !.dim = n], ret |-> "OK"]
      \/ m = [s |-> sv, ret |-> "NO_SPARSE_SOLVER"]
  BY DEF SetMatrixData, SetMatrixDataMa27, SetMatrixDataMa57, SetMatrixDataDummy, Answer, ClearMa27, ClearMa57
<1>2. \A kind \in {"MA27", "MA57"} : /\ [NewSolver(kind) EXCEPT !.dim = n] \in SparseSolvers
                                     /\ [NewSolver(kind) EXCEPT !.dim = n].dim = n
  BY NewSolverIs DEF SolverKinds
<1> DEFINE a == [NewSolver("MA27") EXCEPT !.dim = n]
           b == [NewSolver("MA57") EXCEPT !.dim = n]
<1>3. a \in SparseSolvers /\ a.dim = n /\ b \in SparseSolvers /\ b.dim = n
  BY <1>2, Zenon
<1>4. m = [s |-> a, ret |-> "OK"] \/ m = [s |-> b, ret |-> "OK"] \/ m = [s |-> sv, ret |-> "NO_SPARSE_SOLVER"]
  BY <1>1, Zenon
<1> HIDE DEF a, b
<1> QED BY <1>3, <1>4

IsFactorisation(f, sv) ==
  f.s \in SparseSolvers /\ (f.ret = "OK" => f.s.have /\ f.s.dim = sv.dim /\ f.s.rank = sv.dim)

(* The answers of factorize(), one by one.                                 *)
LEMMA FactorisedIs ==
  ASSUME NEW sv \in SparseSolvers
  PROVE  /\ IsFactorisation(Factorised(sv), sv)
         /\ \A r \in Int : IsFactorisation(Answer([sv EXCEPT !.rank = r], "KKT_MATRIX_SINGULAR"), sv)
         /\ \A r \in Int, z \in SUBSET Nat :
              IsFactorisation(Answer([sv EXCEPT !.rank = r, !.zero = z], "KKT_MATRIX_SINGULAR"), sv)
         /\ \A kind \in SolverKinds : IsFactorisation(Answer(NewSolver(kind), "MATRIX_FACTORISATION_FAILED"), sv)
         /\ IsFactorisation(Answer(sv, "NO_SPARSE_SOLVER"), sv)
BY NewSolverIs DEF IsFactorisation, Factorised, Answer, SparseSolvers

(* factorize(): a success means full rank in the dimension of the matrix.  *)
LEMMA FactorizeAnswers ==
  ASSUME NEW sv \in SparseSolvers, NEW faults, NEW f \in Factorize(sv, faults)
  PROVE  IsFactorisation(f, sv)
<1>0. sv.dim \in Int
  BY DEF SparseSolvers
<1>1. CASE sv.kind = "MA27"
  <2>1. f \in FactorizeMa27(sv, faults)
    BY <1>1, Zenon DEF Factorize
  <2>2. \/ f = Factorised(sv)
        \/ \E r \in -1 .. sv.dim - 1 : f = Answer([sv EXCEPT !.rank = r], "KKT_MATRIX_SINGULAR")
        \/ f = Answer(NewSolver("MA27"), "MATRIX_FACTORISATION_FAILED")
    BY <2>1 DEF FactorizeMa27, ClearMa27
  <2>3. \A r \in -1 .. sv.dim - 1 : r \in Int
    BY <1>0
  <2> QED BY <2>2, <2>3, FactorisedIs, Zenon DEF SolverKinds
<1>2. CASE sv.kind = "MA57"
  <2>1. f \in FactorizeMa57(sv, faults)
    BY <1>2 DEF Factorize
  <2>2. \/ f = Factorised(sv)
        \/ \E z \in SUBSET (1 .. sv.dim) : f = Answer([sv EXCEPT !.rank = sv.dim - Cardinality(z), !.zero = z], "KKT_MATRIX_SINGULAR")
        \/ f = Answer(NewSolver("MA57"), "MATRIX_FACTORISATION_FAILED")
    BY <2>1 DEF FactorizeMa57, ClearMa57
  <2>3. \A z \in SUBSET (1 .. sv.dim) : sv.dim - Cardinality(z) \in Int /\ z \in SUBSET Nat
    <3> SUFFICES ASSUME NEW z \in SUBSET (1 .. sv.dim) PROVE sv.dim - Cardinality(z) \in Int /\ z \in SUBSET Nat
      OBVIOUS
    <3>1. IsFiniteSet(1 .. sv.dim)
      BY <1>0, FS_Interval
    <3>2. Cardinality(z) \in Nat
      BY <3>1, FS_Subset, FS_CardinalityType
    <3> QED BY <1>0, <3>2
  <2>4. CASE \E z \in SUBSET (1 .. sv.dim) : f = Answer([sv EXCEPT !.rank = sv.dim - Cardinality(z), !.zero = z], "KKT_MATRIX_SINGULAR")
    <3>1. PICK z \in SUBSET (1 .. sv.dim) : f = Answer([sv EXCEPT !.rank = sv.dim - Cardinality(z), !.zero = z], "KKT_MATRIX_SINGULAR")
      BY <2>4
    <3> DEFINE r == sv.dim - Cardinality(z)
    <3>2. r \in Int /\ z \in SUBSET Nat
      BY <2>3, Zenon
    <3> HIDE DEF r
    <3>3. IsFactorisation(Answer([sv EXCEPT !.rank = r, !.zero = z], "KKT_MATRIX_SINGULAR"), sv)
      BY <3>2, FactorisedIs, Zenon
    <3> QED BY <3>1, <3>3 DEF r
  <2> QED BY <2>2, <2>4, FactorisedIs, Zenon DEF SolverKinds
<1>3. CASE sv.kind # "MA27" /\ sv.kind # "MA57"
  <2>1. f \in FactorizeDummy(sv)
    BY <1>3 DEF Factorize
  <2> QED BY <2>1, FactorisedIs DEF FactorizeDummy
<1> QED BY <1>1, <1>2, <1>3

GoodSet(outcomes) == \A r \in outcomes : IsGood(r.q)

(* What is asked of the inner calls.                                       *)
GoodCalls(calls) ==
  /\ \A q \in SchurObjects, allow \in BOOLEAN : GoodSet(calls.reset[<<q, allow>>])
  /\ \A q, numbers : IsGood(q) /\ numbers \in SUBSET Vars => GoodSet(calls.correct[<<q, numbers>>])

(* Good objects are whole.                                                 *)
LEMMA GoodParts ==
  ASSUME NEW q, IsGood(q)
  PROVE  IsWhole(q) /\ q \in SchurObjects /\ q.free \in SUBSET Vars /\ q.active \in SUBSET Cons
BY SchurObjectParts DEF IsGood, IsWhole

(* Goodness passes on to what has the same factorisation.                  *)
LEMMA GoodFrom ==
  ASSUME NEW q, IsGood(q), NEW p, IsWhole(p), Factored(p) = Factored(q), Marks(p) = Marks(q),
         ~p.failed /\ ~p.dropped /\ HasDifferences(q) => HasDifferences(p)
  PROVE  IsGood(p)
<1>1. p.sol = q.sol /\ p.freeStart = q.freeStart /\ p.activeStart = q.activeStart
  BY DEF Factored
<1>2. p.failed = q.failed /\ p.dropped = q.dropped
  BY DEF Marks
<1>3. CanSolve(q) => CanSolve(p)
  BY <1>1 DEF CanSolve, StartDim
<1> QED BY <1>2, <1>3 DEF IsGood

(* The lists have a number of entries.                                     *)
LEMMA FiniteLists ==
  ASSUME NEW f \in SUBSET Vars, NEW a \in SUBSET Cons
  PROVE  Cardinality(f) + Cardinality(a) \in Nat
<1>1. IsFiniteSet(Vars) /\ IsFiniteSet(Cons)
  BY SchurAssumption, FS_Interval DEF Vars, Cons
<1>2. Cardinality(f) \in Nat /\ Cardinality(a) \in Nat
  BY <1>1, FS_Subset, FS_CardinalityType
<1> QED BY <1>2

(* An object without updates is whole.                                     *)
LEMMA EmptyWhole ==
  ASSUME NEW q \in SchurObjects, q.nS = 0, q.upd = <<>>, q.M = <<>>, q.S = <<>>
  PROVE  IsWhole(q)
BY PartsMakeWhole, SchurAssumption

(* Updates that are thrown away.                                           *)
LEMMA NoUpdatesObject ==
  ASSUME NEW q \in SchurObjects
  PROVE  LET p == NoUpdates(q)
         IN  /\ p \in SchurObjects
             /\ Lists(p) = Lists(q) /\ Factored(p) = Factored(q) /\ Marks(p) = Marks(q)
             /\ p.nS = 0 /\ p.upd = <<>> /\ p.M = <<>> /\ p.S = <<>>
<1>1. <<>> \in Arrays
  BY DEF Arrays
<1>2. <<>> \in Seq(Updates) /\ 0 \in Int
  OBVIOUS
<1> QED BY <1>1, <1>2 DEF SchurObjects, Lists, Factored, Marks, NoUpdates, Arrays

(* A whole object whose number of updates is 0 has none.                   *)
LEMMA WholeEmpty ==
  ASSUME NEW q, IsWhole(q), q.nS = 0
  PROVE  q.upd = <<>> /\ q.M = <<>> /\ q.S = <<>>
<1> DEFINE u == q.upd
           A == q.S
<1>1. u \in Seq(Updates) /\ Len(u) = 0 /\ q.M = u /\ A \in Arrays /\ Len(A) = 0
  BY WholeParts
<1> HIDE DEF u, A
<1>2. u = <<>>
  BY <1>1
<1>3. A = <<>>
  <2> DEFINE T == Seq(SUBSET Updates)
  <2>1. A \in Seq(T)
    BY <1>1 DEF Arrays
  <2> HIDE DEF T
  <2> QED BY <1>1, <2>1
<1> QED BY <1>1, <1>2, <1>3 DEF u, A

(* The last assignment of resetSchurComplement() keeps what is good.       *)
LEMMA ForgetGood ==
  ASSUME NEW q, IsGood(q)
  PROVE  IsGood(Forget(q))
<1> DEFINE o == NoUpdates(q)
           p == [o EXCEPT !.dropped = @ \/ q.nS > 0]
<1>1. IsWhole(q) /\ q \in SchurObjects
  BY GoodParts
<1>2. /\ o \in SchurObjects
      /\ Lists(o) = Lists(q) /\ Factored(o) = Factored(q) /\ Marks(o) = Marks(q)
      /\ o.nS = 0 /\ o.upd = <<>> /\ o.M = <<>> /\ o.S = <<>>
  BY <1>1, NoUpdatesObject
<1> HIDE DEF o
<1>3. /\ p \in SchurObjects /\ Lists(p) = Lists(o) /\ Factored(p) = Factored(o) /\ p.failed = o.failed
      /\ p.dropped = (o.dropped \/ q.nS > 0) /\ p.nS = o.nS /\ p.upd = o.upd /\ p.M = o.M /\ p.S = o.S
  BY <1>2 DEF SchurObjects, Lists, Factored
<1>4. p.failed = q.failed /\ p.dropped = (q.dropped \/ q.nS > 0)
  BY <1>2, <1>3 DEF Marks
<1> HIDE DEF p
<1>5. IsWhole(p)
  BY <1>2, <1>3, EmptyWhole
<1>6. CanSolve(q) => CanSolve(p)
  BY <1>2, <1>3 DEF CanSolve, StartDim, Factored
<1>7. ASSUME ~p.dropped, HasDifferences(q) PROVE HasDifferences(p)
  <2>1. q.nS = 0
    <3>1. q.nS \in Nat
      BY <1>1, WholeParts
    <3>2. ~(q.nS > 0)
      BY <1>4, <1>7, Zenon
    <3> QED BY <3>1, <3>2
  <2>2. q.upd = p.upd
    BY <1>1, <1>2, <1>3, <2>1, WholeEmpty
  <2>3. DifferencesOf(p) = DifferencesOf(q)
    BY <1>2, <1>3 DEF DifferencesOf, IsDifference, Lists, Factored
  <2> QED BY <1>7, <2>2, <2>3 DEF HasDifferences
<1>8. IsGood(p)
  BY <1>4, <1>5, <1>6, <1>7 DEF IsGood
<1> QED BY <1>8 DEF p, o, Forget

(* correctInertia().                                                       *)
LEMMA CorrectInertiaGood ==
  ASSUME NEW calls, GoodCalls(calls), NEW q, IsGood(q)
  PROVE  GoodSet(CorrectInertia(calls, q))
<1>1. IsWhole(q) /\ q.free \in SUBSET Vars
  BY GoodParts
<1>2. IsGood(Failed(q, "INERTIA_CORRECTION_FAILED").q)
  BY <1>1, FailedIsGood
<1>3. GoodSet(calls.correct[<<q, q.free>>])
  BY <1>1, Zenon DEF GoodCalls
<1>4. IsGood(Out(q, "OK").q)
  BY DEF Out
<1> SUFFICES ASSUME NEW r \in CorrectInertia(calls, q) PROVE IsGood(r.q)
  BY DEF GoodSet
<1>5. r = Failed(q, "INERTIA_CORRECTION_FAILED") \/ r = Out(q, "OK") \/ r \in calls.correct[<<q, q.free>>]
  BY DEF CorrectInertia
<1> QED BY <1>2, <1>3, <1>4, <1>5, Zenon DEF GoodSet

(* correctInertia() at the end of resetSchurComplement().                  *)
LEMMA CorrectedGood ==
  ASSUME NEW calls, GoodCalls(calls), NEW q, IsGood(q)
  PROVE  GoodSet(Corrected(calls, q))
<1>1. GoodSet(CorrectInertia(calls, q))
  BY CorrectInertiaGood
<1> SUFFICES ASSUME NEW x \in Corrected(calls, q) PROVE IsGood(x.q)
  BY DEF GoodSet
<1>2. PICK r \in CorrectInertia(calls, q) :
        x = IF r.ret = "OK" THEN Out(Forget(r.q), "OK") ELSE Out(r.q, "MATRIX_FACTORISATION_FAILED")
  BY DEF Corrected
<1>3. IsGood(r.q)
  BY <1>1, Zenon DEF GoodSet
<1>4. IsGood(Forget(r.q))
  BY <1>3, ForgetGood
<1>5. x.q = Forget(r.q) \/ x.q = r.q
  BY <1>2 DEF Out
<1> QED BY <1>3, <1>4, <1>5

(* repairSingularWorkingSet() leaves an object, or has failed.             *)
LEMMA RepairOutcomes ==
  ASSUME NEW q, IsWhole(q), NEW r \in RepairSingularWorkingSet(q)
  PROVE  r.q \in SchurObjects /\ (r.ret # "OK" => IsGood(r.q))
<1>1. q \in SchurObjects
  BY DEF IsWhole
<1>2. \/ r = Failed(q, "KKT_MATRIX_SINGULAR")
      \/ \E out \in SUBSET (q.free \cup q.active) : r = Out([q EXCEPT !.free = @ \ out, !.active = @ \ out], "OK")
  BY DEF RepairSingularWorkingSet
<1>3. CASE r = Failed(q, "KKT_MATRIX_SINGULAR")
  BY <1>3, <1>1, FailedIsGood, FailedObject
<1>4. CASE \E out \in SUBSET (q.free \cup q.active) : r = Out([q EXCEPT !.free = @ \ out, !.active = @ \ out], "OK")
  <2>1. PICK out : r = Out([q EXCEPT !.free = @ \ out, !.active = @ \ out], "OK")
    BY <1>4
  <2>2. [q EXCEPT !.free = @ \ out, !.active = @ \ out] \in SchurObjects
    BY <1>1 DEF SchurObjects
  <2> QED BY <2>1, <2>2 DEF Out
<1> QED BY <1>2, <1>3, <1>4

(* An object at the start of its factorisation.                            *)
IsStart(p) ==
  /\ p \in SchurObjects /\ p.nS = 0 /\ p.upd = <<>> /\ p.M = <<>> /\ p.S = <<>>
  /\ p.freeStart = p.free /\ p.activeStart = p.active

(* Factorised, it is good: there are no differences and no updates.        *)
LEMMA StartGood ==
  ASSUME NEW p, IsStart(p), p.sol.have, p.sol.dim = StartDim(p), p.sol.rank = StartDim(p)
  PROVE  IsGood(p)
<1>1. IsWhole(p)
  BY EmptyWhole DEF IsStart
<1>2. DifferencesOf(p) = {}
  BY DEF IsStart, DifferencesOf, IsDifference
<1>3. HasDifferences(p)
  BY <1>2, NoEntries DEF IsStart, HasDifferences
<1> QED BY <1>1, <1>3 DEF IsGood, CanSolve

(* Its solver does not matter for that.                                    *)
LEMMA StartWithSolver ==
  ASSUME NEW p, IsStart(p), NEW a \in SparseSolvers
  PROVE  IsStart([p EXCEPT !.sol = a]) /\ [p EXCEPT !.sol = a].sol = a
         /\ StartDim([p EXCEPT !.sol = a]) = StartDim(p) /\ IsWhole([p EXCEPT !.sol = a])
<1> DEFINE o == [p EXCEPT !.sol = a]
<1>1. /\ o \in SchurObjects /\ o.sol = a /\ Lists(o) = Lists(p)
      /\ o.freeStart = p.freeStart /\ o.activeStart = p.activeStart
      /\ o.nS = p.nS /\ o.upd = p.upd /\ o.S = p.S /\ o.M = p.M
  BY WithSolver DEF IsStart
<1> HIDE DEF o
<1>2. IsStart(o)
  BY <1>1 DEF IsStart, Lists
<1>3. StartDim(o) = StartDim(p)
  BY <1>1 DEF StartDim
<1>4. IsWhole(o)
  BY <1>2, EmptyWhole DEF IsStart
<1> QED BY <1>1, <1>2, <1>3, <1>4 DEF o

(* What resetSchurComplement() does after factorize().                     *)
LEMMA WithFactorisationGood ==
  ASSUME NEW calls, GoodCalls(calls), NEW p, IsStart(p), NEW sv, NEW f, IsFactorisation(f, sv), sv.dim = StartDim(p),
         NEW allow \in BOOLEAN
  PROVE  GoodSet(WithFactorisation(calls, p, f, allow))
<1> SUFFICES ASSUME NEW r \in WithFactorisation(calls, p, f, allow) PROVE IsGood(r.q)
  BY DEF GoodSet
<1> DEFINE o == [p EXCEPT !.sol = f.s]
<1>1. f.s \in SparseSolvers /\ (f.ret = "OK" => f.s.have /\ f.s.dim = StartDim(p) /\ f.s.rank = StartDim(p))
  BY DEF IsFactorisation
<1>2. IsStart(o) /\ o.sol = f.s /\ StartDim(o) = StartDim(p) /\ IsWhole(o)
  BY <1>1, StartWithSolver
<1>3. CASE f.ret = "OK"
  <2>1. r \in Corrected(calls, o) \/ r = Out(o, "OK")
    BY <1>3 DEF WithFactorisation
  <2> HIDE DEF o
  <2>2. IsGood(o)
    BY <1>1, <1>2, <1>3, StartGood
  <2>3. GoodSet(Corrected(calls, o))
    BY <2>2, CorrectedGood
  <2>4. IsGood(Out(o, "OK").q)
    BY <2>2 DEF Out
  <2> QED BY <2>1, <2>3, <2>4, Zenon DEF GoodSet
<1>4. CASE f.ret = "KKT_MATRIX_SINGULAR"
  <2>1. PICK x \in RepairSingularWorkingSet(o) : r \in IF x.ret = "OK" THEN calls.reset[<<x.q, allow>>] ELSE {x}
    BY <1>4 DEF WithFactorisation, Then
  <2> HIDE DEF o
  <2>2. x.q \in SchurObjects /\ (x.ret # "OK" => IsGood(x.q))
    BY <1>2, RepairOutcomes
  <2>3. GoodSet(calls.reset[<<x.q, allow>>])
    BY <2>2, Zenon DEF GoodCalls
  <2> QED BY <2>1, <2>2, <2>3 DEF GoodSet
<1>5. CASE f.ret # "OK" /\ f.ret # "KKT_MATRIX_SINGULAR"
  <2>1. r = Failed(o, "MATRIX_FACTORISATION_FAILED")
    BY <1>5 DEF WithFactorisation
  <2> HIDE DEF o
  <2> QED BY <1>2, <2>1, FailedIsGood
<1> QED BY <1>3, <1>4, <1>5

(* resetSchurComplement() starts from the lists that there are.            *)
LEMMA ResetStarts ==
  ASSUME NEW q \in SchurObjects
  PROVE  LET p == [NoUpdates(q) EXCEPT !.freeStart = q.free, !.activeStart = q.active]
         IN  IsStart(p) /\ StartDim(p) = Cardinality(q.free) + Cardinality(q.active)
<1> DEFINE o == NoUpdates(q)
           p == [o EXCEPT !.freeStart = q.free, !.activeStart = q.active]
<1>1. /\ o \in SchurObjects /\ Lists(o) = Lists(q)
      /\ o.nS = 0 /\ o.upd = <<>> /\ o.M = <<>> /\ o.S = <<>>
  BY NoUpdatesObject
<1>2. q.free \in SUBSET Vars /\ q.active \in SUBSET Cons
  BY SchurObjectParts
<1>3. o.free = q.free /\ o.active = q.active
  BY <1>1 DEF Lists
<1> HIDE DEF o
<1>4. /\ p \in SchurObjects /\ p.freeStart = q.free /\ p.activeStart = q.active /\ p.free = o.free /\ p.active = o.active
      /\ p.nS = o.nS /\ p.upd = o.upd /\ p.M = o.M /\ p.S = o.S
  BY <1>1, <1>2 DEF SchurObjects
<1> HIDE DEF p
<1>5. IsStart(p)
  BY <1>1, <1>3, <1>4 DEF IsStart
<1>6. StartDim(p) = Cardinality(q.free) + Cardinality(q.active)
  BY <1>4 DEF StartDim
<1> QED BY <1>5, <1>6 DEF p, o

(* resetSchurComplement(), of whatever object.                             *)
LEMMA ResetGood ==
  ASSUME NEW calls, GoodCalls(calls), NEW q \in SchurObjects, NEW allow \in BOOLEAN
  PROVE  GoodSet(ResetSchurComplement(calls, q, allow))
<1> SUFFICES ASSUME NEW r \in ResetSchurComplement(calls, q, allow) PROVE IsGood(r.q)
  BY DEF GoodSet
<1> DEFINE p == [NoUpdates(q) EXCEPT !.freeStart = q.free, !.activeStart = q.active]
           n == Cardinality(q.free) + Cardinality(q.active)
<1>1. IsStart(p) /\ StartDim(p) = n
  BY ResetStarts
<1>2. PICK m \in SetMatrixData(q.sol, n) :
        r \in IF m.ret # "OK" THEN {Failed([p EXCEPT !.sol = m.s], "NO_SPARSE_SOLVER")}
              ELSE UNION {WithFactorisation(calls, p, f, allow) : f \in Factorize(m.s, Numerics)}
  BY Zenon DEF ResetSchurComplement
<1>3. n \in Int /\ q.sol \in SparseSolvers
  BY SchurObjectParts, FiniteLists
<1> HIDE DEF p, n
<1>4. m.s \in SparseSolvers /\ (m.ret = "OK" => m.s.dim = n)
  BY <1>3, MatrixIsSet
<1>5. CASE m.ret # "OK"
  <2> DEFINE o == [p EXCEPT !.sol = m.s]
  <2>1. IsWhole(o)
    BY <1>1, <1>4, StartWithSolver
  <2>2. r = Failed(o, "NO_SPARSE_SOLVER")
    BY <1>2, <1>5
  <2> HIDE DEF o
  <2> QED BY <2>1, <2>2, FailedIsGood
<1>6. CASE m.ret = "OK"
  <2>1. PICK f \in Factorize(m.s, Numerics) : r \in WithFactorisation(calls, p, f, allow)
    BY <1>2, <1>6
  <2>2. IsFactorisation(f, m.s)
    BY <1>4, FactorizeAnswers
  <2>3. GoodSet(WithFactorisation(calls, p, f, allow))
    BY <1>1, <1>4, <1>6, <2>2, WithFactorisationGood
  <2> QED BY <2>1, <2>3, Zenon DEF GoodSet
<1> QED BY <1>5, <1>6

(* updateSchurQR() and, if the condition is bad, a reset.                  *)
LEMMA FinishGood ==
  ASSUME NEW calls, GoodCalls(calls), NEW q, IsGood(UpdateSchurQR(q))
  PROVE  GoodSet(Finish(calls, q))
<1> DEFINE p == UpdateSchurQR(q)
<1> HIDE DEF p
<1>1. IsGood(p) /\ p \in SchurObjects
  BY GoodParts DEF p
<1>2. GoodSet(ResetSchurComplement(calls, p, TRUE))
  BY <1>1, ResetGood
<1>3. IsGood(Out(p, "OK").q)
  BY <1>1 DEF Out
<1> SUFFICES ASSUME NEW r \in Finish(calls, q) PROVE IsGood(r.q)
  BY DEF GoodSet
<1>4. r = Out(p, "OK") \/ r \in ResetSchurComplement(calls, p, TRUE)
  BY DEF Finish, p
<1> QED BY <1>2, <1>3, <1>4, Zenon DEF GoodSet

-----------------------------------------------------------------------------
(* A change of the lists leaves the Schur complement whole.                *)
LEMMA ChangeWhole ==
  ASSUME NEW q, IsWhole(q), NEW c, IsChange(c, q)
  PROVE  IsWhole(c.q) /\ c.q.nS = q.nS /\ c.q.upd = q.upd
<1> DEFINE p == c.q
<1>1. p \in SchurObjects /\ p.nS = q.nS /\ p.upd = q.upd /\ p.S = q.S /\ p.M = q.M
  BY Zenon DEF IsChange, SameComplement
<1> HIDE DEF p
<1>2. IsWhole(p)
  BY <1>1 DEF IsWhole
<1> QED BY <1>1, <1>2 DEF p

(* The row of the undone update is deleted.                                *)
LEMMA DeletedGood ==
  ASSUME NEW q, IsGood(q), NEW c, IsChange(c, q), Position(q, c.undoes) > 0
  PROVE  /\ Position(q, c.undoes) \in 1 .. q.nS
         /\ IsGood(UpdateSchurQR(DeleteFromSchurComplement(c.q, Position(q, c.undoes))))
<1> DEFINE k == Position(q, c.undoes)
           p == c.q
           b == UpdateSchurQR(DeleteFromSchurComplement(p, k))
<1>1. IsWhole(q)
  BY GoodParts
<1>2. IsWhole(p) /\ p.nS = q.nS /\ p.upd = q.upd /\ Factored(p) = Factored(q) /\ Marks(p) = Marks(q)
  BY <1>1, ChangeWhole, Zenon DEF IsChange
<1>3. k \in 1 .. q.nS /\ q.upd[k] = c.undoes
  BY <1>1, PositionFinds
<1> HIDE DEF k
<1>4. k \in 1 .. p.nS
  BY <1>2, <1>3
<1>5. IF c.undoes \in DifferencesOf(q) THEN DifferencesOf(p) = DifferencesOf(q) \ {c.undoes}
      ELSE c.admitted /\ c.does \notin DifferencesOf(q) /\ DifferencesOf(p) = DifferencesOf(q) \cup {c.does}
  BY Zenon DEF IsChange
<1> HIDE DEF p
<1>6. IsTrimmed(b, p, k)
  BY <1>2, <1>4, DeletedTrimmed
<1> HIDE DEF b
<1>7. /\ IsWhole(b) /\ Lists(b) = Lists(p) /\ Factored(b) = Factored(q) /\ Marks(b) = Marks(q)
      /\ b.nS = p.nS - 1 /\ \A i \in 1 .. p.nS - 1 : b.upd[i] = p.upd[From(k, i)]
  BY <1>2, <1>6, Zenon DEF IsTrimmed
<1>8. ASSUME HasDifferences(q) PROVE HasDifferences(b)
  <2> DEFINE u == q.upd
             w == b.upd
             n == q.nS
  <2>1. Distinct(u) /\ Entries(u) = DifferencesOf(q)
    BY <1>8 DEF HasDifferences
  <2>2. u \in Seq(Updates) /\ n \in Nat /\ Len(u) = n
    BY <1>1, WholeParts, Zenon
  <2>3. w \in Seq(Updates) /\ Len(w) = n - 1
    <3>1. w \in Seq(Updates) /\ Len(w) = b.nS
      BY <1>7, WholeParts, Zenon
    <3> QED BY <1>2, <1>7, <3>1, Zenon
  <2>4. \A i \in 1 .. n - 1 : w[i] = u[From(k, i)]
    BY <1>2, <1>7, Zenon
  <2>5. k \in 1 .. n /\ u[k] = c.undoes
    BY <1>3
  <2> HIDE DEF u, w, n
  <2>9. HasNoMore(w, u, k)
    BY <2>2, <2>3, <2>4, <2>5, Zenon DEF HasNoMore
  <2>6. Distinct(w) /\ Entries(w) = Entries(u) \ {u[k]}
    BY <2>1, <2>9, RemovedEntries
  <2>7. c.undoes \in Entries(u)
    BY <2>2, <2>5 DEF Entries
  <2>8. DifferencesOf(b) = DifferencesOf(p)
    BY <1>2, <1>7 DEF DifferencesOf, IsDifference, Lists, Factored
  <2> QED BY <1>5, <2>1, <2>5, <2>6, <2>7, <2>8, Zenon DEF HasDifferences, w
<1>9. IsGood(b)
  BY <1>7, <1>8, GoodFrom
<1> QED BY <1>3, <1>9 DEF b, p, k

(* A row is added for the update.                                          *)
LEMMA AddedGood ==
  ASSUME NEW q, IsGood(q), NEW c, IsChange(c, q), ~(Position(q, c.undoes) > 0), ~Full(q),
         NEW r \in AddToSchurComplement(c.q, c.does)
  PROVE  IsGood(r.q) /\ (r.ret = "OK" => FirstUpdates(r.q, r.q.nS - 1) = c.q)
<1> DEFINE p == c.q
           v == c.does
           b == r.q
<1>1. IsWhole(q)
  BY GoodParts
<1>2. /\ IsWhole(p) /\ p.nS = q.nS /\ p.upd = q.upd /\ Factored(p) = Factored(q) /\ Marks(p) = Marks(q)
      /\ v \in Updates
  BY <1>1, ChangeWhole, Zenon DEF IsChange
<1>3. c.undoes \notin Entries(q.upd)
  BY <1>1, PositionFinds
<1>4. p.nS < NSmax
  <2>1. q.nS \in Nat /\ q.nS <= NSmax
    BY <1>1, WholeParts, Zenon
  <2> QED BY <1>2, <2>1, SchurAssumption DEF Full
<1>5. IF c.undoes \in DifferencesOf(q) THEN DifferencesOf(p) = DifferencesOf(q) \ {c.undoes}
      ELSE c.admitted /\ v \notin DifferencesOf(q) /\ DifferencesOf(p) = DifferencesOf(q) \cup {v}
  BY Zenon DEF IsChange
<1> HIDE DEF p, v
<1>6. r \in AddToSchurComplement(p, v)
  BY DEF p, v
<1>7. \/ r.ret # "OK" /\ IsGood(b)
      \/ /\ r.ret = "OK" /\ IsWhole(b) /\ b.nS = p.nS + 1 /\ b.upd = Append(p.upd, v)
         /\ Lists(b) = Lists(p) /\ Factored(b) = Factored(p) /\ Marks(b) = Marks(p)
  BY <1>2, <1>4, <1>6, AddedRow
<1>8. CASE r.ret = "OK"
  <2>1. /\ IsWhole(b) /\ b.nS = p.nS + 1 /\ b.upd = Append(p.upd, v)
        /\ Lists(b) = Lists(p) /\ Factored(b) = Factored(p) /\ Marks(b) = Marks(p)
    BY <1>7, <1>8, Zenon
  <2> HIDE DEF b
  <2>2. FirstUpdates(b, b.nS - 1) = p
    BY <1>2, <2>1, AddedTakenBack
  <2>3. ASSUME HasDifferences(q) PROVE HasDifferences(b)
    <3> DEFINE u == q.upd
    <3>1. Distinct(u) /\ Entries(u) = DifferencesOf(q)
      BY <2>3 DEF HasDifferences
    <3>2. u \in Seq(Updates) /\ b.upd = Append(u, v)
      BY <1>1, <1>2, <2>1, WholeParts, Zenon
    <3>3. v \notin Entries(u) /\ DifferencesOf(p) = Entries(u) \cup {v}
      BY <1>3, <1>5, <3>1, Zenon
    <3> HIDE DEF u
    <3>4. Distinct(Append(u, v)) /\ Entries(Append(u, v)) = Entries(u) \cup {v}
      BY <1>2, <3>1, <3>2, <3>3, AppendEntries
    <3>5. DifferencesOf(b) = DifferencesOf(p)
      BY <2>1 DEF DifferencesOf, IsDifference, Lists, Factored
    <3> QED BY <3>2, <3>3, <3>4, <3>5, Zenon DEF HasDifferences
  <2>4. IsGood(b)
    <3>1. Factored(b) = Factored(q) /\ Marks(b) = Marks(q)
      BY <1>2, <2>1
    <3> QED BY <2>1, <2>3, <3>1, GoodFrom
  <2> QED BY <2>2, <2>4 DEF b, p
<1> QED BY <1>7, <1>8

(* updateSchurQR() of a good object.                                       *)
LEMMA GoodStays ==
  ASSUME NEW q, IsGood(q)
  PROVE  IsGood(UpdateSchurQR(q))
BY GoodParts, WholeStays

IsUpdated(r, q, c) ==
  /\ r.ret # "OK" => IsGood(r.q)
  /\ r.ret = "OK" =>
       /\ IsGood(UpdateSchurQR(r.q))
       /\ SchurMod(q, c) \in {"reset", "added", "deleted"}
       /\ SchurMod(q, c) = "reset" => IsGood(r.q)
       /\ SchurMod(q, c) = "added" => FirstUpdates(r.q, r.q.nS - 1) = c.q
       /\ SchurMod(q, c) = "deleted" => UndoDeleteFromSchurComplement(r.q, Position(q, c.undoes)) = c.q

(* The update of the Schur complement for a change, in each of its four    *)
(* cases.                                                                  *)
LEMMA UpdateGood ==
  ASSUME NEW calls, GoodCalls(calls), NEW q, IsGood(q), NEW c, IsChange(c, q), NEW allow \in BOOLEAN,
         NEW r \in UpdateSchurComplement(calls, q, c, allow)
  PROVE  IsUpdated(r, q, c)
<1> DEFINE k == Position(q, c.undoes)
           m == SchurMod(q, c)
<1>1. /\ m \in {"deleted", "reset", "added", "refused"}
      /\ m = "deleted" => k > 0
      /\ m = "added" => ~(k > 0) /\ ~Full(q)
  BY Zenon DEF SchurMod
<1>2. IsWhole(q) /\ IsWhole(c.q) /\ c.q.nS = q.nS /\ c.q \in SchurObjects
  BY GoodParts, ChangeWhole DEF IsChange
<1> HIDE DEF m
<1>3. CASE m = "deleted"
  <2>1. r = Out(DeleteFromSchurComplement(c.q, k), "OK")
    BY <1>3 DEF UpdateSchurComplement, m
  <2>2. k \in 1 .. q.nS /\ IsGood(UpdateSchurQR(DeleteFromSchurComplement(c.q, k)))
    BY <1>1, <1>3, DeletedGood
  <2> DEFINE p == c.q
             d == DeleteFromSchurComplement(p, k)
  <2> HIDE DEF k
  <2>3. IsWhole(p) /\ k \in 1 .. p.nS
    BY <1>2, <2>2
  <2>4. UndoDeleteFromSchurComplement(d, k) = p
    <3> HIDE DEF p
    <3> QED BY <2>3, DeletedUndone, Zenon
  <2>5. r.ret = "OK" /\ r.q = d
    BY <2>1 DEF Out
  <2> HIDE DEF d
  <2>6. IsGood(UpdateSchurQR(d))
    BY <2>2 DEF d
  <2> QED BY <1>3, <2>4, <2>5, <2>6 DEF IsUpdated, k, m
<1>4. CASE m = "reset"
  <2>1. r \in ResetSchurComplement(calls, c.q, allow)
    BY <1>4 DEF UpdateSchurComplement, m
  <2>2. GoodSet(ResetSchurComplement(calls, c.q, allow))
    BY <1>2, ResetGood
  <2>3. IsGood(r.q)
    BY <2>1, <2>2, Zenon DEF GoodSet
  <2> QED BY <1>4, <2>3, GoodStays DEF IsUpdated, m
<1>5. CASE m = "added"
  <2>1. r \in AddToSchurComplement(c.q, c.does)
    BY <1>5 DEF UpdateSchurComplement, m
  <2>2. IsGood(r.q) /\ (r.ret = "OK" => FirstUpdates(r.q, r.q.nS - 1) = c.q)
    BY <1>1, <1>5, <2>1, AddedGood
  <2> QED BY <1>5, <2>2, GoodStays DEF IsUpdated, m
<1>6. CASE m = "refused"
  <2>1. r = Failed(c.q, c.error)
    BY <1>6 DEF UpdateSchurComplement, m
  <2>2. IsGood(Failed(c.q, c.error).q)
    BY <1>2, FailedIsGood
  <2>3. r.ret # "OK"
    BY <2>1 DEF Failed, Out, IsChange
  <2> QED BY <2>1, <2>2, <2>3 DEF IsUpdated
<1> QED BY <1>1, <1>3, <1>4, <1>5, <1>6

(* addBound(), addConstraint().                                            *)
LEMMA AddGood ==
  ASSUME NEW calls, GoodCalls(calls), NEW q, IsGood(q), NEW i \in Idx
  PROVE  GoodSet(Add(calls, q, i))
<1> SUFFICES ASSUME NEW x \in Add(calls, q, i) PROVE IsGood(x.q)
  BY DEF GoodSet
<1> DEFINE c == IF i \in Vars THEN AddBound(q, i) ELSE AddConstraint(q, i)
<1>1. q \in SchurObjects
  BY GoodParts
<1>2. CASE InWorkingSet(q, i)
  BY <1>2 DEF Add, Out
<1>3. CASE ~InWorkingSet(q, i)
  <2>1. IsChange(c, q)
    <3>1. i \in Vars \/ (i \in Cons /\ i \notin Vars)
      BY DisjointIdx
    <3> QED BY <1>1, <1>3, <3>1, AddBoundIsChange, AddConstraintIsChange DEF InWorkingSet
  <2> HIDE DEF c
  <2>2. PICK r \in UpdateSchurComplement(calls, q, c, TRUE) : x \in IF r.ret = "OK" THEN Finish(calls, r.q) ELSE {r}
    BY <1>3 DEF Add, Then, c
  <2>3. IsUpdated(r, q, c)
    BY <2>1, UpdateGood
  <2>4. CASE r.ret = "OK"
    <3>1. IsGood(UpdateSchurQR(r.q))
      BY <2>3, <2>4, Zenon DEF IsUpdated
    <3>2. GoodSet(Finish(calls, r.q))
      BY <3>1, FinishGood
    <3> QED BY <2>2, <2>4, <3>2, Zenon DEF GoodSet
  <2>5. CASE r.ret # "OK"
    <3>1. IsGood(r.q)
      BY <2>3, <2>5, Zenon DEF IsUpdated
    <3> QED BY <2>2, <2>5, <3>1
  <2> QED BY <2>4, <2>5
<1> QED BY <1>2, <1>3

-----------------------------------------------------------------------------
(* The steps of determineStepDirection().                                  *)
LEMMA SolveKKTGood ==
  ASSUME NEW q, IsGood(q)
  PROVE  GoodSet(SolveKKT(q))
BY GoodParts, SolveKKTOutcomes DEF GoodSet

(* stepCalcRhs(), which may factorise.                                     *)
LEMMA StepCalcRhsGood ==
  ASSUME NEW calls, GoodCalls(calls), NEW q, IsGood(q)
  PROVE  GoodSet(StepCalcRhs(calls, q))
<1>1. GoodSet(ResetSchurComplement(calls, q, FALSE))
  BY GoodParts, ResetGood
<1>2. IsGood(Out(q, "OK").q)
  BY DEF Out
<1> QED BY <1>1, <1>2 DEF StepCalcRhs, GoodSet

(* determineStepDirection2().                                              *)
LEMMA Step2Good ==
  ASSUME NEW calls, GoodCalls(calls), NEW q, IsGood(q)
  PROVE  GoodSet(DetermineStepDirection2(calls, q))
<1> DEFINE second(p) == IF p.nS > 0 THEN UNION {SolveKKT(p) : ignored \in BacksolveSchurQR(p)} ELSE {Out(p, "OK")}
           step(p) == UNION {IF r.ret = "OK" THEN second(r.q) ELSE {r} : r \in SolveKKT(p)}
<1>1. ASSUME NEW p, IsGood(p) PROVE GoodSet(second(p))
  <2>1. GoodSet(SolveKKT(p))
    BY <1>1, SolveKKTGood
  <2>2. IsGood(Out(p, "OK").q)
    BY <1>1 DEF Out
  <2> QED BY <2>1, <2>2 DEF GoodSet
<1> HIDE DEF second
<1>2. ASSUME NEW p, IsGood(p) PROVE GoodSet(step(p))
  <2> SUFFICES ASSUME NEW x \in step(p) PROVE IsGood(x.q)
    BY DEF GoodSet
  <2>1. PICK r \in SolveKKT(p) : x \in IF r.ret = "OK" THEN second(r.q) ELSE {r}
    OBVIOUS
  <2>2. IsGood(r.q)
    BY <1>2, SolveKKTGood, Zenon DEF GoodSet
  <2>3. GoodSet(second(r.q))
    BY <1>1, <2>2
  <2> QED BY <2>1, <2>2, <2>3 DEF GoodSet
<1> SUFFICES ASSUME NEW x \in DetermineStepDirection2(calls, q) PROVE IsGood(x.q)
  BY DEF GoodSet
<1>3. x = Out(q, "OK") \/ \E r \in StepCalcRhs(calls, q) : x \in IF r.ret = "OK" THEN step(r.q) ELSE {r}
  BY DEF DetermineStepDirection2, Then, second
<1> HIDE DEF step
<1>4. CASE x = Out(q, "OK")
  BY <1>4 DEF Out
<1>5. CASE \E r \in StepCalcRhs(calls, q) : x \in IF r.ret = "OK" THEN step(r.q) ELSE {r}
  <2>1. PICK r \in StepCalcRhs(calls, q) : x \in IF r.ret = "OK" THEN step(r.q) ELSE {r}
    BY <1>5
  <2>2. IsGood(r.q)
    BY StepCalcRhsGood, Zenon DEF GoodSet
  <2>3. GoodSet(step(r.q))
    BY <1>2, <2>2
  <2> QED BY <2>1, <2>2, <2>3 DEF GoodSet
<1> QED BY <1>3, <1>4, <1>5

(* determineStepDirection().                                               *)
LEMMA StepGood ==
  ASSUME NEW calls, GoodCalls(calls), NEW q, IsGood(q)
  PROVE  GoodSet(DetermineStepDirection(calls, q))
<1> SUFFICES ASSUME NEW x \in DetermineStepDirection(calls, q) PROVE IsGood(x.q)
  BY DEF GoodSet
<1>1. PICK r \in DetermineStepDirection2(calls, q) :
        x \in IF r.ret = "QR_FACTORISATION_FAILED"
              THEN UNION {IF y.ret = "OK" THEN DetermineStepDirection2(calls, y.q) ELSE {y}
                            : y \in ResetSchurComplement(calls, r.q, FALSE)}
              ELSE {r}
  BY DEF DetermineStepDirection, Then
<1>2. IsGood(r.q)
  BY Step2Good, Zenon DEF GoodSet
<1>3. GoodSet(ResetSchurComplement(calls, r.q, FALSE))
  BY <1>2, GoodParts, ResetGood
<1>4. CASE r.ret = "QR_FACTORISATION_FAILED"
  <2>1. PICK y \in ResetSchurComplement(calls, r.q, FALSE) :
          x \in IF y.ret = "OK" THEN DetermineStepDirection2(calls, y.q) ELSE {y}
    BY <1>1, <1>4
  <2>2. IsGood(y.q)
    BY <1>3, Zenon DEF GoodSet
  <2>3. GoodSet(DetermineStepDirection2(calls, y.q))
    BY <2>2, Step2Good
  <2> QED BY <2>1, <2>2, <2>3 DEF GoodSet
<1>5. CASE r.ret # "QR_FACTORISATION_FAILED"
  BY <1>1, <1>2, <1>5
<1> QED BY <1>4, <1>5

(* addBound_checkLISchur(), addConstraint_checkLISchur().                  *)
LEMMA CheckLIGood ==
  ASSUME NEW calls, GoodCalls(calls), NEW q, IsGood(q)
  PROVE  GoodSet(CheckLI(calls, q))
<1> SUFFICES ASSUME NEW x \in CheckLI(calls, q) PROVE IsGood(x.q)
  BY DEF GoodSet
<1>1. PICK r \in DetermineStepDirection(calls, q), c \in {"INDEPENDENT", "DEPENDENT"} : x = Out(r.q, c)
  BY DEF CheckLI
<1>2. IsGood(r.q)
  BY StepGood, Zenon DEF GoodSet
<1> QED BY <1>1, <1>2 DEF Out

(* The loop of correctInertia().                                           *)
LEMMA FixForInertiaGood ==
  ASSUME NEW calls, GoodCalls(calls), NEW q, IsGood(q), NEW i \in Idx
  PROVE  GoodSet(FixForInertia(calls, q, i))
<1> SUFFICES ASSUME NEW x \in FixForInertia(calls, q, i) PROVE IsGood(x.q)
  BY DEF GoodSet
<1>1. PICK r \in Add(calls, q, i) : x = IF r.ret = "OK" THEN r ELSE Failed(r.q, "INERTIA_CORRECTION_FAILED")
  BY DEF FixForInertia
<1>2. IsGood(r.q)
  BY AddGood, Zenon DEF GoodSet
<1>3. IsGood(Failed(r.q, "INERTIA_CORRECTION_FAILED").q)
  BY <1>2, GoodParts, FailedIsGood
<1> QED BY <1>1, <1>2, <1>3

(* Its turns over the free variables.                                      *)
LEMMA CorrectFromGood ==
  ASSUME NEW calls, GoodCalls(calls), NEW q, IsGood(q), NEW numbers \in SUBSET Vars
  PROVE  GoodSet(CorrectFrom(calls, q, numbers))
<1> DEFINE rest(p, i) == calls.correct[<<p, numbers \ {i}>>]
           more(p, i) == {Out(p, "OK")} \cup rest(p, i)
           fix(p, i) == UNION {IF r.ret = "OK" THEN more(r.q, i) ELSE {r} : r \in FixForInertia(calls, p, i)}
<1>1. ASSUME NEW p, IsGood(p), NEW i PROVE GoodSet(rest(p, i))
  <2> DEFINE a == numbers \ {i}
  <2>1. a \in SUBSET Vars
    OBVIOUS
  <2> HIDE DEF a
  <2>2. GoodSet(calls.correct[<<p, a>>])
    BY <1>1, <2>1, Zenon DEF GoodCalls
  <2> QED BY <2>2 DEF a
<1> HIDE DEF rest
<1>2. ASSUME NEW p, IsGood(p), NEW i PROVE GoodSet(more(p, i))
  <2>1. IsGood(Out(p, "OK").q)
    BY <1>2 DEF Out
  <2> QED BY <1>1, <1>2, <2>1 DEF GoodSet
<1> HIDE DEF more
<1>3. ASSUME NEW p, IsGood(p), NEW i \in numbers PROVE GoodSet(fix(p, i))
  <2> SUFFICES ASSUME NEW x \in fix(p, i) PROVE IsGood(x.q)
    BY DEF GoodSet
  <2>1. PICK r \in FixForInertia(calls, p, i) : x \in IF r.ret = "OK" THEN more(r.q, i) ELSE {r}
    OBVIOUS
  <2>2. i \in Idx
    BY DisjointIdx
  <2>3. IsGood(r.q)
    BY <1>3, <2>2, FixForInertiaGood, Zenon DEF GoodSet
  <2>4. GoodSet(more(r.q, i))
    BY <1>2, <2>3
  <2> QED BY <2>1, <2>3, <2>4 DEF GoodSet
<1> SUFFICES ASSUME NEW x \in CorrectFrom(calls, q, numbers) PROVE IsGood(x.q)
  BY DEF GoodSet
<1>4. \/ x = Failed(q, "INERTIA_CORRECTION_FAILED")
      \/ \E i \in numbers : \E c \in AddBoundCheckLI(calls, q) :
           x \in IF c.ret = "INDEPENDENT" THEN fix(c.q, i) ELSE rest(c.q, i)
  <2>1. CorrectFrom(calls, q, numbers) =
          IF numbers = {} THEN {Failed(q, "INERTIA_CORRECTION_FAILED")}
          ELSE UNION {UNION {IF c.ret = "INDEPENDENT" THEN fix(c.q, i) ELSE rest(c.q, i)
                              : c \in AddBoundCheckLI(calls, q)} : i \in numbers}
    BY Zenon DEF CorrectFrom, rest, more
  <2> HIDE DEF fix
  <2>2. CASE numbers = {}
    BY <2>1, <2>2
  <2>3. CASE numbers # {}
    <3>1. x \in UNION {UNION {IF c.ret = "INDEPENDENT" THEN fix(c.q, i) ELSE rest(c.q, i)
                                : c \in AddBoundCheckLI(calls, q)} : i \in numbers}
      BY <2>1, <2>3
    <3> QED BY <3>1
  <2> QED BY <2>2, <2>3
<1> HIDE DEF fix
<1>5. CASE x = Failed(q, "INERTIA_CORRECTION_FAILED")
  BY <1>5, GoodParts, FailedIsGood
<1>6. CASE \E i \in numbers : \E c \in AddBoundCheckLI(calls, q) :
             x \in IF c.ret = "INDEPENDENT" THEN fix(c.q, i) ELSE rest(c.q, i)
  <2>1. PICK i \in numbers, c \in AddBoundCheckLI(calls, q) :
          x \in IF c.ret = "INDEPENDENT" THEN fix(c.q, i) ELSE rest(c.q, i)
    BY <1>6
  <2>2. IsGood(c.q)
    BY CheckLIGood, Zenon DEF GoodSet, AddBoundCheckLI
  <2>3. GoodSet(fix(c.q, i)) /\ GoodSet(rest(c.q, i))
    BY <1>1, <1>3, <2>2
  <2> QED BY <2>1, <2>3 DEF GoodSet
<1> QED BY <1>4, <1>5, <1>6

(* The inner calls, to any depth.                                          *)
LEMMA NoCallsGood == GoodCalls(NoCalls)
<1>1. \A q \in SchurObjects, allow \in BOOLEAN : NoCalls.reset[<<q, allow>>] = {}
  BY DEF NoCalls
<1>2. \A q \in SchurObjects, numbers \in SUBSET Vars : NoCalls.correct[<<q, numbers>>] = {}
  BY DEF NoCalls
<1> QED BY <1>1, <1>2, GoodParts DEF GoodCalls, GoodSet

(* One call deeper.                                                        *)
LEMMA CallsWithGood ==
  ASSUME NEW calls, GoodCalls(calls)
  PROVE  GoodCalls(CallsWith(calls))
<1> DEFINE new == CallsWith(calls)
<1>1. \A q \in SchurObjects, allow \in BOOLEAN : new.reset[<<q, allow>>] = ResetSchurComplement(calls, q, allow)
  BY DEF CallsWith
<1>2. \A q \in SchurObjects, numbers \in SUBSET Vars : new.correct[<<q, numbers>>] = CorrectFrom(calls, q, numbers)
  BY DEF CallsWith
<1> HIDE DEF new
<1>3. ASSUME NEW q \in SchurObjects, NEW allow \in BOOLEAN PROVE GoodSet(new.reset[<<q, allow>>])
  BY <1>1, ResetGood
<1>4. ASSUME NEW q, NEW numbers, IsGood(q), numbers \in SUBSET Vars PROVE GoodSet(new.correct[<<q, numbers>>])
  <2>1. new.correct[<<q, numbers>>] = CorrectFrom(calls, q, numbers)
    BY <1>2, <1>4, GoodParts
  <2> QED BY <1>4, <2>1, CorrectFromGood
<1>5. GoodCalls(new)
  BY <1>3, <1>4 DEF GoodCalls
<1> QED BY <1>5 DEF new

(* The depth is a number.                                                  *)
LEMMA DepthIsNat == Depth \in Nat
<1> DEFINE n == NV + NC + 2
<1>1. n \in Nat
  BY SchurAssumption
<1> HIDE DEF n
<1>2. n * n \in Nat
  BY <1>1
<1> QED BY <1>2 DEF Depth, n

(* The function of the inner calls satisfies the equation that defines it. *)
LEMMA CallsRecursion == Calls = [n \in 0 .. Depth |-> IF n = 0 THEN NoCalls ELSE CallsWith(Calls[n - 1])]
<1> DEFINE D == 0 .. Depth
           Body(f, n) == IF n = 0 THEN NoCalls ELSE CallsWith(f[n - 1])
           P == {m \in Nat : \E f : \A n \in D : n <= m => f[n] = Body(f, n)}
<1>0. Depth \in Nat
  BY DepthIsNat
<1>1. 0 \in P
  <2> DEFINE f == [n \in D |-> NoCalls]
  <2>1. \A n \in D : n <= 0 => f[n] = Body(f, n)
    BY <1>0
  <2> HIDE DEF f
  <2> QED BY <2>1
<1>2. ASSUME NEW m \in Nat, m \in P PROVE m + 1 \in P
  <2>1. PICK f : \A n \in D : n <= m => f[n] = Body(f, n)
    BY <1>2
  <2> DEFINE g == [n \in D |-> Body(f, n)]
  <2> SUFFICES \A n \in D : n <= m + 1 => g[n] = Body(g, n)
    <3> HIDE DEF g
    <3> QED OBVIOUS
  <2> SUFFICES ASSUME NEW n \in D, n <= m + 1 PROVE g[n] = Body(g, n)
    OBVIOUS
  <2>2. CASE n # 0
    <3>1. n - 1 \in D /\ n - 1 <= m
      BY <1>0, <2>2
    <3>2. f[n - 1] = g[n - 1]
      <4> HIDE DEF Body, D
      <4> QED BY <2>1, <3>1
    <3> QED BY <3>2, <2>2
  <2>3. CASE n = 0
    BY <2>3
  <2> QED BY <2>2, <2>3
<1>3. Depth \in P
  <2> HIDE DEF P
  <2> QED BY <1>0, <1>1, <1>2, NatSetInduction
<1>4. PICK f : \A n \in D : n <= Depth => f[n] = Body(f, n)
  BY <1>3
<1> DEFINE g == [n \in D |-> f[n]]
<1>5. \A n \in D : f[n] = Body(f, n)
  BY <1>0, <1>4
<1>6. g = [n \in D |-> Body(g, n)]
  <2> SUFFICES ASSUME NEW n \in D PROVE f[n] = Body(g, n)
    OBVIOUS
  <2>1. CASE n # 0
    <3>1. n - 1 \in D
      BY <1>0, <2>1
    <3> QED BY <2>1, <3>1, <1>5
  <2>2. CASE n = 0
    BY <2>2, <1>5
  <2> QED BY <2>1, <2>2
<1>7. Calls = CHOOSE h : h = [n \in D |-> Body(h, n)]
  BY Zenon DEF Calls
<1>8. Calls = [n \in D |-> Body(Calls, n)]
  <2> HIDE DEF g, D, Body
  <2> QED BY <1>6, <1>7, Zenon
<1> QED BY <1>8, Zenon

(* All inner calls, by induction over their depth.                         *)
LEMMA InnerGood == GoodCalls(Inner)
<1> DEFINE P == {m \in Nat : m <= Depth => GoodCalls(Calls[m])}
<1>0. Depth \in Nat
  BY DepthIsNat
<1>1. Calls[0] = NoCalls
  BY <1>0, CallsRecursion
<1>2. \A m \in Nat : m + 1 <= Depth => Calls[m + 1] = CallsWith(Calls[m])
  <2> SUFFICES ASSUME NEW m \in Nat, m + 1 <= Depth PROVE Calls[m + 1] = CallsWith(Calls[m])
    OBVIOUS
  <2>1. m + 1 \in 0 .. Depth /\ m + 1 # 0 /\ (m + 1) - 1 = m
    BY <1>0
  <2> QED BY <2>1, CallsRecursion
<1>3. 0 \in P
  BY <1>1, NoCallsGood
<1>4. ASSUME NEW m \in Nat, m \in P PROVE m + 1 \in P
  <2>1. CASE m + 1 <= Depth
    <3>1. GoodCalls(Calls[m])
      <4>1. m <= Depth
        BY <1>0, <2>1
      <4> QED BY <1>4, <4>1
    <3>2. GoodCalls(CallsWith(Calls[m]))
      BY <3>1, CallsWithGood
    <3> QED BY <1>2, <2>1, <3>2
  <2>2. CASE ~(m + 1 <= Depth)
    BY <2>2
  <2> QED BY <2>1, <2>2
<1>5. Depth \in P
  <2> HIDE DEF P
  <2> QED BY <1>0, <1>3, <1>4, NatSetInduction
<1>6. Depth <= Depth
  BY <1>0
<1> QED BY <1>5, <1>6 DEF Inner

(* A result that is ignored.                                               *)
LEMMA KeptGood ==
  ASSUME NEW outcomes, GoodSet(outcomes)
  PROVE  GoodSet(Kept(outcomes))
BY DEF GoodSet, Kept, Out

(* removeBound(), removeConstraint(): also an index that is flipped back,  *)
(* since the deletion is undone exactly.                                   *)
LEMMA RemoveGood ==
  ASSUME NEW q, IsGood(q), NEW i \in Idx, NEW flip \in BOOLEAN
  PROVE  GoodSet(Remove(q, i, flip))
<1> SUFFICES ASSUME NEW x \in Remove(q, i, flip) PROVE IsGood(x.q)
  BY DEF GoodSet
<1> DEFINE c == IF i \in Vars THEN RemoveBound(q, i) ELSE RemoveConstraint(q, i)
           k == Position(q, c.undoes)
           m == SchurMod(q, c)
<1>0. GoodCalls(Inner)
  BY InnerGood
<1>1. q \in SchurObjects
  BY GoodParts
<1>2. CASE ~InWorkingSet(q, i)
  BY <1>2 DEF Remove, Out
<1>3. CASE InWorkingSet(q, i)
  <2>1. IsChange(c, q) /\ IntoWorkingSet(c.q, i) = q
    <3>1. i \in Vars \/ (i \in Cons /\ i \notin Vars)
      BY DisjointIdx
    <3> QED BY <1>1, <1>3, <3>1, RemoveBoundIsChange, RemoveConstraintIsChange, BoundPutBack, ConstraintPutBack
            DEF InWorkingSet
  <2>2. PICK r \in UpdateSchurComplement(Inner, q, c, FALSE) :
          x \in IF r.ret = "OK" THEN AfterRemoval(r.q, i, m, k, flip) ELSE {r}
    BY <1>3 DEF Remove, Then
  <2> HIDE DEF c
  <2>3. IsUpdated(r, q, c)
    BY <1>0, <2>1, UpdateGood
  <2>4. CASE r.ret # "OK"
    BY <2>2, <2>3, <2>4 DEF IsUpdated
  <2>5. CASE r.ret = "OK"
    <3> DEFINE p == r.q
    <3>1. /\ IsGood(UpdateSchurQR(p)) /\ m \in {"reset", "added", "deleted"} /\ (m = "reset" => IsGood(p))
          /\ (m = "added" => FirstUpdates(p, p.nS - 1) = c.q)
          /\ (m = "deleted" => UndoDeleteFromSchurComplement(p, k) = c.q)
      BY <2>3, <2>5, Zenon DEF IsUpdated
    <3>2. x \in AfterRemoval(p, i, m, k, flip)
      BY <2>2, <2>5
    <3> HIDE DEF p, m, k
    <3>3. GoodSet(Finish(Inner, p))
      BY <1>0, <3>1, FinishGood
    <3>4. CASE flip /\ m = "reset"
      <4>1. PICK y \in {Out(p, "OK")} \cup IF "inertia" \in Numerics THEN Kept(Add(Inner, p, i)) ELSE {} :
              x \in IF y.ret = "OK" THEN CorrectInertia(Inner, y.q) ELSE {y}
        BY <3>2, <3>4 DEF AfterRemoval, Then
      <4>2. GoodSet(Kept(Add(Inner, p, i)))
        BY <1>0, <3>1, <3>4, AddGood, KeptGood
      <4>3. IsGood(Out(p, "OK").q)
        BY <3>1, <3>4 DEF Out
      <4>4. IsGood(y.q)
        BY <4>1, <4>2, <4>3 DEF GoodSet
      <4>5. GoodSet(CorrectInertia(Inner, y.q))
        BY <1>0, <4>4, CorrectInertiaGood
      <4> QED BY <4>1, <4>4, <4>5 DEF GoodSet
    <3>5. CASE ~(flip /\ m = "reset")
      <4>1. x \in UNION {IF b THEN {Out(FlippedBack(p, i, m, k), "OK")} ELSE Finish(Inner, p)
                           : b \in IF flip THEN FlipsBack(p, m) ELSE {FALSE}}
        BY <3>2, <3>5 DEF AfterRemoval
      <4>2. x \in Finish(Inner, p) \/ (flip /\ x = Out(FlippedBack(p, i, m, k), "OK"))
        BY <4>1
      <4>3. ASSUME flip PROVE FlippedBack(p, i, m, k) = q
        <5>1. m = "added" \/ m = "deleted"
          BY <3>1, <3>5, <4>3
        <5> QED BY <2>1, <3>1, <5>1 DEF FlippedBack
      <4>4. CASE x \in Finish(Inner, p)
        BY <3>3, <4>4, Zenon DEF GoodSet
      <4>5. CASE flip /\ x = Out(FlippedBack(p, i, m, k), "OK")
        BY <4>3, <4>5 DEF Out
      <4> QED BY <4>2, <4>4, <4>5
    <3> QED BY <3>4, <3>5
  <2> QED BY <2>4, <2>5
<1> QED BY <1>2, <1>3

(* What happens to an index that is not independent.                       *)
LEMMA ResolveGood ==
  ASSUME NEW q, IsGood(q)
  PROVE  GoodSet(Resolve(q))
<1> SUFFICES ASSUME NEW x \in Resolve(q) PROVE IsGood(x.q)
  BY DEF GoodSet
<1>1. \/ x = Out(q, "INFEASIBILITY") \/ x = Out(q, "DROPPED")
      \/ \E r \in Removals(q) : x \in {IF r.ret = "OK" THEN r ELSE Out(r.q, "ENSURELI_FAILED"), Out(r.q, "OK")}
  BY DEF Resolve
<1>2. CASE x = Out(q, "INFEASIBILITY") \/ x = Out(q, "DROPPED")
  BY <1>2 DEF Out
<1>3. CASE \E r \in Removals(q) : x \in {IF r.ret = "OK" THEN r ELSE Out(r.q, "ENSURELI_FAILED"), Out(r.q, "OK")}
  <2>1. PICK r \in Removals(q) : x \in {IF r.ret = "OK" THEN r ELSE Out(r.q, "ENSURELI_FAILED"), Out(r.q, "OK")}
    BY <1>3
  <2>2. PICK j \in Idx : r \in Remove(q, j, FALSE)
    BY DEF Removals
  <2>3. IsGood(r.q)
    <3>1. GoodSet(Remove(q, j, FALSE))
      BY RemoveGood
    <3> QED BY <2>2, <3>1, Zenon DEF GoodSet
  <2> QED BY <2>1, <2>3 DEF Out
<1> QED BY <1>1, <1>2, <1>3

(* addBound_ensureLI(), addConstraint_ensureLI().                          *)
LEMMA EnsureLIGood ==
  ASSUME NEW q, IsGood(q)
  PROVE  GoodSet(AddBoundEnsureLI(q)) /\ GoodSet(AddConstraintEnsureLI(q))
<1> SUFFICES ASSUME NEW r \in CheckLI(Inner, q), NEW x \in IF r.ret = "INDEPENDENT" THEN {Out(r.q, "OK")} ELSE Resolve(r.q)
             PROVE  IsGood(x.q)
  BY DEF GoodSet, AddBoundEnsureLI, AddConstraintEnsureLI, AddBoundCheckLI, AddConstraintCheckLI
<1>1. IsGood(r.q)
  BY InnerGood, CheckLIGood, Zenon DEF GoodSet
<1>2. GoodSet(Resolve(r.q)) /\ IsGood(Out(r.q, "OK").q)
  BY <1>1, ResolveGood DEF Out
<1> QED BY <1>2 DEF GoodSet

(* A new factorisation and its correction, of whatever object.             *)
LEMMA FactoriseGood ==
  ASSUME NEW q \in SchurObjects
  PROVE  GoodSet(FactoriseAndCorrect(q))
<1> SUFFICES ASSUME NEW x \in FactoriseAndCorrect(q) PROVE IsGood(x.q)
  BY DEF GoodSet
<1>1. PICK r \in ResetSchurComplement(Inner, q, FALSE) : x \in IF r.ret = "OK" THEN CorrectInertia(Inner, r.q) ELSE {r}
  BY DEF FactoriseAndCorrect, Then
<1>2. GoodSet(ResetSchurComplement(Inner, q, FALSE))
  BY InnerGood, ResetGood
<1>3. IsGood(r.q)
  BY <1>2, Zenon DEF GoodSet
<1>4. GoodSet(CorrectInertia(Inner, r.q))
  BY <1>3, InnerGood, CorrectInertiaGood
<1> QED BY <1>1, <1>3, <1>4 DEF GoodSet

(* setupAuxiliaryWorkingSet().                                             *)
LEMMA SetupGood ==
  ASSUME NEW q \in SchurObjects, NEW fixed \in SUBSET Vars, NEW actives \in SUBSET Cons
  PROVE  GoodSet(SetupAuxiliaryWorkingSet(q, fixed, actives))
<1>1. WithWorkingSet(q, fixed, actives) \in SchurObjects
  BY DEF WithWorkingSet, SchurObjects
<1> QED BY <1>1, FactoriseGood DEF SetupAuxiliaryWorkingSet

(* The object after its constructor.                                       *)
LEMMA FreshObject ==
  ASSUME NEW kind \in SolverKinds
  PROVE  Fresh(kind) \in SchurObjects /\ Fresh(kind).sol.kind = kind /\ Fresh(kind).nS = -1
<1> DEFINE sv == NewSolver(kind)
<1>1. sv \in SparseSolvers /\ sv.kind = kind
  BY NewSolverIs DEF NewSolver
<1>2. Fresh(kind) = [free |-> Vars, active |-> {}, freeStart |-> {}, activeStart |-> {}, nS |-> -1, upd |-> <<>>,
                     S |-> <<>>, M |-> <<>>, sol |-> sv, failed |-> FALSE, dropped |-> FALSE]
  BY Zenon DEF Fresh
<1> HIDE DEF sv
<1>3. <<>> \in Arrays
  BY DEF Arrays
<1> QED BY <1>1, <1>2, <1>3 DEF SchurObjects, Arrays

-----------------------------------------------------------------------------
(* One lemma per action.                                                   *)
LEMMA AddToActiveSetGood ==
  ASSUME SchurInv, NEW i \in Idx, AddToActiveSet(i)
  PROVE  IsGood(sq')
<1>1. IsGood(sq)
  BY DEF SchurInv, AddToActiveSet
<1>2. PICK y \in IF i \in Vars THEN AddBoundEnsureLI(sq) ELSE AddConstraintEnsureLI(sq) :
        \E r \in IF y.ret = "OK" THEN Add(Inner, y.q, i) ELSE {y} : sq' = r.q
  BY DEF AddToActiveSet, Then
<1>3. IsGood(y.q)
  BY <1>1, EnsureLIGood DEF GoodSet
<1>4. GoodSet(Add(Inner, y.q, i))
  BY <1>3, InnerGood, AddGood
<1> QED BY <1>2, <1>3, <1>4 DEF GoodSet

(* A removal.                                                              *)
LEMMA RemoveFromActiveSetGood ==
  ASSUME SchurInv, NEW i \in Idx, NEW flip \in BOOLEAN, RemoveFromActiveSet(i, flip)
  PROVE  IsGood(sq')
<1>1. IsGood(sq)
  BY DEF SchurInv, RemoveFromActiveSet
<1>2. PICK r \in Remove(sq, i, flip) : sq' = r.q
  BY DEF RemoveFromActiveSet
<1>3. GoodSet(Remove(sq, i, flip))
  BY <1>1, RemoveGood
<1> QED BY <1>2, <1>3 DEF GoodSet

(* An exchange in the working set.                                         *)
LEMMA ExchangeGood ==
  ASSUME SchurInv, NEW i \in Idx, NEW j \in Idx, ExchangeInActiveSet(i, j)
  PROVE  IsGood(sq')
<1>1. IsGood(sq)
  BY DEF SchurInv, ExchangeInActiveSet
<1>2. PICK y \in Remove(sq, i, FALSE) : \E r \in IF y.ret = "OK" THEN Kept(Add(Inner, y.q, j)) ELSE {y} : sq' = r.q
  BY DEF ExchangeInActiveSet, Then
<1>3. IsGood(y.q)
  <2>1. GoodSet(Remove(sq, i, FALSE))
    BY <1>1, RemoveGood
  <2> QED BY <2>1 DEF GoodSet
<1>4. GoodSet(Kept(Add(Inner, y.q, j)))
  BY <1>3, InnerGood, AddGood, KeptGood
<1> QED BY <1>2, <1>3, <1>4 DEF GoodSet

(* A working set of init() or hotstart().                                  *)
LEMMA InitWorkingSetGood ==
  ASSUME SchurInv, NEW fixed \in SUBSET Vars, NEW actives \in SUBSET Cons, NEW afresh \in BOOLEAN,
         InitWorkingSet(fixed, actives, afresh)
  PROVE  IsGood(sq')
<1> DEFINE q == IF afresh THEN Fresh(sq.sol.kind) ELSE sq
<1>1. sq \in SchurObjects /\ sq.sol.kind \in SolverKinds
  <2>1. CASE IsGood(sq)
    BY <2>1, GoodParts, SchurObjectParts DEF SparseSolvers
  <2>2. CASE \E kind \in Solvers : sq = Fresh(kind)
    <3>1. PICK kind \in Solvers : sq = Fresh(kind)
      BY <2>2
    <3>2. kind \in SolverKinds
      BY SchurAssumption
    <3> QED BY <3>1, <3>2, FreshObject
  <2> QED BY <2>1, <2>2 DEF SchurInv
<1>2. q \in SchurObjects
  BY <1>1, FreshObject
<1>3. PICK r \in SetupAuxiliaryWorkingSet(q, fixed, actives) : sq' = r.q
  BY DEF InitWorkingSet
<1> HIDE DEF q
<1>4. GoodSet(SetupAuxiliaryWorkingSet(q, fixed, actives))
  BY <1>2, SetupGood
<1> QED BY <1>3, <1>4 DEF GoodSet

(* setupAuxiliaryQP().                                                     *)
LEMMA SetupAuxiliaryQPGood ==
  ASSUME SchurInv, NEW equalities \in SUBSET Cons, NEW allBounds \in BOOLEAN, SetupAuxiliaryQP(equalities, allBounds)
  PROVE  IsGood(sq')
<1> DEFINE q == [sq EXCEPT !.failed = FALSE, !.dropped = FALSE]
<1>1. sq \in SchurObjects
  BY GoodParts DEF SchurInv, SetupAuxiliaryQP
<1>2. q \in SchurObjects
  BY <1>1 DEF SchurObjects
<1>3. PICK y \in FactoriseAndCorrect(q) :
        \E r \in IF y.ret = "OK" THEN {y} ELSE RebuiltWorkingSet(y.q, equalities, allBounds) : sq' = r.q
  BY DEF SetupAuxiliaryQP
<1> HIDE DEF q
<1>4. IsGood(y.q)
  <2>1. GoodSet(FactoriseAndCorrect(q))
    BY <1>2, FactoriseGood
  <2> QED BY <2>1 DEF GoodSet
<1>5. GoodSet(RebuiltWorkingSet(y.q, equalities, allBounds))
  <2> DEFINE f == IF allBounds THEN Vars ELSE Vars \ y.q.free
             a == y.q.active \cap equalities
  <2>1. y.q \in SchurObjects /\ f \in SUBSET Vars /\ a \in SUBSET Cons
    BY <1>4, GoodParts
  <2> HIDE DEF f, a
  <2>2. GoodSet(SetupAuxiliaryWorkingSet(y.q, f, a))
    BY <2>1, SetupGood
  <2> QED BY <2>2 DEF RebuiltWorkingSet, f, a
<1> QED BY <1>3, <1>4, <1>5 DEF GoodSet

(* A step direction.                                                       *)
LEMMA ComputeStepGood ==
  ASSUME SchurInv, ComputeStep
  PROVE  IsGood(sq')
<1>1. IsGood(sq)
  BY DEF SchurInv, ComputeStep
<1>2. PICK r \in DetermineStepDirection(Inner, sq) : sq' = r.q
  BY DEF ComputeStep
<1>3. GoodSet(DetermineStepDirection(Inner, sq))
  BY <1>1, InnerGood, StepGood
<1> QED BY <1>2, <1>3 DEF GoodSet

(* Every object that was factorised is good, whatever calls were made      *)
(* since and whichever of them failed: its Schur complement is the one of  *)
(* its updates, the sparse solver can solve, and the updates are the       *)
(* differences between the lists and what was factorised.                  *)
THEOREM ComplementIsKept == SchurSpec => []SchurInv
<1>1. SchurInit => SchurInv
  BY DEF SchurInit, SchurInv
<1>2. SchurInv /\ [SchurNext]_schurVars => SchurInv'
  <2> SUFFICES ASSUME SchurInv, [SchurNext]_schurVars PROVE SchurInv'
    OBVIOUS
  <2>1. ASSUME NEW i \in Idx, AddToActiveSet(i) PROVE SchurInv'
    BY <2>1, AddToActiveSetGood DEF SchurInv
  <2>2. ASSUME NEW i \in Idx, NEW flip \in BOOLEAN, RemoveFromActiveSet(i, flip) PROVE SchurInv'
    BY <2>2, RemoveFromActiveSetGood DEF SchurInv
  <2>3. ASSUME NEW i \in Idx, NEW j \in Idx, ExchangeInActiveSet(i, j) PROVE SchurInv'
    BY <2>3, ExchangeGood DEF SchurInv
  <2>4. ASSUME NEW fixed \in SUBSET Vars, NEW actives \in SUBSET Cons, NEW afresh \in BOOLEAN,
               InitWorkingSet(fixed, actives, afresh)
        PROVE  SchurInv'
    BY <2>4, InitWorkingSetGood DEF SchurInv
  <2>5. ASSUME NEW equalities \in SUBSET Cons, NEW allBounds \in BOOLEAN, SetupAuxiliaryQP(equalities, allBounds)
        PROVE  SchurInv'
    BY <2>5, SetupAuxiliaryQPGood DEF SchurInv
  <2>6. CASE ComputeStep
    BY <2>6, ComputeStepGood DEF SchurInv
  <2>7. CASE UNCHANGED schurVars
    <3>1. sq' = sq /\ ret' = ret
      BY <2>7 DEF schurVars
    <3> QED BY <3>1 DEF SchurInv
  <2> QED BY <2>1, <2>2, <2>3, <2>4, <2>5, <2>6, <2>7 DEF SchurNext
<1> QED BY <1>1, <1>2, PTL DEF SchurSpec

(* A sequence of increasing numbers.                                       *)
Increasing(e) == e \in Seq(Int) /\ \A j, k \in 1 .. Len(e) : j < k => e[j] < e[k]
TailOf(e, k) == {e[j] : j \in k .. Len(e)}

(* The rest of an increasing sequence, from k on.                          *)
LEMMA TailSteps ==
  ASSUME NEW e, Increasing(e), NEW k \in 1 .. Len(e)
  PROVE  /\ TailOf(e, k) = {e[k]} \cup TailOf(e, k + 1)
         /\ e[k] \in Int /\ \A x \in TailOf(e, k) : x \in Int /\ e[k] <= x
<1>1. e \in Seq(Int) /\ Len(e) \in Nat /\ \A j \in 1 .. Len(e) : e[j] \in Int
  BY DEF Increasing
<1>2. \A j \in k .. Len(e) : j \in 1 .. Len(e) /\ (j = k \/ j \in k + 1 .. Len(e))
  BY <1>1
<1>3. k \in k .. Len(e) /\ \A j \in k + 1 .. Len(e) : j \in k .. Len(e)
  BY <1>1
<1>4. TailOf(e, k) = {e[k]} \cup TailOf(e, k + 1)
  BY <1>2, <1>3 DEF TailOf
<1>5. \A j \in k .. Len(e) : e[k] <= e[j]
  <2> SUFFICES ASSUME NEW j \in k .. Len(e) PROVE e[k] <= e[j]
    OBVIOUS
  <2>1. CASE j = k
    BY <1>1, <2>1
  <2>2. CASE j # k
    <3>1. j \in 1 .. Len(e) /\ k < j
      BY <1>1, <2>2
    <3>2. e[k] < e[j]
      BY <3>1 DEF Increasing
    <3> QED BY <1>1, <3>1, <3>2
  <2> QED BY <2>1, <2>2
<1> QED BY <1>1, <1>2, <1>4, <1>5 DEF TailOf

MergesAt(met, now, start, b) ==
  met[b] = IF b[1] > Len(now) \/ b[2] > Len(start) THEN {}
           ELSE IF now[b[1]] = start[b[2]] THEN {now[b[1]]} \cup met[<<b[1] + 1, b[2] + 1>>]
           ELSE IF now[b[1]] < start[b[2]] THEN met[<<b[1] + 1, b[2]>>]
           ELSE met[<<b[1], b[2] + 1>>]

(* The merge'e function satisfies the equation that defines it.            *)
LEMMA MergeRecursion ==
  ASSUME NEW now, Increasing(now), NEW start, Increasing(start),
         NEW b \in (1 .. Len(now) + 1) \X (1 .. Len(start) + 1)
  PROVE  MergesAt(Merge(now, start), now, start, b)
<1> DEFINE N == Len(now)
           L == Len(start)
           D == (1 .. N + 1) \X (1 .. L + 1)
           size(p) == (N + 1 - p[1]) + (L + 1 - p[2])
           Body(f, p) ==
             IF p[1] > N \/ p[2] > L THEN {}
             ELSE IF now[p[1]] = start[p[2]] THEN {now[p[1]]} \cup f[<<p[1] + 1, p[2] + 1>>]
             ELSE IF now[p[1]] < start[p[2]] THEN f[<<p[1] + 1, p[2]>>]
             ELSE f[<<p[1], p[2] + 1>>]
           Ends(p) == p[1] > N \/ p[2] > L
           P == {m \in Nat : \E f : \A p \in D : size(p) <= m => f[p] = Body(f, p)}
<1>0. N \in Nat /\ L \in Nat
  BY DEF Increasing
<1>1. \A p \in D : p[1] \in 1 .. N + 1 /\ p[2] \in 1 .. L + 1 /\ size(p) \in Nat
  <2> SUFFICES ASSUME NEW p \in D PROVE p[1] \in 1 .. N + 1 /\ p[2] \in 1 .. L + 1 /\ size(p) \in Nat
    OBVIOUS
  <2>1. p[1] \in 1 .. N + 1 /\ p[2] \in 1 .. L + 1
    OBVIOUS
  <2> QED BY <1>0, <2>1
<1>2. ASSUME NEW p \in D, ~Ends(p)
      PROVE  /\ <<p[1] + 1, p[2] + 1>> \in D /\ size(<<p[1] + 1, p[2] + 1>>) < size(p)
             /\ <<p[1] + 1, p[2]>> \in D /\ size(<<p[1] + 1, p[2]>>) < size(p)
             /\ <<p[1], p[2] + 1>> \in D /\ size(<<p[1], p[2] + 1>>) < size(p)
  <2> DEFINE i == p[1]
             j == p[2]
  <2>1. i \in 1 .. N /\ j \in 1 .. L
    BY <1>0, <1>1, <1>2
  <2>2. size(p) = (N + 1 - i) + (L + 1 - j)
    OBVIOUS
  <2> HIDE DEF i, j
  <2>3. /\ <<i + 1, j + 1>> \in D /\ <<i + 1, j>> \in D /\ <<i, j + 1>> \in D
        /\ size(<<i + 1, j + 1>>) < size(p) /\ size(<<i + 1, j>>) < size(p) /\ size(<<i, j + 1>>) < size(p)
    BY <1>0, <2>1, <2>2
  <2> QED BY <2>3 DEF i, j
<1>3. ASSUME NEW f, NEW g, NEW p \in D,
             ~Ends(p) => /\ f[<<p[1] + 1, p[2] + 1>>] = g[<<p[1] + 1, p[2] + 1>>]
                         /\ f[<<p[1] + 1, p[2]>>] = g[<<p[1] + 1, p[2]>>]
                         /\ f[<<p[1], p[2] + 1>>] = g[<<p[1], p[2] + 1>>]
      PROVE  Body(f, p) = Body(g, p)
  BY <1>3
<1> HIDE DEF Body, Ends
<1>4. \A m \in Nat, p \in D, c \in D : size(c) < size(p) /\ size(p) <= m + 1 => size(c) <= m
  <2> SUFFICES ASSUME NEW m \in Nat, NEW p \in D, NEW c \in D, size(c) < size(p), size(p) <= m + 1 PROVE size(c) <= m
    OBVIOUS
  <2>1. size(c) \in Nat /\ size(p) \in Nat
    BY <1>1
  <2> HIDE DEF size
  <2> QED BY <2>1
<1>5. 0 \in P
  <2> DEFINE f == [p \in D |-> {}]
  <2>1. ASSUME NEW p \in D, size(p) <= 0 PROVE f[p] = Body(f, p)
    <3>1. Ends(p)
      <4>1. p[1] \in 1 .. N + 1 /\ p[2] \in 1 .. L + 1
        BY <1>1
      <4> QED BY <1>0, <2>1, <4>1 DEF Ends
    <3> QED BY <3>1 DEF Body, Ends
  <2> HIDE DEF f
  <2> QED BY <2>1
<1>6. ASSUME NEW m \in Nat, m \in P PROVE m + 1 \in P
  <2> HIDE DEF size
  <2>1. PICK f : \A p \in D : size(p) <= m => f[p] = Body(f, p)
    BY <1>6
  <2> DEFINE g == [p \in D |-> Body(f, p)]
  <2> SUFFICES \A p \in D : size(p) <= m + 1 => g[p] = Body(g, p)
    <3> HIDE DEF g
    <3> QED OBVIOUS
  <2> SUFFICES ASSUME NEW p \in D, size(p) <= m + 1 PROVE g[p] = Body(g, p)
    OBVIOUS
  <2>2. \A c \in D : size(c) <= m => f[c] = g[c]
    BY <2>1
  <2>3. g[p] = Body(f, p)
    OBVIOUS
  <2> HIDE DEF g
  <2>4. ~Ends(p) => /\ f[<<p[1] + 1, p[2] + 1>>] = g[<<p[1] + 1, p[2] + 1>>]
                    /\ f[<<p[1] + 1, p[2]>>] = g[<<p[1] + 1, p[2]>>]
                    /\ f[<<p[1], p[2] + 1>>] = g[<<p[1], p[2] + 1>>]
    <3> HIDE DEF D
    <3> QED BY <1>2, <1>4, <2>2, Zenon
  <2> QED BY <1>3, <2>3, <2>4
<1>7. \A m \in Nat : m \in P
  <2> HIDE DEF P
  <2> QED BY <1>5, <1>6, NatSetInduction
<1>8. PICK f : \A p \in D : size(p) <= N + L => f[p] = Body(f, p)
  <2>1. N + L \in P
    <3> HIDE DEF P
    <3> QED BY <1>0, <1>7
  <2> QED BY <2>1
<1>9. \A p \in D : f[p] = Body(f, p)
  <2> SUFFICES ASSUME NEW p \in D PROVE size(p) <= N + L
    BY <1>8
  <2>1. p[1] \in 1 .. N + 1 /\ p[2] \in 1 .. L + 1
    BY <1>1
  <2> QED BY <1>0, <2>1
<1> DEFINE g == [p \in D |-> f[p]]
<1>10. g = [p \in D |-> Body(g, p)]
  <2> SUFFICES ASSUME NEW p \in D PROVE f[p] = Body(g, p)
    OBVIOUS
  <2>1. \A c \in D : f[c] = g[c]
    OBVIOUS
  <2> HIDE DEF g, D, size
  <2>2. ~Ends(p) => /\ f[<<p[1] + 1, p[2] + 1>>] = g[<<p[1] + 1, p[2] + 1>>]
                    /\ f[<<p[1] + 1, p[2]>>] = g[<<p[1] + 1, p[2]>>]
                    /\ f[<<p[1], p[2] + 1>>] = g[<<p[1], p[2] + 1>>]
    BY <1>2, <2>1, Zenon
  <2>3. Body(f, p) = Body(g, p)
    BY <1>3, <2>2
  <2> QED BY <1>9, <2>3
<1>11. Merge(now, start) = CHOOSE h : h = [p \in D |-> Body(h, p)]
  BY Zenon DEF Merge, Body
<1>12. Merge(now, start) = [p \in D |-> Body(Merge(now, start), p)]
  <2> HIDE DEF g, D
  <2> QED BY <1>10, <1>11, Zenon
<1>13. Merge(now, start)[b] = Body(Merge(now, start), b)
  BY <1>12, Zenon
<1> QED BY <1>13, Zenon DEF Body, MergesAt

(* Merging two increasing sequences finds what both have.                  *)
LEMMA MergeMeets ==
  ASSUME NEW now, Increasing(now), NEW start, Increasing(start)
  PROVE  Merge(now, start)[<<1, 1>>] = TailOf(now, 1) \cap TailOf(start, 1)
<1> DEFINE N == Len(now)
           L == Len(start)
           D == (1 .. N + 1) \X (1 .. L + 1)
           size(p) == (N + 1 - p[1]) + (L + 1 - p[2])
           met == Merge(now, start)
           Right(p) == met[p] = TailOf(now, p[1]) \cap TailOf(start, p[2])
           P == {m \in Nat : \A p \in D : size(p) <= m => Right(p)}
<1>0. N \in Nat /\ L \in Nat
  BY DEF Increasing
<1>1. \A p \in D : p[1] \in 1 .. N + 1 /\ p[2] \in 1 .. L + 1
  OBVIOUS
<1>2. ASSUME NEW p \in D, p[1] > N \/ p[2] > L PROVE Right(p)
  <2>3. MergesAt(met, now, start, p)
    BY MergeRecursion, Zenon
  <2>1. met[p] = {}
    <3> HIDE DEF met
    <3> QED BY <1>2, <2>3 DEF MergesAt
  <2>2. TailOf(now, p[1]) = {} \/ TailOf(start, p[2]) = {}
    BY <1>0, <1>1, <1>2 DEF TailOf
  <2> QED BY <2>1, <2>2
<1>3. ASSUME NEW p \in D, ~(p[1] > N \/ p[2] > L),
             \A c \in D : size(c) < size(p) => Right(c)
      PROVE  Right(p)
  <2> DEFINE i == p[1]
             j == p[2]
  <2>1. i \in 1 .. N /\ j \in 1 .. L
    BY <1>0, <1>1, <1>3
  <2>2. size(p) = (N + 1 - i) + (L + 1 - j)
    OBVIOUS
  <2>3. met[p] = IF now[i] = start[j] THEN {now[i]} \cup met[<<i + 1, j + 1>>]
                 ELSE IF now[i] < start[j] THEN met[<<i + 1, j>>] ELSE met[<<i, j + 1>>]
    <3>1. met[p] = IF p[1] > N \/ p[2] > L THEN {}
                   ELSE IF now[p[1]] = start[p[2]] THEN {now[p[1]]} \cup met[<<p[1] + 1, p[2] + 1>>]
                   ELSE IF now[p[1]] < start[p[2]] THEN met[<<p[1] + 1, p[2]>>]
                   ELSE met[<<p[1], p[2] + 1>>]
      <4>1. MergesAt(met, now, start, p)
        BY MergeRecursion, Zenon
      <4> HIDE DEF met
      <4> QED BY <4>1, Zenon DEF MergesAt
    <3> QED BY <1>3, <3>1, Zenon
  <2>4. Right(p) <=> met[p] = TailOf(now, i) \cap TailOf(start, j)
    OBVIOUS
  <2> HIDE DEF i, j
  <2>5. /\ <<i + 1, j + 1>> \in D /\ <<i + 1, j>> \in D /\ <<i, j + 1>> \in D
        /\ size(<<i + 1, j + 1>>) < size(p) /\ size(<<i + 1, j>>) < size(p) /\ size(<<i, j + 1>>) < size(p)
    BY <1>0, <2>1, <2>2
  <2>6. Right(<<i + 1, j + 1>>) /\ Right(<<i + 1, j>>) /\ Right(<<i, j + 1>>)
    <3> HIDE DEF Right, size, D
    <3> QED BY <1>3, <2>5
  <2>7. /\ met[<<i + 1, j + 1>>] = TailOf(now, i + 1) \cap TailOf(start, j + 1)
        /\ met[<<i + 1, j>>] = TailOf(now, i + 1) \cap TailOf(start, j)
        /\ met[<<i, j + 1>>] = TailOf(now, i) \cap TailOf(start, j + 1)
    BY <2>6
  <2>8. /\ TailOf(now, i) = {now[i]} \cup TailOf(now, i + 1)
        /\ now[i] \in Int /\ \A x \in TailOf(now, i) : x \in Int /\ now[i] <= x
    BY <2>1, TailSteps
  <2>9. /\ TailOf(start, j) = {start[j]} \cup TailOf(start, j + 1)
        /\ start[j] \in Int /\ \A x \in TailOf(start, j) : x \in Int /\ start[j] <= x
    BY <2>1, TailSteps
  <2> HIDE DEF met, Right
  <2>10. CASE now[i] = start[j]
    BY <2>3, <2>4, <2>7, <2>8, <2>9, <2>10
  <2>11. CASE now[i] < start[j]
    <3>1. now[i] \notin TailOf(start, j) /\ now[i] # start[j]
      BY <2>8, <2>9, <2>11
    <3>2. met[p] = met[<<i + 1, j>>]
      BY <2>3, <2>11, <3>1
    <3> QED BY <2>4, <2>7, <2>8, <3>1, <3>2
  <2>12. CASE start[j] < now[i]
    <3>1. start[j] \notin TailOf(now, i) /\ now[i] # start[j] /\ ~(now[i] < start[j])
      BY <2>8, <2>9, <2>12
    <3>2. met[p] = met[<<i, j + 1>>]
      BY <2>3, <3>1
    <3> QED BY <2>4, <2>7, <2>9, <3>1, <3>2
  <2> QED BY <2>8, <2>9, <2>10, <2>11, <2>12
<1> HIDE DEF Right
<1>4. \A p \in D : size(p) \in Nat
  <2> SUFFICES ASSUME NEW p \in D PROVE size(p) \in Nat
    OBVIOUS
  <2>1. p[1] \in 1 .. N + 1 /\ p[2] \in 1 .. L + 1
    BY <1>1
  <2> QED BY <1>0, <2>1
<1>5. 0 \in P
  <2> SUFFICES ASSUME NEW p \in D, size(p) <= 0 PROVE Right(p)
    OBVIOUS
  <2>1. p[1] \in 1 .. N + 1 /\ p[2] \in 1 .. L + 1
    BY <1>1
  <2>2. p[1] > N \/ p[2] > L
    BY <1>0, <2>1
  <2> QED BY <1>2, <2>2
<1>6. ASSUME NEW m \in Nat, m \in P PROVE m + 1 \in P
  <2> SUFFICES ASSUME NEW p \in D, size(p) <= m + 1 PROVE Right(p)
    OBVIOUS
  <2> HIDE DEF D, size
  <2>1. \A c \in D : size(c) < size(p) => Right(c)
    BY <1>4, <1>6
  <2> QED BY <1>2, <1>3, <2>1
<1>7. \A m \in Nat : m \in P
  <2> HIDE DEF P
  <2> QED BY <1>5, <1>6, NatSetInduction
<1>8. Right(<<1, 1>>)
  <2>1. <<1, 1>> \in D /\ size(<<1, 1>>) \in Nat /\ size(<<1, 1>>) <= size(<<1, 1>>)
    BY <1>0
  <2>2. size(<<1, 1>>) \in P
    <3> HIDE DEF P, size
    <3> QED BY <1>7, <2>1
  <2> HIDE DEF size, D
  <2> QED BY <2>1, <2>2
<1> QED BY <1>8 DEF Right

-----------------------------------------------------------------------------
(* Every set of numbers up to m has its increasing enumeration.            *)
Enumerates(e, set) ==
  /\ e \in [1 .. Cardinality(set) -> set] /\ {e[k] : k \in 1 .. Cardinality(set)} = set
  /\ \A j, k \in 1 .. Cardinality(set) : j < k => e[j] < e[k]

(* It exists.                                                              *)
LEMMA EnumerationExists ==
  ASSUME NEW n \in Nat, NEW set \in SUBSET (1 .. n)
  PROVE  \E e : Enumerates(e, set)
<1> DEFINE P == {m \in Nat : \A T \in SUBSET (1 .. m) : \E e : Enumerates(e, T)}
<1>1. 0 \in P
  <2> SUFFICES ASSUME NEW T \in SUBSET (1 .. 0) PROVE \E e : Enumerates(e, T)
    OBVIOUS
  <2>8. T = {}
    OBVIOUS
  <2>1. T = {} /\ Cardinality(T) = 0
    BY <2>8, FS_EmptySet, Zenon
  <2> DEFINE I == 1 .. Cardinality(T)
             e == [k \in {} |-> 0]
  <2>5. I = {}
    BY <2>1
  <2> HIDE DEF I
  <2>7. e \in [{} -> {}]
    OBVIOUS
  <2> HIDE DEF e
  <2>6. e \in [I -> T] /\ {e[k] : k \in I} = T /\ \A j, k \in I : j < k => e[j] < e[k]
    BY <2>1, <2>5, <2>7
  <2>2. e \in [1 .. Cardinality(T) -> T] /\ {e[k] : k \in 1 .. Cardinality(T)} = T
    BY <2>6 DEF I
  <2>3. \A j, k \in 1 .. Cardinality(T) : j < k => e[j] < e[k]
    BY <2>6 DEF I
  <2> HIDE DEF e
  <2>4. Enumerates(e, T)
    BY <2>2, <2>3 DEF Enumerates
  <2> QED BY <2>4
<1>2. ASSUME NEW m \in Nat, m \in P PROVE m + 1 \in P
  <2> SUFFICES ASSUME NEW T \in SUBSET (1 .. m + 1) PROVE \E e : Enumerates(e, T)
    OBVIOUS
  <2>1. CASE m + 1 \notin T
    <3>1. T \in SUBSET (1 .. m)
      BY <2>1
    <3> QED BY <1>2, <3>1
  <2>2. CASE m + 1 \in T
    <3> DEFINE U == T \ {m + 1}
               c == Cardinality(U)
    <3>1. U \in SUBSET (1 .. m)
      OBVIOUS
    <3>2. PICK u : Enumerates(u, U)
      BY <1>2, <3>1
    <3>3. IsFiniteSet(T)
      <4>1. IsFiniteSet(1 .. m + 1)
        BY FS_Interval
      <4> QED BY <4>1, FS_Subset
    <3>4. c \in Nat /\ Cardinality(T) = c + 1
      <4>1. IsFiniteSet(U) /\ Cardinality(U) = Cardinality(T) - 1
        BY <2>2, <3>3, FS_RemoveElement
      <4>2. Cardinality(T) \in Nat /\ Cardinality(U) \in Nat
        BY <3>3, <4>1, FS_CardinalityType
      <4> QED BY <4>1, <4>2
    <3> HIDE DEF U, c
    <3>5. /\ u \in [1 .. c -> U] /\ {u[k] : k \in 1 .. c} = U
          /\ \A j, k \in 1 .. c : j < k => u[j] < u[k]
      BY <3>2 DEF Enumerates, c
    <3>6. T = U \cup {m + 1} /\ \A x \in U : x \in 1 .. m
      BY <2>2, <3>1 DEF U
    <3> DEFINE e == [k \in 1 .. c + 1 |-> IF k = c + 1 THEN m + 1 ELSE u[k]]
    <3>7. \A k \in 1 .. c + 1 : k = c + 1 \/ k \in 1 .. c
      BY <3>4
    <3>8. c + 1 \in 1 .. c + 1 /\ \A k \in 1 .. c : k \in 1 .. c + 1 /\ k # c + 1
      BY <3>4
    <3>9. e[c + 1] = m + 1 /\ \A k \in 1 .. c : e[k] = u[k]
      BY <3>8
    <3>10. e \in [1 .. c + 1 -> T]
      BY <3>5, <3>6, <3>7
    <3> HIDE DEF e
    <3>11. {e[k] : k \in 1 .. c + 1} = T
      <4>1. {e[k] : k \in 1 .. c + 1} = {u[k] : k \in 1 .. c} \cup {m + 1}
        BY <3>7, <3>8, <3>9
      <4> QED BY <3>5, <3>6, <4>1
    <3>12. \A j, k \in 1 .. c + 1 : j < k => e[j] < e[k]
      <4> SUFFICES ASSUME NEW j \in 1 .. c + 1, NEW k \in 1 .. c + 1, j < k PROVE e[j] < e[k]
        OBVIOUS
      <4>1. j \in 1 .. c
        BY <3>4
      <4>2. u[j] \in 1 .. m
        BY <3>5, <3>6, <4>1
      <4>3. CASE k = c + 1
        BY <3>9, <4>1, <4>2, <4>3
      <4>4. CASE k \in 1 .. c
        BY <3>5, <3>9, <4>1, <4>4
      <4> QED BY <3>7, <4>3, <4>4
    <3>13. Enumerates(e, T)
      BY <3>4, <3>10, <3>11, <3>12 DEF Enumerates
    <3> QED BY <3>13
  <2> QED BY <2>1, <2>2
<1>3. \A m \in Nat : m \in P
  <2> HIDE DEF P
  <2> QED BY <1>1, <1>2, NatSetInduction
<1> QED BY <1>3

(* getISortArray(): the indices of a list in increasing order.             *)
LEMMA ISortIs ==
  ASSUME NEW n \in Nat, NEW set \in SUBSET (1 .. n)
  PROVE  Increasing(ISort(set)) /\ TailOf(ISort(set), 1) = set
<1> DEFINE c == Cardinality(set)
           Ok(e) == {e[k] : k \in DOMAIN e} = set /\ \A j, k \in DOMAIN e : j < k => e[j] < e[k]
           t == ISort(set)
<1>1. PICK u : Enumerates(u, set)
  BY EnumerationExists
<1>2. u \in [1 .. c -> set] /\ Ok(u)
  <2>1. u \in [1 .. c -> set] /\ DOMAIN u = 1 .. c
    BY <1>1 DEF Enumerates
  <2> QED BY <1>1, <2>1 DEF Enumerates
<1>3. t = CHOOSE e \in [1 .. c -> set] : Ok(e)
  BY Zenon DEF ISort
<1> HIDE DEF Ok
<1>4. t \in [1 .. c -> set] /\ Ok(t)
  <2> HIDE DEF c, t
  <2> QED BY <1>2, <1>3, Zenon
<1> HIDE DEF t
<1>5. c \in Nat
  <2>1. IsFiniteSet(1 .. n)
    BY FS_Interval
  <2> QED BY <2>1, FS_Subset, FS_CardinalityType
<1>6. set \subseteq Int
  OBVIOUS
<1> HIDE DEF c
<1>7. t \in Seq(Int) /\ Len(t) = c
  <2>1. t \in [1 .. c -> Int]
    BY <1>4, <1>6
  <2> QED BY <1>5, <2>1, FcnIsSeq
<1>8. {t[k] : k \in 1 .. c} = set /\ \A j, k \in 1 .. c : j < k => t[j] < t[k]
  <2>1. DOMAIN t = 1 .. c
    BY <1>4
  <2> QED BY <1>4, <2>1 DEF Ok
<1> QED BY <1>7, <1>8 DEF Increasing, TailOf, t

(* stepCalcReorder(): the lists meet in what they have in common.          *)
LEMMA MetIs ==
  ASSUME NEW n \in Nat, NEW a \in SUBSET (1 .. n), NEW b \in SUBSET (1 .. n)
  PROVE  Met(a, b) = a \cap b
<1> DEFINE e == ISort(a)
           t == ISort(b)
<1>1. Increasing(e) /\ TailOf(e, 1) = a
  BY ISortIs
<1>2. Increasing(t) /\ TailOf(t, 1) = b
  BY ISortIs
<1> HIDE DEF e, t
<1>3. Merge(e, t)[<<1, 1>>] = a \cap b
  BY <1>1, <1>2, MergeMeets
<1> QED BY <1>3 DEF Met, e, t

(* The updates of each kind.                                               *)
LEMMA UpdatedIs ==
  ASSUME NEW q, IsWhole(q), HasDifferences(q)
  PROVE  /\ Updated(q, "VarFixed") = q.freeStart \ q.free /\ Updated(q, "VarFreed") = q.free \ q.freeStart
         /\ Updated(q, "ConRemoved") = q.activeStart \ q.active /\ Updated(q, "ConAdded") = q.active \ q.activeStart
<1> DEFINE n == q.nS
           u == q.upd
           Kinds == {"VarFixed", "VarFreed", "ConAdded", "ConRemoved"}
<1>1. n \in Nat /\ Len(u) = n /\ \A k \in 1 .. n : u[k] \in Updates
  BY WholeParts, GetUpdate
<1>2. {u[k] : k \in 1 .. n} = DifferencesOf(q)
  BY <1>1 DEF HasDifferences, Entries
<1>3. \A t : Updated(q, t) = {u[k].i : k \in {j \in 1 .. n : u[j].t = t}}
  BY DEF Updated
<1>4. /\ q.free \in SUBSET Vars /\ q.active \in SUBSET Cons
      /\ q.freeStart \in SUBSET Vars /\ q.activeStart \in SUBSET Cons
  BY SchurObjectParts DEF IsWhole
<1> HIDE DEF n, u
<1>5. ASSUME NEW t \in Kinds PROVE Updated(q, t) = {i \in Idx : IsDifference(q, Update(i, t))}
  <2>1. ASSUME NEW i \in Updated(q, t) PROVE i \in Idx /\ IsDifference(q, Update(i, t))
    <3>1. PICK k \in 1 .. n : u[k].t = t /\ u[k].i = i
      BY <1>3
    <3>2. u[k] \in Updates /\ u[k] \in DifferencesOf(q)
      BY <1>1, <1>2
    <3>3. u[k] = Update(i, t) /\ i \in Idx
      BY <3>1, <3>2, UpdateSplit
    <3>4. IsDifference(q, u[k])
      BY <3>2 DEF DifferencesOf
    <3> QED BY <3>3, <3>4
  <2>2. ASSUME NEW i \in Idx, IsDifference(q, Update(i, t)) PROVE i \in Updated(q, t)
    <3>1. Update(i, t) \in Updates /\ Update(i, t).i = i /\ Update(i, t).t = t
      BY UpdateIs
    <3>2. Update(i, t) \in DifferencesOf(q)
      BY <2>2, <3>1 DEF DifferencesOf
    <3>3. PICK k \in 1 .. n : u[k] = Update(i, t)
      BY <1>2, <3>2
    <3> QED BY <1>3, <3>1, <3>3
  <2> QED BY <2>1, <2>2
<1>6. \A i \in Idx, t \in Kinds : Update(i, t).i = i /\ Update(i, t).t = t
  BY UpdateIs
<1>7. \A i \in Idx :
        /\ IsDifference(q, Update(i, "VarFixed")) <=> i \in q.freeStart \ q.free
        /\ IsDifference(q, Update(i, "VarFreed")) <=> i \in q.free \ q.freeStart
        /\ IsDifference(q, Update(i, "ConRemoved")) <=> i \in q.activeStart \ q.active
        /\ IsDifference(q, Update(i, "ConAdded")) <=> i \in q.active \ q.activeStart
  BY <1>6 DEF IsDifference
<1> QED BY <1>4, <1>5, <1>7, DisjointIdx

(* A good object matches its factorisation.                                *)
LEMMA GoodFactorisation ==
  ASSUME SchurInv
  PROVE  FactorisationMatches
<1>1. CASE \E kind \in Solvers : sq = Fresh(kind)
  <2>1. sq.nS = -1
    BY <1>1, SchurAssumption, FreshObject
  <2> QED BY <2>1 DEF FactorisationMatches
<1>2. CASE IsGood(sq)
  <2> SUFFICES ASSUME ~sq.failed
               PROVE  CanSolve(sq) /\ (~sq.dropped => FactorisedWorkingSet(sq) = [free |-> sq.free, active |-> sq.active])
    BY DEF FactorisationMatches, CanSolve
  <2>1. CanSolve(sq)
    BY <1>2 DEF IsGood
  <2>2. ASSUME ~sq.dropped PROVE FactorisedWorkingSet(sq) = [free |-> sq.free, active |-> sq.active]
    <3>1. IsWhole(sq) /\ HasDifferences(sq)
      BY <1>2, <2>2 DEF IsGood
    <3>2. /\ Updated(sq, "VarFixed") = sq.freeStart \ sq.free /\ Updated(sq, "VarFreed") = sq.free \ sq.freeStart
          /\ Updated(sq, "ConRemoved") = sq.activeStart \ sq.active /\ Updated(sq, "ConAdded") = sq.active \ sq.activeStart
      BY <3>1, UpdatedIs
    <3>3. (sq.freeStart \ Updated(sq, "VarFixed")) \cup Updated(sq, "VarFreed") = sq.free
      BY <3>2
    <3>4. (sq.activeStart \ Updated(sq, "ConRemoved")) \cup Updated(sq, "ConAdded") = sq.active
      BY <3>2
    <3> QED BY <3>3, <3>4, Zenon DEF FactorisedWorkingSet
  <2> QED BY <2>1, <2>2
<1> QED BY <1>1, <1>2 DEF SchurInv

(* Every free variable and active constraint takes its step from one place.*)
LEMMA OnePlaceEach ==
  ASSUME NEW q, IsWhole(q), HasDifferences(q)
  PROVE  LET updates == StepCalcBacksolveSchur(q)
             reached == {q.upd[k].i : k \in updates}
         IN  /\ Cardinality(reached) = Cardinality(updates) /\ reached \cap StepCalcReorder(q) = {}
             /\ reached \cup StepCalcReorder(q) = q.free \cup q.active
<1> DEFINE n == q.nS
           u == q.upd
           updates == StepCalcBacksolveSchur(q)
           reached == {u[k].i : k \in updates}
           reorder == StepCalcReorder(q)
<1>1. n \in Nat /\ Len(u) = n /\ \A k \in 1 .. n : u[k] \in Updates
  BY WholeParts, GetUpdate
<1>2. \A j, k \in 1 .. n : u[j] = u[k] => j = k
  BY <1>1 DEF HasDifferences, Distinct
<1>3. /\ q.free \in SUBSET Vars /\ q.active \in SUBSET Cons
      /\ q.freeStart \in SUBSET Vars /\ q.activeStart \in SUBSET Cons
  BY SchurObjectParts DEF IsWhole
<1>4. updates = {k \in 1 .. n : \/ u[k].t = "VarFreed" /\ u[k].i \in q.free
                                \/ u[k].t = "ConAdded" /\ u[k].i \in q.active}
  BY DEF StepCalcBacksolveSchur
<1>5. /\ Updated(q, "VarFreed") = q.free \ q.freeStart
      /\ Updated(q, "ConAdded") = q.active \ q.activeStart
  BY UpdatedIs
<1>6. \A t : Updated(q, t) = {u[k].i : k \in {j \in 1 .. n : u[j].t = t}}
  BY DEF Updated
<1> HIDE DEF n, u, updates, reorder
<1>7. reached = (q.free \ q.freeStart) \cup (q.active \ q.activeStart)
  <2>1. ASSUME NEW k \in updates PROVE u[k].i \in (q.free \ q.freeStart) \cup (q.active \ q.activeStart)
    <3>1. k \in 1 .. n /\ (u[k].t = "VarFreed" \/ u[k].t = "ConAdded")
      BY <1>4
    <3>2. u[k].i \in Updated(q, u[k].t)
      BY <1>6, <3>1
    <3> QED BY <1>5, <3>1, <3>2
  <2>2. ASSUME NEW i \in q.free \ q.freeStart PROVE i \in reached
    <3>1. PICK k \in 1 .. n : u[k].t = "VarFreed" /\ u[k].i = i
      BY <1>5, <1>6
    <3> QED BY <1>4, <3>1
  <2>3. ASSUME NEW i \in q.active \ q.activeStart PROVE i \in reached
    <3>1. PICK k \in 1 .. n : u[k].t = "ConAdded" /\ u[k].i = i
      BY <1>5, <1>6
    <3> QED BY <1>4, <3>1
  <2> QED BY <2>1, <2>2, <2>3
<1>8. reorder = (q.free \cap q.freeStart) \cup (q.active \cap q.activeStart)
  <2> DEFINE N == NV + NC
  <2>1. N \in Nat /\ Vars \subseteq 1 .. N /\ Cons \subseteq 1 .. N
    BY SchurAssumption DEF Vars, Cons
  <2>2. q.free \in SUBSET (1 .. N) /\ q.freeStart \in SUBSET (1 .. N)
    BY <1>3, <2>1
  <2>3. q.active \in SUBSET (1 .. N) /\ q.activeStart \in SUBSET (1 .. N)
    BY <1>3, <2>1
  <2> HIDE DEF N
  <2>4. Met(q.free, q.freeStart) = q.free \cap q.freeStart
    BY <2>1, <2>2, MetIs
  <2>5. Met(q.active, q.activeStart) = q.active \cap q.activeStart
    BY <2>1, <2>3, MetIs
  <2> QED BY <2>4, <2>5 DEF reorder, StepCalcReorder
<1>9. reached \cap reorder = {} /\ reached \cup reorder = q.free \cup q.active
  <2> HIDE DEF reached
  <2> QED BY <1>3, <1>7, <1>8, DisjointIdx
<1>10. Cardinality(reached) = Cardinality(updates)
  <2> DEFINE f == [k \in updates |-> u[k].i]
  <2>1. ASSUME NEW j \in updates, NEW k \in updates, u[j].i = u[k].i PROVE j = k
    <3>1. j \in 1 .. n /\ k \in 1 .. n /\ u[j].t = u[k].t
      BY <1>3, <1>4, <2>1, DisjointIdx
    <3>2. u[j] \in Updates /\ u[k] \in Updates
      BY <1>1, <3>1
    <3>3. u[j] = u[k]
      BY <2>1, <3>1, <3>2, UpdateSplit
    <3> QED BY <1>2, <3>1, <3>3
  <2>2. f \in Bijection(updates, reached)
    <3>1. f \in [updates -> reached] /\ \A k \in updates : f[k] = u[k].i
      OBVIOUS
    <3> HIDE DEF f
    <3>2. f \in Injection(updates, reached)
      BY <2>1, <3>1 DEF Injection, IsInjective
    <3>3. \A i \in reached : \E k \in updates : f[k] = i
      BY <3>1
    <3> HIDE DEF reached
    <3>4. f \in Surjection(updates, reached)
      BY <3>1, <3>3 DEF Surjection
    <3> QED BY <3>2, <3>4 DEF Bijection
  <2>3. IsFiniteSet(updates)
    <3>1. IsFiniteSet(1 .. n) /\ updates \subseteq 1 .. n
      BY <1>1, <1>4, FS_Interval
    <3> QED BY <3>1, FS_Subset
  <2> HIDE DEF f, reached
  <2>4. ExistsBijection(updates, reached)
    BY <2>2 DEF ExistsBijection
  <2> QED BY <2>3, <2>4, FS_Bijection
<1> QED BY <1>9, <1>10 DEF u, updates, reorder

(* A good object has the Schur complement of its updates.                  *)
LEMMA GoodComplement ==
  ASSUME SchurInv
  PROVE  SchurComplementMatches
<1>1. CASE \E kind \in Solvers : sq = Fresh(kind)
  <2>1. sq.nS = -1
    BY <1>1, SchurAssumption, FreshObject
  <2> QED BY <2>1, SchurAssumption DEF SchurComplementMatches
<1>2. CASE IsGood(sq)
  <2>1. IsWhole(sq)
    BY <1>2 DEF IsGood
  <2>2. /\ sq.nS \in Nat /\ sq.nS <= NSmax /\ Len(sq.upd) = sq.nS /\ sq.M = sq.upd
        /\ \A i, j \in 1 .. sq.nS : sq.S[i][j] = {sq.upd[i], sq.upd[j]}
    BY <2>1, WholeParts
  <2>3. sq.nS \in -1 .. NSmax
    BY <2>2, SchurAssumption
  <2>4. ~sq.failed /\ ~sq.dropped => HasDifferences(sq)
    BY <1>2 DEF IsGood
  <2>5. ~sq.failed /\ ~sq.dropped =>
          LET updates == StepCalcBacksolveSchur(sq)
              reached == {sq.upd[k].i : k \in updates}
          IN  /\ Cardinality(reached) = Cardinality(updates) /\ reached \cap StepCalcReorder(sq) = {}
              /\ reached \cup StepCalcReorder(sq) = sq.free \cup sq.active
    BY <2>1, <2>4, OnePlaceEach
  <2> QED BY <2>2, <2>3, <2>5, Zenon DEF SchurComplementMatches
<1> QED BY <1>1, <1>2 DEF SchurInv

(* SQProblemSchur, for every number of variables and constraints and every *)
(* room for updates: the factorisation with its updates is the one of the  *)
(* working set, and the sparse solver refuses no solve, after any sequence *)
(* of changes, resets, repairs and corrections of the inertia, as long as  *)
(* no failure was met and no update forgotten.                             *)
THEOREM FactorisationIsCurrent == SchurSpec => []FactorisationMatches
BY ComplementIsKept, GoodFactorisation, PTL

(* SQProblemSchur, for every size: every row of S and column of M belongs  *)
(* to its own update, also after a deletion was undone                     *)
(* (undoDeleteFromSchurComplement), and stepCalcReorder() and              *)
(* stepCalcBacksolveSchur() together give every free variable and active   *)
(* constraint its step from exactly one place.                             *)
THEOREM ComplementIsCurrent == SchurSpec => []SchurComplementMatches
BY ComplementIsKept, GoodComplement, PTL
=============================================================================

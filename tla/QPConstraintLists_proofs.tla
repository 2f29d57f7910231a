--------------------- MODULE QPConstraintLists_proofs ----------------------
(***************************************************************************)
(* Proofs about QPConstraintLists, for all scenes.                         *)
(*                                                                         *)
(* ListsInv carries the first two theorems: the row ids of each list are   *)
(* those of its components, one component after the other, so that there   *)
(* are positions st at which the rows of each begin (Laid); storeResults   *)
(* and sendResults are then at the rows of the component they come to.     *)
(* WalksInv carries the third: buildQPMatrices and init, which count       *)
(* lines, stand at the owner of the variable they come to, and the forces  *)
(* kept from step to step are those of the robot's actuators.              *)
(***************************************************************************)
EXTENDS QPConstraintLists, TLAPS

(* The components of a scene.                                              *)
Components(s) == {s.comps[i] : i \in DOMAIN s.comps}

Sending == {"actuator", "equality", "effector", "sensor"}
WithVariables == {"actuator", "equality", "contact"}

Typed ==
  /\ pc \in {"idle", "visit", "init", "contacts", "energy", "qp", "store"} \cup Sending
  /\ sc \in Scenes /\ next \in 1 .. Len(sc.comps) + 1
  /\ jac \in Seq([of : Components(sc), line : Nat])
  /\ list \in [Lists -> Seq(Components(sc))]
  /\ rowIds \in [Lists -> Seq(Nat)]
  /\ k \in Nat /\ id \in Nat \ {0} /\ line \in Nat

(* Each list holds the components of its kind that the visitor has passed, *)
(* none of them twice.                                                     *)
ListsHold ==
  \A l \in Lists : \A m \in DOMAIN list[l] :
    /\ list[l][m].kind = l
    /\ \E i \in 1 .. next - 1 : list[l][m] = sc.comps[i]
    /\ \A q \in DOMAIN list[l] : list[l][q] = list[l][m] => q = m

(* The row ids of a list are those of its components, one component after  *)
(* the other: the rows of component m are at the positions st[m] + 1 ..    *)
(* st[m + 1].                                                              *)
Within(comps, st, p) == \E m \in DOMAIN comps : \E j \in 1 .. comps[m].lines : p = st[m] + j
Laid(comps, ids, rows, st) ==
  /\ st \in [1 .. Len(comps) + 1 -> Nat] /\ st[1] = 0 /\ st[Len(comps) + 1] = Len(ids)
  /\ \A m \in DOMAIN comps : st[m + 1] = st[m] + comps[m].lines
  /\ \A m, q \in 1 .. Len(comps) + 1 : m <= q => st[m] <= st[q]
  /\ \A m \in DOMAIN comps : \A j \in 1 .. comps[m].lines :
       /\ st[m] + j \in DOMAIN ids
       /\ rows[ids[st[m] + j] + 1] = [of |-> comps[m], line |-> j]
  /\ \A p \in DOMAIN ids : Within(comps, st, p)
Starts(l, st) == Laid(list[l], rowIds[l], jac, st)
InOrder(comps, ids, rows) == \E st : Laid(comps, ids, rows, st)
Contiguous == \A l \in Lists : InOrder(list[l], rowIds[l], jac)

(* Every row has its id in the list of its component.                      *)
RowsHold ==
  /\ \A l \in Lists : \A p \in DOMAIN rowIds[l] : rowIds[l][p] + 1 \in DOMAIN jac
  /\ \A r \in DOMAIN jac : LET ids == rowIds[jac[r].of.kind] IN
       \E p \in DOMAIN ids : ids[p] = r - 1
  /\ Len(jac) = NbRows("actuator") + NbRows("equality") + NbRows("contact")
                  + NbRows("effector") + NbRows("sensor")

(* A list has no rows just when the components passed of its kind have     *)
(* none.                                                                   *)
RowsOfComponents ==
  \A l \in Lists :
    NbRows(l) = 0 <=> \A i \in 1 .. next - 1 : sc.comps[i].kind = l => sc.comps[i].lines = 0

Visited ==
  /\ pc \notin {"idle", "visit"} => next = Len(sc.comps) + 1
  /\ pc \in {"init", "contacts"} => NbRows("contact") > 0

(* Where the results are stored, each variable has the force of its row.   *)
SolvedForRows ==
  pc = "store" => \A l \in WithVariables : \A i \in DOMAIN rowIds[l] :
                    x[Before(l) + i] = ForceOn(rowIds[l][i])

(* An actuator without applyForce loses its forces when it is sent them.   *)
Silenced(c) ==
  \/ c.kind \in {"effector", "sensor"}
  \/ /\ c.kind = "actuator" /\ ~c.apply
     /\ pc = "actuator" => \E m \in 1 .. id - 1 : list["actuator"][m] = c
Applied ==
  /\ pc # "visit" => DOMAIN f = DOMAIN jac
  /\ pc \in Sending \cup {"idle"} =>
       \A r \in DOMAIN f : f[r] = IF Silenced(jac[r].of) THEN Zero ELSE ForceOn(r - 1)

(* sendResults stands at the first row of the component it comes to.       *)
AtTheRows ==
  pc \in Sending =>
    /\ nDelta = Len(jac)
    /\ \E st : Starts(pc, st) /\ id <= Len(list[pc]) + 1 /\ line = st[id]

(* What a component is owed: the results of its own rows.                  *)
Own(c) == [j \in 1 .. c.lines |-> <<c.name, j>>]
Owed(c) == [comp |-> c, delta |-> Own(c),
            force |-> IF c.kind \in {"actuator", "equality"} THEN Own(c) ELSE <<>>]
Given == got \in Seq({Owed(c) : c \in Components(sc)})

ListsInv ==
  /\ Typed /\ ListsHold /\ Contiguous /\ RowsHold /\ RowsOfComponents /\ Visited
  /\ SolvedForRows /\ Applied /\ AtTheRows /\ Given

-----------------------------------------------------------------------------
(* What a component is, and the lists as the visitor passes one more.      *)
LEMMA SceneFacts ==
  ASSUME NEW s \in Scenes
  PROVE  /\ s.comps \in Seq(Components(s)) /\ Len(s.comps) \in Nat
         /\ \A c \in Components(s) : c.kind \in Lists /\ c.lines \in Nat /\ c.apply \in BOOLEAN
         /\ \A i \in 1 .. Len(s.comps) : s.comps[i] \in Components(s)
         /\ \A i, j \in 1 .. Len(s.comps) : s.comps[i] = s.comps[j] => i = j
<1>1. IsScene(s)
  BY ScenesAssumption
<1>2. s.comps \in Seq(Components(s))
  BY <1>1 DEF IsScene, Components
<1>3. Len(s.comps) \in Nat /\ DOMAIN s.comps = 1 .. Len(s.comps)
  BY <1>2
<1>4. \A c \in Components(s) : c.kind \in Lists /\ c.lines \in Nat /\ c.apply \in BOOLEAN
  BY <1>1 DEF IsScene, IsComponent, Components
<1>5. \A i \in 1 .. Len(s.comps) : s.comps[i] \in Components(s)
  BY <1>3 DEF Components
<1>6. \A i, j \in 1 .. Len(s.comps) : s.comps[i] = s.comps[j] => i = j
  BY <1>1, <1>3 DEF IsScene
<1> QED
  BY <1>2, <1>3, <1>4, <1>5, <1>6

(* t is s extended by the n elements of e.                                 *)
Extends(t, s, n, e, S) ==
  /\ t \in Seq(S) /\ Len(s) \in Nat /\ DOMAIN s = 1 .. Len(s)
  /\ Len(t) = Len(s) + n /\ DOMAIN t = 1 .. Len(s) + n
  /\ \A i \in 1 .. Len(s) : t[i] = s[i]
  /\ \A j \in 1 .. n : t[Len(s) + j] = e[j]

LEMMA Extended ==
  ASSUME NEW S, NEW s \in Seq(S), NEW n \in Nat, NEW e \in [1 .. n -> S]
  PROVE  Extends(s \o e, s, n, e, S)
<1>1. e \in Seq(S) /\ Len(e) = n
  OBVIOUS
<1>2. s \o e \in Seq(S) /\ Len(s \o e) = Len(s) + n /\ Len(s) \in Nat /\ DOMAIN s = 1 .. Len(s)
  BY <1>1
<1>3. \A i \in 1 .. Len(s) : (s \o e)[i] = s[i]
  BY <1>1, <1>2
<1>4. \A j \in 1 .. n : (s \o e)[Len(s) + j] = e[j]
  BY <1>1, <1>2
<1> QED
  BY <1>2, <1>3, <1>4 DEF Extends

LEMMA ListsInit == Init => ListsInv
<1> SUFFICES ASSUME Init PROVE ListsInv
  OBVIOUS
<1>1. /\ pc = "idle" /\ sc \in Scenes /\ next = 1 /\ k = 1 /\ id = 1 /\ line = 0
      /\ jac = <<>> /\ list = [l \in Lists |-> <<>>] /\ rowIds = [l \in Lists |-> <<>>]
      /\ f = <<>> /\ got = <<>>
  BY DEF Init
<1>2. Typed
  BY <1>1, SceneFacts DEF Typed
<1>3. ListsHold /\ RowsHold /\ RowsOfComponents
  BY <1>1 DEF ListsHold, RowsHold, RowsOfComponents, NbRows, Lists
<1>4. Contiguous
  <2>1. Laid(<<>>, <<>>, <<>>, [i \in {1} |-> 0])
    BY DEF Laid, Within
  <2> QED
    BY <1>1, <2>1 DEF Contiguous, InOrder
<1>5. Visited /\ SolvedForRows /\ AtTheRows
  BY <1>1 DEF Visited, SolvedForRows, AtTheRows, Sending
<1>6. Applied /\ Given
  BY <1>1 DEF Applied, Given
<1> QED
  BY <1>2, <1>3, <1>4, <1>5, <1>6 DEF ListsInv

-----------------------------------------------------------------------------
(* The part of the invariant that the visitor builds.                      *)
Sorted == ListsHold /\ Contiguous /\ RowsHold /\ RowsOfComponents

LEMMA SortedUnchanged ==
  ASSUME Sorted, UNCHANGED lists
  PROVE  Sorted'
<1>1. sc' = sc /\ next' = next /\ jac' = jac /\ list' = list /\ rowIds' = rowIds
  BY DEF lists
<1>2. Contiguous'
  BY <1>1 DEF Sorted, Contiguous
<1>3. ListsHold' /\ RowsOfComponents'
  BY <1>1 DEF Sorted, ListsHold, RowsOfComponents, NbRows
<1>4. RowsHold'
  BY <1>1 DEF Sorted, RowsHold, NbRows
<1> QED
  BY <1>2, <1>3, <1>4 DEF Sorted

LEMMA ClearSorted ==
  ASSUME ClearProblem
  PROVE  Sorted'
<1>1. next' = 1 /\ jac' = <<>> /\ list' = [l \in Lists |-> <<>>] /\ rowIds' = [l \in Lists |-> <<>>]
  BY DEF ClearProblem
<1>2. ListsHold' /\ RowsHold' /\ RowsOfComponents'
  BY <1>1 DEF ListsHold, RowsHold, RowsOfComponents, NbRows, Lists
<1>3. Contiguous'
  <2>1. Laid(<<>>, <<>>, <<>>, [i \in {1} |-> 0])
    BY DEF Laid, Within
  <2> QED
    BY <1>1, <2>1 DEF Contiguous, InOrder
<1> QED
  BY <1>2, <1>3 DEF Sorted

(* The lists after the visitor has passed component c, in terms of those   *)
(* before.                                                                 *)
Passed(c) ==
  /\ c \in Components(sc) /\ c = sc.comps[next] /\ next' = next + 1 /\ sc' = sc
  /\ next \in 1 .. Len(sc.comps)
  /\ jac' \in Seq([of : Components(sc), line : Nat])
  /\ Len(jac) \in Nat /\ Len(jac') = Len(jac) + c.lines
  /\ DOMAIN jac = 1 .. Len(jac) /\ DOMAIN jac' = 1 .. Len(jac) + c.lines
  /\ \A r \in 1 .. Len(jac) : jac'[r] = jac[r]
  /\ \A j \in 1 .. c.lines : jac'[Len(jac) + j] = [of |-> c, line |-> j]
  /\ list' \in [Lists -> Seq(Components(sc))] /\ rowIds' \in [Lists -> Seq(Nat)]
  /\ \A l \in Lists \ {c.kind} : list'[l] = list[l] /\ rowIds'[l] = rowIds[l]

(* The list of c itself.                                                   *)
PassedInto(c, l) ==
  /\ l = c.kind
  /\ Len(list[l]) \in Nat /\ Len(list'[l]) = Len(list[l]) + 1
  /\ DOMAIN list[l] = 1 .. Len(list[l]) /\ DOMAIN list'[l] = 1 .. Len(list[l]) + 1
  /\ \A m \in 1 .. Len(list[l]) : list'[l][m] = list[l][m]
  /\ list'[l][Len(list[l]) + 1] = c
  /\ Len(rowIds[l]) \in Nat /\ Len(rowIds'[l]) = Len(rowIds[l]) + c.lines
  /\ DOMAIN rowIds[l] = 1 .. Len(rowIds[l]) /\ DOMAIN rowIds'[l] = 1 .. Len(rowIds[l]) + c.lines
  /\ \A p \in 1 .. Len(rowIds[l]) : rowIds'[l][p] = rowIds[l][p]
  /\ \A j \in 1 .. c.lines : rowIds'[l][Len(rowIds[l]) + j] = Len(jac) + j - 1

LEMMA ComponentPassed ==
  ASSUME Typed, FwdConstraintSet
  PROVE  LET c == sc.comps[next] IN Passed(c) /\ PassedInto(c, c.kind)
<1> DEFINE c == sc.comps[next]
           S == [of : Components(sc), line : Nat]
           e == [j \in 1 .. c.lines |-> [of |-> c, line |-> j]]
           d == [j \in 1 .. c.lines |-> Len(jac) + j - 1]
           l == c.kind
<1>1. /\ sc \in Scenes /\ sc' = sc /\ next' = next + 1 /\ next \in 1 .. Len(sc.comps)
      /\ jac \in Seq(S) /\ list \in [Lists -> Seq(Components(sc))] /\ rowIds \in [Lists -> Seq(Nat)]
  BY SceneFacts DEF Typed, FwdConstraintSet
<1>2. /\ jac' = jac \o e
      /\ rowIds' = [rowIds EXCEPT ![l] = @ \o d]
      /\ list' = [list EXCEPT ![l] = Append(@, c)]
  BY DEF FwdConstraintSet
<1>3. c \in Components(sc) /\ l \in Lists /\ c.lines \in Nat
  BY <1>1, SceneFacts
<1>4. Len(jac) \in Nat /\ DOMAIN jac = 1 .. Len(jac)
  BY <1>1
<1>5. e \in [1 .. c.lines -> S] /\ d \in [1 .. c.lines -> Nat]
  BY <1>3, <1>4
<1>6. list[l] \in Seq(Components(sc)) /\ rowIds[l] \in Seq(Nat)
  BY <1>1, <1>3
<1>7. list'[l] = Append(list[l], c) /\ rowIds'[l] = rowIds[l] \o d
  BY <1>1, <1>2, <1>3
<1>8. \A q \in Lists \ {l} : list'[q] = list[q] /\ rowIds'[q] = rowIds[q]
  BY <1>1, <1>2, <1>3
<1>9. /\ \A j \in 1 .. c.lines : e[j] = [of |-> c, line |-> j]
      /\ \A j \in 1 .. c.lines : d[j] = Len(jac) + j - 1
  OBVIOUS
<1> HIDE DEF S, e, d
<1>10. /\ jac' \in Seq(S) /\ Len(jac') = Len(jac) + c.lines /\ DOMAIN jac' = 1 .. Len(jac) + c.lines
       /\ \A r \in 1 .. Len(jac) : jac'[r] = jac[r]
       /\ \A j \in 1 .. c.lines : jac'[Len(jac) + j] = e[j]
  <2>1. Extends(jac \o e, jac, c.lines, e, S)
    BY <1>1, <1>3, <1>5, Extended
  <2> QED
    BY <1>2, <2>1 DEF Extends
<1> HIDE DEF l, c
<1>11. /\ rowIds'[l] \in Seq(Nat) /\ Len(rowIds[l]) \in Nat /\ DOMAIN rowIds[l] = 1 .. Len(rowIds[l])
       /\ Len(rowIds'[l]) = Len(rowIds[l]) + c.lines /\ DOMAIN rowIds'[l] = 1 .. Len(rowIds[l]) + c.lines
       /\ \A p \in 1 .. Len(rowIds[l]) : rowIds'[l][p] = rowIds[l][p]
       /\ \A j \in 1 .. c.lines : rowIds'[l][Len(rowIds[l]) + j] = d[j]
  <2>1. Extends(rowIds[l] \o d, rowIds[l], c.lines, d, Nat)
    BY <1>3, <1>5, <1>6, Extended
  <2> QED
    BY <1>7, <2>1 DEF Extends
<1>12. /\ list'[l] \in Seq(Components(sc)) /\ Len(list[l]) \in Nat /\ DOMAIN list[l] = 1 .. Len(list[l])
       /\ Len(list'[l]) = Len(list[l]) + 1 /\ DOMAIN list'[l] = 1 .. Len(list[l]) + 1
       /\ \A m \in 1 .. Len(list[l]) : list'[l][m] = list[l][m]
       /\ list'[l][Len(list[l]) + 1] = c
  BY <1>3, <1>6, <1>7
<1>13. list' \in [Lists -> Seq(Components(sc))] /\ rowIds' \in [Lists -> Seq(Nat)]
  BY <1>1, <1>2, <1>3, <1>7, <1>11, <1>12
<1>14. c = sc.comps[next] /\ l = c.kind
  BY DEF c, l
<1>15. Passed(c)
  BY <1>1, <1>3, <1>4, <1>8, <1>9, <1>10, <1>13, <1>14 DEF Passed, S
<1>16. PassedInto(c, l)
  BY <1>9, <1>11, <1>12, <1>14 DEF PassedInto
<1> QED
  BY <1>15, <1>16 DEF c, l

LEMMA FwdListsHold ==
  ASSUME Typed, ListsHold, NEW c, Passed(c), PassedInto(c, c.kind)
  PROVE  ListsHold'
<1> SUFFICES ASSUME NEW l \in Lists, NEW m \in DOMAIN list'[l]
             PROVE  /\ list'[l][m].kind = l
                    /\ \E i \in 1 .. next' - 1 : list'[l][m] = sc'.comps[i]
                    /\ \A q \in DOMAIN list'[l] : list'[l][q] = list'[l][m] => q = m
  BY DEF ListsHold
<1>1. /\ next \in 1 .. Len(sc.comps) /\ next' = next + 1 /\ sc' = sc /\ c = sc.comps[next]
      /\ sc \in Scenes /\ Len(sc.comps) \in Nat
  BY SceneFacts DEF Passed, Typed
<1>2. 1 .. next' - 1 = (1 .. next - 1) \cup {next} /\ 1 .. next - 1 \subseteq 1 .. Len(sc.comps)
  BY <1>1
<1>3. CASE l # c.kind
  <2>1. list'[l] = list[l]
    BY <1>3 DEF Passed
  <2> QED
    BY <1>1, <1>2, <2>1 DEF ListsHold
<1>4. CASE l = c.kind
  <2> DEFINE n == Len(list[l])
  <2>1. /\ n \in Nat /\ DOMAIN list[l] = 1 .. n /\ DOMAIN list'[l] = 1 .. n + 1
        /\ \A q \in 1 .. n : list'[l][q] = list[l][q]
        /\ list'[l][n + 1] = c
    BY <1>4 DEF PassedInto
  <2> HIDE DEF n
  <2>2. \A q \in 1 .. n : list[l][q] # c
    <3> SUFFICES ASSUME NEW q \in 1 .. n, list[l][q] = c PROVE FALSE
      OBVIOUS
    <3>1. PICK i \in 1 .. next - 1 : list[l][q] = sc.comps[i]
      BY <2>1 DEF ListsHold
    <3>2. i = next
      BY <1>1, <1>2, <3>1, SceneFacts
    <3> QED
      BY <1>1, <3>2
  <2>3. CASE m \in 1 .. n
    <3>1. list'[l][m] = list[l][m] /\ list[l][m] # c
      BY <2>1, <2>2, <2>3
    <3>2. list'[l][m].kind = l /\ \E i \in 1 .. next' - 1 : list'[l][m] = sc'.comps[i]
      BY <1>1, <1>2, <2>1, <2>3, <3>1 DEF ListsHold
    <3>3. ASSUME NEW q \in DOMAIN list'[l], list'[l][q] = list'[l][m] PROVE q = m
      <4>1. q \in 1 .. n
        BY <2>1, <3>1, <3>3
      <4> QED
        BY <2>1, <2>3, <3>1, <3>3, <4>1 DEF ListsHold
    <3> QED
      BY <3>2, <3>3
  <2>4. CASE m = n + 1
    <3>1. list'[l][m].kind = l /\ \E i \in 1 .. next' - 1 : list'[l][m] = sc'.comps[i]
      BY <1>1, <1>2, <1>4, <2>1, <2>4
    <3>2. ASSUME NEW q \in DOMAIN list'[l], list'[l][q] = list'[l][m] PROVE q = m
      <4>1. q \in 1 .. n \/ q = n + 1
        BY <2>1
      <4>2. q \notin 1 .. n
        BY <2>1, <2>2, <2>4, <3>2
      <4> QED
        BY <2>4, <4>1, <4>2
    <3> QED
      BY <3>1, <3>2
  <2> QED
    BY <2>1, <2>3, <2>4
<1> QED
  BY <1>3, <1>4

(* The ids and the rows of a list grow by those of component c, which are  *)
(* written behind N rows.                                                  *)
Grown(c, ids, ids2, rows, rows2, N) ==
  /\ c.lines \in Nat /\ N \in Nat
  /\ \A p \in DOMAIN ids : rows2[ids[p] + 1] = rows[ids[p] + 1]
  /\ DOMAIN ids2 = 1 .. Len(ids) + c.lines /\ Len(ids2) = Len(ids) + c.lines
  /\ \A p \in 1 .. Len(ids) : ids2[p] = ids[p]
  /\ \A j \in 1 .. c.lines : ids2[Len(ids) + j] = N + j - 1
  /\ \A j \in 1 .. c.lines : rows2[N + j] = [of |-> c, line |-> j]

Continues(st, comps, ids, rows) ==
  \E t : Laid(comps, ids, rows, t) /\ \A m \in DOMAIN st : t[m] = st[m]

LEMMA LaidExtended ==
  ASSUME NEW C, NEW s \in Seq(C), NEW c \in C, NEW ids \in Seq(Nat), NEW ids2, NEW rows, NEW rows2,
         NEW N, NEW st, Laid(s, ids, rows, st), Grown(c, ids, ids2, rows, rows2, N)
  PROVE  Continues(st, Append(s, c), ids2, rows2)
<1> DEFINE n == Len(s)
           L == Len(ids)
           s2 == Append(s, c)
           t == [m \in 1 .. n + 2 |-> IF m <= n + 1 THEN st[m] ELSE L + c.lines]
<1>1. n \in Nat /\ L \in Nat /\ c.lines \in Nat /\ DOMAIN s = 1 .. n /\ DOMAIN ids = 1 .. L /\ N \in Nat
  BY DEF Grown
<1>2. /\ Len(s2) = n + 1 /\ DOMAIN s2 = 1 .. n + 1 /\ s2[n + 1] = c
      /\ \A m \in 1 .. n : s2[m] = s[m]
  OBVIOUS
<1>3. /\ st \in [1 .. n + 1 -> Nat] /\ st[1] = 0 /\ st[n + 1] = L
      /\ \A m \in 1 .. n : st[m + 1] = st[m] + s[m].lines
      /\ \A m, q \in 1 .. n + 1 : m <= q => st[m] <= st[q]
  BY <1>1 DEF Laid
<1>4. \A m \in 1 .. n : \A j \in 1 .. s[m].lines :
        /\ st[m] + j \in 1 .. L
        /\ rows[ids[st[m] + j] + 1] = [of |-> s[m], line |-> j]
  BY <1>1 DEF Laid
<1>5. \A p \in 1 .. L : Within(s, st, p)
  BY <1>1 DEF Laid
<1> HIDE DEF n, L, s2
<1>6. /\ t \in [1 .. n + 2 -> Nat] /\ t[1] = 0 /\ t[n + 2] = L + c.lines /\ t[n + 1] = L
      /\ \A m \in 1 .. n : t[m] = st[m] /\ t[m + 1] = st[m + 1]
      /\ \A m \in 1 .. n + 1 : t[m] = st[m]
  <2>1. t \in [1 .. n + 2 -> Nat]
    BY <1>1, <1>3
  <2>2. \A m \in 1 .. n + 1 : m \in 1 .. n + 2 /\ t[m] = st[m]
    BY <1>1, <1>3
  <2>3. t[n + 2] = L + c.lines
    BY <1>1
  <2> HIDE DEF t
  <2> QED
    BY <1>1, <1>3, <2>1, <2>2, <2>3
<1> HIDE DEF t
<1>11. \A m, q \in 1 .. n + 2 : m <= q => t[m] <= t[q]
  <2> SUFFICES ASSUME NEW m \in 1 .. n + 2, NEW q \in 1 .. n + 2, m <= q PROVE t[m] <= t[q]
    OBVIOUS
  <2>1. CASE q \in 1 .. n + 1
    <3>1. m \in 1 .. n + 1
      BY <1>1, <2>1
    <3> QED
      BY <1>3, <1>6, <2>1, <3>1
  <2>2. CASE q = n + 2 /\ m \in 1 .. n + 1
    <3>1. st[m] <= st[n + 1] /\ st[m] \in Nat
      BY <1>1, <1>3, <2>2
    <3> QED
      BY <1>1, <1>3, <1>6, <2>2, <3>1
  <2>3. CASE q = n + 2 /\ m = n + 2
    BY <1>1, <1>6, <2>3
  <2> QED
    BY <1>1, <2>1, <2>2, <2>3
<1>7. \A m \in 1 .. n + 1 : t[m + 1] = t[m] + s2[m].lines
  <2> TAKE m \in 1 .. n + 1
  <2>1. CASE m \in 1 .. n
    BY <1>2, <1>3, <1>6, <2>1
  <2>2. CASE m = n + 1
    <3>1. m + 1 = n + 2
      BY <1>1, <2>2
    <3> QED
      BY <1>2, <1>6, <2>2, <3>1
  <2> QED
    BY <1>1, <2>1, <2>2
<1>8. \A m \in 1 .. n + 1 : \A j \in 1 .. s2[m].lines :
        /\ t[m] + j \in 1 .. L + c.lines
        /\ rows2[ids2[t[m] + j] + 1] = [of |-> s2[m], line |-> j]
  <2> TAKE m \in 1 .. n + 1
  <2> TAKE j \in 1 .. s2[m].lines
  <2>1. CASE m \in 1 .. n
    <3>1. t[m] = st[m] /\ s2[m] = s[m] /\ j \in 1 .. s[m].lines
      BY <1>2, <1>6, <2>1
    <3>2. st[m] + j \in 1 .. L /\ rows[ids[st[m] + j] + 1] = [of |-> s[m], line |-> j]
      BY <1>4, <2>1, <3>1
    <3>3. st[m] + j \in 1 .. L + c.lines
      BY <1>1, <3>2
    <3>4. ids2[st[m] + j] = ids[st[m] + j]
      BY <3>2 DEF L, Grown
    <3>5. rows2[ids[st[m] + j] + 1] = rows[ids[st[m] + j] + 1]
      BY <1>1, <3>2 DEF Grown
    <3> QED
      BY <3>1, <3>2, <3>3, <3>4, <3>5
  <2>2. CASE m = n + 1
    <3>1. t[m] = L /\ s2[m] = c /\ j \in 1 .. c.lines
      BY <1>2, <1>6, <2>2
    <3>2. ids2[L + j] = N + j - 1
      BY <3>1 DEF L, Grown
    <3>3. N + j - 1 + 1 = N + j /\ L + j \in 1 .. L + c.lines
      BY <1>1, <3>1
    <3>4. rows2[N + j] = [of |-> c, line |-> j]
      BY <3>1 DEF Grown
    <3> QED
      BY <3>1, <3>2, <3>3, <3>4
  <2> QED
    BY <1>1, <2>1, <2>2
<1>9. \A p \in 1 .. L + c.lines : Within(s2, t, p)
  <2> TAKE p \in 1 .. L + c.lines
  <2>1. CASE p \in 1 .. L
    <3>0. Within(s, st, p)
      BY <1>5, <2>1
    <3>1. PICK m \in DOMAIN s : \E j \in 1 .. s[m].lines : p = st[m] + j
      BY <3>0 DEF Within
    <3>2. m \in DOMAIN s2 /\ t[m] = st[m] /\ s2[m] = s[m]
      BY <1>1, <1>2, <1>6
    <3> QED
      BY <3>1, <3>2 DEF Within
  <2>2. CASE p \notin 1 .. L
    <3>1. p - L \in 1 .. c.lines /\ p = L + (p - L)
      BY <1>1, <2>2
    <3>2. n + 1 \in DOMAIN s2 /\ t[n + 1] = L /\ s2[n + 1] = c
      BY <1>1, <1>2, <1>6
    <3> QED
      BY <3>1, <3>2 DEF Within
  <2> QED
    BY <2>1, <2>2
<1>10. Laid(s2, ids2, rows2, t)
  <2>1. n + 1 + 1 = n + 2
    BY <1>1
  <2>2. t \in [1 .. Len(s2) + 1 -> Nat] /\ t[1] = 0 /\ t[Len(s2) + 1] = Len(ids2)
    BY <1>2, <1>6, <2>1 DEF L, Grown
  <2>3. DOMAIN ids2 = 1 .. L + c.lines
    BY DEF L, Grown
  <2>4. \A m, q \in 1 .. Len(s2) + 1 : m <= q => t[m] <= t[q]
    BY <1>2, <1>11, <2>1
  <2> QED
    BY <1>2, <1>7, <1>8, <1>9, <2>2, <2>3, <2>4, Zenon DEF Laid
<1> QED
  BY <1>3, <1>6, <1>10 DEF s2, Continues

(* The rows of a list go on where they stopped, if they go on at all.      *)
LEMMA FwdContinues ==
  ASSUME Typed, RowsHold, FwdConstraintSet, NEW c, Passed(c), PassedInto(c, c.kind),
         NEW l \in Lists, NEW st, Starts(l, st)
  PROVE  Continues(st, list'[l], rowIds'[l], jac')
<1>1. Laid(list[l], rowIds[l], jac, st)
  BY DEF Starts
<1>2. \A p \in DOMAIN rowIds[l] : rowIds[l][p] + 1 \in 1 .. Len(jac)
  BY DEF RowsHold, Passed
<1>3. \A p \in DOMAIN rowIds[l] : jac'[rowIds[l][p] + 1] = jac[rowIds[l][p] + 1]
  BY <1>2 DEF Passed
<1>4. CASE l # c.kind
  <2>1. list'[l] = list[l] /\ rowIds'[l] = rowIds[l]
    BY <1>4 DEF Passed
  <2>2. \A m \in DOMAIN list[l] : \A j \in 1 .. list[l][m].lines :
          jac'[rowIds[l][st[m] + j] + 1] = jac[rowIds[l][st[m] + j] + 1]
    BY <1>1, <1>3 DEF Laid
  <2>3. Laid(list[l], rowIds[l], jac', st)
    BY <1>1, <2>2 DEF Laid
  <2> QED
    BY <2>1, <2>3 DEF Continues
<1>5. CASE l = c.kind
  <2>1. /\ list[l] \in Seq(Components(sc)) /\ rowIds[l] \in Seq(Nat) /\ c \in Components(sc)
        /\ Len(jac) \in Nat /\ c.lines \in Nat
    BY SceneFacts DEF Typed, Passed
  <2>2. list'[l] = Append(list[l], c)
    BY <1>5 DEF FwdConstraintSet, Passed, Typed
  <2>3. Grown(c, rowIds[l], rowIds'[l], jac, jac', Len(jac))
    BY <1>3, <1>5, <2>1 DEF PassedInto, Passed, Grown
  <2> QED
    BY <1>1, <2>1, <2>2, <2>3, LaidExtended
<1> QED
  BY <1>4, <1>5

LEMMA FwdContiguous ==
  ASSUME Typed, Contiguous, RowsHold, FwdConstraintSet,
         NEW c, Passed(c), PassedInto(c, c.kind)
  PROVE  Contiguous'
<1> SUFFICES ASSUME NEW l \in Lists PROVE InOrder(list'[l], rowIds'[l], jac')
  BY DEF Contiguous
<1>1. PICK st : Starts(l, st)
  BY DEF Contiguous, InOrder, Starts
<1>2. Continues(st, list'[l], rowIds'[l], jac')
  BY <1>1, FwdContinues
<1> QED
  BY <1>2 DEF Continues, InOrder

LEMMA FwdRowsHold ==
  ASSUME Typed, RowsHold, NEW c, Passed(c), PassedInto(c, c.kind)
  PROVE  RowsHold'
<1> DEFINE N == Len(jac)
           n == c.lines
           K == Len(rowIds[c.kind])
<1>1. N \in Nat /\ n \in Nat /\ c.kind \in Lists /\ K \in Nat
  BY SceneFacts DEF Typed, Passed
<1>2. /\ DOMAIN jac = 1 .. N /\ DOMAIN jac' = 1 .. N + n /\ Len(jac') = N + n
      /\ \A r \in 1 .. N : jac'[r] = jac[r]
      /\ \A j \in 1 .. n : jac'[N + j] = [of |-> c, line |-> j]
      /\ \A l \in Lists \ {c.kind} : rowIds'[l] = rowIds[l]
  BY DEF Passed
<1>3. /\ Len(rowIds'[c.kind]) = K + n
      /\ DOMAIN rowIds[c.kind] = 1 .. K /\ DOMAIN rowIds'[c.kind] = 1 .. K + n
      /\ \A p \in 1 .. K : rowIds'[c.kind][p] = rowIds[c.kind][p]
      /\ \A j \in 1 .. n : rowIds'[c.kind][K + j] = N + j - 1
  BY DEF PassedInto
<1>4. \A l \in Lists : \A p \in DOMAIN rowIds[l] : rowIds[l][p] + 1 \in 1 .. N
  BY <1>2 DEF RowsHold
<1>5. \A r \in 1 .. N : LET ids == rowIds[jac[r].of.kind] IN \E p \in DOMAIN ids : ids[p] = r - 1
  BY <1>2, Zenon DEF RowsHold
<1>6. \A r \in 1 .. N : jac[r].of.kind \in Lists
  <2> DEFINE S == [of : Components(sc), line : Nat]
  <2>0. jac \in Seq(S)
    BY DEF Typed
  <2> HIDE DEF S
  <2>1. \A r \in 1 .. N : jac[r] \in S
    BY <2>0
  <2>2. \A d \in Components(sc) : d.kind \in Lists
    BY SceneFacts DEF Typed
  <2> QED
    BY <2>1, <2>2 DEF S
<1> HIDE DEF N, n, K
<1>7. ASSUME NEW l \in Lists, NEW p \in DOMAIN rowIds'[l] PROVE rowIds'[l][p] + 1 \in 1 .. N + n
  <2>1. CASE l # c.kind
    BY <1>1, <1>2, <1>4, <1>7, <2>1
  <2>2. CASE l = c.kind /\ p \in 1 .. K
    <3>1. rowIds[l][p] + 1 \in 1 .. N /\ rowIds'[l][p] = rowIds[l][p]
      BY <1>3, <1>4, <2>2
    <3> QED
      BY <1>1, <3>1
  <2>3. CASE l = c.kind /\ p \notin 1 .. K
    <3>1. p \in 1 .. K + n
      BY <1>3, <1>7, <2>3
    <3>2. p - K \in 1 .. n /\ p = K + (p - K)
      BY <1>1, <2>3, <3>1
    <3>3. rowIds'[l][K + (p - K)] = N + (p - K) - 1
      BY <1>3, <2>3, <3>2
    <3>4. N + (p - K) - 1 + 1 \in 1 .. N + n
      BY <1>1, <3>2
    <3> QED
      BY <3>2, <3>3, <3>4
  <2> QED
    BY <2>1, <2>2, <2>3
<1>8. ASSUME NEW r \in 1 .. N + n
      PROVE  LET ids == rowIds'[jac'[r].of.kind] IN \E p \in DOMAIN ids : ids[p] = r - 1
  <2>1. CASE r \in 1 .. N
    <3> DEFINE l == jac[r].of.kind
    <3>1. jac'[r] = jac[r] /\ l \in Lists
      BY <1>2, <1>6, <2>1
    <3>2. PICK p \in DOMAIN rowIds[l] : rowIds[l][p] = r - 1
      BY <1>5, <2>1
    <3> HIDE DEF l
    <3>3. p \in DOMAIN rowIds'[l] /\ rowIds'[l][p] = rowIds[l][p]
      <4>1. CASE l # c.kind
        BY <1>2, <3>1, <3>2, <4>1
      <4>2. CASE l = c.kind
        <5>1. p \in 1 .. K
          BY <1>3, <3>2, <4>2
        <5>2. p \in 1 .. K + n
          BY <1>1, <5>1
        <5> QED
          BY <1>3, <4>2, <5>1, <5>2
      <4> QED
        BY <4>1, <4>2
    <3> QED
      BY <3>1, <3>2, <3>3 DEF l
  <2>2. CASE r \notin 1 .. N
    <3>1. r - N \in 1 .. n /\ r = N + (r - N) /\ N + (r - N) - 1 = r - 1
      BY <1>1, <1>8, <2>2
    <3>2. jac'[r].of.kind = c.kind
      <4>1. jac'[N + (r - N)] = [of |-> c, line |-> r - N]
        BY <1>2, <3>1, Zenon
      <4> QED
        BY <3>1, <4>1
    <3>3. K + (r - N) \in 1 .. K + n
      BY <1>1, <3>1
    <3>4. rowIds'[c.kind][K + (r - N)] = r - 1
      BY <1>3, <3>1
    <3> QED
      BY <1>3, <3>2, <3>3, <3>4
  <2> QED
    BY <2>1, <2>2
<1>9. N + n = (NbRows("actuator") + NbRows("equality") + NbRows("contact")
                 + NbRows("effector") + NbRows("sensor"))'
  <2>1. \A l \in Lists : NbRows(l) \in Nat
    BY DEF Typed, NbRows
  <2>2. /\ \A l \in Lists \ {c.kind} : NbRows(l)' = NbRows(l)
        /\ NbRows(c.kind)' = NbRows(c.kind) + n
    BY <1>2, <1>3 DEF NbRows, K
  <2>3. N = NbRows("actuator") + NbRows("equality") + NbRows("contact")
              + NbRows("effector") + NbRows("sensor")
    BY DEF RowsHold, N
  <2> QED
    BY <1>1, <2>1, <2>2, <2>3 DEF Lists
<1> QED
  BY <1>2, <1>7, <1>8, <1>9 DEF RowsHold

LEMMA FwdRowsOfComponents ==
  ASSUME Typed, RowsOfComponents, NEW c, Passed(c), PassedInto(c, c.kind)
  PROVE  RowsOfComponents'
<1> SUFFICES ASSUME NEW l \in Lists
             PROVE  Len(rowIds'[l]) = 0
                      <=> \A i \in 1 .. next' - 1 : sc'.comps[i].kind = l => sc'.comps[i].lines = 0
  BY DEF RowsOfComponents, NbRows
<1>1. /\ c.lines \in Nat /\ c = sc.comps[next] /\ sc' = sc /\ next' = next + 1 /\ next \in Nat \ {0}
  BY SceneFacts DEF Typed, Passed
<1>2. 1 .. next' - 1 = (1 .. next - 1) \cup {next}
  BY <1>1
<1>3. Len(rowIds[l]) = 0 <=> \A i \in 1 .. next - 1 : sc.comps[i].kind = l => sc.comps[i].lines = 0
  BY DEF RowsOfComponents, NbRows
<1>4. CASE l # c.kind
  <2>1. rowIds'[l] = rowIds[l]
    BY <1>4 DEF Passed
  <2> QED
    BY <1>1, <1>2, <1>3, <1>4, <2>1
<1>5. CASE l = c.kind
  <2>1. Len(rowIds[l]) \in Nat /\ Len(rowIds'[l]) = Len(rowIds[l]) + c.lines
    BY <1>5 DEF PassedInto
  <2>2. Len(rowIds'[l]) = 0 <=> Len(rowIds[l]) = 0 /\ c.lines = 0
    BY <1>1, <2>1
  <2> QED
    BY <1>1, <1>2, <1>3, <1>5, <2>2
<1> QED
  BY <1>4, <1>5

LEMMA FwdSorted ==
  ASSUME Typed, Sorted, FwdConstraintSet
  PROVE  Sorted' /\ Passed(sc.comps[next])
<1>1. Passed(sc.comps[next]) /\ PassedInto(sc.comps[next], sc.comps[next].kind)
  BY ComponentPassed
<1>2. ListsHold' /\ Contiguous' /\ RowsHold' /\ RowsOfComponents'
  BY <1>1, FwdListsHold, FwdContiguous, FwdRowsHold, FwdRowsOfComponents DEF Sorted
<1> QED
  BY <1>1, <1>2 DEF Sorted

-----------------------------------------------------------------------------
(* The phases of a step.                                                   *)
Phase == Visited /\ SolvedForRows /\ Applied /\ AtTheRows /\ Given

LEMMA RowNumbers ==
  ASSUME Typed
  PROVE  \A l \in Lists : /\ NbRows(l) \in Nat /\ DOMAIN rowIds[l] = 1 .. NbRows(l)
                          /\ rowIds[l] \in Seq(Nat)
                          /\ DOMAIN list[l] = 1 .. Len(list[l]) /\ Len(list[l]) \in Nat
BY DEF Typed, NbRows

(* The variable of a row of a list, and back.                              *)
LEMMA VariablesOfRows ==
  ASSUME Typed, NEW l \in WithVariables, NEW i \in DOMAIN rowIds[l]
  PROVE  Before(l) + i \in 1 .. Dim /\ AcIds(Before(l) + i) = rowIds[l][i]
<1> DEFINE na == NbRows("actuator")
           ne == NbRows("equality")
           nc == NbRows("contact")
<1>1. na \in Nat /\ ne \in Nat /\ nc \in Nat /\ i \in 1 .. NbRows(l)
  BY RowNumbers DEF Lists, WithVariables
<1> HIDE DEF na, ne, nc
<1>2. /\ Dim = na + ne + nc
      /\ \A v : AcIds(v) = IF v <= na THEN rowIds["actuator"][v]
                           ELSE IF v <= na + ne THEN rowIds["equality"][v - na]
                           ELSE rowIds["contact"][v - na - ne]
  BY DEF Dim, AcIds, na, ne, nc
<1>3. CASE l = "actuator"
  <2>1. Before(l) + i = i /\ i <= na /\ i \in 1 .. Dim
    BY <1>1, <1>2, <1>3 DEF Before, na
  <2> QED
    BY <1>2, <1>3, <2>1
<1>4. CASE l = "equality"
  <2>1. /\ Before(l) + i = na + i /\ ~(na + i <= na) /\ na + i <= na + ne
        /\ na + i - na = i /\ na + i \in 1 .. Dim
    BY <1>1, <1>2, <1>4 DEF Before, na, ne
  <2>2. AcIds(na + i) = rowIds["equality"][na + i - na]
    BY <1>1, <2>1 DEF AcIds, na, ne
  <2> QED
    BY <1>4, <2>1, <2>2
<1>5. CASE l = "contact"
  <2>1. /\ Before(l) + i = na + ne + i /\ ~(na + ne + i <= na) /\ ~(na + ne + i <= na + ne)
        /\ na + ne + i - na - ne = i /\ na + ne + i \in 1 .. Dim
    BY <1>1, <1>2, <1>5 DEF Before, na, ne, nc
  <2>2. AcIds(na + ne + i) = rowIds["contact"][na + ne + i - na - ne]
    BY <1>1, <2>1 DEF AcIds, na, ne
  <2> QED
    BY <1>5, <2>1, <2>2
<1> QED
  BY <1>3, <1>4, <1>5 DEF WithVariables

LEMMA ClearPhase ==
  ASSUME Typed, ClearProblem
  PROVE  Typed' /\ Phase'
<1>1. /\ pc' = "visit" /\ sc' \in Scenes /\ next' = 1 /\ jac' = <<>> /\ got' = <<>>
      /\ list' = [l \in Lists |-> <<>>] /\ rowIds' = [l \in Lists |-> <<>>]
      /\ k' = k /\ id' = id /\ line' = line
  BY DEF ClearProblem, loop
<1>2. Len(sc'.comps) \in Nat
  BY <1>1, SceneFacts
<1>3. Typed'
  BY <1>1, <1>2 DEF Typed
<1>4. Phase'
  BY <1>1 DEF Phase, Visited, SolvedForRows, Applied, AtTheRows, Given, Sending
<1> QED
  BY <1>3, <1>4

LEMMA FwdPhase ==
  ASSUME Typed, Phase, FwdConstraintSet, Passed(sc.comps[next])
  PROVE  Typed' /\ Phase'
<1>1. /\ pc = "visit" /\ pc' = pc /\ sc' = sc /\ next' = next + 1 /\ next \in 1 .. Len(sc.comps)
      /\ got' = got /\ k' = k /\ id' = id /\ line' = line
  BY DEF FwdConstraintSet, Passed, loop
<1>2. Typed'
  <2>1. next' \in 1 .. Len(sc.comps) + 1
    BY <1>1, SceneFacts DEF Typed
  <2> QED
    BY <1>1, <2>1 DEF Typed, Passed
<1>3. Phase'
  BY <1>1 DEF Phase, Visited, SolvedForRows, Applied, AtTheRows, Given, Sending
<1> QED
  BY <1>2, <1>3

LEMMA SolvePhase ==
  ASSUME Typed, Phase, Solve
  PROVE  Typed' /\ Phase'
<1>1. /\ pc = "visit" /\ next > Len(sc.comps) /\ f' = [r \in 1 .. Len(jac) |-> Zero]
      /\ k' = 1 /\ id' = 1 /\ line' = 0 /\ got' = got
      /\ sc' = sc /\ next' = next /\ jac' = jac /\ list' = list /\ rowIds' = rowIds
  BY DEF Solve, lists
<1>2. /\ pc' \in {"init", "contacts", "energy", "store"}
      /\ pc' \in {"init", "contacts"} => NbRows("contact") > 0
      /\ pc' = "store" => ~(Dim > 0)
  BY DEF Solve
<1>3. \A l \in Lists : NbRows(l)' = NbRows(l)
  BY <1>1 DEF NbRows
<1>4. Typed'
  BY <1>1, <1>2 DEF Typed
<1>5. Visited'
  BY <1>1, <1>2, <1>3, SceneFacts DEF Visited, Typed, Lists
<1>6. SolvedForRows'
  <2> SUFFICES ASSUME pc' = "store", NEW l \in WithVariables, NEW i \in DOMAIN rowIds[l] PROVE FALSE
    BY <1>1 DEF SolvedForRows
  <2>1. Before(l) + i \in 1 .. Dim
    BY VariablesOfRows
  <2>2. Dim \in Int
    BY RowNumbers DEF Dim, Lists
  <2> QED
    BY <1>2, <2>1, <2>2
<1>7. Applied' /\ AtTheRows' /\ Given'
  BY <1>1, <1>2 DEF Typed, Phase, Applied, AtTheRows, Given, Sending
<1> QED
  BY <1>4, <1>5, <1>6, <1>7 DEF Phase

LEMMA InitLambdaPhase ==
  ASSUME Typed, Phase, InitLambda
  PROVE  Typed' /\ Phase'
<1>1. /\ pc = "init" /\ pc' \in {"init", "contacts"} /\ f' = f /\ got' = got
      /\ sc' = sc /\ next' = next /\ jac' = jac /\ list' = list /\ rowIds' = rowIds
  BY DEF InitLambda, lists
<1>2. k' \in Nat /\ id' \in Nat \ {0} /\ line' \in Nat
  BY DEF InitLambda, Advance, Typed
<1>3. NbRows("contact")' = NbRows("contact")
  BY <1>1 DEF NbRows
<1>4. Typed'
  BY <1>1, <1>2 DEF Typed
<1> QED
  BY <1>1, <1>3, <1>4 DEF Phase, Visited, SolvedForRows, Applied, AtTheRows, Given, Sending

LEMMA BuildQPMatricesPhase ==
  ASSUME Typed, Phase, BuildQPMatrices
  PROVE  Typed' /\ Phase'
<1>1. /\ pc = "energy" /\ pc' \in {"energy", "qp"} /\ f' = f /\ got' = got
      /\ sc' = sc /\ next' = next /\ jac' = jac /\ list' = list /\ rowIds' = rowIds
  BY DEF BuildQPMatrices, lists
<1>2. k' \in Nat /\ id' \in Nat \ {0} /\ line' \in Nat
  BY DEF BuildQPMatrices, Advance, Typed, loop
<1>3. Typed'
  BY <1>1, <1>2 DEF Typed
<1> QED
  BY <1>1, <1>3 DEF Phase, Visited, SolvedForRows, Applied, AtTheRows, Given, Sending

(* A scene with equality rows and contacts has actuator rows too.  Without *)
(* them solveContacts() stores the forces of the contacts where            *)
(* storeResults() expects those of the equality components.                *)
HasLines(s, kind) == \E i \in DOMAIN s.comps : s.comps[i].kind = kind /\ s.comps[i].lines > 0
ActuatedAmongContacts ==
  \A s \in Scenes : HasLines(s, "equality") /\ HasLines(s, "contact") => HasLines(s, "actuator")

LEMMA RowsOfKinds ==
  ASSUME Typed, RowsOfComponents, next = Len(sc.comps) + 1, NEW l \in Lists
  PROVE  NbRows(l) > 0 <=> HasLines(sc, l)
<1>1. 1 .. next - 1 = DOMAIN sc.comps
  BY SceneFacts DEF Typed
<1>2. NbRows(l) \in Nat /\ \A i \in DOMAIN sc.comps : sc.comps[i].lines \in Nat
  BY <1>1, RowNumbers, SceneFacts DEF Typed
<1>3. NbRows(l) = 0 <=> \A i \in DOMAIN sc.comps : sc.comps[i].kind = l => sc.comps[i].lines = 0
  BY <1>1 DEF RowsOfComponents
<1> QED
  BY <1>2, <1>3 DEF HasLines

LEMMA SolveContactsPhase ==
  ASSUME ActuatedAmongContacts, Typed, Sorted, Phase, SolveContacts
  PROVE  Typed' /\ Phase'
<1> DEFINE na == NbRows("actuator")
           ne == NbRows("equality")
           nc == NbRows("contact")
<1>1. /\ pc = "contacts" /\ pc' = (IF na > 0 THEN "energy" ELSE "store") /\ f' = f /\ got' = got
      /\ sc' = sc /\ next' = next /\ jac' = jac /\ list' = list /\ rowIds' = rowIds
      /\ k' = k /\ id' = id /\ line' = line
  BY DEF SolveContacts, lists, loop
<1>2. pc' \in {"energy", "store"}
  BY <1>1
<1>3. Typed'
  BY <1>1, <1>2 DEF Typed
<1>4. SolvedForRows'
  <2> SUFFICES ASSUME pc' = "store", NEW l \in WithVariables, NEW i \in DOMAIN rowIds[l]
               PROVE  x'[Before(l) + i] = ForceOn(rowIds[l][i])
    BY <1>1 DEF SolvedForRows, Before, NbRows, ForceOn
  <2>1. na \in Nat /\ ne \in Nat /\ nc \in Nat /\ i \in 1 .. NbRows(l)
    BY RowNumbers DEF Lists, WithVariables
  <2>2. na = 0 /\ nc > 0
    BY <1>1, <2>1 DEF Phase, Visited
  <2>3. ne = 0
    <3>1. next = Len(sc.comps) + 1
      BY <1>1 DEF Phase, Visited
    <3>2. ~HasLines(sc, "actuator") /\ HasLines(sc, "contact")
      BY <2>1, <2>2, <3>1, RowsOfKinds DEF Sorted, Lists
    <3>3. ~HasLines(sc, "equality")
      BY <3>2 DEF ActuatedAmongContacts, Typed
    <3> QED
      BY <2>1, <3>1, <3>3, RowsOfKinds DEF Sorted, Lists
  <2>4. l = "contact" /\ Before(l) + i = i /\ i \in 1 .. nc
    BY <2>1, <2>2, <2>3 DEF WithVariables, Before
  <2>5. i \in 1 .. Dim /\ ~(i <= na) /\ i <= na + nc /\ i - na = i
    BY <2>1, <2>2, <2>3, <2>4 DEF Dim
  <2> HIDE DEF na, ne, nc
  <2>6. x'[i] = ForceOn(rowIds["contact"][i - na])
    BY <2>5 DEF SolveContacts, na, nc
  <2> QED
    BY <2>4, <2>5, <2>6
<1>5. Visited' /\ Applied' /\ AtTheRows' /\ Given'
  BY <1>1, <1>2 DEF Phase, Visited, Applied, AtTheRows, Given, Sending
<1> QED
  BY <1>3, <1>4, <1>5 DEF Phase

LEMMA SolveInverseProblemPhase ==
  ASSUME Typed, Phase, SolveInverseProblem
  PROVE  Typed' /\ Phase'
<1>1. /\ pc = "qp" /\ pc' = "store" /\ f' = f /\ got' = got
      /\ sc' = sc /\ next' = next /\ jac' = jac /\ list' = list /\ rowIds' = rowIds
      /\ k' = k /\ id' = id /\ line' = line
  BY DEF SolveInverseProblem, lists, loop
<1>2. Typed'
  BY <1>1 DEF Typed
<1>3. SolvedForRows'
  <2> SUFFICES ASSUME NEW l \in WithVariables, NEW i \in DOMAIN rowIds[l]
               PROVE  x'[Before(l) + i] = ForceOn(rowIds[l][i])
    BY <1>1 DEF SolvedForRows, Before, NbRows, ForceOn
  <2> DEFINE v == Before(l) + i
  <2>1. v \in 1 .. Dim /\ AcIds(v) = rowIds[l][i]
    BY VariablesOfRows
  <2> HIDE DEF v
  <2>2. x'[v] = ForceOn(AcIds(v))
    BY <2>1 DEF SolveInverseProblem
  <2> QED
    BY <2>1, <2>2 DEF v
<1>4. Visited' /\ Applied' /\ AtTheRows' /\ Given'
  BY <1>1 DEF Phase, Visited, Applied, AtTheRows, Given, Sending
<1> QED
  BY <1>2, <1>3, <1>4 DEF Phase

(* The row at position p of a list is a line of one of its components.     *)
IsLine(l, st, p, m, j) ==
  /\ m \in DOMAIN list[l] /\ j \in 1 .. list[l][m].lines /\ p = st[m] + j
  /\ jac[rowIds[l][p] + 1] = [of |-> list[l][m], line |-> j]

LEMMA RowAt ==
  ASSUME NEW l \in Lists, NEW st, Starts(l, st), NEW p \in DOMAIN rowIds[l]
  PROVE  \E m, j : IsLine(l, st, p, m, j)
<1>1. Within(list[l], st, p)
  BY DEF Starts, Laid
<1>2. PICK m \in DOMAIN list[l] : \E j \in 1 .. list[l][m].lines : p = st[m] + j
  BY <1>1 DEF Within
<1>3. PICK j \in 1 .. list[l][m].lines : p = st[m] + j
  BY <1>2
<1>4. jac[rowIds[l][st[m] + j] + 1] = [of |-> list[l][m], line |-> j]
  BY <1>2, <1>3 DEF Starts, Laid
<1> QED
  BY <1>2, <1>3, <1>4 DEF IsLine

(* The component of a row is in the list where the row's id is.            *)
LEMMA RowOfComponent ==
  ASSUME Sorted, NEW l \in Lists, NEW p \in DOMAIN rowIds[l]
  PROVE  LET c == jac[rowIds[l][p] + 1].of IN
         c.kind = l /\ \E m \in DOMAIN list[l] : c = list[l][m]
<1>1. PICK st : Starts(l, st)
  BY DEF Sorted, Contiguous, InOrder, Starts
<1>2. PICK m, j : IsLine(l, st, p, m, j)
  BY <1>1, RowAt
<1>3. m \in DOMAIN list[l] /\ jac[rowIds[l][p] + 1].of = list[l][m]
  BY <1>2 DEF IsLine
<1>4. list[l][m].kind = l
  BY <1>3 DEF Sorted, ListsHold
<1> QED
  BY <1>3, <1>4

LEMMA StoreResultsPhase ==
  ASSUME Typed, Sorted, Phase, StoreResults
  PROVE  Typed' /\ Phase'
<1> DEFINE Variables(r) ==
             UNION {{Before(l) + i : i \in {i \in DOMAIN rowIds[l] : rowIds[l][i] = r - 1}} :
                      l \in {"actuator", "equality", "contact"}}
<1>1. /\ pc = "store" /\ pc' = "actuator" /\ k' = 1 /\ id' = 1 /\ line' = 0 /\ got' = got
      /\ sc' = sc /\ next' = next /\ jac' = jac /\ list' = list /\ rowIds' = rowIds
  BY DEF StoreResults, lists
<1>2. /\ f' = [r \in DOMAIN f |-> IF Variables(r) = {} THEN Zero ELSE x[CHOOSE v \in Variables(r) : TRUE]]
      /\ nDelta' = Dim + NbRows("effector") + NbRows("sensor")
  BY DEF StoreResults
<1>3. Typed'
  BY <1>1 DEF Typed, Sending
<1>4. DOMAIN f = DOMAIN jac /\ DOMAIN f' = DOMAIN jac
  BY <1>1, <1>2 DEF Phase, Applied
<1>5. \A r, v : v \in Variables(r) <=>
        \E l \in WithVariables : \E i \in DOMAIN rowIds[l] : rowIds[l][i] = r - 1 /\ v = Before(l) + i
  BY DEF WithVariables
<1> HIDE DEF Variables
<1>6. ASSUME NEW r \in DOMAIN jac
      PROVE  f'[r] = IF jac[r].of.kind \in {"effector", "sensor"} THEN Zero ELSE ForceOn(r - 1)
  <2>1. r \in Int /\ r - 1 + 1 = r /\ jac[r].of.kind \in Lists
    <3> DEFINE S == [of : Components(sc), line : Nat]
    <3>1. jac \in Seq(S)
      BY DEF Typed
    <3> HIDE DEF S
    <3>2. r \in Int /\ jac[r] \in S
      BY <3>1
    <3>3. \A d \in Components(sc) : d.kind \in Lists
      BY SceneFacts DEF Typed
    <3> QED
      BY <3>2, <3>3 DEF S
  <2>2. ASSUME NEW v \in Variables(r)
        PROVE  jac[r].of.kind \in WithVariables /\ x[v] = ForceOn(r - 1)
    <3>1. PICK l \in WithVariables : \E i \in DOMAIN rowIds[l] : rowIds[l][i] = r - 1 /\ v = Before(l) + i
      BY <1>5, <2>2
    <3>2. PICK i \in DOMAIN rowIds[l] : rowIds[l][i] = r - 1 /\ v = Before(l) + i
      BY <3>1
    <3>3. l \in Lists
      BY DEF WithVariables, Lists
    <3>4. jac[rowIds[l][i] + 1].of.kind = l
      BY <3>2, <3>3, RowOfComponent
    <3>5. x[Before(l) + i] = ForceOn(rowIds[l][i])
      BY <1>1, <3>2 DEF Phase, SolvedForRows
    <3> QED
      BY <2>1, <3>2, <3>4, <3>5
  <2>3. CASE jac[r].of.kind \in {"effector", "sensor"}
    <3>1. Variables(r) = {}
      BY <2>2, <2>3 DEF WithVariables
    <3> QED
      BY <1>2, <1>4, <2>3, <3>1
  <2>4. CASE jac[r].of.kind \notin {"effector", "sensor"}
    <3> DEFINE l == jac[r].of.kind
    <3>1. l \in WithVariables
      BY <2>1, <2>4 DEF Lists, WithVariables
    <3>2. PICK i \in DOMAIN rowIds[l] : rowIds[l][i] = r - 1
      BY DEF Sorted, RowsHold
    <3> HIDE DEF l
    <3>3. Before(l) + i \in Variables(r)
      BY <1>5, <3>1, <3>2
    <3>4. (CHOOSE v \in Variables(r) : TRUE) \in Variables(r)
      BY <3>3
    <3>5. x[CHOOSE v \in Variables(r) : TRUE] = ForceOn(r - 1)
      BY <2>2, <3>4
    <3> QED
      BY <1>2, <1>4, <2>4, <3>3, <3>5
  <2> QED
    BY <2>3, <2>4
<1>7. Applied'
  <2> SUFFICES ASSUME NEW r \in DOMAIN jac
               PROVE  f'[r] = IF Silenced(jac[r].of)' THEN Zero ELSE ForceOn(r - 1)
    BY <1>1, <1>4 DEF Applied, ForceOn
  <2>1. Silenced(jac[r].of)' <=> jac[r].of.kind \in {"effector", "sensor"}
    <3>1. ~ \E m \in 1 .. id' - 1 : list'["actuator"][m] = jac[r].of
      BY <1>1
    <3> QED
      BY <1>1, <3>1 DEF Silenced
  <2> QED
    BY <1>6, <2>1
<1>8. AtTheRows'
  <2>1. nDelta' = Len(jac)
    BY <1>2, RowNumbers DEF Sorted, RowsHold, Dim, Lists
  <2>2. PICK st : Starts("actuator", st)
    BY DEF Sorted, Contiguous, InOrder, Starts, Lists
  <2>3. Starts("actuator", st)' /\ st[1] = 0
    BY <1>1, <2>2 DEF Starts, Laid
  <2>4. 1 <= Len(list["actuator"]) + 1
    BY RowNumbers DEF Lists
  <2> QED
    BY <1>1, <2>1, <2>3, <2>4 DEF AtTheRows
<1>9. Visited' /\ SolvedForRows' /\ Given'
  BY <1>1 DEF Phase, Visited, SolvedForRows, Given
<1> QED
  BY <1>3, <1>7, <1>8, <1>9 DEF Phase

(* The component of a row of actuators is in their list, and each row of   *)
(* component m of a list is at the positions of that component.            *)
LEMMA RowsOfComponent ==
  ASSUME Typed, Sorted, NEW l \in Lists, NEW st, Starts(l, st), NEW m \in DOMAIN list[l],
         NEW r \in DOMAIN jac, jac[r].of = list[l][m]
  PROVE  \E j \in 1 .. list[l][m].lines : r = rowIds[l][st[m] + j] + 1
<1>1. list[l][m].kind = l
  BY DEF Sorted, ListsHold
<1>2. PICK p \in DOMAIN rowIds[l] : rowIds[l][p] = r - 1
  BY <1>1 DEF Sorted, RowsHold
<1>3. r \in Int /\ rowIds[l][p] + 1 = r
  <2>1. r \in Int
    BY DEF Typed
  <2> QED
    BY <1>2, <2>1
<1>4. PICK q, j : IsLine(l, st, p, q, j)
  BY RowAt
<1>5. q \in DOMAIN list[l] /\ jac[r].of = list[l][q] /\ p = st[q] + j /\ j \in 1 .. list[l][q].lines
  BY <1>3, <1>4 DEF IsLine
<1>6. q = m
  <2>1. \A a, b \in DOMAIN list[l] : list[l][a] = list[l][b] => a = b
    BY DEF Sorted, ListsHold
  <2>2. list[l][q] = list[l][m]
    BY <1>5
  <2> QED
    BY <1>5, <2>1, <2>2
<1> QED
  BY <1>3, <1>5, <1>6

LEMMA NextListPhase ==
  ASSUME Typed, Sorted, Phase, SendResults, NextList(pc)
  PROVE  Typed' /\ Phase'
<1>1. /\ pc \in Sending /\ pc' = Following(pc) /\ id' = 1 /\ line' = 0 /\ f' = f /\ got' = got
      /\ k' = k /\ nDelta' = nDelta /\ id > Len(list[pc])
      /\ sc' = sc /\ next' = next /\ jac' = jac /\ list' = list /\ rowIds' = rowIds
  BY DEF SendResults, NextList, Sending, Lists, lists
<1>2. /\ pc' \in {"equality", "effector", "sensor", "idle"} /\ pc' # "actuator"
  BY <1>1 DEF Following, Sending
<1>3. Typed'
  BY <1>1, <1>2 DEF Typed, Sending
<1>4. Applied'
  <2>1. DOMAIN f = DOMAIN jac
    BY <1>1 DEF Phase, Applied, Sending
  <2> SUFFICES ASSUME NEW r \in DOMAIN jac, NEW c, c = jac[r].of
               PROVE  f[r] = IF Silenced(c)' THEN Zero ELSE ForceOn(r - 1)
    BY <1>1, <2>1 DEF Applied, ForceOn
  <2>2. f[r] = IF Silenced(c) THEN Zero ELSE ForceOn(r - 1)
    BY <1>1, <2>1 DEF Phase, Applied
  <2>3. Silenced(c)' <=> Silenced(c)
    <3>1. CASE pc # "actuator"
      BY <1>1, <1>2, <3>1 DEF Silenced
    <3>2. CASE pc = "actuator" /\ c.kind # "actuator"
      BY <1>1, <1>2, <3>2 DEF Silenced
    <3>3. CASE pc = "actuator" /\ c.kind = "actuator"
      <4>1. PICK p \in DOMAIN rowIds["actuator"] : rowIds["actuator"][p] = r - 1
        BY <3>3 DEF Sorted, RowsHold
      <4>2. r - 1 + 1 = r
        BY DEF Typed
      <4>3. PICK m \in DOMAIN list["actuator"] : c = list["actuator"][m]
        BY <4>1, <4>2, RowOfComponent DEF Lists
      <4>4. m \in 1 .. id - 1
        <5>1. m \in 1 .. Len(list["actuator"]) /\ Len(list["actuator"]) \in Nat
          BY <4>3, RowNumbers DEF Lists
        <5>2. id > Len(list["actuator"]) /\ id \in Nat
          BY <1>1, <3>3 DEF Typed
        <5> QED
          BY <5>1, <5>2
      <4>5. \E q \in 1 .. id - 1 : list["actuator"][q] = c
        BY <4>3, <4>4
      <4> QED
        BY <1>2, <3>3, <4>5 DEF Silenced
    <3> QED
      BY <3>1, <3>2, <3>3
  <2> QED
    BY <2>2, <2>3
<1>5. AtTheRows'
  <2> SUFFICES ASSUME pc' \in Sending PROVE AtTheRows'
    BY DEF AtTheRows
  <2>1. nDelta = Len(jac)
    BY <1>1 DEF Phase, AtTheRows
  <2>2. pc' \in Lists
    BY DEF Sending, Lists
  <2>3. PICK st : Starts(pc', st)
    BY <2>2 DEF Sorted, Contiguous, InOrder, Starts
  <2>4. Laid(list[pc'], rowIds[pc'], jac, st) /\ st[1] = 0
    BY <2>3 DEF Starts, Laid
  <2>5. Starts(pc, st)'
    BY <1>1, <2>4 DEF Starts
  <2>6. 1 <= Len(list[pc']) + 1
    BY <2>2, RowNumbers
  <2> QED
    BY <1>1, <2>1, <2>4, <2>5, <2>6 DEF AtTheRows
<1>6. Visited' /\ SolvedForRows' /\ Given'
  BY <1>1, <1>2 DEF Phase, Visited, SolvedForRows, Given, Sending
<1> QED
  BY <1>3, <1>4, <1>5, <1>6 DEF Phase

LEMMA SendPhase ==
  ASSUME Typed, Sorted, Phase, SendResults, Send(pc)
  PROVE  Typed' /\ Phase'
<1> DEFINE c == list[pc][id]
           n == c.lines
           Row(j) == rowIds[pc][line + j]
           mine == {Row(j) + 1 : j \in 1 .. n}
<1>1. /\ pc \in Sending /\ pc \in Lists /\ pc' = pc /\ id <= Len(list[pc])
      /\ id' = id + 1 /\ line' = line + n /\ k' = k /\ nDelta' = nDelta
      /\ sc' = sc /\ next' = next /\ jac' = jac /\ list' = list /\ rowIds' = rowIds
  BY DEF SendResults, Send, Sending, Lists, lists, LineAfter
<1>2. /\ f' = IF pc = "actuator" /\ ~c.apply
              THEN [r \in DOMAIN f |-> IF r \in mine THEN Zero ELSE f[r]] ELSE f
      /\ got' = Append(got, [comp |-> c,
                  delta |-> [j \in 1 .. n |-> Delta(Row(j))],
                  force |-> IF pc \in {"actuator", "equality"}
                            THEN [j \in 1 .. n |-> f[Row(j) + 1]] ELSE <<>>])
  BY DEF Send
<1>3. /\ nDelta = Len(jac) /\ DOMAIN f = DOMAIN jac
      /\ \A r \in DOMAIN f : f[r] = IF Silenced(jac[r].of) THEN Zero ELSE ForceOn(r - 1)
  BY <1>1 DEF Phase, AtTheRows, Applied, Sending
<1>4. PICK st : Starts(pc, st) /\ line = st[id]
  BY <1>1 DEF Phase, AtTheRows
<1>5. /\ id \in DOMAIN list[pc] /\ c \in Components(sc) /\ c.kind = pc /\ n \in Nat
  <2>1. id \in DOMAIN list[pc]
    BY <1>1, RowNumbers DEF Typed
  <2>2. c \in Components(sc)
    BY <1>1, <2>1 DEF Typed
  <2> QED
    BY <1>1, <2>1, <2>2, SceneFacts DEF Sorted, ListsHold, Typed
<1>6. \A j \in 1 .. n : /\ Row(j) \in Nat /\ Row(j) + 1 \in DOMAIN jac
                        /\ jac[Row(j) + 1] = [of |-> c, line |-> j]
  <2>1. \A j \in 1 .. n : line + j \in DOMAIN rowIds[pc] /\ jac[Row(j) + 1] = [of |-> c, line |-> j]
    BY <1>4, <1>5 DEF Starts, Laid
  <2>2. \A p \in DOMAIN rowIds[pc] : rowIds[pc][p] \in Nat /\ rowIds[pc][p] + 1 \in DOMAIN jac
    BY <1>1, RowNumbers DEF Sorted, RowsHold
  <2> QED
    BY <2>1, <2>2
<1>7. \A q \in DOMAIN list[pc] : list[pc][q] = c => q = id
  BY <1>1, <1>5 DEF Sorted, ListsHold
<1>8. \A r \in DOMAIN jac : jac[r].of = c => r \in mine
  <2> SUFFICES ASSUME NEW r \in DOMAIN jac, jac[r].of = list[pc][id] PROVE r \in mine
    OBVIOUS
  <2>1. PICK j \in 1 .. n : r = rowIds[pc][st[id] + j] + 1
    BY <1>1, <1>4, <1>5, RowsOfComponent
  <2> QED
    BY <1>4, <2>1
<1>9. \A r \in mine : r \in DOMAIN jac /\ jac[r].of = c
  <2> SUFFICES ASSUME NEW j \in 1 .. n PROVE Row(j) + 1 \in DOMAIN jac /\ jac[Row(j) + 1].of = c
    OBVIOUS
  <2>1. Row(j) + 1 \in DOMAIN jac /\ jac[Row(j) + 1] = [of |-> c, line |-> j]
    BY <1>6
  <2> HIDE DEF Row, c
  <2> QED
    BY <2>1
<1>10. Typed'
  <2>1. id' \in Nat \ {0} /\ line' \in Nat
    BY <1>1, <1>5 DEF Typed
  <2> QED
    BY <1>1, <2>1 DEF Typed
<1>11. AtTheRows'
  <2>1. st[id + 1] = line + n
    BY <1>4, <1>5 DEF Starts, Laid
  <2>2. Starts(pc, st)'
    BY <1>1, <1>4 DEF Starts
  <2>3. id + 1 <= Len(list[pc]) + 1
    BY <1>1, RowNumbers DEF Typed
  <2> QED
    BY <1>1, <1>3, <2>1, <2>2, <2>3 DEF AtTheRows
<1>12. Given'
  <2>1. \A j \in 1 .. n : ForceOn(Row(j)) = <<c.name, j>> /\ Delta(Row(j)) = ForceOn(Row(j))
    <3> TAKE j \in 1 .. n
    <3>1. Row(j) \in Nat /\ Row(j) + 1 \in DOMAIN jac /\ jac[Row(j) + 1] = [of |-> c, line |-> j]
      BY <1>6
    <3>2. Row(j) < nDelta
      BY <1>3, <3>1 DEF Typed
    <3> HIDE DEF Row, c
    <3> QED
      BY <3>1, <3>2 DEF ForceOn, Delta
  <2>2. CASE pc \in {"actuator", "equality"}
    <3>1. ~Silenced(c)
      <4>1. \A m \in 1 .. id - 1 : m \in DOMAIN list[pc] /\ m # id
        BY <1>1, RowNumbers DEF Typed
      <4>2. ~ \E m \in 1 .. id - 1 : list[pc][m] = c
        BY <1>7, <4>1
      <4> QED
        BY <1>5, <2>2, <4>2 DEF Silenced
    <3>2. \A j \in 1 .. n : f[Row(j) + 1] = <<c.name, j>>
      <4> TAKE j \in 1 .. n
      <4>1. /\ Row(j) \in Nat /\ Row(j) + 1 \in DOMAIN f /\ jac[Row(j) + 1].of = c
            /\ Row(j) + 1 - 1 = Row(j)
        <5>1. /\ Row(j) \in Nat /\ Row(j) + 1 \in DOMAIN f
              /\ jac[Row(j) + 1] = [of |-> c, line |-> j]
          BY <1>3, <1>6
        <5> HIDE DEF Row, c
        <5> QED
          BY <5>1
      <4>2. f[Row(j) + 1] = ForceOn(Row(j) + 1 - 1)
        BY <1>3, <3>1, <4>1
      <4> QED
        BY <2>1, <4>1, <4>2
    <3> HIDE DEF Row, c
    <3>3. got' = Append(got, Owed(c))
      BY <1>2, <1>5, <2>1, <2>2, <3>2 DEF Owed, Own, n
    <3> QED
      BY <1>1, <1>5, <3>3 DEF Phase, Given
  <2>3. CASE pc \notin {"actuator", "equality"}
    <3> HIDE DEF Row, c
    <3>1. got' = Append(got, Owed(c))
      BY <1>2, <1>5, <2>1, <2>3 DEF Owed, Own, n
    <3> QED
      BY <1>1, <1>5, <3>1 DEF Phase, Given
  <2> QED
    BY <2>2, <2>3
<1>13. Applied'
  <2>1. DOMAIN f' = DOMAIN jac
    BY <1>2, <1>3
  <2> SUFFICES ASSUME NEW r \in DOMAIN jac, NEW d, d = jac[r].of
               PROVE  f'[r] = IF Silenced(d)' THEN Zero ELSE ForceOn(r - 1)
    BY <1>1, <2>1 DEF Applied, ForceOn
  <2>2. f[r] = IF Silenced(d) THEN Zero ELSE ForceOn(r - 1)
    BY <1>3
  <2>3. 1 .. id' - 1 = (1 .. id - 1) \cup {id}
    BY <1>1 DEF Typed
  <2>4. Silenced(d)' <=> Silenced(d) \/ (pc = "actuator" /\ ~c.apply /\ d = c)
    <3>1. CASE pc # "actuator"
      BY <1>1, <3>1 DEF Silenced
    <3>2. CASE pc = "actuator"
      <4>1. (\E m \in 1 .. id' - 1 : list["actuator"][m] = d)
              <=> (\E m \in 1 .. id - 1 : list["actuator"][m] = d) \/ c = d
        BY <2>3, <3>2
      <4> QED
        BY <1>1, <1>5, <3>2, <4>1 DEF Silenced
    <3> QED
      BY <3>1, <3>2
  <2>5. r \in mine <=> d = c
    BY <1>8, <1>9
  <2> HIDE DEF mine, c
  <2>6. CASE pc = "actuator" /\ ~c.apply
    BY <1>2, <1>3, <2>2, <2>4, <2>5, <2>6
  <2>7. CASE ~(pc = "actuator" /\ ~c.apply)
    BY <1>2, <2>2, <2>4, <2>7
  <2> QED
    BY <2>6, <2>7
<1>14. Visited' /\ SolvedForRows'
  BY <1>1 DEF Phase, Visited, SolvedForRows, Sending
<1> QED
  BY <1>10, <1>11, <1>12, <1>13, <1>14 DEF Phase

LEMMA ListsNext ==
  ASSUME ActuatedAmongContacts
  PROVE  ListsInv /\ [Next]_vars => ListsInv'
<1> SUFFICES ASSUME ListsInv, [Next]_vars PROVE ListsInv'
  OBVIOUS
<1>1. Typed /\ Sorted /\ Phase
  BY DEF ListsInv, Sorted, Phase
<1>2. Typed' /\ Sorted' /\ Phase' => ListsInv'
  BY DEF ListsInv, Sorted, Phase
<1>3. CASE ClearProblem
  BY <1>1, <1>2, <1>3, ClearSorted, ClearPhase
<1>4. CASE FwdConstraintSet
  BY <1>1, <1>2, <1>4, FwdSorted, FwdPhase
<1>5. CASE Solve
  <2>1. UNCHANGED lists
    BY <1>5 DEF Solve
  <2> QED
    BY <1>1, <1>2, <1>5, <2>1, SortedUnchanged, SolvePhase
<1>6. CASE InitLambda
  <2>1. UNCHANGED lists
    BY <1>6 DEF InitLambda
  <2> QED
    BY <1>1, <1>2, <1>6, <2>1, SortedUnchanged, InitLambdaPhase
<1>7. CASE SolveContacts
  <2>1. UNCHANGED lists
    BY <1>7 DEF SolveContacts
  <2> QED
    BY <1>1, <1>2, <1>7, <2>1, SortedUnchanged, SolveContactsPhase
<1>8. CASE BuildQPMatrices
  <2>1. UNCHANGED lists
    BY <1>8 DEF BuildQPMatrices
  <2> QED
    BY <1>1, <1>2, <1>8, <2>1, SortedUnchanged, BuildQPMatricesPhase
<1>9. CASE SolveInverseProblem
  <2>1. UNCHANGED lists
    BY <1>9 DEF SolveInverseProblem
  <2> QED
    BY <1>1, <1>2, <1>9, <2>1, SortedUnchanged, SolveInverseProblemPhase
<1>10. CASE StoreResults
  <2>1. UNCHANGED lists
    BY <1>10 DEF StoreResults
  <2> QED
    BY <1>1, <1>2, <1>10, <2>1, SortedUnchanged, StoreResultsPhase
<1>11. CASE SendResults
  <2>1. UNCHANGED lists /\ (NextList(pc) \/ Send(pc))
    BY <1>11 DEF SendResults
  <2> QED
    BY <1>1, <1>2, <1>11, <2>1, SortedUnchanged, NextListPhase, SendPhase
<1>12. CASE UNCHANGED vars
  <2>1. /\ UNCHANGED lists /\ pc' = pc /\ x' = x /\ k' = k /\ id' = id /\ line' = line
        /\ f' = f /\ nDelta' = nDelta /\ got' = got
    BY <1>12 DEF vars, lists
  <2>2. sc' = sc /\ next' = next /\ jac' = jac /\ list' = list /\ rowIds' = rowIds
    BY <2>1 DEF lists
  <2>3. Typed' /\ Visited' /\ Given'
    BY <1>1, <2>1, <2>2 DEF Phase, Typed, Visited, Given, NbRows
  <2>4. SolvedForRows'
    BY <1>1, <2>1, <2>2 DEF Phase, SolvedForRows, Before, NbRows, ForceOn
  <2>5. Applied'
    BY <1>1, <2>1, <2>2 DEF Phase, Applied, Silenced, ForceOn
  <2>6. AtTheRows'
    BY <1>1, <2>1, <2>2 DEF Phase, AtTheRows, Starts
  <2> QED
    BY <1>1, <1>2, <2>1, <2>3, <2>4, <2>5, <2>6, SortedUnchanged DEF Phase
<1> QED
  BY <1>3, <1>4, <1>5, <1>6, <1>7, <1>8, <1>9, <1>10, <1>11, <1>12 DEF Next

LEMMA ListsInvariant == ASSUME ActuatedAmongContacts PROVE Spec => []ListsInv
<1>1. Init => ListsInv
  BY ListsInit
<1>2. ListsInv /\ [Next]_vars => ListsInv'
  BY ListsNext
<1> QED
  BY <1>1, <1>2, PTL DEF Spec

(* Each component is given the results of the rows it wrote: the visitor's *)
(* numbering, storeResults and sendResults agree on them for every scene   *)
(* in which equality rows and contacts occur together only with actuators. *)
THEOREM ResultsReachTheirComponents == ASSUME ActuatedAmongContacts PROVE Spec => []OwnResults
<1>1. ListsInv => OwnResults
  <2> SUFFICES ASSUME ListsInv, NEW g \in DOMAIN got
               PROVE  LET c == got[g].comp
                          own == [j \in 1 .. c.lines |-> <<c.name, j>>]
                      IN  /\ got[g].delta = own
                          /\ c.kind \in {"actuator", "equality"} => got[g].force = own
    BY DEF OwnResults
  <2> DEFINE S == {Owed(c) : c \in Components(sc)}
  <2>1. got \in Seq(S)
    BY DEF ListsInv, Given
  <2> HIDE DEF S
  <2>2. got[g] \in S
    BY <2>1
  <2>3. PICK c \in Components(sc) : got[g] = Owed(c)
    BY <2>2 DEF S
  <2> QED
    BY <2>3 DEF Owed, Own
<1> QED
  BY <1>1, ListsInvariant, PTL

(* The force on a row, when the step is over, is the one computed for that *)
(* row; effectors, sensors and actuators without applyForce have none.     *)
THEOREM ForcesAreOfTheirRows == ASSUME ActuatedAmongContacts PROVE Spec => []ForcesReachTheirRows
<1>1. ListsInv => ForcesReachTheirRows
  <2> SUFFICES ASSUME ListsInv, pc = "idle", NEW r \in DOMAIN f
               PROVE  LET c == jac[r].of IN
                      f[r] = IF c.kind \in {"effector", "sensor"} \/ (c.kind = "actuator" /\ ~c.apply)
                             THEN Zero ELSE ForceOn(r - 1)
    BY DEF ForcesReachTheirRows, Over
  <2> QED
    BY DEF ListsInv, Applied, Silenced
<1> QED
  BY <1>1, ListsInvariant, PTL

-----------------------------------------------------------------------------
(* The walks along the variables.  They step from component to component   *)
(* by counting lines, so that one without lines would stop them: it must   *)
(* come after those with lines.                                            *)
Walked == {"actuator", "equality"}
InvalidLast ==
  \A s \in Scenes : \A i, j \in DOMAIN s.comps :
    (i < j /\ s.comps[i].kind \in Walked /\ s.comps[j].kind = s.comps[i].kind
       /\ s.comps[i].lines = 0) => s.comps[j].lines = 0
Trailing ==
  \A l \in Walked : \A m, q \in DOMAIN list[l] :
    (m < q /\ list[l][m].lines = 0) => list[l][q].lines = 0

(* The walk along list l has come to its variable v.                       *)
OnWalk(l, v) ==
  /\ id \in DOMAIN list[l] /\ line < list[l][id].lines
  /\ \E st : Starts(l, st) /\ v = st[id] + (line + 1)

LEMMA WalkReachesOwner ==
  ASSUME Typed, Sorted, NEW l \in Lists, NEW v, OnWalk(l, v)
  PROVE  /\ v \in DOMAIN rowIds[l]
         /\ jac[rowIds[l][v] + 1] = [of |-> list[l][id], line |-> line + 1]
         /\ list[l][id].kind = l /\ list[l][id] \in Components(sc)
<1>1. PICK st : Starts(l, st) /\ v = st[id] + (line + 1)
  BY DEF OnWalk
<1>2. id \in DOMAIN list[l] /\ line < list[l][id].lines
  BY DEF OnWalk
<1>3. list[l][id] \in Components(sc)
  BY <1>2 DEF Typed
<1>4. list[l][id].kind = l /\ list[l][id].lines \in Nat
  BY <1>2, <1>3, SceneFacts DEF Sorted, ListsHold, Typed
<1>5. line + 1 \in 1 .. list[l][id].lines
  BY <1>2, <1>4 DEF Typed
<1>6. st[id] \in Nat
  <2>1. Len(list[l]) \in Nat /\ DOMAIN list[l] = 1 .. Len(list[l])
    BY RowNumbers
  <2>2. id \in 1 .. Len(list[l]) + 1
    BY <1>2, <2>1
  <2> QED
    BY <1>1, <2>2 DEF Starts, Laid
<1>7. v = st[id] + (line + 1)
  BY <1>1
<1>8. /\ st[id] + (line + 1) \in DOMAIN rowIds[l]
      /\ jac[rowIds[l][st[id] + (line + 1)] + 1] = [of |-> list[l][id], line |-> line + 1]
  BY <1>1, <1>2, <1>5 DEF Starts, Laid
<1> QED
  BY <1>3, <1>4, <1>7, <1>8

(* The component m with the row at position st[m] + 1 has lines, if the    *)
(* list has such a position.                                               *)
LEMMA NextHasLines ==
  ASSUME Typed, Trailing, NEW l \in Walked, NEW st, Starts(l, st),
         NEW m \in 1 .. Len(list[l]) + 1, st[m] < NbRows(l)
  PROVE  m \in DOMAIN list[l] /\ list[l][m].lines > 0
<1> DEFINE n == Len(list[l])
<1>1. l \in Lists
  BY DEF Walked, Lists
<1>2. n \in Nat /\ DOMAIN list[l] = 1 .. n /\ NbRows(l) \in Nat /\ DOMAIN rowIds[l] = 1 .. NbRows(l)
  BY <1>1, RowNumbers
<1>3. \A q \in 1 .. n : list[l][q].lines \in Nat
  BY <1>1, <1>2, SceneFacts DEF Typed
<1>4. /\ st \in [1 .. n + 1 -> Nat] /\ st[n + 1] = NbRows(l)
      /\ \A q \in 1 .. n : st[q + 1] = st[q] + list[l][q].lines
      /\ \A a, b \in 1 .. n + 1 : a <= b => st[a] <= st[b]
  BY <1>2 DEF Starts, Laid, NbRows
<1> HIDE DEF n
<1>5. m \in 1 .. n
  <2>1. m \in 1 .. n + 1
    BY DEF n
  <2> QED
    BY <1>2, <1>4, <2>1
<1>6. st[m] + 1 \in DOMAIN rowIds[l]
  <2>1. st[m] \in Nat
    BY <1>2, <1>4, <1>5
  <2> QED
    BY <1>2, <2>1
<1>7. PICK q, j : IsLine(l, st, st[m] + 1, q, j)
  BY <1>1, <1>6, RowAt
<1>8. q \in 1 .. n /\ j \in 1 .. list[l][q].lines /\ st[m] + 1 = st[q] + j
  BY <1>2, <1>7 DEF IsLine
<1>9. list[l][m].lines # 0
  <2> SUFFICES ASSUME list[l][m].lines = 0 PROVE FALSE
    OBVIOUS
  <2>1. CASE m < q
    <3>1. list[l][q].lines = 0
      BY <1>2, <1>5, <1>8, <2>1 DEF Trailing
    <3> QED
      BY <1>8, <3>1
  <2>2. CASE q = m
    BY <1>8, <2>2
  <2>3. CASE q < m
    <3>1. st[q + 1] <= st[m] /\ st[q + 1] = st[q] + list[l][q].lines
      BY <1>2, <1>4, <1>5, <1>8, <2>3
    <3>2. st[q] \in Nat /\ st[m] \in Nat
      BY <1>2, <1>4, <1>5, <1>8
    <3>3. list[l][q].lines \in Nat
      BY <1>3, <1>8
    <3> QED
      BY <1>8, <3>1, <3>2, <3>3
  <2> QED
    BY <1>5, <1>8, <2>1, <2>2, <2>3
<1> QED
  BY <1>2, <1>3, <1>5, <1>9

LEMMA WalkBegins ==
  ASSUME Typed, Sorted, Trailing, NEW l \in Walked, NbRows(l) > 0, id' = 1, line' = 0, UNCHANGED lists
  PROVE  OnWalk(l, 1)'
<1>1. l \in Lists
  BY DEF Walked, Lists
<1>2. PICK st : Starts(l, st)
  BY <1>1 DEF Sorted, Contiguous, InOrder, Starts
<1>3. st[1] = 0
  BY <1>2 DEF Starts, Laid
<1>4. 1 \in 1 .. Len(list[l]) + 1
  BY <1>1, RowNumbers
<1>5. 1 \in DOMAIN list[l] /\ list[l][1].lines > 0
  BY <1>2, <1>3, <1>4, NextHasLines
<1>6. list' = list /\ rowIds' = rowIds /\ jac' = jac
  BY DEF lists
<1>7. Starts(l, st)'
  BY <1>2, <1>6 DEF Starts
<1>8. 1 = st[id'] + (line' + 1)
  BY <1>3
<1> QED
  BY <1>5, <1>6, <1>7, <1>8 DEF OnWalk

LEMMA WalkContinues ==
  ASSUME Typed, Sorted, Trailing, NEW l \in Walked, NEW v, OnWalk(l, v), v < NbRows(l),
         Advance(list[l][id]), UNCHANGED lists
  PROVE  OnWalk(l, v + 1)'
<1>1. l \in Lists
  BY DEF Walked, Lists
<1>2. list' = list /\ rowIds' = rowIds /\ jac' = jac
  BY DEF lists
<1>3. PICK st : Starts(l, st) /\ v = st[id] + (line + 1)
  BY DEF OnWalk
<1>4. Starts(l, st)'
  BY <1>2, <1>3 DEF Starts
<1>5. id \in DOMAIN list[l] /\ line < list[l][id].lines
  BY DEF OnWalk
<1>6. Len(list[l]) \in Nat /\ DOMAIN list[l] = 1 .. Len(list[l]) /\ line \in Nat
  BY <1>1, RowNumbers DEF Typed
<1>7. list[l][id].lines \in Nat
  BY <1>1, <1>5, SceneFacts DEF Typed
<1>8. st[id] \in Nat /\ st[id + 1] = st[id] + list[l][id].lines
  BY <1>3, <1>5, <1>6 DEF Starts, Laid
<1>9. CASE line + 1 = list[l][id].lines
  <2>1. id' = id + 1 /\ line' = 0
    BY <1>9 DEF Advance
  <2>2. st[id + 1] = v /\ v + 1 = st[id + 1] + (0 + 1)
    BY <1>3, <1>6, <1>7, <1>8, <1>9
  <2>3. id + 1 \in 1 .. Len(list[l]) + 1
    BY <1>5, <1>6
  <2>4. id + 1 \in DOMAIN list[l] /\ list[l][id + 1].lines > 0
    BY <1>3, <2>2, <2>3, NextHasLines
  <2> QED
    BY <1>2, <1>4, <2>1, <2>2, <2>4 DEF OnWalk
<1>10. CASE line + 1 # list[l][id].lines
  <2>1. id' = id /\ line' = line + 1
    BY <1>10 DEF Advance
  <2>2. line + 1 < list[l][id].lines
    BY <1>5, <1>6, <1>7, <1>10
  <2>3. v + 1 = st[id] + ((line + 1) + 1)
    BY <1>3, <1>6, <1>8
  <2> QED
    BY <1>2, <1>4, <1>5, <2>1, <2>2, <2>3 DEF OnWalk
<1> QED
  BY <1>9, <1>10

LEMMA FwdTrailing ==
  ASSUME InvalidLast, Typed, Sorted, Trailing, FwdConstraintSet
  PROVE  Trailing'
<1>1. PICK c : Passed(c) /\ PassedInto(c, c.kind)
  BY ComponentPassed
<1> SUFFICES ASSUME NEW l \in Walked, NEW m \in DOMAIN list'[l], NEW q \in DOMAIN list'[l],
                    m < q, list'[l][m].lines = 0
             PROVE  list'[l][q].lines = 0
  BY DEF Trailing
<1>2. l \in Lists
  BY DEF Walked, Lists
<1>3. CASE l # c.kind
  <2>1. list'[l] = list[l]
    BY <1>1, <1>2, <1>3 DEF Passed
  <2> QED
    BY <2>1 DEF Trailing
<1>4. CASE l = c.kind
  <2> DEFINE n == Len(list[l])
  <2>1. /\ n \in Nat /\ DOMAIN list[l] = 1 .. n /\ DOMAIN list'[l] = 1 .. n + 1
        /\ \A i \in 1 .. n : list'[l][i] = list[l][i]
        /\ list'[l][n + 1] = c
    BY <1>1, <1>4 DEF PassedInto
  <2> HIDE DEF n
  <2>2. m \in 1 .. n
    BY <2>1
  <2>3. CASE q \in 1 .. n
    BY <2>1, <2>2, <2>3 DEF Trailing
  <2>4. CASE q = n + 1
    <3>1. PICK i \in 1 .. next - 1 : list[l][m] = sc.comps[i]
      BY <1>2, <2>1, <2>2 DEF Sorted, ListsHold
    <3>2. /\ sc \in Scenes /\ next \in 1 .. Len(sc.comps) /\ c = sc.comps[next]
          /\ Len(sc.comps) \in Nat /\ DOMAIN sc.comps = 1 .. Len(sc.comps)
      BY <1>1, SceneFacts DEF Typed, Passed
    <3>3. i \in DOMAIN sc.comps /\ next \in DOMAIN sc.comps /\ i < next
      BY <3>2
    <3>4. sc.comps[i].kind = l /\ sc.comps[i].lines = 0
      BY <1>2, <2>1, <2>2, <3>1 DEF Sorted, ListsHold
    <3>5. sc.comps[next].lines = 0
      BY <1>4, <3>2, <3>3, <3>4 DEF InvalidLast
    <3> QED
      BY <2>1, <2>4, <3>2, <3>5
  <2> QED
    BY <2>1, <2>3, <2>4
<1> QED
  BY <1>3, <1>4

-----------------------------------------------------------------------------
(* buildQPMatrices has weighed the variables before k, each with the       *)
(* epsilon of its owner, and stands at the component of variable k.        *)
Names(s) == {c.name : c \in Components(s)} \cup {"none"}
Weighed ==
  /\ energy \in Seq(Names(sc)) /\ EnergyOfOwner
  /\ pc \in {"visit", "init", "contacts"} => energy = <<>>
OwnerReached == \A l \in Walked : \A v \in 1 .. NbRows(l) : k = Before(l) + v => OnWalk(l, v)
EnergyWalk == pc = "energy" => k >= 1 /\ Len(energy) = k - 1 /\ OwnerReached
AtTheFirst == pc = "contacts" => k = 1 /\ id = 1 /\ line = 0
EnergyInv == Trailing /\ Weighed /\ EnergyWalk /\ AtTheFirst

LEMMA EnergyStays ==
  ASSUME EnergyOfOwner, UNCHANGED <<lists, energy>>
  PROVE  EnergyOfOwner'
<1>1. rowIds' = rowIds /\ jac' = jac /\ energy' = energy
  BY DEF lists
<1> QED
  BY <1>1 DEF EnergyOfOwner, AcIds, NbRows

LEMMA TrailingStays ==
  ASSUME Trailing, UNCHANGED lists
  PROVE  Trailing'
BY DEF Trailing, lists

(* The walk begins at the first variable, whose owner is an actuator or,   *)
(* without rows of actuators, an equality component.                       *)
LEMMA OwnersBegin ==
  ASSUME Typed, Sorted, Trailing, k' = 1, id' = 1, line' = 0, UNCHANGED lists
  PROVE  OwnerReached'
<1> SUFFICES ASSUME NEW l \in Walked, NEW v \in 1 .. NbRows(l)', k' = Before(l)' + v
             PROVE  OnWalk(l, v)'
  BY DEF OwnerReached
<1>1. NbRows(l) \in Nat /\ NbRows("actuator") \in Nat /\ NbRows("equality") \in Nat
  BY RowNumbers DEF Lists, Walked
<1>2. NbRows(l)' = NbRows(l) /\ Before(l)' = Before(l)
  BY DEF lists, NbRows, Before
<1>3. Before(l) \in Nat
  BY <1>1 DEF Before
<1>4. v = 1 /\ NbRows(l) > 0
  BY <1>1, <1>2, <1>3
<1> QED
  BY <1>4, WalkBegins

(* What variable v is to be weighed with.                                  *)
Weight(v) == LET c == jac[AcIds(v) + 1].of IN IF c.kind = "contact" THEN "none" ELSE c.name

LEMMA EnergyGrows ==
  ASSUME Weighed, k \in Nat, k >= 1, Len(energy) = k - 1, NEW e \in Names(sc), e = Weight(k),
         energy' = Append(energy, e), UNCHANGED lists
  PROVE  energy' \in Seq(Names(sc))' /\ EnergyOfOwner' /\ Len(energy') = k
<1>1. sc' = sc /\ rowIds' = rowIds /\ jac' = jac
  BY DEF lists
<1>2. energy \in Seq(Names(sc))
  BY DEF Weighed
<1>3. energy' \in Seq(Names(sc)) /\ Len(energy') = k /\ DOMAIN energy' = 1 .. k
  BY <1>2
<1>4. energy'[k] = e /\ \A v \in 1 .. k - 1 : energy'[v] = energy[v]
  BY <1>2
<1>5. \A v : Weight(v)' = Weight(v)
  BY <1>1 DEF Weight, AcIds, NbRows
<1>6. \A v \in 1 .. k - 1 : energy[v] = Weight(v)
  BY <1>2 DEF Weighed, EnergyOfOwner, Weight
<1>7. ASSUME NEW v \in DOMAIN energy' PROVE energy'[v] = Weight(v)
  <2>1. v \in 1 .. k - 1 \/ v = k
    BY <1>3
  <2> QED
    BY <1>4, <1>6, <2>1
<1>8. EnergyOfOwner'
  BY <1>5, <1>7 DEF EnergyOfOwner, Weight
<1> QED
  BY <1>1, <1>3, <1>8 DEF Names

(* The variable of a walk belongs to the component reached.                *)
LEMMA WeightOfOwner ==
  ASSUME Typed, Sorted, NEW l \in Walked, NEW v \in 1 .. NbRows(l), OnWalk(l, v)
  PROVE  list[l][id].name = Weight(Before(l) + v) /\ list[l][id].name \in Names(sc)
<1>1. l \in Lists /\ l \in WithVariables /\ l # "contact"
  BY DEF Walked, Lists, WithVariables
<1>2. /\ v \in DOMAIN rowIds[l]
      /\ jac[rowIds[l][v] + 1] = [of |-> list[l][id], line |-> line + 1]
      /\ list[l][id].kind = l /\ list[l][id] \in Components(sc)
  BY <1>1, WalkReachesOwner
<1>3. AcIds(Before(l) + v) = rowIds[l][v]
  BY <1>1, <1>2, VariablesOfRows
<1>4. jac[AcIds(Before(l) + v) + 1].of = list[l][id]
  BY <1>2, <1>3
<1> QED
  BY <1>1, <1>2, <1>4 DEF Weight, Names

LEMMA OwnersContinue ==
  ASSUME Typed, Sorted, Trailing, OwnerReached, NEW l \in Walked, NEW v \in 1 .. NbRows(l),
         k = Before(l) + v, k' = k + 1, UNCHANGED lists,
         IF l = "actuator" /\ k = NbRows(l) THEN id' = 1 /\ line' = 0 ELSE Advance(list[l][id])
  PROVE  OwnerReached'
<1> SUFFICES ASSUME NEW q \in Walked, NEW w \in 1 .. NbRows(q)', k' = Before(q)' + w
             PROVE  OnWalk(q, w)'
  BY DEF OwnerReached
<1> DEFINE na == NbRows("actuator")
           ne == NbRows("equality")
<1>1. na \in Nat /\ ne \in Nat
  BY RowNumbers DEF Lists
<1>2. NbRows(q)' = NbRows(q) /\ Before(q)' = Before(q)
  BY DEF lists, NbRows, Before
<1>3. Before("actuator") = 0 /\ Before("equality") = na
  BY DEF Before
<1>4. OnWalk(l, v)
  BY DEF OwnerReached
<1>5. w \in 1 .. NbRows(q) /\ k + 1 = Before(q) + w
  BY <1>2
<1> HIDE DEF na, ne
<1>6. CASE l = "actuator" /\ q = "actuator"
  <2>1. v = k /\ v \in 1 .. na /\ w \in 1 .. na
    BY <1>1, <1>3, <1>5, <1>6 DEF na
  <2>2. w = v + 1
    BY <1>1, <1>3, <1>5, <1>6, <2>1
  <2>3. v < NbRows(l) /\ k # NbRows(l)
    BY <1>1, <1>6, <2>1, <2>2 DEF na
  <2>4. Advance(list[l][id])
    BY <2>3
  <2> QED
    BY <1>4, <1>6, <2>2, <2>3, <2>4, WalkContinues
<1>7. CASE l = "actuator" /\ q = "equality"
  <2>1. v = k /\ v \in 1 .. na /\ w \in 1 .. ne
    BY <1>1, <1>3, <1>5, <1>7 DEF na, ne
  <2>2. k = na /\ w = 1 /\ ne > 0
    BY <1>1, <1>3, <1>5, <1>7, <2>1
  <2>3. id' = 1 /\ line' = 0
    BY <1>7, <2>2 DEF na
  <2> QED
    BY <1>7, <2>2, <2>3, WalkBegins DEF ne
<1>8. CASE l = "equality" /\ q = "actuator"
  <2>1. v \in 1 .. ne /\ k = na + v /\ w \in 1 .. na /\ k + 1 = w
    BY <1>1, <1>3, <1>5, <1>8 DEF na, ne
  <2> QED
    BY <1>1, <2>1
<1>9. CASE l = "equality" /\ q = "equality"
  <2>1. v \in 1 .. ne /\ w \in 1 .. ne /\ k = na + v /\ k + 1 = na + w
    BY <1>3, <1>5, <1>9 DEF ne
  <2>2. w = v + 1 /\ v < ne
    BY <1>1, <2>1
  <2>3. Advance(list[l][id])
    BY <1>9
  <2> QED
    BY <1>4, <1>9, <2>2, <2>3, WalkContinues DEF ne
<1> QED
  BY <1>6, <1>7, <1>8, <1>9 DEF Walked

LEMMA EnergyBuild ==
  ASSUME Typed, Sorted, EnergyInv, BuildQPMatrices
  PROVE  EnergyInv'
<1> DEFINE na == NbRows("actuator")
           ne == NbRows("equality")
           nc == NbRows("contact")
           dim == IF sc.only THEN na ELSE Dim
<1>1. na \in Nat /\ ne \in Nat /\ nc \in Nat /\ Dim = na + ne + nc /\ k \in Nat
  BY RowNumbers DEF Lists, Dim, Typed
<1>2. UNCHANGED lists /\ pc = "energy" /\ sc' = sc /\ list' = list /\ rowIds' = rowIds
  BY DEF BuildQPMatrices, lists
<1>3. Trailing /\ Weighed /\ k >= 1 /\ Len(energy) = k - 1 /\ OwnerReached
  BY <1>2 DEF EnergyInv, EnergyWalk
<1>4. Trailing'
  BY <1>2, <1>3, TrailingStays
<1>5. Before("actuator") = 0 /\ Before("equality") = na /\ Before("contact") = na + ne
  BY DEF Before
<1>6. \/ /\ k <= dim /\ k <= na
         /\ energy' = Append(energy, list["actuator"][id].name)
         /\ IF k = na THEN id' = 1 /\ line' = 0 ELSE Advance(list["actuator"][id])
         /\ k' = k + 1 /\ pc' = pc
      \/ /\ k <= dim /\ na < k /\ k <= na + ne
         /\ energy' = Append(energy, list["equality"][id].name)
         /\ Advance(list["equality"][id])
         /\ k' = k + 1 /\ pc' = pc
      \/ /\ k <= dim /\ k > na + ne
         /\ energy' = Append(energy, "none")
         /\ k' = k + 1 /\ pc' = pc
      \/ /\ k > dim /\ pc' = "qp" /\ energy' = energy
  BY DEF BuildQPMatrices
<1>7. ASSUME NEW e \in Names(sc), e = Weight(k), energy' = Append(energy, e), k' = k + 1, pc' = pc,
             OwnerReached'
      PROVE  EnergyInv'
  <2>1. energy' \in Seq(Names(sc))' /\ EnergyOfOwner' /\ Len(energy') = k
    BY <1>1, <1>2, <1>3, <1>7, EnergyGrows
  <2>2. k' >= 1 /\ Len(energy') = k' - 1
    BY <1>1, <1>7, <2>1
  <2> QED
    BY <1>2, <1>4, <1>7, <2>1, <2>2 DEF EnergyInv, Weighed, EnergyWalk, AtTheFirst
<1>8. CASE /\ k <= na /\ energy' = Append(energy, list["actuator"][id].name)
           /\ IF k = na THEN id' = 1 /\ line' = 0 ELSE Advance(list["actuator"][id])
           /\ k' = k + 1 /\ pc' = pc
  <2>1. k \in 1 .. NbRows("actuator") /\ k = Before("actuator") + k /\ "actuator" \in Walked
    BY <1>1, <1>3, <1>5, <1>8 DEF Walked
  <2>2. OnWalk("actuator", k)
    BY <1>3, <2>1 DEF OwnerReached
  <2>3. list["actuator"][id].name = Weight(k) /\ list["actuator"][id].name \in Names(sc)
    BY <2>1, <2>2, WeightOfOwner
  <2>4. OwnerReached'
    BY <1>2, <1>3, <1>8, <2>1, OwnersContinue
  <2> QED
    BY <1>7, <1>8, <2>3, <2>4
<1>9. CASE /\ na < k /\ k <= na + ne /\ energy' = Append(energy, list["equality"][id].name)
           /\ Advance(list["equality"][id]) /\ k' = k + 1 /\ pc' = pc
  <2>1. PICK v \in 1 .. NbRows("equality") : k = Before("equality") + v
    <3>1. k - na \in 1 .. ne /\ k = na + (k - na)
      BY <1>1, <1>9
    <3> QED
      BY <1>5, <3>1
  <2>2. "equality" \in Walked /\ "equality" # "actuator"
    BY DEF Walked
  <2>3. OnWalk("equality", v)
    BY <1>3, <2>1, <2>2 DEF OwnerReached
  <2>4. list["equality"][id].name = Weight(k) /\ list["equality"][id].name \in Names(sc)
    BY <2>1, <2>2, <2>3, WeightOfOwner
  <2>5. OwnerReached'
    BY <1>2, <1>3, <1>9, <2>1, <2>2, OwnersContinue
  <2> QED
    BY <1>7, <1>9, <2>4, <2>5
<1>10. CASE /\ k <= dim /\ k > na + ne /\ energy' = Append(energy, "none")
            /\ k' = k + 1 /\ pc' = pc
  <2>1. sc.only \in BOOLEAN
    BY ScenesAssumption DEF Typed, IsScene
  <2>2. k <= na + ne + nc
    BY <1>1, <1>10, <2>1
  <2>3. PICK v \in 1 .. NbRows("contact") : k = Before("contact") + v
    <3>1. k - (na + ne) \in 1 .. nc /\ k = (na + ne) + (k - (na + ne))
      BY <1>1, <1>10, <2>2
    <3> QED
      BY <1>5, <3>1
  <2>4. v \in DOMAIN rowIds["contact"] /\ "contact" \in WithVariables /\ "contact" \in Lists
    BY RowNumbers DEF WithVariables, Lists
  <2>5. AcIds(k) = rowIds["contact"][v]
    BY <2>3, <2>4, VariablesOfRows
  <2>6. jac[rowIds["contact"][v] + 1].of.kind = "contact"
    BY <2>4, RowOfComponent
  <2>7. "none" = Weight(k) /\ "none" \in Names(sc)
    BY <2>5, <2>6 DEF Weight, Names
  <2>8. OwnerReached'
    <3> SUFFICES ASSUME NEW l \in Walked, NEW w \in 1 .. NbRows(l)', k' = Before(l)' + w PROVE FALSE
      BY DEF OwnerReached
    <3>1. NbRows(l)' = NbRows(l) /\ Before(l)' = Before(l)
      BY <1>2 DEF NbRows, Before
    <3>2. Before(l) + NbRows(l) <= na + ne /\ Before(l) \in Nat /\ NbRows(l) \in Nat
      BY <1>1, <1>5 DEF Walked
    <3> QED
      BY <1>1, <1>10, <3>1, <3>2
  <2> QED
    BY <1>7, <1>10, <2>7, <2>8
<1>11. CASE pc' = "qp" /\ energy' = energy
  <2>1. EnergyOfOwner'
    BY <1>2, <1>3, <1>11, EnergyStays DEF Weighed
  <2> QED
    BY <1>2, <1>3, <1>4, <1>11, <2>1 DEF EnergyInv, Weighed, EnergyWalk, AtTheFirst, Names
<1> QED
  BY <1>6, <1>8, <1>9, <1>10, <1>11

LEMMA EnergyInit == Init => EnergyInv
<1> SUFFICES ASSUME Init PROVE EnergyInv
  OBVIOUS
<1>1. pc = "idle" /\ list = [l \in Lists |-> <<>>] /\ energy = <<>>
  BY DEF Init
<1>2. Trailing
  BY <1>1 DEF Trailing, Walked, Lists
<1> QED
  BY <1>1, <1>2 DEF EnergyInv, Weighed, EnergyOfOwner, EnergyWalk, AtTheFirst

LEMMA EnergyNext ==
  ASSUME InvalidLast
  PROVE  ListsInv /\ EnergyInv /\ [Next]_vars => EnergyInv'
<1> SUFFICES ASSUME ListsInv, EnergyInv, [Next]_vars PROVE EnergyInv'
  OBVIOUS
<1>1. Typed /\ Sorted /\ Trailing /\ Weighed
  BY DEF ListsInv, Sorted, EnergyInv
<1>2. ASSUME UNCHANGED <<lists, energy>>, pc' \notin {"visit", "init", "contacts", "energy"}
      PROVE  EnergyInv'
  <2>1. Trailing' /\ EnergyOfOwner' /\ sc' = sc /\ energy' = energy
    BY <1>1, <1>2, TrailingStays, EnergyStays DEF Weighed, lists
  <2> QED
    BY <1>1, <1>2, <2>1 DEF EnergyInv, Weighed, EnergyWalk, AtTheFirst, Names
<1>3. CASE ClearProblem
  <2>1. pc' = "visit" /\ list' = [l \in Lists |-> <<>>] /\ energy' = <<>>
    BY <1>3 DEF ClearProblem
  <2>2. Trailing'
    BY <2>1 DEF Trailing, Walked, Lists
  <2> QED
    BY <2>1, <2>2 DEF EnergyInv, Weighed, EnergyOfOwner, EnergyWalk, AtTheFirst
<1>4. CASE FwdConstraintSet
  <2>1. pc = "visit" /\ pc' = pc /\ sc' = sc /\ energy' = energy
    BY <1>4 DEF FwdConstraintSet
  <2>2. energy' = <<>>
    BY <1>1, <2>1 DEF Weighed
  <2>3. Trailing'
    BY <1>1, <1>4, FwdTrailing
  <2> QED
    BY <2>1, <2>2, <2>3 DEF EnergyInv, Weighed, EnergyOfOwner, EnergyWalk, AtTheFirst
<1>5. CASE Solve
  <2>1. /\ UNCHANGED <<lists, energy>> /\ pc = "visit" /\ k' = 1 /\ id' = 1 /\ line' = 0
        /\ pc' \in {"contacts", "init", "energy", "store"}
    BY <1>5 DEF Solve
  <2>2. Trailing' /\ EnergyOfOwner' /\ sc' = sc /\ OwnerReached'
    BY <1>1, <2>1, TrailingStays, EnergyStays, OwnersBegin DEF Weighed, lists
  <2>3. energy' = <<>>
    BY <1>1, <2>1 DEF Weighed
  <2> QED
    BY <2>1, <2>2, <2>3 DEF EnergyInv, Weighed, EnergyWalk, AtTheFirst
<1>6. CASE InitLambda
  <2>1. /\ UNCHANGED <<lists, energy>> /\ pc = "init"
        /\ pc' = "init" \/ (pc' = "contacts" /\ k' = 1 /\ id' = 1 /\ line' = 0)
    BY <1>6 DEF InitLambda
  <2>2. Trailing' /\ EnergyOfOwner' /\ sc' = sc
    BY <1>1, <2>1, TrailingStays, EnergyStays DEF Weighed, lists
  <2>3. energy' = <<>>
    BY <1>1, <2>1 DEF Weighed
  <2> QED
    BY <2>1, <2>2, <2>3 DEF EnergyInv, Weighed, EnergyWalk, AtTheFirst
<1>7. CASE SolveContacts
  <2>1. /\ UNCHANGED <<lists, energy>> /\ pc = "contacts" /\ pc' \in {"energy", "store"}
        /\ k' = k /\ id' = id /\ line' = line
    BY <1>7 DEF SolveContacts, loop
  <2>2. k' = 1 /\ id' = 1 /\ line' = 0
    BY <2>1 DEF EnergyInv, AtTheFirst
  <2>3. Trailing' /\ EnergyOfOwner' /\ sc' = sc /\ OwnerReached'
    BY <1>1, <2>1, <2>2, TrailingStays, EnergyStays, OwnersBegin DEF Weighed, lists
  <2>4. energy' = <<>>
    BY <1>1, <2>1 DEF Weighed
  <2> QED
    BY <2>1, <2>2, <2>3, <2>4 DEF EnergyInv, Weighed, EnergyWalk, AtTheFirst
<1>8. CASE BuildQPMatrices
  BY <1>1, <1>8, EnergyBuild
<1>9. CASE SolveInverseProblem
  BY <1>2, <1>9 DEF SolveInverseProblem
<1>10. CASE StoreResults
  BY <1>2, <1>10 DEF StoreResults
<1>11. CASE SendResults
  <2>1. pc \in {"actuator", "equality", "effector", "sensor"}
    BY <1>11 DEF SendResults, Lists
  <2>2. pc' \notin {"visit", "init", "contacts", "energy"}
    <3>1. CASE NextList(pc)
      BY <2>1, <3>1 DEF NextList, Following
    <3>2. CASE Send(pc)
      BY <2>1, <3>2 DEF Send
    <3> QED
      BY <1>11, <3>1, <3>2 DEF SendResults
  <2> QED
    BY <1>2, <1>11, <2>2 DEF SendResults
<1>12. CASE UNCHANGED vars
  <2>1. /\ UNCHANGED <<lists, energy>> /\ pc' = pc /\ k' = k /\ id' = id /\ line' = line
        /\ sc' = sc /\ list' = list /\ rowIds' = rowIds /\ jac' = jac
    BY <1>12 DEF vars, lists
  <2>2. Trailing' /\ EnergyOfOwner'
    BY <1>1, <2>1, TrailingStays, EnergyStays DEF Weighed
  <2>3. OwnerReached => OwnerReached'
    BY <2>1 DEF OwnerReached, OnWalk, Starts, NbRows, Before
  <2> QED
    BY <2>1, <2>2, <2>3 DEF EnergyInv, Weighed, EnergyWalk, AtTheFirst, Names
<1> QED
  BY <1>3, <1>4, <1>5, <1>6, <1>7, <1>8, <1>9, <1>10, <1>11, <1>12 DEF Next

-----------------------------------------------------------------------------
(* The scenes of a robot have the same actuators, in the same order; acts  *)
(* are those of the robot, pos their places among the components.          *)
Among(acts, comps, pos) ==
  /\ pos \in [DOMAIN acts -> DOMAIN comps]
  /\ \A m \in DOMAIN acts : acts[m] = comps[pos[m]]
  /\ \A m, q \in DOMAIN acts : m < q => pos[m] < pos[q]
  /\ \A i \in DOMAIN comps : comps[i].kind = "actuator" <=> \E m \in DOMAIN acts : pos[m] = i
IsRobot(r, acts) == \A s \in Scenes : s.robot = r => \E pos : Among(acts, s.comps, pos)
SameActuators == \A s \in Scenes : \E acts \in Seq(Components(s)) : IsRobot(s.robot, acts)

(* The visitor has listed the first of them.                               *)
ListedFor(acts, pos) ==
  /\ Among(acts, sc.comps, pos)
  /\ \A m \in DOMAIN acts : pos[m] < next <=> m <= Len(list["actuator"])
  /\ Len(list["actuator"]) <= Len(acts)
  /\ \A m \in DOMAIN list["actuator"] : list["actuator"][m] = acts[m]
Listed(acts) == \E pos : ListedFor(acts, pos)

(* The forces x were computed for them, in the order of the rows that the  *)
(* lists have, as far as the visitor has come.                             *)
Agrees(off) == \E st : Starts("actuator", st) /\ \A m \in DOMAIN st : off[m] = st[m]
Offsets(acts, off) ==
  /\ off \in [1 .. Len(acts) + 1 -> Nat]
  /\ \A m \in DOMAIN acts : off[m + 1] = off[m] + acts[m].lines
ForcesOf(acts, off) ==
  /\ Len(x) >= off[Len(acts) + 1]
  /\ \A m \in DOMAIN acts : \A j \in 1 .. acts[m].lines : x[off[m] + j] = <<acts[m].name, j>>
Remembered(acts) == \E off : Offsets(acts, off) /\ ForcesOf(acts, off) /\ Agrees(off)

IsActuators(acts) ==
  /\ Len(acts) \in Nat /\ DOMAIN acts = 1 .. Len(acts) /\ \A m \in DOMAIN acts : acts[m].lines \in Nat
RobotOf(acts) ==
  IsActuators(acts) /\ IsRobot(sc.robot, acts) /\ Listed(acts) /\ (started => Remembered(acts))

LEMMA FwdListed ==
  ASSUME Typed, FwdConstraintSet, NEW acts, IsActuators(acts), Listed(acts)
  PROVE  Listed(acts)'
<1> DEFINE n == Len(list["actuator"])
           c == sc.comps[next]
<1>1. PICK pos : ListedFor(acts, pos)
  BY DEF Listed
<1>2. Passed(c) /\ PassedInto(c, c.kind)
  BY ComponentPassed
<1>3. /\ sc' = sc /\ next' = next + 1 /\ next \in 1 .. Len(sc.comps)
      /\ Len(sc.comps) \in Nat /\ DOMAIN sc.comps = 1 .. Len(sc.comps)
  BY <1>2, SceneFacts DEF Passed, Typed
<1>4. n \in Nat /\ DOMAIN list["actuator"] = 1 .. n
  BY RowNumbers DEF Lists
<1>5. /\ pos \in [1 .. Len(acts) -> 1 .. Len(sc.comps)] /\ Among(acts, sc.comps, pos)
      /\ \A m \in 1 .. Len(acts) : pos[m] < next <=> m <= n
      /\ n <= Len(acts) /\ \A m \in 1 .. n : list["actuator"][m] = acts[m]
  BY <1>1, <1>3, <1>4 DEF ListedFor, Among, IsActuators
<1>6. Len(acts) \in Nat
  BY DEF IsActuators
<1>7. CASE c.kind # "actuator"
  <2>1. list'["actuator"] = list["actuator"]
    BY <1>2, <1>7 DEF Passed, Lists
  <2>2. \A m \in 1 .. Len(acts) : pos[m] # next
    BY <1>3, <1>5, <1>7 DEF Among, IsActuators
  <2>3. \A m \in 1 .. Len(acts) : pos[m] < next + 1 <=> m <= n
    BY <1>3, <1>5, <2>2
  <2>4. ListedFor(acts, pos)'
    BY <1>3, <1>4, <1>5, <2>1, <2>3 DEF ListedFor, IsActuators
  <2> QED
    BY <2>4 DEF Listed
<1>8. CASE c.kind = "actuator"
  <2>1. /\ Len(list'["actuator"]) = n + 1 /\ DOMAIN list'["actuator"] = 1 .. n + 1
        /\ \A m \in 1 .. n : list'["actuator"][m] = list["actuator"][m]
        /\ list'["actuator"][n + 1] = c
    BY <1>2, <1>8 DEF PassedInto
  <2>2. PICK m \in 1 .. Len(acts) : pos[m] = next
    BY <1>3, <1>5, <1>8 DEF Among, IsActuators
  <2> HIDE DEF n, c
  <2>3. m > n /\ n + 1 \in 1 .. Len(acts)
    BY <1>3, <1>4, <1>5, <1>6, <2>2
  <2>4. m = n + 1
    <3> SUFFICES ASSUME n + 1 < m PROVE FALSE
      BY <1>4, <2>3
    <3>1. pos[n + 1] < pos[m]
      BY <1>5, <2>3 DEF Among, IsActuators
    <3> QED
      BY <1>4, <1>5, <2>2, <2>3, <3>1
  <2>5. acts[n + 1] = c
    BY <1>5, <2>2, <2>4 DEF Among, IsActuators, c
  <2>6. \A q \in 1 .. Len(acts) : pos[q] < next + 1 <=> q <= n + 1
    <3> TAKE q \in 1 .. Len(acts)
    <3>1. pos[q] \in 1 .. Len(sc.comps) /\ pos[m] = next
      BY <1>5, <2>2
    <3>2. CASE q < m
      <4>1. pos[q] < pos[m]
        BY <1>5, <3>2 DEF Among, IsActuators
      <4> QED
        BY <1>3, <1>4, <2>4, <3>1, <3>2, <4>1
    <3>3. CASE m < q
      <4>1. pos[m] < pos[q]
        BY <1>5, <3>3 DEF Among, IsActuators
      <4> QED
        BY <1>3, <1>4, <2>4, <3>1, <3>3, <4>1
    <3>4. CASE q = m
      BY <1>3, <1>4, <2>4, <3>1, <3>4
    <3> QED
      BY <3>2, <3>3, <3>4
  <2>7. \A q \in 1 .. n + 1 : list'["actuator"][q] = acts[q]
    BY <1>4, <1>5, <2>1, <2>5
  <2>8. ListedFor(acts, pos)'
    <3>1. n + 1 <= Len(acts)
      BY <1>4, <1>6, <2>3
    <3> QED
      BY <1>3, <1>5, <2>1, <2>6, <2>7, <3>1 DEF ListedFor, IsActuators
  <2> QED
    BY <2>8 DEF Listed
<1> QED
  BY <1>7, <1>8

LEMMA FwdAgrees ==
  ASSUME Typed, Sorted, FwdConstraintSet, NEW acts, IsActuators(acts), Listed(acts),
         NEW off, Offsets(acts, off), Agrees(off)
  PROVE  Agrees(off)'
<1> DEFINE n == Len(list["actuator"])
<1>1. PICK st : Starts("actuator", st) /\ \A m \in DOMAIN st : off[m] = st[m]
  BY DEF Agrees
<1>2. PICK c : c = sc.comps[next] /\ Passed(c) /\ PassedInto(c, c.kind)
  BY ComponentPassed
<1>3. Continues(st, list'["actuator"], rowIds'["actuator"], jac')
  BY <1>1, <1>2, FwdContinues DEF Sorted, Lists
<1>4. PICK t : Laid(list'["actuator"], rowIds'["actuator"], jac', t) /\ \A m \in DOMAIN st : t[m] = st[m]
  BY <1>3 DEF Continues
<1>5. Starts("actuator", t)'
  BY <1>4 DEF Starts
<1>6. n \in Nat /\ DOMAIN st = 1 .. n + 1 /\ DOMAIN t = 1 .. Len(list'["actuator"]) + 1
  BY <1>1, <1>4, RowNumbers DEF Starts, Laid, Lists
<1>7. \A m \in 1 .. n + 1 : off[m] = t[m]
  BY <1>1, <1>4, <1>6
<1>8. \A m \in DOMAIN t : off[m] = t[m]
  <2>1. CASE c.kind # "actuator"
    <3>1. list'["actuator"] = list["actuator"]
      BY <1>2, <2>1 DEF Passed, Lists
    <3> QED
      BY <1>6, <1>7, <3>1
  <2>2. CASE c.kind = "actuator"
    <3>1. Len(list'["actuator"]) = n + 1 /\ DOMAIN list'["actuator"] = 1 .. n + 1
      BY <1>2, <2>2 DEF PassedInto
    <3>2. Listed(acts)'
      BY FwdListed
    <3>3. PICK pos : ListedFor(acts, pos)'
      BY <3>2 DEF Listed
    <3> HIDE DEF n
    <3>4. n + 1 <= Len(acts) /\ list'["actuator"][n + 1] = acts[n + 1]
      BY <1>6, <3>1, <3>3 DEF ListedFor
    <3>5. n + 1 \in DOMAIN acts
      BY <1>6, <3>4 DEF IsActuators
    <3>6. off[n + 1 + 1] = off[n + 1] + acts[n + 1].lines
      BY <3>5 DEF Offsets
    <3>7. t[n + 1 + 1] = t[n + 1] + acts[n + 1].lines
      BY <1>4, <1>6, <3>1, <3>4 DEF Laid
    <3>8. off[n + 1 + 1] = t[n + 1 + 1]
      BY <1>6, <1>7, <3>6, <3>7
    <3>9. \A m \in DOMAIN t : m \in 1 .. n + 1 \/ m = n + 1 + 1
      BY <1>6, <3>1
    <3> QED
      BY <1>7, <3>8, <3>9
  <2> QED
    BY <2>1, <2>2
<1> QED
  BY <1>5, <1>8 DEF Agrees

(* At the end of the visit all of the robot's actuators are listed.        *)
LEMMA AllListed ==
  ASSUME Typed, next = Len(sc.comps) + 1, NEW acts, IsActuators(acts), Listed(acts)
  PROVE  Len(list["actuator"]) = Len(acts) /\ \A m \in DOMAIN acts : list["actuator"][m] = acts[m]
<1> DEFINE n == Len(list["actuator"])
<1>1. PICK pos : ListedFor(acts, pos)
  BY DEF Listed
<1>2. n \in Nat /\ DOMAIN list["actuator"] = 1 .. n
  BY RowNumbers DEF Lists
<1>3. Len(sc.comps) \in Nat /\ DOMAIN sc.comps = 1 .. Len(sc.comps)
  BY SceneFacts DEF Typed
<1>4. /\ pos \in [1 .. Len(acts) -> 1 .. Len(sc.comps)] /\ Len(acts) \in Nat /\ DOMAIN acts = 1 .. Len(acts)
      /\ \A m \in 1 .. Len(acts) : pos[m] < next <=> m <= n
      /\ n <= Len(acts) /\ \A m \in 1 .. n : list["actuator"][m] = acts[m]
  BY <1>1, <1>2, <1>3 DEF ListedFor, Among, IsActuators
<1> HIDE DEF n
<1>5. \A m \in 1 .. Len(acts) : m <= n
  BY <1>3, <1>4
<1>6. n = Len(acts)
  <2>1. CASE Len(acts) = 0
    BY <1>2, <1>4, <2>1
  <2>2. CASE Len(acts) # 0
    <3>1. Len(acts) \in 1 .. Len(acts)
      BY <1>4, <2>2
    <3>2. Len(acts) <= n
      BY <1>5, <3>1
    <3>3. n <= Len(acts) /\ n \in Nat /\ Len(acts) \in Nat
      BY <1>2, <1>4
    <3> HIDE DEF n
    <3> QED
      BY <3>2, <3>3
  <2> QED
    BY <2>1, <2>2
<1> QED
  BY <1>4, <1>6 DEF n

LEMMA RobotStays ==
  ASSUME NEW acts, RobotOf(acts), UNCHANGED <<lists, started, x>>
  PROVE  RobotOf(acts)'
<1>1. /\ sc' = sc /\ next' = next /\ jac' = jac /\ list' = list /\ rowIds' = rowIds
      /\ started' = started /\ x' = x
  BY DEF lists
<1>2. Listed(acts) => Listed(acts)'
  BY <1>1 DEF Listed, ListedFor
<1>3. \A off : Agrees(off) => Agrees(off)'
  BY <1>1 DEF Agrees, Starts
<1>4. \A off : ForcesOf(acts, off) => ForcesOf(acts, off)'
  BY <1>1 DEF ForcesOf
<1>5. Remembered(acts) => Remembered(acts)'
  BY <1>3, <1>4 DEF Remembered
<1> QED
  BY <1>1, <1>2, <1>5 DEF RobotOf

(* The forces of the variables of the actuators are those of the robot.    *)
LEMMA RobotSolved ==
  ASSUME Typed, Sorted, next = Len(sc.comps) + 1, NEW acts, RobotOf(acts), UNCHANGED lists,
         Len(x') >= NbRows("actuator"),
         \A v \in DOMAIN rowIds["actuator"] : x'[v] = ForceOn(rowIds["actuator"][v])
  PROVE  RobotOf(acts)'
<1> DEFINE n == Len(list["actuator"])
<1>1. /\ sc' = sc /\ next' = next /\ jac' = jac /\ list' = list /\ rowIds' = rowIds
  BY DEF lists
<1>2. Listed(acts)'
  BY <1>1 DEF RobotOf, Listed, ListedFor
<1>3. /\ n = Len(acts) /\ n \in Nat /\ DOMAIN acts = 1 .. n /\ DOMAIN list["actuator"] = 1 .. n
      /\ \A m \in 1 .. n : list["actuator"][m] = acts[m]
  BY AllListed, RowNumbers DEF RobotOf, IsActuators, Lists
<1>4. PICK st : Starts("actuator", st)
  BY DEF Sorted, Contiguous, InOrder, Starts, Lists
<1>5. /\ st \in [1 .. n + 1 -> Nat] /\ st[n + 1] = NbRows("actuator")
      /\ \A m \in 1 .. n : st[m + 1] = st[m] + acts[m].lines
      /\ \A m \in 1 .. n : \A j \in 1 .. acts[m].lines :
           /\ st[m] + j \in DOMAIN rowIds["actuator"]
           /\ jac[rowIds["actuator"][st[m] + j] + 1] = [of |-> acts[m], line |-> j]
  <2>1. /\ st \in [1 .. n + 1 -> Nat] /\ st[n + 1] = NbRows("actuator")
        /\ \A m \in 1 .. n : st[m + 1] = st[m] + list["actuator"][m].lines
        /\ \A m \in 1 .. n : \A j \in 1 .. list["actuator"][m].lines :
             /\ st[m] + j \in DOMAIN rowIds["actuator"]
             /\ jac[rowIds["actuator"][st[m] + j] + 1] = [of |-> list["actuator"][m], line |-> j]
    BY <1>3, <1>4 DEF Starts, Laid, NbRows
  <2>2. \A m \in 1 .. n : list["actuator"][m] = acts[m]
    BY <1>3
  <2> HIDE DEF n
  <2>3. ASSUME NEW m \in 1 .. n
        PROVE  /\ st[m + 1] = st[m] + acts[m].lines
               /\ \A j \in 1 .. acts[m].lines :
                    /\ st[m] + j \in DOMAIN rowIds["actuator"]
                    /\ jac[rowIds["actuator"][st[m] + j] + 1] = [of |-> acts[m], line |-> j]
    BY <2>1, <2>2, Zenon
  <2> QED
    BY <2>1, <2>3, Zenon
<1>6. Offsets(acts, st)
  BY <1>3, <1>5 DEF Offsets
<1>7. \A m \in 1 .. n : \A j \in 1 .. acts[m].lines : x'[st[m] + j] = <<acts[m].name, j>>
  <2> TAKE m \in 1 .. n
  <2> TAKE j \in 1 .. acts[m].lines
  <2> HIDE DEF n
  <2>1. /\ st[m] + j \in DOMAIN rowIds["actuator"]
        /\ jac[rowIds["actuator"][st[m] + j] + 1] = [of |-> acts[m], line |-> j]
    BY <1>5
  <2>2. ForceOn(rowIds["actuator"][st[m] + j]) = <<acts[m].name, j>>
    BY <2>1 DEF ForceOn
  <2> QED
    BY <2>1, <2>2
<1>8. ForcesOf(acts, st)'
  BY <1>3, <1>5, <1>7 DEF ForcesOf
<1>9. Agrees(st)'
  BY <1>1, <1>4 DEF Agrees, Starts
<1>10. Remembered(acts)'
  BY <1>6, <1>8, <1>9 DEF Remembered
<1> QED
  BY <1>1, <1>2, <1>10 DEF RobotOf

LEMMA RobotFeels ==
  ASSUME Typed, Sorted, next = Len(sc.comps) + 1, started, NEW acts, RobotOf(acts)
  PROVE  /\ Len(x) >= NbRows("actuator")
         /\ \A v \in DOMAIN rowIds["actuator"] : x[v] = ForceOn(rowIds["actuator"][v])
<1> DEFINE n == Len(list["actuator"])
<1>1. /\ n = Len(acts) /\ n \in Nat /\ DOMAIN acts = 1 .. n /\ DOMAIN list["actuator"] = 1 .. n
      /\ \A m \in 1 .. n : list["actuator"][m] = acts[m]
  BY AllListed, RowNumbers DEF RobotOf, IsActuators, Lists
<1>2. PICK off : Offsets(acts, off) /\ ForcesOf(acts, off) /\ Agrees(off)
  BY DEF RobotOf, Remembered
<1>3. PICK st : Starts("actuator", st) /\ \A m \in DOMAIN st : off[m] = st[m]
  BY <1>2 DEF Agrees
<1>4. DOMAIN st = 1 .. n + 1 /\ st[n + 1] = NbRows("actuator")
  BY <1>3 DEF Starts, Laid, NbRows
<1>5. Len(x) >= NbRows("actuator")
  BY <1>1, <1>2, <1>3, <1>4 DEF ForcesOf
<1>6. ASSUME NEW v \in DOMAIN rowIds["actuator"] PROVE x[v] = ForceOn(rowIds["actuator"][v])
  <2>1. PICK m, j : IsLine("actuator", st, v, m, j)
    BY <1>3, RowAt DEF Lists
  <2>2. /\ m \in 1 .. n /\ j \in 1 .. acts[m].lines /\ v = st[m] + j
        /\ jac[rowIds["actuator"][v] + 1] = [of |-> acts[m], line |-> j]
    BY <1>1, <2>1 DEF IsLine
  <2>3. off[m] = st[m]
    BY <1>1, <1>3, <1>4, <2>2
  <2>4. x[off[m] + j] = <<acts[m].name, j>>
    BY <1>1, <1>2, <2>2 DEF ForcesOf
  <2> QED
    BY <2>2, <2>3, <2>4 DEF ForceOn
<1> QED
  BY <1>5, <1>6

(* init() has given the variables before k the initial forces of their     *)
(* actuators and stands at the actuator of variable k.                     *)
InitWalk ==
  pc = "init" =>
    /\ ~started /\ DOMAIN x = 1 .. Dim /\ x = [v \in 1 .. Dim |-> x[v]]
    /\ k \in 1 .. NbRows("actuator") + 1
    /\ \A v \in 1 .. k - 1 : x[v] = ForceOn(rowIds["actuator"][v])
    /\ \A v \in 1 .. NbRows("actuator") : k = v => OnWalk("actuator", v)

WalksInv ==
  /\ EnergyInv /\ InitWalk
  /\ pc = "contacts" => started
  /\ \E acts : RobotOf(acts)

LEMMA VectorLength ==
  ASSUME NEW n \in Nat, NEW y, y = [v \in 1 .. n |-> y[v]]
  PROVE  Len(y) = n
<1>1. y \in Seq({y[v] : v \in 1 .. n})
  OBVIOUS
<1> QED
  BY <1>1

LEMMA WalksInit ==
  ASSUME SameActuators
  PROVE  Init => WalksInv
<1> SUFFICES ASSUME Init PROVE WalksInv
  OBVIOUS
<1>1. pc = "idle" /\ sc \in Scenes /\ next = 1 /\ list = [l \in Lists |-> <<>>] /\ started = FALSE
  BY DEF Init
<1>2. PICK acts \in Seq(Components(sc)) : IsRobot(sc.robot, acts)
  BY <1>1 DEF SameActuators
<1>3. IsActuators(acts)
  BY <1>1, SceneFacts DEF IsActuators
<1>4. PICK pos : Among(acts, sc.comps, pos)
  BY <1>1, <1>2 DEF IsRobot
<1>5. DOMAIN sc.comps = 1 .. Len(sc.comps) /\ Len(sc.comps) \in Nat
  BY <1>1, SceneFacts
<1>6. \A m \in DOMAIN acts : pos[m] >= 1 /\ pos[m] \in Nat /\ m >= 1 /\ m \in Nat
  BY <1>3, <1>4, <1>5 DEF Among, IsActuators
<1>7. list["actuator"] = <<>>
  BY <1>1 DEF Lists
<1>8. ListedFor(acts, pos)
  BY <1>1, <1>3, <1>4, <1>6, <1>7 DEF ListedFor, IsActuators
<1>9. RobotOf(acts)
  BY <1>1, <1>2, <1>3, <1>8 DEF RobotOf, Listed
<1> QED
  BY <1>1, <1>9, EnergyInit DEF WalksInv, InitWalk

LEMMA RobotCleared ==
  ASSUME Typed, ClearProblem, NEW acts, RobotOf(acts)
  PROVE  RobotOf(acts)'
<1>1. /\ sc' \in Scenes /\ sc'.robot = sc.robot /\ next' = 1 /\ jac' = <<>>
      /\ list' = [l \in Lists |-> <<>>] /\ rowIds' = [l \in Lists |-> <<>>]
      /\ started' = started /\ x' = x
  BY DEF ClearProblem
<1>2. IsActuators(acts) /\ IsRobot(sc.robot, acts)
  BY DEF RobotOf
<1>3. PICK pos : Among(acts, sc'.comps, pos)
  BY <1>1, <1>2 DEF IsRobot
<1>4. DOMAIN sc'.comps = 1 .. Len(sc'.comps) /\ Len(sc'.comps) \in Nat
  BY <1>1, SceneFacts
<1>5. \A m \in DOMAIN acts : pos[m] >= 1 /\ pos[m] \in Nat /\ m >= 1 /\ m \in Nat
  BY <1>2, <1>3, <1>4 DEF Among, IsActuators
<1>6. list'["actuator"] = <<>> /\ rowIds'["actuator"] = <<>>
  BY <1>1 DEF Lists
<1>7. ListedFor(acts, pos)'
  BY <1>1, <1>2, <1>3, <1>5, <1>6 DEF ListedFor, IsActuators
<1>8. ASSUME started PROVE Remembered(acts)'
  <2>1. PICK off : Offsets(acts, off) /\ ForcesOf(acts, off) /\ Agrees(off)
    BY <1>8 DEF RobotOf, Remembered
  <2>2. PICK st : Starts("actuator", st) /\ \A m \in DOMAIN st : off[m] = st[m]
    BY <2>1 DEF Agrees
  <2>3. off[1] = 0
    BY <2>2, RowNumbers DEF Starts, Laid, Lists
  <2> DEFINE z == [i \in {1} |-> 0]
  <2>4. Laid(<<>>, <<>>, <<>>, z)
    BY DEF Laid, Within
  <2>5. Starts("actuator", z)'
    BY <1>1, <1>6, <2>4 DEF Starts
  <2>6. \A m \in DOMAIN z : off[m] = z[m]
    BY <2>3
  <2>7. Agrees(off)'
    BY <2>5, <2>6 DEF Agrees
  <2>8. ForcesOf(acts, off)'
    BY <1>1, <2>1 DEF ForcesOf
  <2> QED
    BY <2>1, <2>7, <2>8 DEF Remembered
<1> QED
  BY <1>1, <1>2, <1>7, <1>8 DEF RobotOf, Listed

LEMMA RobotBefore ==
  ASSUME NEW acts, RobotOf(acts), UNCHANGED lists, ~started'
  PROVE  RobotOf(acts)'
<1>1. sc' = sc /\ next' = next /\ list' = list
  BY DEF lists
<1>2. Listed(acts) => Listed(acts)'
  BY <1>1 DEF Listed, ListedFor
<1> QED
  BY <1>1, <1>2 DEF RobotOf

LEMMA RobotPassed ==
  ASSUME Typed, Sorted, FwdConstraintSet, NEW acts, RobotOf(acts)
  PROVE  RobotOf(acts)'
<1>1. sc' = sc /\ started' = started /\ x' = x
  BY DEF FwdConstraintSet
<1>2. Listed(acts)'
  BY FwdListed DEF RobotOf
<1>3. ASSUME started PROVE Remembered(acts)'
  <2>1. PICK off : Offsets(acts, off) /\ ForcesOf(acts, off) /\ Agrees(off)
    BY <1>3 DEF RobotOf, Remembered
  <2>2. Agrees(off)'
    BY <2>1, FwdAgrees DEF RobotOf
  <2>3. ForcesOf(acts, off)'
    BY <1>1, <2>1 DEF ForcesOf
  <2> QED
    BY <2>1, <2>2, <2>3 DEF Remembered
<1> QED
  BY <1>1, <1>2, <1>3 DEF RobotOf

LEMMA InitLambdaWalks ==
  ASSUME Typed, Sorted, Visited, EnergyInv', WalksInv, InitLambda
  PROVE  WalksInv'
<1> DEFINE na == NbRows("actuator")
<1>1. na \in Nat /\ Dim \in Nat /\ na <= Dim /\ DOMAIN rowIds["actuator"] = 1 .. na /\ k \in Nat
  BY RowNumbers DEF Lists, Dim, Typed
<1>2. UNCHANGED lists /\ pc = "init" /\ rowIds' = rowIds /\ jac' = jac /\ sc' = sc
  BY DEF InitLambda, lists
<1>3. na' = na /\ Dim' = Dim
  BY <1>2 DEF NbRows, Dim
<1>4. /\ ~started /\ DOMAIN x = 1 .. Dim /\ x = [v \in 1 .. Dim |-> x[v]] /\ k \in 1 .. na + 1
      /\ \A v \in 1 .. k - 1 : x[v] = ForceOn(rowIds["actuator"][v])
      /\ \A v \in 1 .. na : k = v => OnWalk("actuator", v)
  BY <1>2 DEF WalksInv, InitWalk
<1>5. PICK acts : RobotOf(acts)
  BY DEF WalksInv
<1>6. \A r : ForceOn(r)' = ForceOn(r)
  BY <1>2 DEF ForceOn
<1>7. next = Len(sc.comps) + 1
  BY <1>2 DEF Visited
<1>8. CASE k <= na
  <2> DEFINE c == list["actuator"][id]
  <2>1. /\ x' = [x EXCEPT ![k] = <<c.name, line + 1>>] /\ Advance(c)
        /\ k' = k + 1 /\ pc' = pc /\ started' = started
    BY <1>2, <1>8 DEF InitLambda
  <2>2. OnWalk("actuator", k) /\ "actuator" \in Walked /\ "actuator" \in Lists
    BY <1>1, <1>4, <1>8 DEF Walked, Lists
  <2>3. jac[rowIds["actuator"][k] + 1] = [of |-> c, line |-> line + 1]
    BY <2>2, WalkReachesOwner
  <2>4. ForceOn(rowIds["actuator"][k]) = <<c.name, line + 1>>
    BY <2>3 DEF ForceOn
  <2> HIDE DEF c, na
  <2>5. DOMAIN x' = 1 .. Dim /\ x' = [v \in 1 .. Dim |-> x'[v]]
    BY <1>4, <2>1
  <2>6. k \in 1 .. Dim /\ k' \in 1 .. na + 1
    BY <1>1, <1>4, <1>8, <2>1
  <2>7. \A v \in 1 .. k' - 1 : x'[v] = ForceOn(rowIds["actuator"][v])
    <3> TAKE v \in 1 .. k' - 1
    <3>1. v \in 1 .. Dim /\ (v \in 1 .. k - 1 \/ v = k)
      BY <1>1, <1>8, <2>1, <2>6
    <3>2. CASE v = k
      BY <1>4, <2>1, <2>4, <2>6, <3>2
    <3>3. CASE v # k
      <4>1. x'[v] = x[v]
        BY <1>4, <2>1, <3>1, <3>3
      <4> QED
        BY <1>4, <3>1, <3>3, <4>1
    <3> QED
      BY <3>2, <3>3
  <2>8. ASSUME NEW v \in 1 .. na, k' = v PROVE OnWalk("actuator", v)'
    <3>1. k < na /\ v = k + 1
      BY <1>1, <2>1, <2>8
    <3>2. \A w : OnWalk("actuator", w) /\ w < na => OnWalk("actuator", w + 1)'
      BY <1>2, <2>1, <2>2, WalkContinues DEF na, c, WalksInv, EnergyInv
    <3>3. PICK w : w = k
      OBVIOUS
    <3>4. OnWalk("actuator", w + 1)'
      BY <2>2, <3>1, <3>2, <3>3
    <3>5. v = w + 1
      BY <3>1, <3>3
    <3> QED
      BY <3>4, <3>5
  <2>9. InitWalk'
    BY <1>2, <1>3, <1>4, <1>6, <2>1, <2>5, <2>6, <2>7, <2>8 DEF InitWalk, na
  <2>10. RobotOf(acts)'
    BY <1>2, <1>4, <1>5, <2>1, RobotBefore
  <2> QED
    BY <1>2, <2>1, <2>9, <2>10 DEF WalksInv
<1>9. CASE k > na
  <2>1. pc' = "contacts" /\ started' = TRUE /\ x' = x
    BY <1>1, <1>9 DEF InitLambda
  <2> HIDE DEF na
  <2>2. k - 1 = na
    BY <1>1, <1>4, <1>9
  <2>3. Len(x) = Dim
    BY <1>1, <1>4, VectorLength
  <2>4. Len(x') >= na
    BY <1>1, <2>1, <2>3
  <2>5. \A v \in DOMAIN rowIds["actuator"] : x'[v] = ForceOn(rowIds["actuator"][v])
    BY <1>1, <1>4, <2>1, <2>2
  <2>6. RobotOf(acts)'
    BY <1>2, <1>5, <1>7, <2>4, <2>5, RobotSolved DEF na
  <2> QED
    BY <2>1, <2>6 DEF WalksInv, InitWalk
<1> QED
  BY <1>1, <1>8, <1>9

LEMMA SolveWalks ==
  ASSUME Typed, Sorted, EnergyInv', WalksInv, Solve
  PROVE  WalksInv'
<1>1. UNCHANGED lists /\ k' = 1 /\ id' = 1 /\ line' = 0 /\ started' = started /\ pc = "visit"
  BY DEF Solve
<1>2. NbRows("actuator") \in Nat /\ Dim \in Nat
  BY RowNumbers DEF Lists, Dim
<1>3. NbRows("actuator")' = NbRows("actuator") /\ Dim' = Dim
  BY <1>1 DEF lists, NbRows, Dim
<1>4. PICK acts : RobotOf(acts)
  BY DEF WalksInv
<1>5. CASE pc' = "init"
  <2>1. ~started /\ x' = [v \in 1 .. Dim |-> Zero]
    BY <1>5 DEF Solve
  <2>2. DOMAIN x' = 1 .. Dim /\ x' = [v \in 1 .. Dim |-> x'[v]]
    BY <2>1
  <2>3. ASSUME NEW v \in 1 .. NbRows("actuator"), k' = v PROVE OnWalk("actuator", v)'
    <3>1. v = 1 /\ NbRows("actuator") > 0
      BY <1>1, <1>2, <2>3
    <3>2. OnWalk("actuator", 1)'
      BY <1>1, <3>1, WalkBegins DEF Walked, WalksInv, EnergyInv
    <3> QED
      BY <3>1, <3>2
  <2>4. InitWalk'
    BY <1>1, <1>2, <1>3, <2>1, <2>2, <2>3 DEF InitWalk
  <2>5. RobotOf(acts)'
    BY <1>1, <1>4, <2>1, RobotBefore
  <2> QED
    BY <1>5, <2>4, <2>5 DEF WalksInv
<1>6. CASE pc' # "init"
  <2>1. x' = x /\ (pc' = "contacts" => started)
    BY <1>6 DEF Solve
  <2>2. RobotOf(acts)'
    BY <1>1, <1>4, <2>1, RobotStays
  <2> QED
    BY <1>1, <1>6, <2>1, <2>2 DEF WalksInv, InitWalk
<1> QED
  BY <1>5, <1>6

LEMMA SolveContactsWalks ==
  ASSUME Typed, Sorted, Visited, EnergyInv', WalksInv, SolveContacts
  PROVE  WalksInv'
<1> DEFINE na == NbRows("actuator")
<1>1. na \in Nat /\ Dim \in Nat /\ na <= Dim /\ DOMAIN rowIds["actuator"] = 1 .. na
  BY RowNumbers DEF Lists, Dim
<1>2. /\ UNCHANGED lists /\ pc = "contacts" /\ pc' \in {"energy", "store"} /\ started' = started
      /\ x' = [v \in 1 .. Dim |->
                IF v <= na THEN IF Len(x) >= na THEN x[v] ELSE Zero
                ELSE IF v <= na + NbRows("contact") THEN ForceOn(rowIds["contact"][v - na])
                ELSE Zero]
  BY DEF SolveContacts
<1>3. PICK acts : RobotOf(acts)
  BY DEF WalksInv
<1>4. started /\ next = Len(sc.comps) + 1
  BY <1>2 DEF WalksInv, Visited
<1>5. Len(x) >= na /\ \A v \in DOMAIN rowIds["actuator"] : x[v] = ForceOn(rowIds["actuator"][v])
  BY <1>3, <1>4, RobotFeels
<1> HIDE DEF na
<1>6. x' = [v \in 1 .. Dim |-> x'[v]]
  BY <1>2
<1>7. Len(x') = Dim
  BY <1>1, <1>6, VectorLength
<1>8. Len(x') >= na
  BY <1>1, <1>7
<1>9. ASSUME NEW v \in DOMAIN rowIds["actuator"] PROVE x'[v] = ForceOn(rowIds["actuator"][v])
  <2>1. v \in 1 .. Dim /\ v <= na
    BY <1>1
  <2>2. x'[v] = x[v]
    BY <1>2, <1>5, <2>1
  <2> QED
    BY <1>5, <2>2
<1>10. RobotOf(acts)'
  BY <1>2, <1>3, <1>4, <1>8, <1>9, RobotSolved DEF na
<1> QED
  BY <1>2, <1>10 DEF WalksInv, InitWalk

LEMMA SolveInverseProblemWalks ==
  ASSUME Typed, Sorted, Visited, EnergyInv', WalksInv, SolveInverseProblem
  PROVE  WalksInv'
<1> DEFINE na == NbRows("actuator")
<1>1. na \in Nat /\ Dim \in Nat /\ na <= Dim /\ DOMAIN rowIds["actuator"] = 1 .. na
  BY RowNumbers DEF Lists, Dim
<1>2. /\ UNCHANGED lists /\ pc = "qp" /\ pc' = "store"
      /\ x' = [v \in 1 .. Dim |-> ForceOn(AcIds(v))]
  BY DEF SolveInverseProblem
<1>3. PICK acts : RobotOf(acts)
  BY DEF WalksInv
<1>4. next = Len(sc.comps) + 1
  BY <1>2 DEF Visited
<1>5. \A v \in 1 .. na : AcIds(v) = rowIds["actuator"][v]
  BY <1>1 DEF AcIds
<1> HIDE DEF na
<1>6. x' = [v \in 1 .. Dim |-> x'[v]]
  BY <1>2
<1>7. Len(x') = Dim
  BY <1>1, <1>6, VectorLength
<1>8. Len(x') >= na
  BY <1>1, <1>7
<1>9. \A v \in DOMAIN rowIds["actuator"] : x'[v] = ForceOn(rowIds["actuator"][v])
  BY <1>1, <1>2, <1>5
<1>10. RobotOf(acts)'
  BY <1>2, <1>3, <1>4, <1>8, <1>9, RobotSolved DEF na
<1> QED
  BY <1>2, <1>10 DEF WalksInv, InitWalk

LEMMA WalksNext ==
  ASSUME InvalidLast
  PROVE  ListsInv /\ WalksInv /\ [Next]_vars => WalksInv'
<1> SUFFICES ASSUME ListsInv, WalksInv, [Next]_vars PROVE WalksInv'
  OBVIOUS
<1>1. Typed /\ Sorted /\ Visited
  BY DEF ListsInv, Sorted
<1>2. EnergyInv'
  BY EnergyNext DEF WalksInv
<1>3. PICK acts : RobotOf(acts)
  BY DEF WalksInv
<1>4. ASSUME UNCHANGED <<lists, started, x>>, pc' \notin {"init", "contacts"}
      PROVE  WalksInv'
  BY <1>2, <1>3, <1>4, RobotStays DEF WalksInv, InitWalk
<1>5. CASE ClearProblem
  BY <1>1, <1>2, <1>3, <1>5, RobotCleared DEF WalksInv, InitWalk, ClearProblem
<1>6. CASE FwdConstraintSet
  BY <1>1, <1>2, <1>3, <1>6, RobotPassed DEF WalksInv, InitWalk, FwdConstraintSet
<1>7. CASE Solve
  BY <1>1, <1>2, <1>7, SolveWalks
<1>8. CASE InitLambda
  BY <1>1, <1>2, <1>8, InitLambdaWalks
<1>9. CASE SolveContacts
  BY <1>1, <1>2, <1>9, SolveContactsWalks
<1>10. CASE BuildQPMatrices
  BY <1>4, <1>10 DEF BuildQPMatrices
<1>11. CASE SolveInverseProblem
  BY <1>1, <1>2, <1>11, SolveInverseProblemWalks
<1>12. CASE StoreResults
  BY <1>4, <1>12 DEF StoreResults
<1>13. CASE SendResults
  <2>1. pc \in {"actuator", "equality", "effector", "sensor"}
    BY <1>13 DEF SendResults, Lists
  <2>2. pc' \notin {"init", "contacts"}
    <3>1. CASE NextList(pc)
      BY <2>1, <3>1 DEF NextList, Following
    <3>2. CASE Send(pc)
      BY <2>1, <3>2 DEF Send
    <3> QED
      BY <1>13, <3>1, <3>2 DEF SendResults
  <2> QED
    BY <1>4, <1>13, <2>2 DEF SendResults
<1>14. CASE UNCHANGED vars
  <2>1. /\ UNCHANGED <<lists, started, x>> /\ pc' = pc /\ k' = k /\ id' = id /\ line' = line
        /\ list' = list /\ rowIds' = rowIds /\ jac' = jac /\ started' = started /\ x' = x
    BY <1>14 DEF vars, lists
  <2>2. RobotOf(acts)'
    BY <1>3, <2>1, RobotStays
  <2>3. InitWalk'
    <3>1. NbRows("actuator")' = NbRows("actuator") /\ Dim' = Dim
      BY <2>1 DEF NbRows, Dim
    <3>2. \A v : OnWalk("actuator", v) => OnWalk("actuator", v)'
      BY <2>1 DEF OnWalk, Starts
    <3>3. \A r : ForceOn(r)' = ForceOn(r)
      BY <2>1 DEF ForceOn
    <3>4. InitWalk
      BY DEF WalksInv
    <3> QED
      BY <2>1, <3>1, <3>2, <3>3, <3>4 DEF InitWalk
  <2> QED
    BY <1>2, <2>1, <2>2, <2>3 DEF WalksInv
<1> QED
  BY <1>5, <1>6, <1>7, <1>8, <1>9, <1>10, <1>11, <1>12, <1>13, <1>14 DEF Next

(* The energy of a variable is weighed with the epsilon of the component   *)
(* whose force it is, and solveContacts() starts from forces of the same   *)
(* actuators: for every robot that keeps its actuators and lists those     *)
(* without rows last, however its contacts come and go.                    *)
THEOREM WalksReachOwners ==
  ASSUME ActuatedAmongContacts, InvalidLast, SameActuators
  PROVE  Spec => []WalksReachTheOwners
<1>1. Init => WalksInv
  BY WalksInit
<1>2. ListsInv /\ WalksInv /\ [Next]_vars => WalksInv'
  BY WalksNext
<1>3. ListsInv /\ WalksInv => WalksReachTheOwners
  <2> SUFFICES ASSUME ListsInv, WalksInv PROVE WalksReachTheOwners
    OBVIOUS
  <2>1. EnergyOfOwner
    BY DEF WalksInv, EnergyInv, Weighed
  <2>2. ASSUME pc = "contacts"
        PROVE  /\ Len(x) >= NbRows("actuator")
               /\ \A v \in 1 .. NbRows("actuator") : x[v] = ForceOn(AcIds(v))
    <3>1. started /\ Typed /\ Sorted /\ next = Len(sc.comps) + 1
      BY <2>2 DEF WalksInv, ListsInv, Sorted, Visited
    <3>2. PICK acts : RobotOf(acts)
      BY DEF WalksInv
    <3>3. /\ Len(x) >= NbRows("actuator")
          /\ \A v \in DOMAIN rowIds["actuator"] : x[v] = ForceOn(rowIds["actuator"][v])
      BY <3>1, <3>2, RobotFeels
    <3>4. DOMAIN rowIds["actuator"] = 1 .. NbRows("actuator") /\ NbRows("actuator") \in Nat
      BY <3>1, RowNumbers DEF Lists
    <3>5. \A v \in 1 .. NbRows("actuator") : AcIds(v) = rowIds["actuator"][v]
      BY <3>4 DEF AcIds
    <3> QED
      BY <3>3, <3>4, <3>5
  <2> QED
    BY <2>1, <2>2 DEF WalksReachTheOwners, ContactsFeelTheActuators
<1> QED
  BY <1>1, <1>2, <1>3, ListsInvariant, PTL DEF Spec
=============================================================================

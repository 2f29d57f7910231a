--------------------- MODULE QPInverseProblemImpl_proofs ---------------------
(***************************************************************************)
(* Proofs about QPInverseProblemImpl, for all scenes and all bounds.       *)
(***************************************************************************)
EXTENDS QPInverseProblemImpl, FiniteSetTheorems, TLAPS

ContactStates == {"active", "inactive", "stick", "sliding"}

-----------------------------------------------------------------------------
(* Facts about the numbers of a scene.                                     *)

(* The numbers of lines and points of the contacts are natural numbers.    *)
LEMMA SceneNumbers ==
  ASSUME NEW s \in Scenes
  PROVE  /\ ContactNbLines(s) \in {1, 3}
         /\ NbContactPoints(s) \in Nat
         /\ Dim(s) \in Nat
BY ScenesAssumption DEF ContactNbLines, NbContactPoints, Dim

(* The walk over the equality rows reaches the contacts at a natural       *)
(* number, whatever the first equality component is.                       *)
LEMMA ContactStartIsNat ==
  ASSUME NEW s \in Scenes
  PROVE  InequalityContactStart(s) \in Nat
<1>1. CASE s.ne = 0
  BY <1>1, ScenesAssumption DEF InequalityContactStart
<1>2. CASE s.ne # 0
  <2> DEFINE e == CHOOSE x \in s.eq : x.first = s.na
  <2>1. \E x \in s.eq : x.first = s.na
    <3>1. s.na \in s.na .. s.na + s.ne - 1
      BY <1>2, ScenesAssumption
    <3>2. PICK c \in s.eq : s.na \in c.first .. c.first + c.lines - 1 /\ c.first >= s.na
      BY <3>1, ScenesAssumption DEF Tile
    <3>3. c.first \in Nat /\ c.lines \in Nat
      BY ScenesAssumption DEF Equality
    <3> QED
      BY <3>2, <3>3, ScenesAssumption
  <2>2. e \in s.eq
    BY <2>1
  <2>3. e.lines \in Nat /\ e.lines > 0
    BY <2>2, ScenesAssumption DEF Equality, Tile
  <2>4. \A n, m \in Nat : n > 0 => n * ((m + n - 1) \div n) \in Nat
    <3>1. \A n, k \in Nat : n > 0 => k \div n \in Nat
      OBVIOUS
    <3>2. \A n, k \in Nat : n * k \in Nat
      OBVIOUS
    <3> QED
      BY <3>1, <3>2
  <2>5. s.na \in Nat /\ s.ne \in Nat
    BY ScenesAssumption
  <2>6. InequalityContactStart(s) = s.na + e.lines * ((s.ne + e.lines - 1) \div e.lines)
    BY <1>2 DEF InequalityContactStart
  <2> QED
    BY <2>3, <2>4, <2>5, <2>6
<1> QED
  BY <1>1, <1>2
(* A walk over the contacts from a natural number visits natural numbers.  *)
LEMMA WalkIsNat ==
  ASSUME NEW s \in Scenes, NEW start \in Nat, NEW i \in ContactWalk(s, start)
  PROVE  i \in Nat
BY SceneNumbers, ScenesAssumption DEF ContactWalk

-----------------------------------------------------------------------------
(* The rows that the assembly produces are rows.                           *)

LEMMA InequalityRowsAreRows ==
  ASSUME NEW s \in Scenes, NEW st, NEW f \in BOOLEAN
  PROVE  /\ BothSides(s, f) \in BOOLEAN
         /\ InequalityRows(s, st, f) \subseteq Row
<1> DEFINE both == BothSides(s, f)
<1>1. both \in BOOLEAN /\ FlagFromActuators(s, f) \in BOOLEAN
  BY ScenesAssumption DEF BothSides, FlagFromActuators
<1>2. AddContactLimits(s, st, f) \subseteq Row
  <2>1. ((s.minF /\ s.maxF) \/ FlagFromActuators(s, f)) \in BOOLEAN
    BY <1>1
  <2>2. [id |-> 0, kind |-> "forceSum", line |-> 0,
         lo |-> (s.minF /\ s.maxF) \/ FlagFromActuators(s, f)] \in Row
    BY <2>1 DEF Row, Kinds
  <2> QED
    BY <2>2 DEF AddContactLimits
<1>3. ASSUME NEW a \in s.act
      PROVE  ActuatorRows(a, both) \subseteq Row
  <2>1. a.first \in Nat /\ a.lines \in Nat
    BY ScenesAssumption DEF Actuator
  <2>2. ((a.dMax /\ a.dMin) \/ both) \in BOOLEAN
    BY <1>1
  <2> HIDE DEF both
  <2>3. ASSUME NEW k \in 0 .. a.lines - 1
        PROVE  [id |-> a.first, kind |-> "actuator", line |-> k,
                lo |-> (a.dMax /\ a.dMin) \/ both] \in Row
    BY <2>1, <2>2 DEF Row, Kinds
  <2> QED
    BY <2>3 DEF ActuatorRows
<1>4. ASSUME NEW i \in ContactWalk(s, InequalityContactStart(s)), NEW h
      PROVE  ContactInequalityRows(s, h, i, both) \subseteq Row
  <2>1. i \in Nat
    BY ContactStartIsNat, WalkIsNat
  <2> HIDE DEF both
  <2>3. CASE h = "inactive"
    <3>1. [id |-> i, kind |-> "gap", line |-> 0, lo |-> both] \in Row
      BY <1>1, <2>1 DEF Row, Kinds
    <3> QED
      BY <2>3, <3>1 DEF ContactInequalityRows
  <2>4. CASE h = "stick" /\ s.slide
    <3>1. \A k \in 0 .. 3 : [id |-> i + 1, kind |-> "cone", line |-> k, lo |-> both] \in Row
      BY <1>1, <2>1 DEF Row, Kinds
    <3> QED
      BY <2>4, <3>1 DEF ContactInequalityRows
  <2>5. CASE h = "sliding"
    <3>1. \A k \in 1 .. 2 : [id |-> i + k, kind |-> "slip", line |-> k, lo |-> both] \in Row
      BY <1>1, <2>1 DEF Row, Kinds
    <3> QED
      BY <2>5, <3>1 DEF ContactInequalityRows
  <2>6. CASE h # "inactive" /\ ~(h = "stick" /\ s.slide) /\ h # "sliding"
    BY <2>6 DEF ContactInequalityRows
  <2> QED
    BY <2>3, <2>4, <2>5, <2>6
<1> HIDE DEF both
<1>5. InequalityRows(s, st, f) =
        AddContactLimits(s, st, f)
          \cup (UNION {ActuatorRows(a, both) : a \in s.act})
          \cup (UNION {ContactInequalityRows(s, HandlerAt(s, st, i), i, both)
                         : i \in ContactWalk(s, InequalityContactStart(s))})
  BY DEF InequalityRows, both
<1>6. BothSides(s, f) \in BOOLEAN
  BY <1>1 DEF both
<1> QED
  BY <1>2, <1>3, <1>4, <1>5, <1>6

LEMMA EqualityRowsAreRows ==
  ASSUME NEW s \in Scenes, NEW st
  PROVE  EqualityRows(s, st) \subseteq Row
<1>1. ASSUME NEW c \in s.act \cup s.eq
      PROVE  EqualRows(c) \subseteq Row
  <2>1. c.first \in Nat /\ c.lines \in Nat
    BY ScenesAssumption DEF Actuator, Equality
  <2>2. ASSUME NEW t \in {"lambdaEq", "deltaEq"}, NEW k \in 0 .. c.lines - 1
        PROVE  [id |-> c.first, kind |-> t, line |-> k, lo |-> TRUE] \in Row
    BY <2>1 DEF Row, Kinds
  <2> QED
    BY <2>2 DEF EqualRows
<1>2. ASSUME NEW i \in ContactWalk(s, s.na + s.ne), NEW h
      PROVE  ContactEqualityRows(h, i) \subseteq Row
  <2>1. s.na + s.ne \in Nat
    BY ScenesAssumption
  <2>2. i \in Nat
    BY <2>1, WalkIsNat
  <2>3. [id |-> i, kind |-> "closed", line |-> 0, lo |-> TRUE] \in Row
    BY <2>2 DEF Row, Kinds
  <2>4. CASE h = "stick"
    <3>1. \A k \in 1 .. 2 : [id |-> i + k, kind |-> "stuck", line |-> k, lo |-> TRUE] \in Row
      BY <2>2 DEF Row, Kinds
    <3> QED
      BY <2>3, <2>4, <3>1 DEF ContactEqualityRows
  <2>5. CASE h = "sliding"
    <3>1. [id |-> i + 1, kind |-> "coneEq", line |-> 1, lo |-> TRUE] \in Row
      BY <2>2 DEF Row, Kinds
    <3> QED
      BY <2>3, <2>5, <3>1 DEF ContactEqualityRows
  <2>6. CASE h = "active"
    BY <2>3, <2>6 DEF ContactEqualityRows
  <2>7. CASE h \notin {"stick", "sliding", "active"}
    BY <2>7 DEF ContactEqualityRows
  <2> QED
    BY <2>4, <2>5, <2>6, <2>7
<1>3. ASSUME NEW r \in EqualityRows(s, st)
      PROVE  r \in Row
  <2>1. CASE \E c \in s.act \cup s.eq : r \in EqualRows(c)
    BY <1>1, <2>1
  <2>2. CASE \E i \in ContactWalk(s, s.na + s.ne) :
                r \in ContactEqualityRows(HandlerAt(s, st, i), i)
    BY <1>2, <2>2
  <2> QED
    BY <1>3, <2>1, <2>2 DEF EqualityRows
<1> QED
  BY <1>3

-----------------------------------------------------------------------------
(* Type correctness.                                                       *)

(* A pivot leaves every contact in one of the four states.                 *)
LEMMA PivotKeepsStates ==
  ASSUME TypeOK, NEW c, Pivot(c)
  PROVE  states' \in [DOMAIN states' -> ContactStates]
<1> DEFINE p == c \div ContactNbLines(sc)
           new == GetNewContactHandler(states[p], sc.mu, sc.slide, ans[p])
<1>1. states' = [states EXCEPT ![p] = new]
  BY DEF Pivot
<1>2. states \in [DOMAIN states -> ContactStates]
  BY DEF TypeOK, ContactStates
<1>3. ASSUME p \in DOMAIN states
      PROVE  new \in ContactStates
  <2>1. states[p] \in ContactStates
    BY <1>2, <1>3
  <2> QED
    BY <2>1 DEF GetNewContactHandler, ContactStates
<1> HIDE DEF p, new
<1> QED
  BY <1>1, <1>2, <1>3

(* Recording a pivot leaves sequences of natural numbers.                  *)
LEMMA RecordPivotType ==
  ASSUME TypeOK, NEW c \in Nat, RecordPivot(c)
  PROVE  cur' \in Seq(Nat) /\ seq' \in Seq(Nat) /\ prev' \in Seq(Nat)
<1>1. cur \in Seq(Nat) /\ seq \in Seq(Nat) /\ prev \in Seq(Nat)
  BY DEF TypeOK
<1>2. <<c>> \in Seq(Nat) /\ Append(cur, c) \in Seq(Nat)
  BY <1>1
<1>3. CASE \E i \in DOMAIN cur : cur[i] = c
  BY <1>1, <1>2, <1>3 DEF RecordPivot
<1>4. CASE ~ \E i \in DOMAIN cur : cur[i] = c
  BY <1>1, <1>2, <1>4 DEF RecordPivot
<1> QED
  BY <1>3, <1>4

LEMMA TypeOKInit == Init => TypeOK
<1> SUFFICES ASSUME Init PROVE TypeOK
  OBVIOUS
<1> USE BoundsAssumption
<1>1. states \in [DOMAIN states -> ContactStates]
  BY DEF Init, NoStates
<1>2. /\ cid \in Seq(SUBSET Row)
      /\ cur \in Seq(Nat) /\ seq \in Seq(Nat) /\ prev \in Seq(Nat)
  BY DEF Init
<1>3. A \subseteq Row /\ Aeq \subseteq Row /\ released \subseteq Row
  BY DEF Init
<1>4. iter \in 0 .. MaxNbPivot + 1 /\ iter <= MaxNbPivot
  BY DEF Init
<1>5. pc \in PCs /\ lambda \in Solutions /\ forces \in {"none", "init", "applied"}
  BY DEF Init, PCs, Solutions
<1>6. sc \in Scenes /\ flag \in BOOLEAN /\ stop \in BOOLEAN /\ mstep \in BOOLEAN
  BY DEF Init
<1> QED
  BY <1>1, <1>2, <1>3, <1>4, <1>5, <1>6 DEF TypeOK, Phases, ContactStates

LEMMA TypeOKNext == TypeOK /\ [Next]_vars => TypeOK'
<1> SUFFICES ASSUME TypeOK, [Next]_vars PROVE TypeOK'
  OBVIOUS
<1> USE BoundsAssumption
<1>1. CASE BeginStep
  <2>1. sc' \in Scenes /\ pc' \in PCs
    BY <1>1 DEF BeginStep, PCs
  <2>2. lambda' \in Solutions
    BY <1>1 DEF BeginStep, TypeOK, Solutions
  <2>3. A' \subseteq Row /\ Aeq' \subseteq Row /\ iter' = 0 /\ stop' = FALSE
    BY <1>1 DEF BeginStep
  <2>4. iter' \in 0 .. MaxNbPivot + 1 /\ iter' <= MaxNbPivot
    BY <2>3
  <2>5. UNCHANGED <<states, flag, released, cid, pivots, forces, mstep>>
    BY <1>1 DEF BeginStep
  <2> QED
    BY <2>1, <2>2, <2>3, <2>4, <2>5 DEF TypeOK, Phases, pivots
<1>2. CASE SolveContacts
  <2>1. states' \in [DOMAIN states' -> ContactStates]
    <3>1. CASE sc.na > 0
      <4>1. states' \in InitialStates(sc)
        BY <1>2, <3>1 DEF SolveContacts
      <4> QED
        BY <4>1 DEF InitialStates, AllowedStates, ContactStates
    <3>2. CASE ~(sc.na > 0)
      BY <1>2, <3>2 DEF SolveContacts, ContactStates
    <3> QED
      BY <3>1, <3>2
  <2>2. pc' \in {"build", "store"}
    BY <1>2 DEF SolveContacts
  <2> QED
    BY <1>2, <2>1, <2>2 DEF SolveContacts, TypeOK, PCs, Phases, rows, pivots, Solutions, ContactStates
<1>3. CASE BuildConstraints
  <2>1. InequalityRows(sc, states, flag) \subseteq Row /\ BothSides(sc, flag) \in BOOLEAN
    BY InequalityRowsAreRows DEF TypeOK
  <2>2. EqualityRows(sc, states) \subseteq Row
    BY EqualityRowsAreRows DEF TypeOK
  <2>3. A' \subseteq Row /\ Aeq' \subseteq Row /\ flag' \in BOOLEAN
    BY <1>3, <2>1, <2>2 DEF BuildConstraints, TypeOK
  <2>4. ConstraintsIdBefore \in Seq(SUBSET Row)
    BY DEF ConstraintsIdBefore, TypeOK
  <2>5. cid' \in Seq(SUBSET Row)
    BY <1>3, <2>3, <2>4 DEF BuildConstraints
  <2> QED
    BY <1>3, <2>3, <2>5 DEF BuildConstraints, TypeOK, PCs, Phases, pivots, solution
<1>4. CASE SolveInverseProblem
  <2>1. pc' \in {"pivot", "store", "release", "indefinite"}
    BY <1>4 DEF SolveInverseProblem, Result
  <2>2. lambda' \in Solutions /\ forces' \in {"none", "init", "applied"}
    BY <1>4 DEF SolveInverseProblem, Result, TypeOK, Solutions, solution
  <2> QED
    BY <1>4, <2>1, <2>2 DEF SolveInverseProblem, TypeOK, PCs, Phases, rows, pivots
<1>5. CASE ReleaseAndRetry
  <2>1. pc' \in {"pivot", "store", "indefinite"}
    BY <1>5 DEF ReleaseAndRetry, Result
  <2>2. lambda' \in Solutions /\ forces' \in {"none", "init", "applied"}
    BY <1>5 DEF ReleaseAndRetry, Result, TypeOK, Solutions, solution
  <2>3. released' \subseteq A
    BY <1>5 DEF ReleaseAndRetry, Releasable
  <2> QED
    BY <1>5, <2>1, <2>2, <2>3 DEF ReleaseAndRetry, TypeOK, PCs, Phases, pivots
<1>6. CASE RebuildAndRetry
  <2>1. InequalityRows(sc, states, flag) \subseteq Row /\ BothSides(sc, flag) \in BOOLEAN
    BY InequalityRowsAreRows DEF TypeOK
  <2>2. pc' \in {"pivot", "store"}
    BY <1>6 DEF RebuildAndRetry, Result
  <2>3. lambda' \in Solutions /\ forces' \in {"none", "init", "applied"}
    BY <1>6 DEF RebuildAndRetry, Result, TypeOK, Solutions
  <2>4. A' \subseteq Row /\ flag' \in BOOLEAN /\ released' = {}
    BY <1>6, <2>1 DEF RebuildAndRetry
  <2>5. cid' \in Seq(SUBSET Row)
    BY <1>6, <2>4 DEF RebuildAndRetry, TypeOK
  <2> QED
    BY <1>6, <2>2, <2>3, <2>4, <2>5 DEF RebuildAndRetry, TypeOK, PCs, Phases, pivots
<1>7. CASE CheckAndUpdatePivot
  <2>1. /\ pc = "pivot" /\ iter' = iter + 1
        /\ pc' = IF ~stop' /\ iter' <= MaxNbPivot THEN "build" ELSE "leave"
    BY <1>7 DEF CheckAndUpdatePivot, EndOfTurn
  <2>2. /\ pc' \in PCs /\ iter' \in 0 .. MaxNbPivot + 1
        /\ pc' \in {"contacts", "build", "qp", "release", "indefinite", "pivot"} => iter' <= MaxNbPivot
    BY <2>1 DEF TypeOK, PCs, Phases
  <2>3. lambda' \in Solutions /\ forces' \in {"none", "init", "applied"}
    BY <1>7 DEF CheckAndUpdatePivot, EndOfTurn, TypeOK, Solutions, solution
  <2>4. /\ states' \in [DOMAIN states' -> ContactStates] /\ stop' \in BOOLEAN
        /\ cur' \in Seq(Nat) /\ seq' \in Seq(Nat) /\ prev' \in Seq(Nat)
    <3>1. CASE \E c \in Pivotable : Pivot(c)
      <4>1. PICK c \in Pivotable : Pivot(c)
        BY <3>1
      <4>2. c \in Nat
        BY <4>1, ScenesAssumption DEF Pivotable, Candidates, TypeOK
      <4>3. states' \in [DOMAIN states' -> ContactStates]
        BY <4>1, PivotKeepsStates
      <4>4. RecordPivot(c) /\ stop' = FALSE
        BY <4>1 DEF Pivot
      <4> QED
        BY <4>2, <4>3, <4>4, RecordPivotType
    <3>2. CASE NoPivot
      BY <3>2 DEF NoPivot, TypeOK, pivots, ContactStates
    <3> QED
      BY <1>7, <3>1, <3>2 DEF CheckAndUpdatePivot
  <2> QED
    BY <1>7, <2>2, <2>3, <2>4 DEF CheckAndUpdatePivot, TypeOK, Phases, rows, ContactStates
<1>8. CASE LeaveLoop
  <2>1. states' \in [DOMAIN states' -> ContactStates]
    BY <1>8 DEF LeaveLoop, NoStates
  <2> QED
    BY <1>8, <2>1 DEF LeaveLoop, TypeOK, PCs, Phases, rows, solution, ContactStates
<1>9. CASE StoreResults
  BY <1>9 DEF StoreResults, TypeOK, PCs, Phases, rows, pivots, solution
<1>10. CASE UNCHANGED vars
  BY <1>10 DEF vars, TypeOK, Phases
<1> QED
  BY <1>1, <1>2, <1>3, <1>4, <1>5, <1>6, <1>7, <1>8, <1>9, <1>10 DEF Next, Solve

(* Every variable keeps its type, and no turn of the pivot loop of         *)
(* solveWithContact begins beyond m_maxNbPivot.                            *)
THEOREM TypeCorrect == Spec => []TypeOK
<1> QED
  BY TypeOKInit, TypeOKNext, PTL DEF Spec

-----------------------------------------------------------------------------
(* The record of the pivots.  One fact carries the argument: a row can be  *)
(* pivoted again only if it was not the last one, so a sequence that is    *)
(* closed has at least two rows, and the one-row sequence begun next       *)
(* differs from every recorded one.                                        *)

(* A sequence is closed only when it has two rows or more.                 *)
LEMMA ClosedSequenceIsLong ==
  ASSUME NEW c \in Nat, cur \in Seq(Nat), ~IsCycling(c),
         \E i \in DOMAIN cur : cur[i] = c
  PROVE  Len(cur) # 1 /\ cur # <<>>
<1>1. PICK i \in DOMAIN cur : cur[i] = c
  OBVIOUS
<1>2. Len(cur) \in Nat /\ DOMAIN cur = 1 .. Len(cur)
  OBVIOUS
<1>3. cur # <<>> /\ cur[Len(cur)] # c
  BY <1>1 DEF IsCycling
<1>4. i # Len(cur)
  BY <1>1, <1>3
<1>5. Len(cur) # 1
  BY <1>1, <1>2, <1>4
<1> QED
  BY <1>3, <1>5

(* A row that is not in a simple sequence may be appended to it.           *)
LEMMA AppendIsSimple ==
  ASSUME NEW c \in Nat, NEW s \in Seq(Nat), IsSimple(s), ~ \E i \in DOMAIN s : s[i] = c
  PROVE  IsSimple(Append(s, c))
<1>1. /\ Len(s) \in Nat /\ DOMAIN s = 1 .. Len(s)
      /\ DOMAIN Append(s, c) = 1 .. Len(s) + 1
  OBVIOUS
<1>2. ASSUME NEW i \in 1 .. Len(s) PROVE Append(s, c)[i] = s[i]
  OBVIOUS
<1>3. Append(s, c)[Len(s) + 1] = c
  OBVIOUS
<1>4. ASSUME NEW i \in DOMAIN Append(s, c), NEW j \in DOMAIN Append(s, c),
             Append(s, c)[i] = Append(s, c)[j]
      PROVE  i = j
  <2>1. CASE i \in 1 .. Len(s) /\ j \in 1 .. Len(s)
    BY <1>1, <1>2, <1>4, <2>1 DEF IsSimple
  <2>2. CASE i = Len(s) + 1 /\ j \in 1 .. Len(s)
    BY <1>1, <1>2, <1>3, <1>4, <2>2
  <2>3. CASE i \in 1 .. Len(s) /\ j = Len(s) + 1
    BY <1>1, <1>2, <1>3, <1>4, <2>3
  <2> QED
    BY <1>1, <2>1, <2>2, <2>3
<1> QED
  BY <1>4 DEF IsSimple

(* One recorded pivot keeps NoReplay.                                      *)
LEMMA RecordPivotNoReplay ==
  ASSUME TypeOK, NoReplay, NEW c \in Nat, ~IsCycling(c), RecordPivot(c)
  PROVE  NoReplay'
<1>1. cur \in Seq(Nat) /\ seq \in Seq(Nat) /\ prev \in Seq(Nat)
  BY DEF TypeOK
<1>2. CASE \E i \in DOMAIN cur : cur[i] = c
  <2>1. prev' = seq /\ seq' = cur /\ cur' = <<c>>
    BY <1>2 DEF RecordPivot
  <2>2. Len(cur) # 1 /\ cur # <<>>
    BY <1>1, <1>2, ClosedSequenceIsLong
  <2>3. IsSimple(<<c>>)
    <3>1. DOMAIN <<c>> = {1}
      OBVIOUS
    <3> QED
      BY <3>1 DEF IsSimple
  <2>4. Len(<<c>>) = 1
    OBVIOUS
  <2>5. <<c>> # cur /\ <<c>> # seq
    <3>1. Len(seq) # 1 /\ Len(cur) # 1
      BY <2>2, Zenon DEF NoReplay
    <3>2. ASSUME <<c>> = cur PROVE FALSE
      <4>1. Len(cur) = Len(<<c>>)
        BY <3>2, Zenon
      <4> QED
        BY <2>4, <3>1, <4>1
    <3>3. ASSUME <<c>> = seq PROVE FALSE
      <4>1. Len(seq) = Len(<<c>>)
        BY <3>3, Zenon
      <4> QED
        BY <2>4, <3>1, <4>1
    <3> QED
      BY <3>2, <3>3, Zenon
  <2>6. IsSimple(cur)' /\ IsSimple(seq)' /\ IsSimple(prev)'
    <3>1. IsSimple(cur') /\ IsSimple(seq') /\ IsSimple(prev')
      BY <2>1, <2>3 DEF NoReplay
    <3> QED
      BY <3>1 DEF IsSimple
  <2>7. Len(seq') # 1 /\ Len(prev') # 1
    BY <2>1, <2>2, Zenon DEF NoReplay
  <2>8. cur' # seq' /\ cur' # prev' /\ seq' # <<>>
    BY <2>1, <2>2, <2>5, Zenon
  <2> QED
    BY <2>6, <2>7, <2>8 DEF NoReplay
<1>3. CASE ~ \E i \in DOMAIN cur : cur[i] = c
  <2>1. cur' = Append(cur, c) /\ seq' = seq /\ prev' = prev
    BY <1>3 DEF RecordPivot
  <2>2. IsSimple(Append(cur, c))
    BY <1>1, <1>3, AppendIsSimple DEF NoReplay
  <2>3. Append(cur, c) # seq /\ Append(cur, c) # prev
    BY DEF IsCycling
  <2> QED
    BY <2>1, <2>2, <2>3 DEF NoReplay, IsSimple
<1> QED
  BY <1>2, <1>3

(* One recorded pivot is of another row than the one before.               *)
LEMMA RecordPivotMovesOn ==
  ASSUME TypeOK, NEW c \in Nat, ~IsCycling(c), RecordPivot(c), cur # <<>>
  PROVE  cur'[Len(cur')] # cur[Len(cur)]
<1>1. cur \in Seq(Nat)
  BY DEF TypeOK
<1>2. cur[Len(cur)] # c
  BY DEF IsCycling
<1>3. CASE cur' = <<c>>
  BY <1>2, <1>3
<1>4. CASE cur' = Append(cur, c)
  <2>1. Len(cur') = Len(cur) + 1 /\ cur'[Len(cur) + 1] = c
    BY <1>1, <1>4
  <2> QED
    BY <1>2, <2>1
<1> QED
  BY <1>3, <1>4 DEF RecordPivot

(* A step that changes the record either clears it or records a pivot that *)
(* isCycling let through.                                                  *)
LEMMA StepsOfTheRecord ==
  ASSUME TypeOK, [Next]_vars
  PROVE  \/ UNCHANGED pivots
         \/ cur' = <<>> /\ seq' = <<>> /\ prev' = <<>>
         \/ \E c \in Nat : ~IsCycling(c) /\ RecordPivot(c)
<1>1. CASE CheckAndUpdatePivot
  <2>1. CASE NoPivot
    BY <2>1 DEF NoPivot
  <2>2. ASSUME NEW c \in Pivotable, Pivot(c)
        PROVE  c \in Nat /\ ~IsCycling(c) /\ RecordPivot(c)
    <3>1. sc.nc \in Nat
      BY ScenesAssumption DEF TypeOK
    <3>2. c \in Nat
      BY <2>2, <3>1 DEF Pivotable, Candidates
    <3> QED
      BY <2>2, <3>2 DEF Pivotable, Pivot
  <2> QED
    BY <1>1, <2>1, <2>2 DEF CheckAndUpdatePivot
<1>2. CASE LeaveLoop
  BY <1>2 DEF LeaveLoop
<1>3. CASE BeginStep
  BY <1>3 DEF BeginStep
<1>4. CASE SolveContacts \/ BuildConstraints \/ StoreResults
  BY <1>4 DEF SolveContacts, BuildConstraints, StoreResults
<1>5. CASE SolveInverseProblem \/ ReleaseAndRetry \/ RebuildAndRetry
  BY <1>5 DEF SolveInverseProblem, ReleaseAndRetry, RebuildAndRetry
<1>6. CASE UNCHANGED vars
  BY <1>6 DEF vars, pivots
<1> QED
  BY <1>1, <1>2, <1>3, <1>4, <1>5, <1>6 DEF Next, Solve

(* The pivot algorithm never retraces a recorded sequence of pivots, for   *)
(* every scene, every number of contacts and every bound on the pivots:    *)
(* isCycling and the turnover of the three sequences in                    *)
(* checkAndUpdatePivot.                                                    *)
THEOREM PivotsDoNotReplay == Spec => []NoReplay
<1>1. Init => NoReplay
  BY DEF Init, NoReplay, IsSimple
<1>2. TypeOK /\ NoReplay /\ [Next]_vars => NoReplay'
  <2> SUFFICES ASSUME TypeOK, NoReplay, [Next]_vars PROVE NoReplay'
    OBVIOUS
  <2>1. CASE UNCHANGED pivots
    BY <2>1 DEF pivots, NoReplay, IsSimple
  <2>2. CASE cur' = <<>> /\ seq' = <<>> /\ prev' = <<>>
    BY <2>2 DEF NoReplay, IsSimple
  <2>3. CASE \E c \in Nat : ~IsCycling(c) /\ RecordPivot(c)
    BY <2>3, RecordPivotNoReplay
  <2> QED
    BY <2>1, <2>2, <2>3, StepsOfTheRecord
<1> QED
  BY <1>1, <1>2, TypeCorrect, PTL DEF Spec

(* No contact row is pivoted twice in a row (isCycling), whatever the      *)
(* answers of the QP solver.                                               *)
THEOREM PivotsMoveOn == Spec => NoImmediateRepivot
<1>1. ASSUME TypeOK, [Next]_vars
      PROVE  [(cur # <<>> /\ cur' # <<>> /\ cur' # cur)
                 => cur'[Len(cur')] # cur[Len(cur)]]_vars
  <2>1. CASE UNCHANGED pivots
    BY <2>1 DEF pivots
  <2>2. CASE cur' = <<>>
    BY <2>2
  <2>3. CASE \E c \in Nat : ~IsCycling(c) /\ RecordPivot(c)
    <3>1. PICK c \in Nat : ~IsCycling(c) /\ RecordPivot(c)
      BY <2>3
    <3>2. cur # <<>> => cur'[Len(cur')] # cur[Len(cur)]
      BY <1>1, <3>1, RecordPivotMovesOn
    <3> QED
      BY <3>2
  <2> QED
    BY <1>1, <2>1, <2>2, <2>3, StepsOfTheRecord
<1> QED
  BY <1>1, TypeCorrect, PTL DEF Spec, NoImmediateRepivot

(* Assembling a second time with the flag that the first one left gives    *)
(* the same rows (RebuildAndRetry), and the flag does not change again.    *)
LEMMA AssemblyIsIdempotent ==
  ASSUME NEW s, NEW st, NEW f \in BOOLEAN, s.minF \in BOOLEAN, s.maxF \in BOOLEAN
  PROVE  LET g == BothSides(s, f) IN
         /\ BothSides(s, g) = g
         /\ InequalityRows(s, st, g) = InequalityRows(s, st, f)
<1> DEFINE g == BothSides(s, f)
<1>1. g \in BOOLEAN /\ FlagFromActuators(s, f) \in BOOLEAN
  BY DEF BothSides, FlagFromActuators
<1>2. BothSides(s, g) = g
  BY DEF BothSides, FlagFromActuators
<1>3. AddContactLimits(s, st, g) = AddContactLimits(s, st, f)
  <2>1. ((s.minF /\ s.maxF) \/ FlagFromActuators(s, g)) = ((s.minF /\ s.maxF) \/ FlagFromActuators(s, f))
    BY DEF BothSides, FlagFromActuators
  <2> QED
    BY <2>1, Zenon DEF AddContactLimits
<1> HIDE DEF g
<1>4. InequalityRows(s, st, g) = InequalityRows(s, st, f)
  BY <1>2, <1>3, Zenon DEF InequalityRows, g
<1> QED
  BY <1>2, <1>4 DEF g

(* Every row of a problem that is flagged two-sided has its entry in bl.   *)
LEMMA TwoSidedRowsHaveLowerBounds ==
  ASSUME NEW s, NEW st, NEW f \in BOOLEAN, BothSides(s, f) = TRUE,
         s.minF \in BOOLEAN, s.maxF \in BOOLEAN,
         NEW r \in InequalityRows(s, st, f)
  PROVE  r.lo = TRUE
<1>1. CASE r \in AddContactLimits(s, st, f)
  <2>1. ((s.minF /\ s.maxF) \/ FlagFromActuators(s, f)) = TRUE
    BY DEF BothSides, FlagFromActuators
  <2> QED
    BY <1>1, <2>1 DEF AddContactLimits
<1>2. ASSUME NEW a \in s.act, r \in ActuatorRows(a, TRUE)
      PROVE  r.lo = TRUE
  <2>1. ((a.dMax /\ a.dMin) \/ TRUE) = TRUE
    OBVIOUS
  <2>2. PICK k : r = [id |-> a.first, kind |-> "actuator", line |-> k,
                      lo |-> (a.dMax /\ a.dMin) \/ TRUE]
    BY <1>2, Zenon DEF ActuatorRows
  <2> QED
    BY <2>1, <2>2
<1>3. ASSUME NEW i, NEW h, r \in ContactInequalityRows(s, h, i, TRUE)
      PROVE  r.lo = TRUE
  BY <1>3 DEF ContactInequalityRows
<1> QED
  BY <1>1, <1>2, <1>3 DEF InequalityRows

(* The handlers are as many as checkCListsConsistency expects.             *)
LEMMA HandlersAreConsistent ==
  ASSUME NEW s \in Scenes, NEW st, s.nc > 0 => DOMAIN st = 0 .. NbContactPoints(s) - 1
  PROVE  CListsConsistent(s, st)
<1>1. NbContactPoints(s) \in Nat
  BY SceneNumbers
<1>2. Cardinality(0 .. NbContactPoints(s) - 1) = NbContactPoints(s)
  BY <1>1, FS_Interval
<1> QED
  BY <1>2 DEF CListsConsistent

(* The replacement of a contact's state is a state of the same mode.       *)
LEMMA NewHandlerIsInMode ==
  ASSUME NEW friction \in BOOLEAN, NEW slide \in BOOLEAN, NEW a,
         NEW s \in AllowedStates(friction, slide)
  PROVE  GetNewContactHandler(s, friction, slide, a) \in AllowedStates(friction, slide)
BY DEF AllowedStates, GetNewContactHandler

-----------------------------------------------------------------------------
(* The assembly.  In every phase of a turn the matrices, the flag and      *)
(* constraintsId are those that the states of the contacts call for; in    *)
(* the phases that follow an assembly directly nothing is released; a step *)
(* begins with contacts that are all open, as does one that follows a step *)
(* without actuators, which leaves its handlers behind.                    *)
Assembled ==
  /\ flag = BothSides(sc, flag)
  /\ A = InequalityRows(sc, states, flag) /\ Aeq = EqualityRows(sc, states)
  /\ sc.nc > 0 => Len(cid) >= 2 /\ cid[1] = A /\ cid[2] = Aeq
Unreleased == released = {} /\ bounds = ConstraintOnLambda(sc, states, bounds)
AllOpen == \A p \in DOMAIN states : states[p] = "inactive"
OneHandlerPerPoint ==
  IF sc.nc > 0 THEN DOMAIN states = 0 .. NbContactPoints(sc) - 1 ELSE AllOpen

InTurn == {"build", "qp", "release", "indefinite", "pivot"}
HasContacts == Phases({"contacts", "pivot", "leave"}) => sc.nc > 0
BetweenTurns == Phases({"idle", "contacts", "store"}) => AllOpen
DuringTurns == Phases(InTurn) => OneHandlerPerPoint
AfterAssembly == Phases(InTurn \ {"build"}) => Assembled
BeforeRetry == (Phases({"qp", "release", "indefinite"}) /\ sc.nc > 0) => Len(cid) = 2
AfterRetry == (pc = "qp" \/ (pc = "pivot" /\ Len(cid) > 2)) => Unreleased
StopMeansSolved == (pc = "leave" /\ stop) => lambda = "last"

AssemblyInv ==
  /\ HasContacts /\ BetweenTurns /\ DuringTurns /\ StatesInMode
  /\ AfterAssembly /\ BeforeRetry /\ AfterRetry
  /\ StopMeansSolved /\ StoredForcesAreTheLastSolved

LEMMA AssemblyInit == Init => AssemblyInv
BY DEF Init, AssemblyInv, HasContacts, BetweenTurns, AllOpen, DuringTurns, StatesInMode,
       AfterAssembly, BeforeRetry, AfterRetry, StopMeansSolved, StoredForcesAreTheLastSolved,
       Phases, InTurn, NoStates

LEMMA BeginStepAssembly ==
  ASSUME TypeOK, AssemblyInv, BeginStep
  PROVE  AssemblyInv'
<1>1. pc = "idle" /\ states' = states /\ sc' \in Scenes /\ stop' = FALSE
  BY DEF BeginStep
<1>2. AllOpen
  BY <1>1 DEF AssemblyInv, BetweenTurns, Phases
<1>3. /\ sc'.nc > 0 => pc' = "contacts"
      /\ sc'.nc = 0 /\ sc'.na + sc'.ne > 0 => pc' = "build"
      /\ sc'.nc = 0 /\ sc'.na + sc'.ne = 0 => pc' = "store"
  BY <1>1, ScenesAssumption DEF BeginStep
<1>4. sc'.nc \in Nat /\ sc'.na \in Nat /\ sc'.ne \in Nat
  BY <1>1, ScenesAssumption
<1>5. AllOpen'
  BY <1>1, <1>2 DEF AllOpen
<1>6. StatesInMode'
  <2>1. \A m, l : "inactive" \in AllowedStates(m, l)
    BY DEF AllowedStates
  <2> QED
    BY <1>5, <2>1, Zenon DEF StatesInMode, AllOpen
<1>7. pc' \in {"contacts", "build", "store"}
  BY <1>3, <1>4
<1>8. (HasContacts /\ DuringTurns)'
  BY <1>3, <1>4, <1>5, <1>7 DEF HasContacts, DuringTurns, OneHandlerPerPoint, Phases, InTurn
<1>9. (AfterAssembly /\ BeforeRetry /\ AfterRetry /\ StopMeansSolved)'
  BY <1>7 DEF AfterAssembly, BeforeRetry, AfterRetry, StopMeansSolved, Phases, InTurn
<1>10. StoredForcesAreTheLastSolved'
  BY <1>3, <1>4, <1>7 DEF StoredForcesAreTheLastSolved
<1> QED
  BY <1>5, <1>6, <1>8, <1>9, <1>10 DEF AssemblyInv, BetweenTurns

LEMMA SolveContactsAssembly ==
  ASSUME TypeOK, AssemblyInv, SolveContacts
  PROVE  AssemblyInv'
<1>1. pc = "contacts" /\ sc' = sc /\ sc \in Scenes /\ sc.nc > 0
  BY DEF SolveContacts, AssemblyInv, HasContacts, Phases, TypeOK
<1>2. sc.na \in Nat
  BY <1>1, ScenesAssumption
<1>3. CASE sc.na > 0
  <2>1. pc' = "build" /\ states' \in InitialStates(sc)
    BY <1>3 DEF SolveContacts
  <2>2. StatesInMode' /\ DuringTurns'
    BY <1>1, <2>1 DEF StatesInMode, DuringTurns, OneHandlerPerPoint, InitialStates
  <2> QED
    BY <2>1, <2>2 DEF AssemblyInv, HasContacts, BetweenTurns, AfterAssembly, BeforeRetry, AfterRetry,
                      StopMeansSolved, StoredForcesAreTheLastSolved, Phases, InTurn
<1>4. CASE ~(sc.na > 0)
  <2>1. pc' = "store" /\ states' = [p \in 0 .. NbContactPoints(sc) - 1 |-> "inactive"]
    BY <1>4 DEF SolveContacts
  <2>2. AllOpen'
    BY <2>1 DEF AllOpen
  <2>3. StoredForcesAreTheLastSolved'
    BY <1>1, <1>4 DEF StoredForcesAreTheLastSolved
  <2> QED
    BY <2>1, <2>2, <2>3 DEF AssemblyInv, HasContacts, BetweenTurns, DuringTurns, StatesInMode, AfterAssembly,
                      BeforeRetry, AfterRetry, StopMeansSolved, Phases, InTurn
<1> QED
  BY <1>3, <1>4

LEMMA BuildAssembly ==
  ASSUME TypeOK, AssemblyInv, BuildConstraints
  PROVE  AssemblyInv'
<1>1. pc = "build" /\ pc' = "qp" /\ sc' = sc /\ states' = states /\ sc \in Scenes
  BY DEF BuildConstraints, TypeOK
<1>2. OneHandlerPerPoint /\ StatesInMode
  BY <1>1 DEF AssemblyInv, DuringTurns, Phases, InTurn
<1>3. CListsConsistent(sc, states)
  BY <1>1, <1>2, HandlersAreConsistent DEF OneHandlerPerPoint
<1>4. /\ A' = InequalityRows(sc, states, flag)
      /\ flag' = BothSides(sc, flag)
      /\ Aeq' = EqualityRows(sc, states)
      /\ cid' = ConstraintsIdBefore \o <<A', Aeq'>>
  BY <1>3 DEF BuildConstraints
<1>5. flag \in BOOLEAN /\ sc.minF \in BOOLEAN /\ sc.maxF \in BOOLEAN
  BY <1>1, ScenesAssumption DEF TypeOK
<1>6. BothSides(sc, flag') = flag' /\ InequalityRows(sc, states, flag') = A'
  BY <1>4, <1>5, AssemblyIsIdempotent
<1>7. sc.nc > 0 => Len(cid') = 2 /\ cid'[1] = A' /\ cid'[2] = Aeq'
  <2>1. \A x, y : LET q == <<>> \o <<x, y>> IN Len(q) = 2 /\ q[1] = x /\ q[2] = y
    OBVIOUS
  <2> QED
    BY <1>4, <2>1, Zenon DEF ConstraintsIdBefore
<1>8. Assembled'
  BY <1>1, <1>4, <1>6, <1>7 DEF Assembled
<1>9. BeforeRetry'
  BY <1>1, <1>7 DEF BeforeRetry
<1>10. released' = {} /\ bounds' = ConstraintOnLambda(sc, states, bounds)
  BY DEF BuildConstraints
<1>11. Unreleased'
  BY <1>1, <1>10 DEF Unreleased, ConstraintOnLambda
<1>12. OneHandlerPerPoint' /\ StatesInMode'
  BY <1>1, <1>2 DEF OneHandlerPerPoint, AllOpen, StatesInMode, Phases
<1> QED
  BY <1>1, <1>8, <1>9, <1>11, <1>12
  DEF AssemblyInv, HasContacts, BetweenTurns, DuringTurns, AfterAssembly, AfterRetry,
      StopMeansSolved, StoredForcesAreTheLastSolved, Phases, InTurn

(* The end of solveInverseProblem touches neither rows nor states.         *)
LEMMA ResultAssembly ==
  ASSUME TypeOK, NEW solved \in BOOLEAN, Result(solved)
  PROVE  /\ pc' = IF sc.nc > 0 THEN "pivot" ELSE "store"
         /\ sc.nc = 0 => lambda' = "last"
BY ScenesAssumption DEF Result, TypeOK

LEMMA SolveAssembly ==
  ASSUME TypeOK, AssemblyInv, SolveInverseProblem
  PROVE  AssemblyInv'
<1>1. /\ pc = "qp" /\ sc' = sc /\ states' = states /\ stop' = stop /\ sc \in Scenes
      /\ UNCHANGED <<A, Aeq, released, bounds, cid, flag>>
  BY DEF SolveInverseProblem, TypeOK, rows
<1>2. /\ OneHandlerPerPoint /\ StatesInMode /\ Assembled /\ Unreleased
      /\ sc.nc > 0 => Len(cid) = 2
  BY <1>1 DEF AssemblyInv, DuringTurns, AfterAssembly, BeforeRetry, AfterRetry, Phases, InTurn
<1>3. OneHandlerPerPoint' /\ (sc.nc = 0 => AllOpen)' /\ Assembled' /\ Unreleased' /\ (sc.nc > 0 => Len(cid) = 2)'
  BY <1>1, <1>2 DEF OneHandlerPerPoint, AllOpen, Assembled, Unreleased, ConstraintOnLambda
<1>4. StatesInMode'
  BY <1>1, <1>2 DEF StatesInMode, Phases
<1>5. \/ pc' = "pivot" /\ sc.nc > 0
      \/ pc' = "store" /\ sc.nc = 0 /\ lambda' = "last"
      \/ pc' \in {"release", "indefinite"}
  <2>1. sc.nc \in Nat
    BY <1>1, ScenesAssumption
  <2>2. ASSUME NEW solved \in BOOLEAN, Result(solved)
        PROVE  \/ pc' = "pivot" /\ sc.nc > 0
               \/ pc' = "store" /\ sc.nc = 0 /\ lambda' = "last"
    BY <2>1, <2>2, ResultAssembly
  <2> QED
    BY <2>2 DEF SolveInverseProblem
<1> QED
  BY <1>1, <1>3, <1>4, <1>5
  DEF AssemblyInv, HasContacts, BetweenTurns, DuringTurns, AfterAssembly, BeforeRetry, AfterRetry,
      StopMeansSolved, StoredForcesAreTheLastSolved, Phases, InTurn

LEMMA ReleaseAssembly ==
  ASSUME TypeOK, AssemblyInv, ReleaseAndRetry
  PROVE  AssemblyInv'
<1>1. /\ pc = "release" /\ sc' = sc /\ states' = states /\ stop' = stop /\ sc \in Scenes
      /\ UNCHANGED <<A, Aeq, cid, flag>>
  BY DEF ReleaseAndRetry, TypeOK
<1>2. /\ OneHandlerPerPoint /\ StatesInMode /\ Assembled
      /\ sc.nc > 0 => Len(cid) = 2
  BY <1>1 DEF AssemblyInv, DuringTurns, AfterAssembly, BeforeRetry, Phases, InTurn
<1>3. OneHandlerPerPoint' /\ (sc.nc = 0 => AllOpen)' /\ Assembled' /\ (sc.nc > 0 => Len(cid) = 2)'
  BY <1>1, <1>2 DEF OneHandlerPerPoint, AllOpen, Assembled
<1>4. StatesInMode'
  BY <1>1, <1>2 DEF StatesInMode, Phases
<1>5. \/ pc' = "pivot" /\ sc.nc > 0
      \/ pc' = "store" /\ sc.nc = 0 /\ lambda' = "last"
      \/ pc' = "indefinite"
  <2>1. sc.nc \in Nat
    BY <1>1, ScenesAssumption
  <2>2. ASSUME Result(TRUE)
        PROVE  \/ pc' = "pivot" /\ sc.nc > 0
               \/ pc' = "store" /\ sc.nc = 0 /\ lambda' = "last"
    BY <2>1, <2>2 DEF Result
  <2> QED
    BY <2>2 DEF ReleaseAndRetry
<1>6. AfterRetry'
  <2>1. pc' = "pivot" => Len(cid') = 2
    BY <1>1, <1>2, <1>5
  <2>2. pc' # "qp" /\ ~(2 > 2)
    BY <1>5
  <2> QED
    BY <2>1, <2>2 DEF AfterRetry
<1> QED
  BY <1>1, <1>3, <1>4, <1>5, <1>6
  DEF AssemblyInv, HasContacts, BetweenTurns, DuringTurns, AfterAssembly, BeforeRetry,
      StopMeansSolved, StoredForcesAreTheLastSolved, Phases, InTurn

LEMMA RebuildAssembly ==
  ASSUME TypeOK, AssemblyInv, RebuildAndRetry
  PROVE  AssemblyInv'
<1>1. /\ pc = "indefinite" /\ sc' = sc /\ states' = states /\ stop' = stop /\ sc \in Scenes
      /\ A' = InequalityRows(sc, states, flag) /\ flag' = BothSides(sc, flag) /\ Aeq' = Aeq
      /\ cid' = Append(cid, A') /\ released' = {} /\ bounds' = ConstraintOnLambda(sc, states, bounds)
  BY DEF RebuildAndRetry, TypeOK
<1>2. /\ OneHandlerPerPoint /\ StatesInMode /\ Assembled
      /\ sc.nc > 0 => Len(cid) = 2
  BY <1>1 DEF AssemblyInv, DuringTurns, AfterAssembly, BeforeRetry, Phases, InTurn
<1>3. A' = A /\ flag' = flag
  BY <1>1, <1>2 DEF Assembled
<1>4. sc.nc > 0 => cid'[1] = A' /\ cid'[2] = Aeq' /\ Len(cid') >= 2
  <2>1. cid \in Seq(SUBSET Row)
    BY DEF TypeOK
  <2>2. sc.nc > 0 => Len(cid) = 2 /\ cid[1] = A /\ cid[2] = Aeq
    BY <1>2 DEF Assembled
  <2> QED
    BY <1>1, <1>3, <2>1, <2>2
<1>5. Assembled'
  BY <1>1, <1>2, <1>3, <1>4 DEF Assembled
<1>6. OneHandlerPerPoint' /\ (sc.nc = 0 => AllOpen)' /\ Unreleased'
  BY <1>1, <1>2 DEF OneHandlerPerPoint, AllOpen, Unreleased, ConstraintOnLambda
<1>7. StatesInMode'
  BY <1>1, <1>2 DEF StatesInMode, Phases
<1>8. \/ pc' = "pivot" /\ sc.nc > 0
      \/ pc' = "store" /\ sc.nc = 0 /\ lambda' = "last"
  <2>1. sc.nc \in Nat
    BY <1>1, ScenesAssumption
  <2> QED
    BY <2>1, ResultAssembly DEF RebuildAndRetry
<1> QED
  BY <1>1, <1>5, <1>6, <1>7, <1>8
  DEF AssemblyInv, HasContacts, BetweenTurns, DuringTurns, AfterAssembly, BeforeRetry, AfterRetry,
      StopMeansSolved, StoredForcesAreTheLastSolved, Phases, InTurn

(* A pivot changes the state of one contact to another of the mode.        *)
LEMMA PivotAssembly ==
  ASSUME TypeOK, AssemblyInv, CheckAndUpdatePivot
  PROVE  AssemblyInv'
<1>1. /\ pc = "pivot" /\ sc' = sc /\ sc \in Scenes /\ sc.nc > 0
      /\ pc' \in {"build", "leave"}
  BY DEF CheckAndUpdatePivot, EndOfTurn, TypeOK, AssemblyInv, HasContacts, Phases
<1>2. OneHandlerPerPoint /\ StatesInMode
  BY <1>1 DEF AssemblyInv, DuringTurns, Phases, InTurn
<1>3. /\ DOMAIN states' = DOMAIN states
      /\ \A p \in DOMAIN states : states'[p] \in AllowedStates(sc.mu, sc.slide)
  <2>1. \A p \in DOMAIN states : states[p] \in AllowedStates(sc.mu, sc.slide)
    BY <1>1, <1>2 DEF StatesInMode, Phases
  <2>2. sc.mu \in BOOLEAN /\ sc.slide \in BOOLEAN
    BY <1>1, ScenesAssumption
  <2>3. ASSUME NEW c \in Pivotable, Pivot(c)
        PROVE  <1>3!:
    <3> DEFINE p == c \div ContactNbLines(sc)
               new == GetNewContactHandler(states[p], sc.mu, sc.slide, ans[p])
    <3>1. states' = [states EXCEPT ![p] = new]
      BY <2>3 DEF Pivot
    <3>2. p \in DOMAIN states => new \in AllowedStates(sc.mu, sc.slide)
      BY <2>1, <2>2, NewHandlerIsInMode
    <3>3. states \in [DOMAIN states -> ContactStates]
      BY DEF TypeOK, ContactStates
    <3> HIDE DEF p, new
    <3> QED
      BY <2>1, <3>1, <3>2, <3>3
  <2>4. CASE NoPivot
    BY <2>1, <2>4 DEF NoPivot
  <2> QED
    BY <2>3, <2>4 DEF CheckAndUpdatePivot
<1>4. OneHandlerPerPoint' /\ StatesInMode'
  BY <1>1, <1>2, <1>3 DEF OneHandlerPerPoint, StatesInMode
<1>5. StopMeansSolved'
  BY DEF StopMeansSolved, CheckAndUpdatePivot, EndOfTurn
<1> QED
  BY <1>1, <1>4, <1>5
  DEF AssemblyInv, HasContacts, BetweenTurns, DuringTurns, AfterAssembly, BeforeRetry, AfterRetry,
      StoredForcesAreTheLastSolved, Phases, InTurn

LEMMA LeaveAssembly ==
  ASSUME TypeOK, AssemblyInv, LeaveLoop
  PROVE  AssemblyInv'
<1>1. /\ pc = "leave" /\ pc' = "store" /\ sc' = sc /\ states' = NoStates
      /\ lambda' = lambda /\ stop' = stop /\ sc.nc > 0
  BY DEF LeaveLoop, solution, AssemblyInv, HasContacts, Phases
<1>2. AllOpen'
  BY <1>1 DEF AllOpen, NoStates
<1>3. StoredForcesAreTheLastSolved'
  BY <1>1, ScenesAssumption DEF StoredForcesAreTheLastSolved, AssemblyInv, StopMeansSolved, TypeOK
<1> QED
  BY <1>1, <1>2, <1>3
  DEF AssemblyInv, HasContacts, BetweenTurns, DuringTurns, StatesInMode, AfterAssembly, BeforeRetry, AfterRetry,
      StopMeansSolved, Phases, InTurn

LEMMA StoreAssembly ==
  ASSUME TypeOK, AssemblyInv, StoreResults
  PROVE  AssemblyInv'
<1>1. pc = "store" /\ pc' = "idle" /\ states' = states
  BY DEF StoreResults
<1>2. AllOpen'
  BY <1>1 DEF AllOpen, AssemblyInv, BetweenTurns, Phases
<1> QED
  BY <1>1, <1>2
  DEF AssemblyInv, HasContacts, BetweenTurns, DuringTurns, StatesInMode, AfterAssembly, BeforeRetry, AfterRetry,
      StopMeansSolved, StoredForcesAreTheLastSolved, Phases, InTurn

LEMMA AssemblyNext == TypeOK /\ AssemblyInv /\ [Next]_vars => AssemblyInv'
<1> SUFFICES ASSUME TypeOK, AssemblyInv, [Next]_vars PROVE AssemblyInv'
  OBVIOUS
<1>1. CASE UNCHANGED vars
  BY <1>1 DEF vars, AssemblyInv, HasContacts, BetweenTurns, AllOpen, DuringTurns, OneHandlerPerPoint, StatesInMode,
              AfterAssembly, Assembled, BeforeRetry, AfterRetry, Unreleased, StopMeansSolved,
              StoredForcesAreTheLastSolved, Phases
<1> QED
  BY <1>1, BeginStepAssembly, SolveContactsAssembly, BuildAssembly, SolveAssembly, ReleaseAssembly,
     RebuildAssembly, PivotAssembly, LeaveAssembly, StoreAssembly DEF Next, Solve

LEMMA AssemblyInvariant == Spec => [](TypeOK /\ AssemblyInv)
<1> QED
  BY AssemblyInit, AssemblyNext, TypeCorrect, PTL DEF Spec

(* The contacts stay in the states of the step's mode, whatever the QP     *)
(* answers and however many pivots there are: no handler of                *)
(* ContactHandler.h is asked for a successor that it does not have.        *)
THEOREM ContactsStayInMode == Spec => []StatesInMode
<1>1. AssemblyInv => StatesInMode
  BY DEF AssemblyInv
<1> QED
  BY <1>1, AssemblyInvariant, PTL

(* Every array that is indexed by the rows of A and Aeq fits them, with or *)
(* without equality components, contacts, limits on forces and retries:    *)
(* constraintsId where the pivot search reads it, and bl where             *)
(* updateOASESMatrices does.                                               *)
THEOREM ArraysFitTheRows == Spec => []RowsAreAligned
<1>1. TypeOK /\ AssemblyInv => RowsAreAligned
  <2> SUFFICES ASSUME TypeOK, AssemblyInv PROVE RowsAreAligned
    OBVIOUS
  <2>1. ConstraintsIdAligned
    BY DEF ConstraintsIdAligned, AssemblyInv, HasContacts, AfterAssembly, Assembled, Phases, InTurn
  <2>2. LowerBoundsCoverRows
    <3> SUFFICES ASSUME Phases({"qp", "release", "pivot"}), flag = TRUE, NEW r \in A
                 PROVE  r.lo = TRUE
      BY DEF LowerBoundsCoverRows, TypeOK
    <3>1. BothSides(sc, flag) = TRUE /\ r \in InequalityRows(sc, states, flag)
      BY DEF AssemblyInv, AfterAssembly, Assembled, Phases, InTurn
    <3>2. sc.minF \in BOOLEAN /\ sc.maxF \in BOOLEAN /\ flag \in BOOLEAN
      BY ScenesAssumption DEF TypeOK
    <3> QED
      BY <3>1, <3>2, TwoSidedRowsHaveLowerBounds
  <2> QED
    BY <2>1, <2>2 DEF RowsAreAligned
<1> QED
  BY <1>1, AssemblyInvariant, PTL

(* A release of actuator constraints (checkAndUpdateActuatorConstraints)   *)
(* lasts for one attempt: the next assembly writes every bound and every   *)
(* row anew.                                                               *)
THEOREM ReleasesEnd == Spec => []ReleaseDoesNotLeak
<1>1. AssemblyInv => ReleaseDoesNotLeak
  <2> SUFFICES ASSUME AssemblyInv, pc = "qp" \/ (pc = "pivot" /\ Len(cid) > 2)
               PROVE  released = {} /\ \A v \in DOMAIN bounds : bounds[v] # "fixed"
    BY DEF ReleaseDoesNotLeak
  <2>1. released = {} /\ bounds = ConstraintOnLambda(sc, states, bounds)
    BY DEF AssemblyInv, AfterRetry, Unreleased
  <2>2. \A st, k : ContactBound(st, k) # "fixed"
    BY DEF ContactBound
  <2> QED
    BY <2>1, <2>2 DEF ConstraintOnLambda
<1> QED
  BY <1>1, AssemblyInvariant, PTL

(* When the loop over the pivots stops by itself, and in every step        *)
(* without contacts, the forces that are stored are those of the QP solved *)
(* last.                                                                   *)
THEOREM StoredForcesAreOfTheLastQP == Spec => []StoredForcesAreTheLastSolved
<1>1. AssemblyInv => StoredForcesAreTheLastSolved
  BY DEF AssemblyInv
<1> QED
  BY <1>1, AssemblyInvariant, PTL

-----------------------------------------------------------------------------
(* Where the walks over the contacts lead.  The inequality walk reaches    *)
(* the first contact only if its steps over the equality rows, all as long *)
(* as the first equality component, end there; and without friction the    *)
(* handler is looked up as if there were no equality rows.  A scene        *)
(* without equality rows, in particular, is well indexed.                  *)
WellIndexed(s) ==
  /\ InequalityContactStart(s) = s.na + s.ne
  /\ s.mu \/ s.ne = 0

LEMMA WellIndexedWithoutEquality ==
  ASSUME NEW s \in Scenes, s.ne = 0
  PROVE  WellIndexed(s)
BY ScenesAssumption DEF WellIndexed, InequalityContactStart

(* The variable of line k of contact point p, and back.                    *)
LEMMA VariablesOfContacts ==
  ASSUME NEW s \in Scenes, NEW p \in 0 .. NbContactPoints(s) - 1,
         NEW k \in 0 .. ContactNbLines(s) - 1
  PROVE  LET c == ContactNbLines(s) * p + k IN
         /\ c \in 0 .. s.nc - 1
         /\ c \div ContactNbLines(s) = p /\ c % ContactNbLines(s) = k
<1>1. s.nc \in Nat /\ s.nc % ContactNbLines(s) = 0 /\ s.mu \in BOOLEAN
  BY ScenesAssumption
<1>2. CASE s.mu
  <2>1. ContactNbLines(s) = 3
    BY <1>2 DEF ContactNbLines
  <2>2. p \in Int /\ k \in 0 .. 2 /\ 0 <= p /\ p <= s.nc \div 3 - 1
    BY <1>1, <2>1 DEF NbContactPoints
  <2>3. 3 * p + k \in 0 .. s.nc - 1 /\ (3 * p + k) \div 3 = p /\ (3 * p + k) % 3 = k
    BY <1>1, <2>2
  <2> QED
    BY <2>1, <2>3
<1>3. CASE ~s.mu
  <2>1. ContactNbLines(s) = 1
    BY <1>3 DEF ContactNbLines
  <2>2. k = 0 /\ p \in Int /\ 0 <= p /\ p <= s.nc \div 1 - 1
    BY <1>1, <2>1 DEF NbContactPoints
  <2>3. 1 * p + 0 \in 0 .. s.nc - 1 /\ (1 * p + 0) \div 1 = p /\ (1 * p + 0) % 1 = 0
    BY <1>1, <2>2
  <2> QED
    BY <2>1, <2>2, <2>3
<1> QED
  BY <1>2, <1>3

(* A walk that begins with the first contact comes to every contact, and   *)
(* consults its handler there.                                             *)
LEMMA WalkReachesContacts ==
  ASSUME NEW s \in Scenes, s.mu \/ s.ne = 0, NEW st,
         NEW p \in 0 .. NbContactPoints(s) - 1
  PROVE  LET i == s.na + s.ne + ContactNbLines(s) * p IN
         /\ i \in ContactWalk(s, s.na + s.ne)
         /\ HandlerAt(s, st, i) = StateOf(st, p)
<1> DEFINE n == ContactNbLines(s)
           i == s.na + s.ne + n * p
<1>1. s.na \in Nat /\ s.ne \in Nat /\ s.nc \in Nat /\ s.mu \in BOOLEAN
  BY ScenesAssumption
<1>2. n \in {1, 3} /\ p \in Nat /\ n * p \in Nat
  BY SceneNumbers
<1>3. n * p + 0 \in 0 .. s.nc - 1
  BY <1>2, VariablesOfContacts
<1>4. p <= s.nc
  BY <1>1, <1>2, <1>3
<1>5. i < Dim(s)
  BY <1>1, <1>2, <1>3 DEF Dim
<1>6. i \in ContactWalk(s, s.na + s.ne)
  BY <1>1, <1>2, <1>4, <1>5 DEF ContactWalk
<1>7. HandlerAt(s, st, i) = StateOf(st, p)
  <2>1. CASE s.mu
    <3>1. n = 3
      BY <2>1 DEF ContactNbLines
    <3>2. (i - s.na - s.ne) \div 3 = p
      BY <1>1, <1>2, <3>1
    <3> QED
      BY <2>1, <3>2 DEF HandlerAt
  <2>2. CASE ~s.mu
    <3>1. n = 1 /\ s.ne = 0
      BY <2>2 DEF ContactNbLines
    <3>2. i - s.na = p
      BY <1>1, <1>2, <3>1
    <3> QED
      BY <2>2, <3>2 DEF HandlerAt
  <2> QED
    BY <2>1, <2>2
<1> QED
  BY <1>6, <1>7

(* The rows of a contact in state h are among the rows of the matrices.    *)
LEMMA ContactRowsAreIn ==
  ASSUME NEW s \in Scenes, WellIndexed(s), NEW st, NEW f,
         NEW p \in 0 .. NbContactPoints(s) - 1
  PROVE  LET i == s.na + s.ne + ContactNbLines(s) * p
             h == StateOf(st, p) IN
         /\ ContactInequalityRows(s, h, i, BothSides(s, f)) \subseteq InequalityRows(s, st, f)
         /\ ContactEqualityRows(h, i) \subseteq EqualityRows(s, st)
<1> DEFINE i == s.na + s.ne + ContactNbLines(s) * p
<1>1. /\ i \in ContactWalk(s, s.na + s.ne) /\ i \in ContactWalk(s, InequalityContactStart(s))
      /\ HandlerAt(s, st, i) = StateOf(st, p)
  BY WalkReachesContacts DEF WellIndexed
<1> HIDE DEF i
<1>2. ContactInequalityRows(s, StateOf(st, p), i, BothSides(s, f)) \subseteq InequalityRows(s, st, f)
  BY <1>1 DEF InequalityRows
<1>3. ContactEqualityRows(StateOf(st, p), i) \subseteq EqualityRows(s, st)
  BY <1>1 DEF EqualityRows
<1> QED
  BY <1>2, <1>3 DEF i

(* The bounds on the variables of contact point p.                         *)
LEMMA BoundsOfContacts ==
  ASSUME NEW s \in Scenes, NEW st, NEW b, NEW p \in 0 .. NbContactPoints(s) - 1,
         NEW k \in 0 .. ContactNbLines(s) - 1
  PROVE  ConstraintOnLambda(s, st, b)[s.na + s.ne + ContactNbLines(s) * p + k]
           = ContactBound(StateOf(st, p), k)
<1> DEFINE n == ContactNbLines(s)
           c == n * p + k
           v == s.na + s.ne + n * p + k
<1>1. s.na \in Nat /\ s.ne \in Nat /\ s.nc \in Nat
  BY ScenesAssumption
<1>2. c \in 0 .. s.nc - 1 /\ c \div n = p /\ c % n = k
  BY VariablesOfContacts
<1>3. n * p \in Int /\ k \in Int
  BY SceneNumbers
<1>4. v \in 0 .. Dim(s) - 1 /\ ~(v < s.na + s.ne) /\ v - s.na - s.ne = c
  <2> HIDE DEF n
  <2> QED
    BY <1>1, <1>2, <1>3 DEF Dim
<1> HIDE DEF v, c
<1>5. ConstraintOnLambda(s, st, b)[v]
        = ContactBound(StateOf(st, (v - s.na - s.ne) \div n), (v - s.na - s.ne) % n)
  BY <1>4 DEF ConstraintOnLambda
<1>6. ConstraintOnLambda(s, st, b)[v] = ContactBound(StateOf(st, p), k)
  BY <1>2, <1>4, <1>5
<1> QED
  BY <1>6 DEF v

(* What the rows and the bounds of an open and of a closed contact say.    *)
LEMMA RowsOfContacts ==
  ASSUME NEW s, NEW h \in {"inactive", "active", "stick", "sliding"}, NEW f, NEW i
  PROVE  /\ h = "inactive" =>
              /\ [id |-> i, kind |-> "gap", line |-> 0, lo |-> f] \in ContactInequalityRows(s, h, i, f)
              /\ \A k : ContactBound(h, k) = "zero"
         /\ h # "inactive" =>
              /\ [id |-> i, kind |-> "closed", line |-> 0, lo |-> TRUE] \in ContactEqualityRows(h, i)
              /\ ContactBound(h, 0) = "nonneg"
BY DEF ContactInequalityRows, ContactEqualityRows, ContactBound

(* The scenes whose contacts the walks reach.  The others have equality    *)
(* components of different lengths, or equality rows without friction.     *)
ContactsWellIndexed == \A s \in Scenes : s.nc > 0 => WellIndexed(s)

LEMMA SignoriniFromAssembly ==
  ASSUME ContactsWellIndexed, TypeOK, AssemblyInv
  PROVE  Signorini
<1> SUFFICES ASSUME pc = "qp", sc.nc > 0, NEW p \in DOMAIN states
             PROVE  LET v == sc.na + sc.ne + ContactNbLines(sc) * p IN
                    IF states[p] = "inactive"
                    THEN /\ \E r \in A : r.kind = "gap" /\ r.id = v
                         /\ \A k \in 0 .. ContactNbLines(sc) - 1 : bounds[v + k] = "zero"
                    ELSE /\ \E r \in Aeq : r.kind = "closed" /\ r.id = v
                         /\ bounds[v] = "nonneg"
  BY DEF Signorini
<1> DEFINE v == sc.na + sc.ne + ContactNbLines(sc) * p
<1>1. sc \in Scenes /\ WellIndexed(sc)
  BY DEF TypeOK, ContactsWellIndexed
<1>2. OneHandlerPerPoint /\ Assembled /\ Unreleased
  BY DEF AssemblyInv, DuringTurns, AfterAssembly, AfterRetry, Phases, InTurn
<1>3. /\ p \in 0 .. NbContactPoints(sc) - 1 /\ StateOf(states, p) = states[p]
      /\ states[p] \in {"inactive", "active", "stick", "sliding"}
  BY <1>2 DEF OneHandlerPerPoint, StateOf, TypeOK
<1>4. v \in Int
  <2>1. sc.na \in Int /\ sc.ne \in Int /\ ContactNbLines(sc) \in Int /\ p \in Int
    BY <1>1, <1>3, ScenesAssumption, SceneNumbers
  <2> QED
    BY <2>1
<1>5. /\ ContactInequalityRows(sc, states[p], v, BothSides(sc, flag)) \subseteq A
      /\ ContactEqualityRows(states[p], v) \subseteq Aeq
  BY <1>1, <1>2, <1>3, ContactRowsAreIn DEF Assembled
<1>6. \A k \in 0 .. ContactNbLines(sc) - 1 : bounds[v + k] = ContactBound(states[p], k)
  BY <1>1, <1>2, <1>3, BoundsOfContacts DEF Unreleased
<1> HIDE DEF v
<1>7. CASE states[p] = "inactive"
  <2>1. [id |-> v, kind |-> "gap", line |-> 0, lo |-> BothSides(sc, flag)] \in A
    BY <1>3, <1>5, <1>7, RowsOfContacts
  <2>2. \E r \in A : r.kind = "gap" /\ r.id = v
    BY <2>1
  <2>3. \A k \in 0 .. ContactNbLines(sc) - 1 : bounds[v + k] = "zero"
    BY <1>3, <1>6, <1>7, RowsOfContacts
  <2> QED
    BY <1>7, <2>2, <2>3 DEF v
<1>8. CASE states[p] # "inactive"
  <2>1. [id |-> v, kind |-> "closed", line |-> 0, lo |-> TRUE] \in Aeq
    BY <1>3, <1>5, <1>8, RowsOfContacts
  <2>2. \E r \in Aeq : r.kind = "closed" /\ r.id = v
    BY <2>1
  <2>3. 0 \in 0 .. ContactNbLines(sc) - 1 /\ v + 0 = v
    BY <1>1, <1>4, SceneNumbers
  <2>4. bounds[v] = "nonneg"
    BY <1>3, <1>6, <1>8, <2>3, RowsOfContacts
  <2> QED
    BY <1>8, <2>2, <2>4 DEF v
<1> QED
  BY <1>7, <1>8

(* Signorini's conditions are in every QP of every scene whose contacts    *)
(* the walks reach: buildInequalityConstraintMatrices,                     *)
(* buildEqualityConstraintMatrices and getConstraintOnLambda arrive, each  *)
(* with its own index arithmetic, at the same handler and variable.  (In   *)
(* the other scenes they do not: run signorini_with_equality.)             *)
THEOREM SignoriniInEveryQP == ASSUME ContactsWellIndexed PROVE Spec => []Signorini
<1>1. TypeOK /\ AssemblyInv => Signorini
  BY SignoriniFromAssembly
<1> QED
  BY <1>1, AssemblyInvariant, PTL

-----------------------------------------------------------------------------
(* R has a row that is filed under variable v.                             *)
FiledRow(R, v) == \E r \in R : r.id = v

(* A line at which contact c stands on the boundary of its state has its   *)
(* own row among those of the state.                                       *)
LEMMA BoundaryHasARow ==
  ASSUME NEW s \in Scenes, NEW h \in AllowedStates(s.mu, s.slide), NEW f, NEW an,
         NEW v \in Int, NEW j \in {0, 1, 2}, j \in CandidateLines(h, s.slide, an)
  PROVE  FiledRow(ContactInequalityRows(s, h, v, f) \cup ContactEqualityRows(h, v), v + j)
<1>0. v + 0 = v
  OBVIOUS
<1>1. CASE h = "inactive"
  <2>1. j = 0
    BY <1>1 DEF CandidateLines
  <2>2. [id |-> v, kind |-> "gap", line |-> 0, lo |-> f] \in ContactInequalityRows(s, h, v, f)
    BY <1>1 DEF ContactInequalityRows
  <2> QED
    BY <1>0, <2>1, <2>2 DEF FiledRow
<1>2. CASE h \in {"active", "stick", "sliding"} /\ j = 0
  <2>1. [id |-> v, kind |-> "closed", line |-> 0, lo |-> TRUE] \in ContactEqualityRows(h, v)
    BY <1>2 DEF ContactEqualityRows
  <2> QED
    BY <1>0, <1>2, <2>1 DEF FiledRow
<1>3. CASE h = "active" /\ j # 0
  BY <1>3 DEF CandidateLines
<1>4. CASE h = "stick" /\ j # 0
  <2>1. [id |-> v + j, kind |-> "stuck", line |-> j, lo |-> TRUE] \in ContactEqualityRows(h, v)
    <3>1. j \in 1 .. 2
      BY <1>4
    <3> QED
      BY <1>4, <3>1 DEF ContactEqualityRows
  <2> QED
    BY <2>1 DEF FiledRow
<1>5. CASE h = "sliding" /\ j # 0
  <2>1. [id |-> v + j, kind |-> "slip", line |-> j, lo |-> f] \in ContactInequalityRows(s, h, v, f)
    BY <1>5 DEF ContactInequalityRows
  <2> QED
    BY <2>1 DEF FiledRow
<1>6. h \in {"inactive", "active", "stick", "sliding"}
  BY DEF AllowedStates
<1> QED
  BY <1>1, <1>2, <1>3, <1>4, <1>5, <1>6

(* The point and the line of a contact row.                                *)
LEMMA PointOfRow ==
  ASSUME NEW s \in Scenes, NEW c \in 0 .. s.nc - 1
  PROVE  LET n == ContactNbLines(s) IN
         /\ c \div n \in 0 .. NbContactPoints(s) - 1
         /\ c % n \in {0, 1, 2} /\ c = n * (c \div n) + (c % n)
<1>1. s.nc \in Nat /\ s.nc % ContactNbLines(s) = 0 /\ s.mu \in BOOLEAN
  BY ScenesAssumption
<1>2. CASE s.mu
  <2>1. ContactNbLines(s) = 3
    BY <1>2 DEF ContactNbLines
  <2>2. s.nc % 3 = 0 /\ NbContactPoints(s) = s.nc \div 3
    BY <1>1, <2>1 DEF NbContactPoints
  <2>3. c \div 3 \in 0 .. s.nc \div 3 - 1 /\ c % 3 \in {0, 1, 2} /\ c = 3 * (c \div 3) + (c % 3)
    BY <1>1, <2>2
  <2> QED
    BY <2>1, <2>2, <2>3
<1>3. CASE ~s.mu
  <2>1. ContactNbLines(s) = 1
    BY <1>3 DEF ContactNbLines
  <2>2. NbContactPoints(s) = s.nc \div 1
    BY <1>1, <2>1 DEF NbContactPoints
  <2>3. c \div 1 \in 0 .. s.nc \div 1 - 1 /\ c % 1 \in {0, 1, 2} /\ c = 1 * (c \div 1) + (c % 1)
    BY <1>1
  <2> QED
    BY <2>1, <2>2, <2>3
<1> QED
  BY <1>2, <1>3

(* No step has equality rows and contacts together.                        *)
NoEqualityAmongContacts == \A s \in Scenes : s.nc > 0 => s.ne = 0

LEMMA CandidatesFromAssembly ==
  ASSUME NoEqualityAmongContacts, TypeOK, AssemblyInv
  PROVE  CandidatesAreFound
<1> SUFFICES ASSUME pc = "pivot", NEW c \in Candidates
             PROVE  \E r \in cid[1] \cup cid[2] : r.id = sc.na + c
  BY DEF CandidatesAreFound, Pivotable
<1> DEFINE n == ContactNbLines(sc)
           p == c \div n
           v == sc.na + sc.ne + n * p
<1>1. sc \in Scenes /\ sc.nc > 0 /\ sc.ne = 0
  BY DEF TypeOK, AssemblyInv, HasContacts, Phases, NoEqualityAmongContacts
<1>2. WellIndexed(sc) /\ sc.na \in Nat
  BY <1>1, WellIndexedWithoutEquality, ScenesAssumption
<1>3. OneHandlerPerPoint /\ Assembled
  BY DEF AssemblyInv, DuringTurns, AfterAssembly, Phases, InTurn
<1>4. c \in 0 .. sc.nc - 1 /\ c % n \in CandidateLines(states[p], sc.slide, ans[p])
  BY DEF Candidates
<1>5. /\ p \in 0 .. NbContactPoints(sc) - 1 /\ c % n \in {0, 1, 2} /\ c = n * p + (c % n)
  BY <1>1, <1>4, PointOfRow
<1>6. p \in DOMAIN states /\ StateOf(states, p) = states[p]
  BY <1>1, <1>3, <1>5 DEF OneHandlerPerPoint, StateOf
<1>7. states[p] \in AllowedStates(sc.mu, sc.slide)
  BY <1>6 DEF AssemblyInv, StatesInMode, Phases
<1>8. /\ ContactInequalityRows(sc, states[p], v, BothSides(sc, flag)) \subseteq cid[1]
      /\ ContactEqualityRows(states[p], v) \subseteq cid[2]
  <2> HIDE DEF p
  <2> QED
    BY <1>1, <1>2, <1>3, <1>5, <1>6, ContactRowsAreIn DEF Assembled
<1>9. v \in Int /\ sc.na + c = v + (c % n)
  <2>1. n \in Int /\ p \in Int
    BY <1>1, <1>5, SceneNumbers
  <2>2. n * p \in Int
    BY <2>1
  <2> HIDE DEF n, p
  <2> QED
    BY <1>1, <1>2, <1>5, <2>2
<1> HIDE DEF n, p, v
<1>10. FiledRow(ContactInequalityRows(sc, states[p], v, BothSides(sc, flag))
                  \cup ContactEqualityRows(states[p], v), v + (c % n))
  BY <1>1, <1>4, <1>5, <1>7, <1>9, BoundaryHasARow
<1> QED
  BY <1>8, <1>9, <1>10 DEF FiledRow

(* Every contact that has reached the boundary of its state is filed under *)
(* a row of [A; Aeq], so the search through the dual loses none: the loop  *)
(* stops by itself only when all of them would cycle.                      *)
THEOREM NoCandidateIsLost == ASSUME NoEqualityAmongContacts PROVE Spec => []CandidatesAreFound
<1>1. TypeOK /\ AssemblyInv => CandidatesAreFound
  BY CandidatesFromAssembly
<1> QED
  BY <1>1, AssemblyInvariant, PTL
=============================================================================

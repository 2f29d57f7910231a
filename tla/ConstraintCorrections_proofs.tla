-------------------- MODULE ConstraintCorrections_proofs --------------------
(***************************************************************************)
(* ConstraintCorrections implements Correction, for any number of          *)
(* corrections.                                                            *)
(*                                                                         *)
(* The invariant says phase by phase which tasks were added, what each has *)
(* computed in its own matrix, and that W is the sum of the active         *)
(* corrections before i; that the list has no correction twice; and that   *)
(* the flags of the listed corrections are those of this resolution,       *)
(* though the vector of flags may be longer than the list.                 *)
(***************************************************************************)
EXTENDS ConstraintCorrections, FiniteSetTheorems, TLAPS

(* The compliances of the active corrections before place n.               *)
Sums(n) == [c \in Corrections |-> IF \E k \in 1 .. n - 1 : ccs[k] = c /\ c \notin inactive THEN 1 ELSE 0]
Active == [c \in Corrections |-> IF c \in Range(ccs) \ inactive THEN 1 ELSE 0]

(* What a task has computed.                                               *)
TaskHolds(k) ==
  /\ task[k] \in {"none", "queued", "running", "done"}
  /\ taskW[k] = IF task[k] = "done" THEN Plus(Zero, ccs[k]) ELSE Zero
  /\ task[k] = "running" => loaded[k] = Zero
TasksHold ==
  /\ phase # "idle" => /\ task = [k \in DOMAIN ccs |-> task[k]]
                       /\ taskW = [k \in DOMAIN ccs |-> taskW[k]]
                       /\ loaded = [k \in DOMAIN ccs |-> loaded[k]]
                       /\ \A k \in DOMAIN ccs : TaskHolds(k)
  /\ phase = "idle" => task = NoTasks

(* Which tasks were added, phase by phase.                                 *)
TasksAdded ==
  /\ phase = "add" => \A k \in DOMAIN ccs : task[k] = "none"
  /\ phase = "spawn" => \A k \in DOMAIN ccs :
       IF k < i THEN task[k] = "none" <=> ccs[k] \in inactive ELSE task[k] = "none"
  /\ phase \in {"wait", "sum"} => \A k \in DOMAIN ccs : task[k] = "none" <=> ccs[k] \in inactive
  /\ phase \in {"sum", "apply"} => \A k \in DOMAIN ccs : task[k] \in {"none", "done"}

(* W, phase by phase.                                                      *)
MatrixHolds ==
  /\ phase \in {"idle", "spawn", "wait"} => W = Zero
  /\ phase \in {"add", "sum"} => W = Sums(i)
  /\ phase = "apply" => W = Active

FlagsHold == phase # "idle" => \A k \in DOMAIN ccs : flags[k] = (ccs[k] \notin asleep)

Shape ==
  /\ phase \in {"idle", "add", "spawn", "wait", "sum", "apply"}
  /\ ccs \in Seq(Corrections) /\ \A k, q \in DOMAIN ccs : ccs[k] = ccs[q] => k = q
  /\ DOMAIN ccs \subseteq DOMAIN flags
  /\ asleep \subseteq Corrections /\ inactive \subseteq Corrections
  /\ i \in 1 .. Len(ccs) + 1 /\ (phase = "idle" => i = 1)

CorrectionsInv == Shape /\ TasksHold /\ TasksAdded /\ MatrixHolds /\ FlagsHold

LEMMA CollectedList ==
  ASSUME NEW S \in SUBSET Corrections, NEW s \in Collected(S)
  PROVE  s \in Seq(Corrections) /\ \A k, q \in DOMAIN s : s[k] = s[q] => k = q
<1>1. Cardinality(S) \in Nat
  BY CorrectionsAssumption, FS_Subset, FS_CardinalityType
<1>2. s \in [1 .. Cardinality(S) -> S] /\ IsInjective(s)
  BY DEF Collected
<1> QED
  BY <1>1, <1>2 DEF IsInjective

LEMMA WithoutOne ==
  ASSUME NEW s \in Seq(Corrections), \A k, q \in DOMAIN s : s[k] = s[q] => k = q,
         NEW p \in DOMAIN s
  PROVE  /\ Without(s, p) \in Seq(Corrections) /\ Len(Without(s, p)) = Len(s) - 1
         /\ \A k, q \in DOMAIN Without(s, p) : Without(s, p)[k] = Without(s, p)[q] => k = q
<1> DEFINE t == Without(s, p)
           n == Len(s)
           At(k) == IF k < p THEN k ELSE k + 1
<1>1. n \in Nat /\ DOMAIN s = 1 .. n /\ p \in 1 .. n
  OBVIOUS
<1>2. t = [k \in 1 .. n - 1 |-> IF k < p THEN s[k] ELSE s[k + 1]]
  BY DEF Without
<1> HIDE DEF n, t
<1>3. n - 1 \in Nat /\ \A k \in 1 .. n - 1 : At(k) \in 1 .. n /\ t[k] = s[At(k)]
  BY <1>1, <1>2
<1>4. t \in [1 .. n - 1 -> Corrections]
  BY <1>1, <1>2
<1>5. t \in Seq(Corrections) /\ Len(t) = n - 1 /\ DOMAIN t = 1 .. n - 1
  BY <1>3, <1>4
<1>6. \A k, q \in 1 .. n - 1 : At(k) = At(q) => k = q
  BY <1>1
<1>7. \A k, q \in 1 .. n - 1 : t[k] = t[q] => k = q
  <2> SUFFICES ASSUME NEW k \in 1 .. n - 1, NEW q \in 1 .. n - 1, t[k] = t[q] PROVE k = q
    OBVIOUS
  <2>1. s[At(k)] = s[At(q)] /\ At(k) \in 1 .. n /\ At(q) \in 1 .. n
    BY <1>3
  <2> HIDE DEF At
  <2>2. At(k) = At(q)
    BY <1>1, <2>1
  <2> QED
    BY <1>6, <2>2
<1> QED
  BY <1>5, <1>7 DEF t, n

LEMMA CorrectionsInit == Init => CorrectionsInv
<1> SUFFICES ASSUME Init PROVE CorrectionsInv
  OBVIOUS
<1>1. /\ phase = "idle" /\ i = 1 /\ flags = Resized(<<>>, Len(ccs)) /\ W = Zero /\ task = NoTasks
      /\ asleep \subseteq Corrections /\ inactive \subseteq Corrections
  BY DEF Init
<1>2. PICK S \in SUBSET Corrections : ccs \in Collected(S)
  BY DEF Init
<1>3. ccs \in Seq(Corrections) /\ \A k, q \in DOMAIN ccs : ccs[k] = ccs[q] => k = q
  BY <1>2, CollectedList
<1>4. DOMAIN ccs \subseteq DOMAIN flags /\ i \in 1 .. Len(ccs) + 1
  BY <1>1, <1>3 DEF Resized
<1>5. Shape
  BY <1>1, <1>3, <1>4 DEF Shape
<1> QED
  BY <1>1, <1>5 DEF CorrectionsInv, TasksHold, TasksAdded, MatrixHolds, FlagsHold

(* Between the resolutions only the list, the flags and the scene change.  *)
IdleStays == phase = "idle" /\ phase' = phase /\ i' = i /\ W' = W /\ task' = task

LEMMA IdleInv ==
  ASSUME CorrectionsInv, IdleStays, Shape'
  PROVE  CorrectionsInv'
BY DEF CorrectionsInv, IdleStays, TasksHold, TasksAdded, MatrixHolds, FlagsHold, Zero

LEMMA CollectInv ==
  ASSUME CorrectionsInv, Collect
  PROVE  CorrectionsInv' /\ IdleStays
<1>1. /\ phase = "idle" /\ phase' = phase /\ i' = i /\ W' = W /\ task' = task
      /\ asleep' = asleep /\ inactive' = inactive /\ flags' = Resized(flags, Len(ccs'))
  BY DEF Collect, scene, tasks
<1>2. PICK S \in SUBSET Corrections : ccs' \in Collected(S)
  BY DEF Collect
<1>3. ccs' \in Seq(Corrections) /\ \A k, q \in DOMAIN ccs' : ccs'[k] = ccs'[q] => k = q
  BY <1>2, CollectedList
<1>4. DOMAIN ccs' \subseteq DOMAIN flags'
  BY <1>1, <1>3 DEF Resized
<1>5. i' \in 1 .. Len(ccs') + 1 /\ i' = 1
  BY <1>1, <1>3 DEF CorrectionsInv, Shape
<1>6. Shape'
  BY <1>1, <1>3, <1>4, <1>5 DEF CorrectionsInv, Shape
<1> QED
  BY <1>1, <1>6, IdleInv DEF IdleStays

LEMMA RemoveInv ==
  ASSUME CorrectionsInv, NEW c, RemoveConstraintCorrection(c)
  PROVE  CorrectionsInv' /\ IdleStays
<1>1. /\ phase = "idle" /\ phase' = phase /\ i' = i /\ W' = W /\ task' = task
      /\ asleep' = asleep /\ inactive' = inactive /\ flags' = flags
  BY DEF RemoveConstraintCorrection, scene, tasks
<1>2. PICK p \in DOMAIN ccs : ccs' = Without(ccs, p)
  BY DEF RemoveConstraintCorrection
<1>3. ccs \in Seq(Corrections) /\ (\A k, q \in DOMAIN ccs : ccs[k] = ccs[q] => k = q) /\ i = 1
  BY <1>1 DEF CorrectionsInv, Shape
<1>4. /\ ccs' \in Seq(Corrections) /\ Len(ccs') = Len(ccs) - 1
      /\ \A k, q \in DOMAIN ccs' : ccs'[k] = ccs'[q] => k = q
  BY <1>2, <1>3, WithoutOne
<1>5. DOMAIN ccs' \subseteq DOMAIN ccs /\ i' \in 1 .. Len(ccs') + 1
  BY <1>1, <1>3, <1>4
<1>6. Shape'
  BY <1>1, <1>3, <1>4, <1>5 DEF CorrectionsInv, Shape
<1> QED
  BY <1>1, <1>6, IdleInv DEF IdleStays

LEMMA CleanupInv ==
  ASSUME CorrectionsInv, Cleanup
  PROVE  CorrectionsInv' /\ IdleStays
<1>1. /\ phase = "idle" /\ phase' = phase /\ i' = i /\ W' = W /\ task' = task /\ ccs' = <<>>
      /\ asleep' = asleep /\ inactive' = inactive /\ flags' = flags
  BY DEF Cleanup, scene, tasks
<1>2. Shape'
  BY <1>1 DEF CorrectionsInv, Shape
<1> QED
  BY <1>1, <1>2, IdleInv DEF IdleStays

LEMMA ChangeSceneInv ==
  ASSUME CorrectionsInv, ChangeScene
  PROVE  CorrectionsInv' /\ IdleStays
<1>1. /\ phase = "idle" /\ phase' = phase /\ i' = i /\ W' = W /\ task' = task /\ ccs' = ccs
      /\ asleep' \subseteq Corrections /\ inactive' \subseteq Corrections /\ flags' = flags
  BY DEF ChangeScene, tasks
<1>2. Shape'
  BY <1>1 DEF CorrectionsInv, Shape
<1> QED
  BY <1>1, <1>2, IdleInv DEF IdleStays

-----------------------------------------------------------------------------
(* The resolution.                                                         *)
LEMMA ListFacts ==
  ASSUME CorrectionsInv
  PROVE  /\ Len(ccs) \in Nat /\ DOMAIN ccs = 1 .. Len(ccs) /\ i \in 1 .. Len(ccs) + 1
         /\ \A k \in DOMAIN ccs : ccs[k] \in Corrections
         /\ \A k, q \in DOMAIN ccs : ccs[k] = ccs[q] => k = q
BY DEF CorrectionsInv, Shape

LEMMA NothingSummed == Sums(1) = Zero
BY DEF Sums, Zero

(* The sums grow by the correction at n, if it is active.                  *)
LEMMA OneMoreSummed ==
  ASSUME CorrectionsInv, NEW n \in DOMAIN ccs
  PROVE  Sums(n + 1) = IF ccs[n] \in inactive THEN Sums(n) ELSE Plus(Sums(n), ccs[n])
<1> DEFINE N == Len(ccs)
<1>1. /\ N \in Nat /\ n \in 1 .. N /\ \A k \in 1 .. N : ccs[k] \in Corrections
      /\ \A k, q \in 1 .. N : ccs[k] = ccs[q] => k = q
  BY ListFacts
<1> HIDE DEF N
<1>2. 1 .. (n + 1) - 1 = (1 .. n - 1) \cup {n} /\ 1 .. n - 1 \subseteq 1 .. N /\ n \notin 1 .. n - 1
  BY <1>1
<1>3. \A k \in 1 .. n - 1 : ccs[k] # ccs[n]
  BY <1>1, <1>2
<1>4. Sums(n) \in [Corrections -> {0, 1}] /\ Sums(n + 1) \in [Corrections -> {0, 1}]
  BY DEF Sums
<1>5. CASE ccs[n] \in inactive
  <2>1. \A c \in Corrections : (\E k \in 1 .. (n + 1) - 1 : ccs[k] = c /\ c \notin inactive)
                                 <=> (\E k \in 1 .. n - 1 : ccs[k] = c /\ c \notin inactive)
    BY <1>2, <1>5
  <2> QED
    BY <1>5, <2>1 DEF Sums
<1>6. CASE ccs[n] \notin inactive
  <2>1. Sums(n)[ccs[n]] = 0
    BY <1>1, <1>3 DEF Sums
  <2>2. Sums(n + 1)[ccs[n]] = 1
    <3>1. \E k \in 1 .. (n + 1) - 1 : ccs[k] = ccs[n] /\ ccs[n] \notin inactive
      BY <1>2, <1>6
    <3> QED
      BY <1>1, <3>1 DEF Sums
  <2>3. ASSUME NEW c \in Corrections, c # ccs[n] PROVE Sums(n + 1)[c] = Sums(n)[c]
    <3>1. (\E k \in 1 .. (n + 1) - 1 : ccs[k] = c /\ c \notin inactive)
            <=> (\E k \in 1 .. n - 1 : ccs[k] = c /\ c \notin inactive)
      BY <1>2, <2>3
    <3> QED
      BY <3>1 DEF Sums
  <2>4. Plus(Sums(n), ccs[n]) = [Sums(n) EXCEPT ![ccs[n]] = 1]
    BY <2>1 DEF Plus
  <2>5. Plus(Sums(n), ccs[n]) \in [Corrections -> {0, 1}]
    BY <1>4, <2>4
  <2>6. \A c \in Corrections : Plus(Sums(n), ccs[n])[c] = Sums(n + 1)[c]
    BY <1>1, <1>4, <2>1, <2>2, <2>3, <2>4
  <2> QED
    BY <1>4, <1>6, <2>5, <2>6
<1> QED
  BY <1>5, <1>6

LEMMA AllSummed ==
  ASSUME CorrectionsInv
  PROVE  Sums(Len(ccs) + 1) = Active
<1>1. Len(ccs) \in Nat /\ DOMAIN ccs = 1 .. Len(ccs)
  BY ListFacts
<1>2. 1 .. (Len(ccs) + 1) - 1 = DOMAIN ccs
  BY <1>1
<1>3. \A c \in Corrections : (\E k \in 1 .. (Len(ccs) + 1) - 1 : ccs[k] = c /\ c \notin inactive)
                               <=> c \in Range(ccs) \ inactive
  BY <1>2 DEF Range
<1> QED
  BY <1>3 DEF Sums, Active

(* Adding the matrix of a finished task is adding its correction.          *)
LEMMA SumIsPlus ==
  ASSUME NEW m \in [Corrections -> Int], NEW c \in Corrections
  PROVE  Sum(m, Plus(Zero, c)) = Plus(m, c)
<1>1. Plus(Zero, c) = [d \in Corrections |-> IF d = c THEN 1 ELSE 0]
  BY DEF Plus, Zero
<1>2. Plus(m, c) = [d \in Corrections |-> IF d = c THEN m[d] + 1 ELSE m[d]]
  BY DEF Plus
<1>3. \A d \in Corrections : m[d] + (IF d = c THEN 1 ELSE 0) = IF d = c THEN m[d] + 1 ELSE m[d]
  OBVIOUS
<1> QED
  BY <1>1, <1>2, <1>3 DEF Sum

LEMMA StartBuildInv ==
  ASSUME CorrectionsInv, StartBuild
  PROVE  CorrectionsInv'
<1>1. /\ phase = "idle" /\ phase' \in {"spawn", "add"} /\ i' = 1 /\ W' = Zero /\ ccs' = ccs
      /\ asleep' = asleep /\ inactive' = inactive /\ flags' = CorrectionState
      /\ task' = [k \in DOMAIN ccs |-> "none"]
      /\ taskW' = [k \in DOMAIN ccs |-> Zero] /\ loaded' = [k \in DOMAIN ccs |-> Zero]
  BY DEF StartBuild, scene
<1>2. Len(ccs) \in Nat /\ DOMAIN ccs = 1 .. Len(ccs) /\ DOMAIN ccs \subseteq DOMAIN flags
  BY ListFacts DEF CorrectionsInv, Shape
<1>3. DOMAIN flags' = DOMAIN flags /\ \A k \in DOMAIN ccs : flags'[k] = (ccs[k] \notin asleep)
  BY <1>1, <1>2 DEF CorrectionState
<1>4. Shape'
  BY <1>1, <1>2, <1>3 DEF CorrectionsInv, Shape
<1>5. TasksHold'
  <2>1. \A k \in DOMAIN ccs : task'[k] = "none" /\ taskW'[k] = Zero
    BY <1>1
  <2>2. \A k \in DOMAIN ccs : TaskHolds(k)'
    BY <2>1 DEF TaskHolds, Zero
  <2>3. /\ task' = [k \in DOMAIN ccs |-> task'[k]] /\ taskW' = [k \in DOMAIN ccs |-> taskW'[k]]
        /\ loaded' = [k \in DOMAIN ccs |-> loaded'[k]]
    BY <1>1
  <2> QED
    BY <1>1, <2>2, <2>3 DEF TasksHold
<1>6. TasksAdded'
  BY <1>1, <1>2 DEF TasksAdded
<1>7. MatrixHolds'
  BY <1>1, NothingSummed DEF MatrixHolds, Sums, Zero
<1>8. FlagsHold'
  BY <1>1, <1>3 DEF FlagsHold
<1> QED
  BY <1>4, <1>5, <1>6, <1>7, <1>8 DEF CorrectionsInv

(* What the steps of a resolution leave alone.                             *)
ListStays == ccs' = ccs /\ flags' = flags /\ asleep' = asleep /\ inactive' = inactive

LEMMA SumsStay ==
  ASSUME ListStays
  PROVE  Active' = Active /\ \A n : Sums(n)' = Sums(n)
BY DEF ListStays, Active, Sums

LEMMA AddComplianceInv ==
  ASSUME CorrectionsInv, AddCompliance
  PROVE  CorrectionsInv' /\ ListStays /\ (phase' = "apply" => W' = Active)
<1>1. /\ phase = "add" /\ ListStays /\ task' = task /\ taskW' = taskW /\ loaded' = loaded
  BY DEF AddCompliance, scene, tasks, ListStays
<1>2. /\ Len(ccs) \in Nat /\ DOMAIN ccs = 1 .. Len(ccs) /\ i \in 1 .. Len(ccs) + 1
      /\ W = Sums(i) /\ \A k \in DOMAIN ccs : task[k] = "none"
  BY <1>1, ListFacts DEF CorrectionsInv, MatrixHolds, TasksAdded
<1>3. TasksHold' /\ FlagsHold' /\ phase' \in {"add", "apply"}
  <2>1. phase' \in {"add", "apply"}
    BY <1>1 DEF AddCompliance
  <2> QED
    BY <1>1, <2>1 DEF CorrectionsInv, TasksHold, TaskHolds, FlagsHold, ListStays, Zero, Plus
<1>4. CASE i > Len(ccs)
  <2>1. phase' = "apply" /\ i' = i /\ W' = W
    BY <1>4 DEF AddCompliance
  <2>2. i = Len(ccs) + 1
    BY <1>2, <1>4
  <2>3. W' = Active
    BY <1>2, <2>1, <2>2, AllSummed
  <2>4. MatrixHolds' /\ Shape' /\ TasksAdded'
    BY <1>1, <1>2, <2>1, <2>3, SumsStay
       DEF CorrectionsInv, MatrixHolds, Shape, TasksAdded, ListStays
  <2> QED
    BY <1>1, <1>3, <2>3, <2>4 DEF CorrectionsInv
<1>5. CASE ~ (i > Len(ccs))
  <2>1. phase' = phase /\ i' = i + 1 /\ W' = IF ccs[i] \in inactive THEN W ELSE Plus(W, ccs[i])
    BY <1>5 DEF AddCompliance
  <2>2. i \in DOMAIN ccs /\ i + 1 \in 1 .. Len(ccs) + 1
    BY <1>2, <1>5
  <2>3. W' = Sums(i + 1)
    BY <1>2, <2>1, <2>2, OneMoreSummed
  <2>4. Sums(i)' = Sums(i + 1)
    BY <1>1, <2>1 DEF Sums, ListStays
  <2>5. MatrixHolds' /\ Shape' /\ TasksAdded'
    BY <1>1, <1>2, <2>1, <2>2, <2>3, <2>4
       DEF CorrectionsInv, MatrixHolds, Shape, TasksAdded, ListStays
  <2> QED
    BY <1>1, <1>3, <2>1, <2>5 DEF CorrectionsInv
<1> QED
  BY <1>4, <1>5

LEMMA AccumulateInv ==
  ASSUME CorrectionsInv, Accumulate
  PROVE  CorrectionsInv' /\ ListStays /\ (phase' = "apply" => W' = Active)
<1>1. /\ phase = "sum" /\ ListStays /\ task' = task /\ taskW' = taskW /\ loaded' = loaded
  BY DEF Accumulate, scene, tasks, ListStays
<1>2. /\ Len(ccs) \in Nat /\ DOMAIN ccs = 1 .. Len(ccs) /\ i \in 1 .. Len(ccs) + 1 /\ W = Sums(i)
      /\ \A k \in DOMAIN ccs : ccs[k] \in Corrections
      /\ \A k \in DOMAIN ccs : task[k] \in {"none", "done"} /\ (task[k] = "none" <=> ccs[k] \in inactive)
  BY <1>1, ListFacts DEF CorrectionsInv, MatrixHolds, TasksAdded
<1>3. TasksHold' /\ FlagsHold' /\ phase' \in {"sum", "apply"}
  <2>1. phase' \in {"sum", "apply"}
    BY <1>1 DEF Accumulate
  <2> QED
    BY <1>1, <2>1 DEF CorrectionsInv, TasksHold, TaskHolds, FlagsHold, ListStays, Zero, Plus
<1>4. CASE i > Len(ccs)
  <2>1. phase' = "apply" /\ i' = i /\ W' = W
    BY <1>4 DEF Accumulate
  <2>2. i = Len(ccs) + 1
    BY <1>2, <1>4
  <2>3. W' = Active
    BY <1>2, <2>1, <2>2, AllSummed
  <2>4. MatrixHolds' /\ Shape' /\ TasksAdded'
    BY <1>1, <1>2, <2>1, <2>3, SumsStay
       DEF CorrectionsInv, MatrixHolds, Shape, TasksAdded, ListStays
  <2> QED
    BY <1>1, <1>3, <2>3, <2>4 DEF CorrectionsInv
<1>5. CASE ~ (i > Len(ccs))
  <2>1. phase' = phase /\ i' = i + 1 /\ W' = IF ccs[i] \in inactive THEN W ELSE Sum(W, taskW[i])
    BY <1>5 DEF Accumulate
  <2>2. i \in DOMAIN ccs /\ i + 1 \in 1 .. Len(ccs) + 1
    BY <1>2, <1>5
  <2>3. ccs[i] \notin inactive => Sum(W, taskW[i]) = Plus(W, ccs[i])
    <3> SUFFICES ASSUME ccs[i] \notin inactive PROVE Sum(W, taskW[i]) = Plus(W, ccs[i])
      OBVIOUS
    <3>1. task[i] = "done"
      BY <1>2, <2>2
    <3>2. taskW[i] = Plus(Zero, ccs[i])
      BY <1>1, <2>2, <3>1 DEF CorrectionsInv, TasksHold, TaskHolds
    <3>3. W \in [Corrections -> Int] /\ ccs[i] \in Corrections
      BY <1>2, <2>2 DEF Sums
    <3> QED
      BY <3>2, <3>3, SumIsPlus
  <2>4. W' = Sums(i + 1)
    BY <1>2, <2>1, <2>2, <2>3, OneMoreSummed
  <2>5. Sums(i)' = Sums(i + 1)
    BY <1>1, <2>1 DEF Sums, ListStays
  <2>6. MatrixHolds' /\ Shape' /\ TasksAdded'
    BY <1>1, <1>2, <2>1, <2>2, <2>4, <2>5
       DEF CorrectionsInv, MatrixHolds, Shape, TasksAdded, ListStays
  <2> QED
    BY <1>1, <1>3, <2>1, <2>6 DEF CorrectionsInv
<1> QED
  BY <1>4, <1>5

LEMMA AddTaskInv ==
  ASSUME CorrectionsInv, AddTask
  PROVE  CorrectionsInv' /\ ListStays /\ phase' # "apply"
<1>1. phase = "spawn" /\ ListStays /\ W' = W /\ taskW' = taskW /\ loaded' = loaded
  BY DEF AddTask, scene, ListStays
<1>2. /\ Len(ccs) \in Nat /\ DOMAIN ccs = 1 .. Len(ccs) /\ i \in 1 .. Len(ccs) + 1 /\ W = Zero
      /\ \A k \in DOMAIN ccs : IF k < i THEN task[k] = "none" <=> ccs[k] \in inactive ELSE task[k] = "none"
      /\ task = [k \in DOMAIN ccs |-> task[k]] /\ \A k \in DOMAIN ccs : TaskHolds(k)
  BY <1>1, ListFacts DEF CorrectionsInv, MatrixHolds, TasksAdded, TasksHold
<1>3. FlagsHold' /\ MatrixHolds' /\ phase' \in {"spawn", "wait"}
  <2>1. phase' \in {"spawn", "wait"}
    BY <1>1 DEF AddTask
  <2> QED
    BY <1>1, <1>2, <2>1 DEF CorrectionsInv, FlagsHold, MatrixHolds, ListStays, Zero
<1>4. CASE i > Len(ccs)
  <2>1. phase' = "wait" /\ i' = i /\ task' = task
    BY <1>4 DEF AddTask
  <2>2. \A k \in DOMAIN ccs : k < i
    BY <1>2, <1>4
  <2>3. TasksHold'
    BY <1>1, <2>1 DEF CorrectionsInv, TasksHold, TaskHolds, ListStays, Zero, Plus
  <2>4. Shape' /\ TasksAdded'
    BY <1>1, <1>2, <2>1, <2>2 DEF CorrectionsInv, Shape, TasksAdded, ListStays
  <2> QED
    BY <1>1, <1>3, <2>3, <2>4 DEF CorrectionsInv
<1>5. CASE ~ (i > Len(ccs))
  <2>1. /\ phase' = phase /\ i' = i + 1
        /\ task' = [task EXCEPT ![i] = IF ccs[i] \in inactive THEN "none" ELSE "queued"]
    BY <1>5 DEF AddTask
  <2>2. i \in DOMAIN ccs /\ i + 1 \in 1 .. Len(ccs) + 1
    BY <1>2, <1>5
  <2>3. /\ task' = [k \in DOMAIN ccs |-> task'[k]]
        /\ task'[i] = IF ccs[i] \in inactive THEN "none" ELSE "queued"
        /\ \A k \in DOMAIN ccs : k # i => task'[k] = task[k]
    BY <1>2, <2>1, <2>2
  <2>4. \A k \in DOMAIN ccs : TaskHolds(k)'
    <3> TAKE k \in DOMAIN ccs
    <3>1. TaskHolds(k)
      BY <1>2
    <3>2. CASE k # i
      BY <1>1, <2>3, <3>1, <3>2 DEF TaskHolds, ListStays, Zero, Plus
    <3>3. CASE k = i
      <4>1. task[k] = "none" /\ task'[k] \in {"none", "queued"}
        BY <1>2, <2>2, <2>3, <3>3
      <4> QED
        BY <1>1, <3>1, <4>1 DEF TaskHolds, ListStays, Zero, Plus
    <3> QED
      BY <3>2, <3>3
  <2>5. TasksHold'
    BY <1>1, <2>1, <2>3, <2>4 DEF CorrectionsInv, TasksHold, ListStays
  <2>6. \A k \in DOMAIN ccs : IF k < i' THEN task'[k] = "none" <=> ccs[k] \in inactive ELSE task'[k] = "none"
    <3> TAKE k \in DOMAIN ccs
    <3>1. CASE k < i
      <4>1. k < i' /\ k # i
        BY <1>2, <2>1, <3>1
      <4> QED
        BY <1>2, <2>3, <3>1, <4>1
    <3>2. CASE k = i
      <4>1. k < i'
        BY <1>2, <2>1, <3>2
      <4> QED
        BY <2>3, <3>2, <4>1
    <3>3. CASE k > i
      <4>1. ~ (k < i') /\ k # i /\ ~ (k < i)
        BY <1>2, <2>1, <3>3
      <4> QED
        BY <1>2, <2>3, <4>1
    <3> QED
      BY <1>2, <3>1, <3>2, <3>3
  <2>7. Shape' /\ TasksAdded'
    BY <1>1, <1>2, <2>1, <2>2, <2>6 DEF CorrectionsInv, Shape, TasksAdded, ListStays
  <2> QED
    BY <1>1, <1>3, <2>5, <2>7 DEF CorrectionsInv
<1> QED
  BY <1>4, <1>5

LEMMA WorkerInv ==
  ASSUME CorrectionsInv, Worker
  PROVE  CorrectionsInv' /\ ListStays /\ phase' = phase /\ phase \in {"spawn", "wait"}
<1>1. PICK n \in DOMAIN task : RunTask(n) /\ UNCHANGED <<phase, ccs, flags, scene, i, moved>>
  BY DEF Worker
<1>2. ListStays /\ phase' = phase /\ i' = i /\ W' = W
  BY <1>1 DEF RunTask, scene, ListStays
<1>3. task[n] \in {"queued", "running"}
  BY <1>1 DEF RunTask
<1>4. phase # "idle"
  BY <1>1 DEF CorrectionsInv, TasksHold, NoTasks
<1>5. /\ n \in DOMAIN ccs /\ task = [k \in DOMAIN ccs |-> task[k]]
      /\ taskW = [k \in DOMAIN ccs |-> taskW[k]] /\ loaded = [k \in DOMAIN ccs |-> loaded[k]]
      /\ \A k \in DOMAIN ccs : TaskHolds(k)
  <2>1. /\ task = [k \in DOMAIN ccs |-> task[k]]
        /\ taskW = [k \in DOMAIN ccs |-> taskW[k]] /\ loaded = [k \in DOMAIN ccs |-> loaded[k]]
        /\ \A k \in DOMAIN ccs : TaskHolds(k)
    BY <1>4 DEF CorrectionsInv, TasksHold
  <2> QED
    BY <1>1, <2>1
<1>6. phase \in {"spawn", "wait"}
  BY <1>3, <1>4, <1>5 DEF CorrectionsInv, Shape, TasksAdded
<1>7. task'[n] \in {"running", "done"} /\ \A k \in DOMAIN ccs : k # n => task'[k] = task[k]
  BY <1>1, <1>5 DEF RunTask
<1>8. /\ task' = [k \in DOMAIN ccs |-> task'[k]] /\ taskW' = [k \in DOMAIN ccs |-> taskW'[k]]
      /\ loaded' = [k \in DOMAIN ccs |-> loaded'[k]]
      /\ \A k \in DOMAIN ccs : k # n => taskW'[k] = taskW[k] /\ loaded'[k] = loaded[k]
  BY <1>1, <1>5 DEF RunTask
<1>9. TaskHolds(n)'
  <2>1. CASE task[n] = "queued"
    <3>1. task'[n] = "running" /\ loaded'[n] = taskW[n] /\ taskW' = taskW /\ taskW[n] = Zero
      BY <1>1, <1>5, <2>1 DEF RunTask, TaskHolds
    <3> QED
      BY <1>2, <3>1 DEF TaskHolds, Zero, Plus
  <2>2. CASE task[n] = "running"
    <3>1. task'[n] = "done" /\ taskW'[n] = Plus(loaded[n], ccs[n]) /\ loaded[n] = Zero
      BY <1>1, <1>5, <2>2 DEF RunTask, TaskHolds
    <3> QED
      BY <1>2, <3>1 DEF TaskHolds, Zero, Plus, ListStays
  <2> QED
    BY <1>3, <2>1, <2>2
<1>10. \A k \in DOMAIN ccs : TaskHolds(k)'
  <2> TAKE k \in DOMAIN ccs
  <2>1. CASE k # n
    BY <1>2, <1>5, <1>7, <1>8, <2>1 DEF TaskHolds, ListStays, Zero, Plus
  <2> QED
    BY <1>9, <2>1
<1>11. TasksHold'
  BY <1>2, <1>4, <1>8, <1>10 DEF TasksHold, ListStays
<1>12. \A k \in DOMAIN ccs : task'[k] = "none" <=> task[k] = "none"
  BY <1>3, <1>7
<1>13. \A k \in DOMAIN ccs : phase = "spawn" /\ ~ (k < i) => task'[k] = "none"
  BY <1>12 DEF CorrectionsInv, TasksAdded
<1>14. TasksAdded'
  BY <1>2, <1>6, <1>12, <1>13 DEF CorrectionsInv, TasksAdded, ListStays
<1>15. Shape' /\ MatrixHolds' /\ FlagsHold'
  BY <1>2, <1>6 DEF CorrectionsInv, Shape, MatrixHolds, FlagsHold, ListStays, Zero
<1> QED
  BY <1>2, <1>6, <1>11, <1>14, <1>15 DEF CorrectionsInv

LEMMA WorkUntilDoneInv ==
  ASSUME CorrectionsInv, WorkUntilDone
  PROVE  CorrectionsInv' /\ ListStays /\ phase' # "apply" /\ phase # "apply"
<1>1. /\ phase = "wait" /\ phase' = "sum" /\ i' = 1 /\ ListStays /\ W' = W
      /\ task' = task /\ taskW' = taskW /\ loaded' = loaded
      /\ \A k \in DOMAIN task : task[k] \in {"none", "done"}
  BY DEF WorkUntilDone, scene, tasks, ListStays
<1>2. TasksHold'
  BY <1>1 DEF CorrectionsInv, TasksHold, TaskHolds, ListStays, Zero, Plus
<1>3. DOMAIN task = DOMAIN ccs
  BY <1>1 DEF CorrectionsInv, TasksHold
<1>4. TasksAdded'
  BY <1>1, <1>3 DEF CorrectionsInv, TasksAdded, ListStays
<1>5. Len(ccs) \in Nat
  BY ListFacts
<1>6. Shape' /\ FlagsHold'
  BY <1>1, <1>5 DEF CorrectionsInv, Shape, FlagsHold, ListStays
<1>7. MatrixHolds'
  <2>1. W' = Zero
    BY <1>1 DEF CorrectionsInv, MatrixHolds
  <2>2. Sums(i)' = Sums(1)
    BY <1>1 DEF Sums, ListStays
  <2> QED
    BY <1>1, <2>1, <2>2, NothingSummed DEF MatrixHolds
<1> QED
  BY <1>1, <1>2, <1>4, <1>6, <1>7 DEF CorrectionsInv

LEMMA ApplyCorrectionInv ==
  ASSUME CorrectionsInv, ApplyCorrection
  PROVE  /\ CorrectionsInv' /\ ListStays /\ phase = "apply" /\ phase' = "idle"
         /\ moved' = Range(ccs) \ (inactive \cup asleep)
<1>1. /\ phase = "apply" /\ phase' = "idle" /\ i' = 1 /\ ListStays /\ W' = Zero /\ task' = NoTasks
      /\ moved' = {ccs[k] : k \in {k \in DOMAIN ccs : flags[k] /\ ccs[k] \notin inactive}}
  BY DEF ApplyCorrection, scene, ListStays
<1>2. Len(ccs) \in Nat
  BY ListFacts
<1>3. Shape'
  BY <1>1, <1>2 DEF CorrectionsInv, Shape, ListStays
<1>4. TasksHold' /\ TasksAdded' /\ MatrixHolds' /\ FlagsHold'
  BY <1>1 DEF TasksHold, TasksAdded, MatrixHolds, FlagsHold, NoTasks, Zero
<1>5. \A k \in DOMAIN ccs : flags[k] <=> ccs[k] \notin asleep
  BY <1>1 DEF CorrectionsInv, FlagsHold
<1>6. moved' = Range(ccs) \ (inactive \cup asleep)
  BY <1>1, <1>5 DEF Range
<1> QED
  BY <1>1, <1>3, <1>4, <1>6 DEF CorrectionsInv

-----------------------------------------------------------------------------
(* The steps of the promise: the list and the scene may change between     *)
(* resolutions, the end of either loop is Build, all else stutters.        *)
Stage == IF phase = "apply" THEN "built" ELSE "idle"
Comp == IF phase = "apply" THEN W ELSE Zero
promised == <<Stage, Range(ccs), asleep, inactive, Comp, moved>>

LEMMA ImplementsInit == Init => Promise!Init
<1> SUFFICES ASSUME Init PROVE Promise!Init
  OBVIOUS
<1>1. phase = "idle" /\ moved = {} /\ asleep \subseteq Corrections /\ inactive \subseteq Corrections
  BY DEF Init
<1>2. ccs \in Seq(Corrections)
  BY CorrectionsInit DEF CorrectionsInv, Shape
<1>3. Range(ccs) \subseteq Corrections
  BY <1>2 DEF Range
<1> QED
  BY <1>1, <1>3 DEF Promise!Init, Promise!Zero, Zero

LEMMA IdleImplements ==
  ASSUME IdleStays, CorrectionsInv', moved' = moved
  PROVE  Promise!ChangeScene
<1>1. ccs' \in Seq(Corrections) /\ asleep' \subseteq Corrections /\ inactive' \subseteq Corrections
  BY DEF CorrectionsInv, Shape
<1>2. Range(ccs') \subseteq Corrections
  BY <1>1 DEF Range
<1> QED
  BY <1>1, <1>2 DEF Promise!ChangeScene, IdleStays, Zero, Promise!Zero

LEMMA InnerImplements ==
  ASSUME ListStays, phase # "apply", phase' # "apply", moved' = moved
  PROVE  UNCHANGED promised
BY DEF ListStays, promised, Stage, Comp, Zero, Range

LEMMA BuildImplements ==
  ASSUME ListStays, phase # "apply", phase' = "apply", W' = Active, moved' = moved
  PROVE  Promise!Build
BY DEF ListStays, Promise!Build, Active

LEMMA StepsImplement == CorrectionsInv /\ [Next]_vars => CorrectionsInv' /\ [Promise!Next]_promised
<1> SUFFICES ASSUME CorrectionsInv, [Next]_vars
             PROVE  CorrectionsInv' /\ (Promise!Next \/ UNCHANGED promised)
  OBVIOUS
<1>1. CASE Collect
  BY <1>1, CollectInv, IdleImplements DEF Collect, Promise!Next
<1>2. CASE Cleanup
  BY <1>2, CleanupInv, IdleImplements DEF Cleanup, Promise!Next
<1>3. CASE ChangeScene
  BY <1>3, ChangeSceneInv, IdleImplements DEF ChangeScene, Promise!Next
<1>4. CASE \E c \in Corrections : RemoveConstraintCorrection(c)
  <2>1. PICK c \in Corrections : RemoveConstraintCorrection(c)
    BY <1>4
  <2>2. moved' = moved
    BY <2>1 DEF RemoveConstraintCorrection
  <2> QED
    BY <2>1, <2>2, RemoveInv, IdleImplements DEF Promise!Next
<1>5. CASE StartBuild
  <2>1. /\ phase # "apply" /\ phase' # "apply" /\ moved' = moved
        /\ ccs' = ccs /\ asleep' = asleep /\ inactive' = inactive
    BY <1>5 DEF StartBuild, scene
  <2>2. UNCHANGED promised
    BY <2>1 DEF promised, Stage, Comp, Zero, Range
  <2> QED
    BY <1>5, <2>2, StartBuildInv
<1>6. CASE AddCompliance
  <2>1. phase # "apply" /\ moved' = moved
    BY <1>6 DEF AddCompliance
  <2> QED
    BY <1>6, <2>1, AddComplianceInv, InnerImplements, BuildImplements DEF Promise!Next
<1>7. CASE AddTask
  <2>1. phase # "apply" /\ moved' = moved
    BY <1>7 DEF AddTask
  <2> QED
    BY <1>7, <2>1, AddTaskInv, InnerImplements
<1>8. CASE WorkUntilDone
  <2>1. moved' = moved
    BY <1>8 DEF WorkUntilDone
  <2> QED
    BY <1>8, <2>1, WorkUntilDoneInv, InnerImplements
<1>9. CASE Accumulate
  <2>1. phase # "apply" /\ moved' = moved
    BY <1>9 DEF Accumulate
  <2> QED
    BY <1>9, <2>1, AccumulateInv, InnerImplements, BuildImplements DEF Promise!Next
<1>10. CASE ApplyCorrection
  <2>1. /\ CorrectionsInv' /\ ListStays /\ phase = "apply" /\ phase' = "idle"
        /\ moved' = Range(ccs) \ (inactive \cup asleep)
    BY <1>10, ApplyCorrectionInv
  <2>2. Promise!Apply
    BY <2>1 DEF Promise!Apply, Promise!Zero, Zero, ListStays
  <2> QED
    BY <2>1, <2>2 DEF Promise!Next
<1>11. CASE Worker
  <2>1. moved' = moved
    BY <1>11 DEF Worker
  <2>2. phase # "apply" /\ phase' # "apply"
    BY <1>11, WorkerInv
  <2> QED
    BY <1>11, <2>1, <2>2, WorkerInv, InnerImplements
<1>12. CASE UNCHANGED vars
  <2>1. /\ phase' = phase /\ ListStays /\ i' = i /\ W' = W /\ moved' = moved
        /\ task' = task /\ taskW' = taskW /\ loaded' = loaded
    BY <1>12 DEF vars, ListStays
  <2>2. Shape' /\ FlagsHold'
    BY <2>1 DEF CorrectionsInv, Shape, FlagsHold, ListStays
  <2>3. TasksHold' /\ TasksAdded'
    BY <2>1 DEF CorrectionsInv, TasksHold, TaskHolds, TasksAdded, ListStays, Zero, Plus
  <2>4. MatrixHolds'
    BY <2>1 DEF CorrectionsInv, MatrixHolds, Sums, Active, ListStays, Zero
  <2>5. UNCHANGED promised
    BY <2>1 DEF ListStays, promised, Stage, Comp, Zero, Range
  <2> QED
    BY <2>2, <2>3, <2>4, <2>5 DEF CorrectionsInv
<1> QED
  BY <1>1, <1>2, <1>3, <1>4, <1>5, <1>6, <1>7, <1>8, <1>9, <1>10, <1>11, <1>12 DEF Next, Solver

(* A resolution, on one thread or with tasks that run in any order and     *)
(* interleaving, puts each active correction once into the matrix and      *)
(* moves the active and awake ones, for any corrections that come, go,     *)
(* fall asleep and are switched off between resolutions.                   *)
THEOREM ResolutionsKeepThePromise == Spec => ImplementsCorrection
<1>1. Init => CorrectionsInv /\ Promise!Init
  BY CorrectionsInit, ImplementsInit
<1>2. CorrectionsInv /\ [Next]_vars => CorrectionsInv' /\ [Promise!Next]_promised
  BY StepsImplement
<1> QED
  BY <1>1, <1>2, PTL DEF Spec, ImplementsCorrection, Promise!Spec, promised, Stage, Comp
=============================================================================

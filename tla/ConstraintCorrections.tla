----------------------- MODULE ConstraintCorrections ------------------------
(***************************************************************************)
(* The constraint corrections in solver/QPInverseProblemSolver.cpp: the    *)
(* list and its flags (init, removeConstraintCorrection, cleanup,          *)
(* getConstraintCorrectionState), buildCompliance on one thread or with    *)
(* one task per correction, and applyCorrection.  The task scheduler is    *)
(* SOFA's (external): a task that was added runs at any time, in any       *)
(* thread.                                                                 *)
(***************************************************************************)
EXTENDS Integers, Sequences, FiniteSets, Functions

CONSTANTS
  Corrections,    \* the constraint corrections of the scene
  Multithreading  \* the values d_multithreading takes from step to step

ASSUME CorrectionsAssumption == IsFiniteSet(Corrections) /\ Multithreading \subseteq BOOLEAN

VARIABLES
  phase,    \* where the resolution is
  ccs,      \* m_constraintsCorrections
  flags,    \* m_isConstraintCorrectionActive
  asleep,   \* the corrections whose node is sleeping
  inactive, \* the corrections with isActive() false
  i,        \* the index of the loop under way
  W,        \* m_currentCP->W: how often each correction was added
  task,     \* per index: the state of tasks[i]
  taskW,    \* per index: the matrix W of tasks[i]
  loaded,   \* per index: the values a running task has read
  moved     \* the corrections applied by the last resolution

vars == <<phase, ccs, flags, asleep, inactive, i, W, task, taskW, loaded, moved>>
scene == <<asleep, inactive>>
tasks == <<task, taskW, loaded>>

Zero == [c \in Corrections |-> 0]
Plus(m, c) == [m EXCEPT ![c] = @ + 1]
Sum(m, n) == [c \in Corrections |-> m[c] + n[c]]
NoTasks == [k \in {} |-> "none"]

(* get<BaseConstraintCorrection>: the corrections below the solver's node, *)
(* in some order.                                                          *)
Collected(S) == {s \in [1 .. Cardinality(S) -> S] : IsInjective(s)}

(* vector::resize: values kept, or filled with false.                      *)
Resized(s, n) == [k \in 1 .. n |-> IF k <= Len(s) THEN s[k] ELSE FALSE]

Init ==
  /\ phase = "idle" /\ i = 1
  /\ \E S \in SUBSET Corrections : ccs \in Collected(S)
  /\ flags = Resized(<<>>, Len(ccs))
  /\ asleep \in SUBSET Corrections /\ inactive \in SUBSET Corrections
  /\ W = Zero /\ moved = {}
  /\ task = NoTasks /\ taskW = NoTasks /\ loaded = NoTasks

-----------------------------------------------------------------------------
(* Between two resolutions.                                                *)

(* init() on the corrections now in the scene.                             *)
Collect ==
  /\ phase = "idle"
  /\ \E S \in SUBSET Corrections : ccs' \in Collected(S)
  /\ flags' = Resized(flags, Len(ccs'))
  /\ UNCHANGED <<phase, scene, i, W, tasks, moved>>

(* The list without its element p: what follows moves up by one.           *)
Without(s, p) == [k \in 1 .. Len(s) - 1 |-> IF k < p THEN s[k] ELSE s[k + 1]]

(* removeConstraintCorrection takes it off the list, where it is once, but *)
(* not off the flags.                                                      *)
RemoveConstraintCorrection(c) ==
  /\ phase = "idle"
  /\ \E p \in DOMAIN ccs : ccs[p] = c /\ ccs' = Without(ccs, p)
  /\ UNCHANGED <<phase, flags, scene, i, W, tasks, moved>>

(* cleanup(): the list is emptied.                                         *)
Cleanup ==
  /\ phase = "idle" /\ ccs # <<>>
  /\ ccs' = <<>>
  /\ UNCHANGED <<phase, flags, scene, i, W, tasks, moved>>

(* Bodies fall asleep, wake up, are switched on and off (external).        *)
ChangeScene ==
  /\ phase = "idle"
  /\ asleep' \in SUBSET Corrections /\ inactive' \in SUBSET Corrections
  /\ UNCHANGED <<phase, ccs, flags, i, W, tasks, moved>>

-----------------------------------------------------------------------------
(* getConstraintCorrectionState: the flags of the listed corrections.      *)
CorrectionState ==
  [k \in DOMAIN flags |-> IF k <= Len(ccs) THEN ccs[k] \notin asleep ELSE flags[k]]

(* buildSystem up to buildCompliance: W is cleared with the problem.       *)
StartBuild ==
  /\ phase = "idle"
  /\ flags' = CorrectionState
  /\ W' = Zero /\ i' = 1
  /\ task' = [k \in DOMAIN ccs |-> "none"]
  /\ taskW' = [k \in DOMAIN ccs |-> Zero] /\ loaded' = [k \in DOMAIN ccs |-> Zero]
  /\ \E threads \in Multithreading : phase' = IF threads THEN "spawn" ELSE "add"
  /\ UNCHANGED <<ccs, scene, moved>>

(* The loop without threads.                                               *)
AddCompliance ==
  /\ phase = "add"
  /\ IF i > Len(ccs)
     THEN phase' = "apply" /\ UNCHANGED <<i, W>>
     ELSE /\ W' = IF ccs[i] \in inactive THEN W ELSE Plus(W, ccs[i])
          /\ i' = i + 1 /\ UNCHANGED phase
  /\ UNCHANGED <<ccs, flags, scene, tasks, moved>>

(* The loop that sets and adds the tasks of the active corrections.        *)
AddTask ==
  /\ phase = "spawn"
  /\ IF i > Len(ccs)
     THEN phase' = "wait" /\ UNCHANGED <<i, task>>
     ELSE /\ task' = [task EXCEPT ![i] = IF ccs[i] \in inactive THEN "none" ELSE "queued"]
          /\ i' = i + 1 /\ UNCHANGED phase
  /\ UNCHANGED <<ccs, flags, scene, W, taskW, loaded, moved>>

(* A task that works on the matrix of the problem.                         *)
RunTaskOnSharedW(k) ==
  \/ /\ task[k] = "queued"
     /\ task' = [task EXCEPT ![k] = "running"]
     /\ loaded' = [loaded EXCEPT ![k] = W]
     /\ UNCHANGED <<W, taskW>>
  \/ /\ task[k] = "running"
     /\ task' = [task EXCEPT ![k] = "done"]
     /\ W' = Plus(loaded[k], ccs[k])
     /\ UNCHANGED <<taskW, loaded>>

(* ComputeComplianceTask::run in two steps: the entries of a matrix are    *)
(* read, then written with the compliance added.  The matrix is the task's *)
(* own.                                                                    *)
RunTask(k) ==
  \/ /\ task[k] = "queued"
     /\ task' = [task EXCEPT ![k] = "running"]
     /\ loaded' = [loaded EXCEPT ![k] = taskW[k]]
     /\ UNCHANGED <<W, taskW>>
  \/ /\ task[k] = "running"
     /\ task' = [task EXCEPT ![k] = "done"]
     /\ taskW' = [taskW EXCEPT ![k] = Plus(loaded[k], ccs[k])]
     /\ UNCHANGED <<W, loaded>>

Worker == \E k \in DOMAIN task :
            RunTask(k) /\ UNCHANGED <<phase, ccs, flags, scene, i, moved>>

(* workUntilDone that also waits for the tasks that were not added.        *)
WorkUntilAllDone ==
  /\ phase = "wait" /\ \A k \in DOMAIN task : task[k] = "done"
  /\ phase' = "sum" /\ i' = 1
  /\ UNCHANGED <<ccs, flags, scene, W, tasks, moved>>

(* workUntilDone: no task that was added is left unfinished.               *)
WorkUntilDone ==
  /\ phase = "wait" /\ \A k \in DOMAIN task : task[k] \in {"none", "done"}
  /\ phase' = "sum" /\ i' = 1
  /\ UNCHANGED <<ccs, flags, scene, W, tasks, moved>>

(* The loop that adds up the matrices of the tasks.                        *)
Accumulate ==
  /\ phase = "sum"
  /\ IF i > Len(ccs)
     THEN phase' = "apply" /\ UNCHANGED <<i, W>>
     ELSE /\ W' = IF ccs[i] \in inactive THEN W ELSE Sum(W, taskW[i])
          /\ i' = i + 1 /\ UNCHANGED phase
  /\ UNCHANGED <<ccs, flags, scene, tasks, moved>>

(* applyCorrection: flags[i] is read for every i below the list's length.  *)
ApplyCorrection ==
  /\ phase = "apply" /\ phase' = "idle"
  /\ moved' = {ccs[k] : k \in {k \in DOMAIN ccs : flags[k] /\ ccs[k] \notin inactive}}
  /\ W' = Zero /\ i' = 1
  /\ task' = NoTasks /\ taskW' = NoTasks /\ loaded' = NoTasks
  /\ UNCHANGED <<ccs, flags, scene>>

Solver == StartBuild \/ AddCompliance \/ AddTask \/ WorkUntilDone \/ Accumulate \/ ApplyCorrection

Next == \/ Collect \/ Cleanup \/ ChangeScene
        \/ \E c \in Corrections : RemoveConstraintCorrection(c)
        \/ Solver \/ Worker

Spec == Init /\ [][Next]_vars

(* The simulation's thread goes on with a resolution it began, and the     *)
(* scheduler's threads run what was added.                                 *)
FairSpec == Spec /\ WF_vars(phase # "idle" /\ Solver) /\ WF_vars(Worker)
-----------------------------------------------------------------------------
(* The types of the variables; the flags reach as far as the list, so that *)
(* getConstraintCorrectionState and applyCorrection stay inside them.      *)
TypeOK ==
  /\ phase \in {"idle", "add", "spawn", "wait", "sum", "apply"}
  /\ ccs \in Seq(Corrections) /\ IsInjective(ccs)
  /\ flags \in Seq(BOOLEAN) /\ Len(flags) >= Len(ccs)
  /\ asleep \subseteq Corrections /\ inactive \subseteq Corrections /\ moved \subseteq Corrections
  /\ i \in 1 .. Len(ccs) + 1
  /\ W \in [Corrections -> Nat]
  /\ task \in [DOMAIN task -> {"none", "queued", "running", "done"}]
  /\ DOMAIN task \in {{}, DOMAIN ccs}

(***************************************************************************)
(* The resolution, threaded or not, does what the sequential promise of    *)
(* Correction says: every active correction exactly once in the matrix,    *)
(* the active and awake ones moved, whatever left the list or fell asleep  *)
(* before.                                                                 *)
(***************************************************************************)
Promise == INSTANCE Correction WITH
  stage  <- IF phase = "apply" THEN "built" ELSE "idle",
  listed <- Range(ccs),
  comp   <- IF phase = "apply" THEN W ELSE Zero
ImplementsCorrection == Promise!Spec

(***************************************************************************)
(* A resolution that was begun ends: no task is waited for that nobody     *)
(* runs.                                                                   *)
(***************************************************************************)
ResolutionEnds == (phase # "idle") ~> (phase = "idle")
=============================================================================

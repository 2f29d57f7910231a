----------------------- MODULE QPInverseProblemSolver -----------------------
(***************************************************************************)
(* The three constraint problems of solver/QPInverseProblemSolver.cpp and  *)
(* who may touch them when.  The simulation's thread writes m_currentCP    *)
(* step after step; force feedback clients (external to the plugin: SOFA's *)
(* haptic components) take the problem of the last step, read it in        *)
(* threads of their own, and ask with lockConstraintProblem that it be     *)
(* left alone meanwhile.                                                   *)
(***************************************************************************)
EXTENDS Integers, FiniteSets

CONSTANTS
  Clients,    \* the components that call getConstraintProblem and lockConstraintProblem
  MaxSteps,   \* bound: resolutions of the simulation
  MaxReinits  \* bound: calls of init() and reinit() after the first

ASSUME ClientsAssumption == IsFiniteSet(Clients)
ASSUME StepsAssumption == MaxSteps \in Nat /\ MaxReinits \in Nat

(* A problem is one of the three allocated by a call of createProblems.    *)
Problem == (0 .. MaxReinits) \X (1 .. 3)
NULL == <<0, 0>>

VARIABLES
  phase,    \* how far the resolution is
  gen,      \* the latest call of createProblems
  current,  \* m_currentCP
  last,     \* m_lastCP
  step,     \* the number of resolutions begun
  content,  \* what each problem holds, and of which resolution
  next,     \* per client: the problem published for its thread
  cur,      \* per client: the problem its thread reads, or read last
  reading,  \* the clients whose thread is reading
  pub,      \* the clients that took the problem of this step
  told      \* the clients that locked it

vars == <<phase, gen, current, last, step, content, next, cur, reading, pub, told>>
haptics == <<next, cur, reading, pub, told>>

Stages == {"none", "fresh", "lists", "built", "solved", "deleted"}
Content == [step : 0 .. MaxSteps, stage : Stages]

(* createProblems: three fresh problems, the first one current.            *)
Created(g) == [p \in Problem |-> [step  |-> 0,
                                  stage |-> IF p[1] = g THEN "fresh"
                                            ELSE IF p[1] < g THEN "deleted" ELSE "none"]]

Init ==
  /\ phase = "idle" /\ gen = 0 /\ current = <<0, 1>> /\ last = NULL /\ step = 0
  /\ content = Created(0)
  /\ next = [c \in Clients |-> NULL] /\ cur = [c \in Clients |-> NULL]
  /\ reading = {} /\ pub = {} /\ told = Clients

-----------------------------------------------------------------------------
(* The simulation's thread.                                                *)

(* deleteProblems and createProblems, called by init() and reinit() between *)
(* two steps.  m_lastCP keeps its value.                                   *)
Reinit ==
  /\ phase = "idle" /\ told = Clients /\ gen < MaxReinits
  /\ gen' = gen + 1
  /\ current' = <<gen', 1>>
  /\ content' = Created(gen')
  /\ UNCHANGED <<phase, last, step, haptics>>

(* prepareStates that sets m_lastCP the first time only.                   *)
PrepareStatesOnce ==
  /\ phase = "idle" /\ told = Clients /\ step < MaxSteps
  /\ phase' = "prepared" /\ step' = step + 1
  /\ last' = IF last = NULL THEN current ELSE last
  /\ UNCHANGED <<gen, current, content, haptics>>

PrepareStates ==
  /\ phase = "idle" /\ told = Clients /\ step < MaxSteps
  /\ phase' = "prepared" /\ step' = step + 1
  /\ last' = current
  /\ UNCHANGED <<gen, current, content, haptics>>

Write(stage) == content' = [content EXCEPT ![current] = [step |-> step, stage |-> stage]]

(* accumulateConstraint: clearProblem and the visitor that fills the lists.*)
AccumulateConstraint ==
  /\ phase = "prepared" /\ phase' = "accumulated"
  /\ Write("lists")
  /\ UNCHANGED <<gen, current, last, step, haptics>>

(* The rest of buildSystem: the size, the violations and the compliance.   *)
BuildSystem ==
  /\ phase = "accumulated" /\ phase' = "built"
  /\ Write("built")
  /\ UNCHANGED <<gen, current, last, step, haptics>>

SolveSystem ==
  /\ phase = "built" /\ phase' = "solved"
  /\ Write("solved")
  /\ UNCHANGED <<gen, current, last, step, haptics>>

(* applyCorrection and computeResidual read the forces of m_currentCP.  A  *)
(* step solves once or, velocities and positions apart, twice; then the    *)
(* end of the step is announced.                                           *)
ApplyCorrection ==
  /\ phase = "solved" /\ phase' = "idle"
  /\ \/ pub' = {} /\ told' = {}
     \/ UNCHANGED <<pub, told>>
  /\ UNCHANGED <<gen, current, last, step, content, next, cur, reading>>

GetConstraintProblem == last

(* lockConstraintProblem that looks at one problem only, that forgets the  *)
(* third problem, and that does nothing.                                   *)
LockFirstOnly(p1, p2) ==
  IF current # p1 THEN current
  ELSE IF <<gen, 1>> # p1 THEN <<gen, 1>> ELSE <<gen, 2>>
LockAmongTwo(p1, p2) ==
  IF current \notin {p1, p2} THEN current
  ELSE IF <<gen, 1>> \notin {p1, p2} THEN <<gen, 1>> ELSE <<gen, 2>>
LockIgnored(p1, p2) == current

(* lockConstraintProblem(from, p1, p2): the next value of m_currentCP.     *)
LockConstraintProblem(p1, p2) ==
  IF current \notin {p1, p2} THEN current
  ELSE IF <<gen, 1>> \notin {p1, p2} THEN <<gen, 1>>
  ELSE IF <<gen, 2>> \notin {p1, p2} THEN <<gen, 2>>
  ELSE <<gen, 3>>

-----------------------------------------------------------------------------
(* A client at the end of a step, still on the simulation's thread: it     *)
(* publishes the problem to its own thread, then locks it, and the one     *)
(* being read if any.                                                      *)
Publish(c) ==
  /\ phase = "idle" /\ c \notin pub /\ c \notin told
  /\ next' = [next EXCEPT ![c] = GetConstraintProblem]
  /\ pub' = pub \cup {c}
  /\ UNCHANGED <<phase, gen, current, last, step, content, cur, reading, told>>

Lock(c) ==
  /\ phase = "idle" /\ c \in pub /\ c \notin told
  /\ current' = LockConstraintProblem(next[c], IF c \in reading THEN cur[c] ELSE NULL)
  /\ told' = told \cup {c}
  /\ UNCHANGED <<phase, gen, last, step, content, next, cur, reading, pub>>

(* The client's thread.                                                    *)
StartRead(c) ==
  /\ c \notin reading /\ next[c] # NULL
  /\ cur' = [cur EXCEPT ![c] = next[c]]
  /\ reading' = reading \cup {c}
  /\ UNCHANGED <<phase, gen, current, last, step, content, next, pub, told>>

EndRead(c) ==
  /\ c \in reading
  /\ reading' = reading \ {c}
  /\ UNCHANGED <<phase, gen, current, last, step, content, next, cur, pub, told>>

Step == \/ PrepareStates \/ AccumulateConstraint \/ BuildSystem \/ SolveSystem
        \/ ApplyCorrection

Next ==
  \/ Reinit \/ Step
  \/ \E c \in Clients : Publish(c) \/ Lock(c) \/ StartRead(c) \/ EndRead(c)

Spec == Init /\ [][Next]_vars
-----------------------------------------------------------------------------
(* A problem allocated so far, deleted ones included, or none.             *)
Pointer == ((0 .. gen) \X (1 .. 3)) \cup {NULL}

(* The types of the variables; the current problem is one of the latest    *)
(* three.                                                                  *)
TypeOK ==
  /\ phase \in {"idle", "prepared", "accumulated", "built", "solved"}
  /\ gen \in 0 .. MaxReinits /\ step \in 0 .. MaxSteps
  /\ current \in {gen} \X (1 .. 3) /\ last \in Pointer
  /\ content \in [Problem -> Content]
  /\ next \in [Clients -> Pointer]
  /\ cur \in [Clients -> Pointer]
  /\ reading \subseteq Clients /\ pub \subseteq Clients /\ told \subseteq Clients

(* The problem a client's thread is reading now.                           *)
IsRead(c, p) == c \in reading /\ cur[c] = p

(***************************************************************************)
(* The comments of lockConstraintProblem: once every client has locked its *)
(* problems, the problem that the next step will write is none of them.    *)
(***************************************************************************)
CurrentProblemIsNotLocked ==
  told = Clients => \A c \in Clients : current # next[c] /\ ~IsRead(c, current)

(***************************************************************************)
(* What a force feedback thread reads is the complete solution of one      *)
(* step, as long as init() and reinit() are not called behind its back:    *)
(* never a problem being cleared, assembled or solved.                     *)
(***************************************************************************)
ReadersSeeSolvedProblems ==
  \A c \in Clients, p \in Problem :
    (IsRead(c, p) /\ p[1] = gen) => content[p].stage = "solved"

(***************************************************************************)
(* The problem under a reader does not change while it is read, whatever   *)
(* steps the simulation takes meanwhile (init() and reinit() excepted).    *)
(***************************************************************************)
ReadProblemIsStable ==
  [][\A c \in Clients, p \in Problem :
       (IsRead(c, p) /\ gen' = gen) => content'[p] = content[p]]_vars

(***************************************************************************)
(* What a client publishes is the solution of the step that just ended.    *)
(***************************************************************************)
PublishedProblemIsTheLatest ==
  \A c \in pub \ told : content[next[c]] = [step |-> step, stage |-> "solved"]
=============================================================================

-------------------- MODULE QPInverseProblemSolver_proofs --------------------
(***************************************************************************)
(* With one force feedback client, three problems are enough: the one the  *)
(* simulation writes is never the one the client reads or will read.       *)
(***************************************************************************)
EXTENDS QPInverseProblemSolver, TLAPS

(* At most one component locks problems.                                   *)
OneReader == \A c, d \in Clients : c = d

(* The problem c's thread reads, or will read when it starts, is p.        *)
Holds(c, p) == next[c] = p \/ IsRead(c, p)

(* A resolution runs only when the clients are done with the last one, on  *)
(* the problem that prepareStates recorded.                                *)
Running == phase # "idle" => told = Clients /\ last = current

(* Between the end of a step and its lock, a client has not yet been given *)
(* the problem of that step, or has been given exactly that.               *)
Ending ==
  \A c \in Clients \ told :
    /\ phase = "idle" /\ last = current
    /\ content[current] = [step |-> step, stage |-> "solved"]
    /\ IF c \in pub THEN next[c] = current ELSE ~Holds(c, current)

(* What a client holds, of the latest three problems, is solved.           *)
HeldIsSolved ==
  \A c \in Clients, p \in Problem :
    (Holds(c, p) /\ p[1] = gen) => content[p].stage = "solved"

(* The end of a resolution has its forces in the current problem.          *)
SolvedNow == phase = "solved" => content[current] = [step |-> step, stage |-> "solved"]

(* The inductive invariant.                                                *)
IInv == /\ TypeOK /\ Running /\ Ending /\ HeldIsSolved /\ SolvedNow
        /\ CurrentProblemIsNotLocked

-----------------------------------------------------------------------------
(* m_currentCP is one of the problems there are.                           *)
LEMMA CurrentIsProblem ==
  ASSUME TypeOK
  PROVE  current \in Problem /\ current[1] = gen
<1>1. gen \in 0 .. MaxReinits /\ current \in {gen} \X (1 .. 3)
  BY DEF TypeOK
<1>2. PICK k \in 1 .. 3 : current = <<gen, k>>
  BY <1>1
<1> QED
  BY <1>1, <1>2 DEF Problem

(* lockConstraintProblem returns one of the latest three problems, and     *)
(* none of the two it was given.                                           *)
LEMMA LockedIsLeft ==
  ASSUME TypeOK, NEW p1, NEW p2
  PROVE  /\ LockConstraintProblem(p1, p2) \in {gen} \X (1 .. 3)
         /\ LockConstraintProblem(p1, p2) \notin {p1, p2}
<1>1. current \in {gen} \X (1 .. 3) /\ gen \in Nat
  BY StepsAssumption DEF TypeOK
<1>2. <<gen, 1>> # <<gen, 2>> /\ <<gen, 1>> # <<gen, 3>> /\ <<gen, 2>> # <<gen, 3>>
  OBVIOUS
<1>3. {<<gen, 1>>, <<gen, 2>>, <<gen, 3>>} \subseteq {gen} \X (1 .. 3)
  BY <1>1
<1>4. CASE current \notin {p1, p2}
  BY <1>1, <1>4 DEF LockConstraintProblem
<1>5. CASE current \in {p1, p2} /\ <<gen, 1>> \notin {p1, p2}
  BY <1>3, <1>5 DEF LockConstraintProblem
<1>6. CASE current \in {p1, p2} /\ <<gen, 1>> \in {p1, p2} /\ <<gen, 2>> \notin {p1, p2}
  BY <1>3, <1>6 DEF LockConstraintProblem
<1>7. CASE current \in {p1, p2} /\ <<gen, 1>> \in {p1, p2} /\ <<gen, 2>> \in {p1, p2}
  <2>1. LockConstraintProblem(p1, p2) = <<gen, 3>>
    BY <1>7 DEF LockConstraintProblem
  <2>2. <<gen, 3>> \notin {p1, p2}
    BY <1>2, <1>7
  <2> QED
    BY <1>3, <2>1, <2>2
<1> QED
  BY <1>4, <1>5, <1>6, <1>7

(* Writing the current problem changes no other, and keeps the types.      *)
LEMMA WriteIsLocal ==
  ASSUME TypeOK, NEW stage \in Stages, Write(stage)
  PROVE  /\ content' \in [Problem -> Content]
         /\ content'[current] = [step |-> step, stage |-> stage]
         /\ \A p \in Problem : p # current => content'[p] = content[p]
<1>1. current \in Problem /\ content \in [Problem -> Content] /\ step \in 0 .. MaxSteps
  BY CurrentIsProblem DEF TypeOK
<1>2. [step |-> step, stage |-> stage] \in Content
  BY <1>1 DEF Content
<1> QED
  BY <1>1, <1>2 DEF Write

(* A resolution's writes leave what the clients hold alone.                *)
LEMMA WriteKeepsInvariant ==
  ASSUME IInv, NEW stage \in Stages, Write(stage), phase # "idle",
         phase' \in {"accumulated", "built", "solved"}, phase' = "solved" => stage = "solved",
         UNCHANGED <<gen, current, last, step, haptics>>
  PROVE  IInv'
<1>1. /\ content' \in [Problem -> Content]
      /\ content'[current] = [step |-> step, stage |-> stage]
      /\ \A p \in Problem : p # current => content'[p] = content[p]
  BY WriteIsLocal DEF IInv
<1>2. told = Clients /\ last = current
  BY DEF IInv, Running
<1>3. \A c \in Clients : current # next[c] /\ ~IsRead(c, current)
  BY <1>2 DEF IInv, CurrentProblemIsNotLocked
<1>4. TypeOK'
  BY <1>1 DEF IInv, TypeOK, Pointer, haptics
<1>5. Running' /\ Ending'
  BY <1>2 DEF Running, Ending, haptics
<1>6. HeldIsSolved'
  <2>1. ASSUME NEW c \in Clients, NEW p \in Problem, Holds(c, p)', p[1] = gen
        PROVE  content'[p].stage = "solved"
    <3>1. Holds(c, p)
      BY <2>1 DEF Holds, IsRead, haptics
    <3>2. p # current
      BY <1>3, <3>1 DEF Holds
    <3>3. content[p].stage = "solved"
      BY <2>1, <3>1 DEF IInv, HeldIsSolved
    <3> QED
      BY <1>1, <3>2, <3>3
  <2> QED
    BY <2>1 DEF HeldIsSolved
<1>7. SolvedNow' /\ CurrentProblemIsNotLocked'
  BY <1>1, <1>3 DEF SolvedNow, CurrentProblemIsNotLocked, IsRead, haptics
<1> QED
  BY <1>4, <1>5, <1>6, <1>7 DEF IInv

LEMMA IInvInit == Init => IInv
<1> SUFFICES ASSUME Init PROVE IInv
  OBVIOUS
<1>1. <<0, 1>> \in {0} \X (1 .. 3) /\ <<0, 1>> # NULL
  BY DEF NULL
<1>2. Created(0) \in [Problem -> Content]
  BY StepsAssumption DEF Created, Content, Stages
<1>3. TypeOK
  BY <1>1, <1>2, StepsAssumption DEF Init, TypeOK, Pointer
<1>4. \A p \in Problem : p # NULL
  BY DEF Problem, NULL
<1>5. HeldIsSolved
  BY <1>4 DEF Init, HeldIsSolved, Holds, IsRead
<1>6. CurrentProblemIsNotLocked
  BY <1>1 DEF Init, CurrentProblemIsNotLocked, IsRead
<1> QED
  BY <1>3, <1>5, <1>6 DEF Init, IInv, Running, Ending, SolvedNow

(* The steps of the simulation's thread.                                   *)
LEMMA ReinitKeepsInvariant == ASSUME IInv, Reinit PROVE IInv'
<1>1. gen \in Nat /\ gen' = gen + 1 /\ gen' \in 0 .. MaxReinits
  BY StepsAssumption DEF IInv, TypeOK, Reinit
<1>2. current' = <<gen', 1>> /\ content' = Created(gen') /\ told = Clients /\ phase = "idle"
  BY DEF Reinit
<1>3. UNCHANGED <<phase, last, step, next, cur, reading, pub, told>>
  BY DEF Reinit, haptics
<1>4. Pointer \subseteq Pointer'
  BY <1>1 DEF Pointer
<1>5. Created(gen') \in [Problem -> Content]
  <2>1. ASSUME NEW p \in Problem
        PROVE  [step |-> 0, stage |-> IF p[1] = gen' THEN "fresh"
                                      ELSE IF p[1] < gen' THEN "deleted" ELSE "none"] \in Content
    BY StepsAssumption DEF Content, Stages
  <2> QED
    BY <2>1 DEF Created
<1>6. TypeOK'
  <2>1. current' \in {gen'} \X (1 .. 3)
    BY <1>2
  <2>2. last' \in Pointer' /\ next' \in [Clients -> Pointer'] /\ cur' \in [Clients -> Pointer']
    BY <1>3, <1>4 DEF IInv, TypeOK
  <2> QED
    BY <1>1, <1>2, <1>3, <1>5, <2>1, <2>2 DEF IInv, TypeOK
<1>7. ASSUME NEW c \in Clients, NEW p \in Problem, p[1] = gen'
      PROVE  ~Holds(c, p)'
  <2>1. p \notin Pointer
    BY <1>1, <1>7 DEF Pointer, NULL, Problem
  <2>2. next[c] \in Pointer /\ cur[c] \in Pointer
    BY DEF IInv, TypeOK
  <2> QED
    BY <1>3, <2>1, <2>2 DEF Holds, IsRead
<1>8. HeldIsSolved'
  BY <1>7 DEF HeldIsSolved
<1>9. CurrentProblemIsNotLocked'
  <2>1. current' \in Problem /\ current'[1] = gen'
    BY <1>1, <1>2 DEF Problem
  <2>2. ASSUME NEW c \in Clients PROVE ~Holds(c, current)'
    <3>1. \A p \in Problem : p[1] = gen' => p # next'[c] /\ ~(c \in reading' /\ cur'[c] = p)
      BY <1>7 DEF Holds, IsRead
    <3> QED
      BY <2>1, <3>1 DEF Holds, IsRead
  <2> QED
    BY <2>2 DEF CurrentProblemIsNotLocked, Holds
<1> QED
  BY <1>2, <1>3, <1>6, <1>8, <1>9 DEF IInv, Running, Ending, SolvedNow

LEMMA StepKeepsInvariant == ASSUME IInv, Step PROVE IInv'
<1>1. CASE PrepareStates
  <2>1. /\ told = Clients /\ last' = current /\ step' = step + 1 /\ step < MaxSteps
        /\ phase' = "prepared"
    BY <1>1 DEF PrepareStates
  <2>2. UNCHANGED <<gen, current, content, next, cur, reading, pub, told>>
    BY <1>1 DEF PrepareStates, haptics
  <2>3. current \in Pointer
    BY StepsAssumption DEF IInv, TypeOK, Pointer
  <2>4. step' \in 0 .. MaxSteps
    BY <2>1, StepsAssumption DEF IInv, TypeOK
  <2>5. TypeOK'
    BY <2>1, <2>2, <2>3, <2>4 DEF IInv, TypeOK, Pointer
  <2>6. HeldIsSolved' /\ CurrentProblemIsNotLocked'
    BY <2>2 DEF IInv, HeldIsSolved, CurrentProblemIsNotLocked, Holds, IsRead
  <2> QED
    BY <2>1, <2>2, <2>5, <2>6 DEF IInv, Running, Ending, SolvedNow
<1>2. CASE AccumulateConstraint
  <2>1. Write("lists") /\ phase # "idle" /\ phase' = "accumulated"
    BY <1>2 DEF AccumulateConstraint
  <2> QED
    BY <1>2, <2>1, WriteKeepsInvariant DEF AccumulateConstraint, Stages
<1>3. CASE BuildSystem
  <2>1. Write("built") /\ phase # "idle" /\ phase' = "built"
    BY <1>3 DEF BuildSystem
  <2> QED
    BY <1>3, <2>1, WriteKeepsInvariant DEF BuildSystem, Stages
<1>4. CASE SolveSystem
  <2>1. Write("solved") /\ phase # "idle" /\ phase' = "solved"
    BY <1>4 DEF SolveSystem
  <2> QED
    BY <1>4, <2>1, WriteKeepsInvariant DEF SolveSystem, Stages
<1>5. CASE ApplyCorrection
  <2>1. /\ phase = "solved" /\ phase' = "idle" /\ told = Clients /\ last = current
        /\ content[current] = [step |-> step, stage |-> "solved"]
        /\ \A c \in Clients : ~Holds(c, current)
    BY <1>5 DEF ApplyCorrection, IInv, Running, SolvedNow, CurrentProblemIsNotLocked, Holds
  <2>2. /\ UNCHANGED <<gen, current, last, step, content, next, cur, reading>>
        /\ (pub' = {} /\ told' = {}) \/ (pub' = pub /\ told' = told)
    BY <1>5 DEF ApplyCorrection
  <2>3. TypeOK'
    BY <2>1, <2>2 DEF IInv, TypeOK, Pointer
  <2>4. HeldIsSolved' /\ CurrentProblemIsNotLocked'
    BY <2>1, <2>2 DEF IInv, HeldIsSolved, CurrentProblemIsNotLocked, Holds, IsRead
  <2>5. Ending'
    BY <2>1, <2>2 DEF Ending, Holds, IsRead
  <2> QED
    BY <2>1, <2>3, <2>4, <2>5 DEF IInv, Running, SolvedNow
<1> QED
  BY <1>1, <1>2, <1>3, <1>4, <1>5 DEF Step

(* The steps of a client and of its thread.                                *)
LEMMA ClientKeepsInvariant ==
  ASSUME OneReader, IInv, NEW c \in Clients,
         Publish(c) \/ Lock(c) \/ StartRead(c) \/ EndRead(c)
  PROVE  IInv'
<1>0. \A d \in Clients : d = c
  BY DEF OneReader
<1>1. CASE Publish(c)
  <2>1. /\ UNCHANGED <<phase, gen, current, last, step, content, cur, reading, told>>
        /\ next' = [next EXCEPT ![c] = last] /\ pub' = pub \cup {c} /\ c \notin told /\ c \notin pub
    BY <1>1 DEF Publish, GetConstraintProblem
  <2>2. /\ phase = "idle" /\ last = current
        /\ content[current] = [step |-> step, stage |-> "solved"]
    BY <2>1 DEF IInv, Ending
  <2>3. next'[c] = current /\ next' \in [Clients -> Pointer]
    BY <2>1, <2>2 DEF IInv, TypeOK
  <2>4. TypeOK'
    BY <2>1, <2>3 DEF IInv, TypeOK, Pointer
  <2>5. HeldIsSolved'
    <3>1. ASSUME NEW p \in Problem, Holds(c, p)', p[1] = gen
          PROVE  content[p].stage = "solved"
      <4>1. CASE p = current
        BY <2>2, <4>1
      <4>2. CASE p # current
        BY <2>1, <2>3, <3>1, <4>2 DEF IInv, HeldIsSolved, Holds, IsRead
      <4> QED
        BY <4>1, <4>2
    <3> QED
      BY <1>0, <2>1, <3>1 DEF HeldIsSolved
  <2>6. Ending'
    BY <1>0, <2>1, <2>2, <2>3 DEF Ending
  <2>7. CurrentProblemIsNotLocked'
    BY <2>1 DEF CurrentProblemIsNotLocked
  <2> QED
    BY <2>1, <2>2, <2>4, <2>5, <2>6, <2>7 DEF IInv, Running, SolvedNow
<1>2. CASE Lock(c)
  <2> DEFINE p2 == IF c \in reading THEN cur[c] ELSE NULL
  <2>1. /\ UNCHANGED <<phase, gen, last, step, content, next, cur, reading, pub>>
        /\ told' = told \cup {c} /\ phase = "idle"
        /\ current' = LockConstraintProblem(next[c], p2)
    BY <1>2 DEF Lock
  <2>2. current' \in {gen} \X (1 .. 3) /\ current' \notin {next[c], p2}
    BY <2>1, LockedIsLeft DEF IInv
  <2>3. told' = Clients
    BY <1>0, <2>1 DEF IInv, TypeOK
  <2>4. TypeOK'
    BY <2>1, <2>2, <2>3 DEF IInv, TypeOK, Pointer
  <2>5. CurrentProblemIsNotLocked'
    BY <1>0, <2>1, <2>2 DEF CurrentProblemIsNotLocked, IsRead
  <2>6. HeldIsSolved'
    BY <2>1 DEF IInv, HeldIsSolved, Holds, IsRead
  <2> QED
    BY <2>1, <2>3, <2>4, <2>5, <2>6 DEF IInv, Running, Ending, SolvedNow
<1>3. CASE StartRead(c)
  <2>1. /\ UNCHANGED <<phase, gen, current, last, step, content, next, pub, told>>
        /\ cur' = [cur EXCEPT ![c] = next[c]] /\ reading' = reading \cup {c}
    BY <1>3 DEF StartRead
  <2>2. next[c] \in Pointer /\ cur' \in [Clients -> Pointer] /\ cur'[c] = next[c]
    BY <2>1 DEF IInv, TypeOK
  <2>3. TypeOK'
    BY <2>1, <2>2 DEF IInv, TypeOK, Pointer
  <2>4. \A p : Holds(c, p)' => next[c] = p
    BY <2>1, <2>2 DEF Holds, IsRead
  <2>5. HeldIsSolved'
    BY <1>0, <2>1, <2>4 DEF IInv, HeldIsSolved, Holds
  <2>6. CurrentProblemIsNotLocked'
    BY <1>0, <2>1, <2>2 DEF IInv, CurrentProblemIsNotLocked, IsRead
  <2>7. Ending'
    BY <1>0, <2>1, <2>2 DEF IInv, Ending, Holds, IsRead
  <2> QED
    BY <2>1, <2>3, <2>5, <2>6, <2>7 DEF IInv, Running, SolvedNow
<1>4. CASE EndRead(c)
  <2>1. /\ UNCHANGED <<phase, gen, current, last, step, content, next, cur, pub, told>>
        /\ reading' = reading \ {c}
    BY <1>4 DEF EndRead
  <2>2. TypeOK'
    BY <2>1 DEF IInv, TypeOK, Pointer
  <2>3. HeldIsSolved' /\ CurrentProblemIsNotLocked' /\ Ending'
    BY <2>1 DEF IInv, HeldIsSolved, CurrentProblemIsNotLocked, Ending, Holds, IsRead
  <2> QED
    BY <2>1, <2>2, <2>3 DEF IInv, Running, SolvedNow
<1> QED
  BY <1>1, <1>2, <1>3, <1>4

LEMMA IInvNext == ASSUME OneReader PROVE IInv /\ [Next]_vars => IInv'
<1> SUFFICES ASSUME IInv, [Next]_vars PROVE IInv'
  OBVIOUS
<1>1. CASE Reinit \/ Step
  BY <1>1, ReinitKeepsInvariant, StepKeepsInvariant
<1>2. CASE \E c \in Clients : Publish(c) \/ Lock(c) \/ StartRead(c) \/ EndRead(c)
  BY <1>2, ClientKeepsInvariant
<1>3. CASE UNCHANGED vars
  BY <1>3 DEF vars, IInv, TypeOK, Pointer, Running, Ending, HeldIsSolved, SolvedNow,
              CurrentProblemIsNotLocked, Holds, IsRead
<1> QED
  BY <1>1, <1>2, <1>3 DEF Next

LEMMA Invariance == ASSUME OneReader PROVE Spec => []IInv
<1> QED
  BY IInvInit, IInvNext, PTL DEF Spec

-----------------------------------------------------------------------------
(* With one client, the problem the next step writes (m_currentCP) is      *)
(* never one that lockConstraintProblem was asked to leave alone: its      *)
(* comments hold.                                                          *)
THEOREM LockHolds == ASSUME OneReader PROVE Spec => []CurrentProblemIsNotLocked
<1>1. IInv => CurrentProblemIsNotLocked
  BY DEF IInv
<1> QED
  BY <1>1, Invariance, PTL

(* With one client, what its thread reads is the complete solution of a    *)
(* step: getConstraintProblem and lockConstraintProblem together never     *)
(* expose a problem that buildSystem or solveSystem is filling.            *)
THEOREM ReadersAreSafe == ASSUME OneReader PROVE Spec => []ReadersSeeSolvedProblems
<1>1. IInv => ReadersSeeSolvedProblems
  BY DEF IInv, HeldIsSolved, ReadersSeeSolvedProblems, Holds
<1> QED
  BY <1>1, Invariance, PTL

(* With one client, no step of the simulation changes the problem that the *)
(* client's thread is reading.                                             *)
THEOREM ReadersAreUndisturbed == ASSUME OneReader PROVE Spec => ReadProblemIsStable
<1>1. ASSUME IInv, [Next]_vars
      PROVE  [\A c \in Clients, p \in Problem :
                (IsRead(c, p) /\ gen' = gen) => content'[p] = content[p]]_vars
  <2>1. CASE Reinit
    <3>1. gen' # gen
      BY <1>1, <2>1, StepsAssumption DEF Reinit, IInv, TypeOK
    <3> QED
      BY <3>1
  <2>2. ASSUME NEW stage \in Stages, Write(stage), phase # "idle"
        PROVE  \A c \in Clients, p \in Problem : IsRead(c, p) => content'[p] = content[p]
    <3>1. \A p \in Problem : p # current => content'[p] = content[p]
      BY <1>1, <2>2, WriteIsLocal DEF IInv
    <3>2. \A c \in Clients : ~IsRead(c, current)
      BY <1>1, <2>2 DEF IInv, Running, CurrentProblemIsNotLocked
    <3> QED
      BY <3>1, <3>2
  <2>3. CASE AccumulateConstraint
    BY <2>2, <2>3 DEF AccumulateConstraint, Stages
  <2>4. CASE BuildSystem
    BY <2>2, <2>4 DEF BuildSystem, Stages
  <2>5. CASE SolveSystem
    BY <2>2, <2>5 DEF SolveSystem, Stages
  <2>6. CASE UNCHANGED content
    BY <2>6
  <2>7. CASE PrepareStates \/ ApplyCorrection
    BY <2>6, <2>7 DEF PrepareStates, ApplyCorrection
  <2>8. CASE \E c \in Clients : Publish(c) \/ Lock(c) \/ StartRead(c) \/ EndRead(c)
    BY <2>6, <2>8 DEF Publish, Lock, StartRead, EndRead
  <2> QED
    BY <1>1, <2>1, <2>3, <2>4, <2>5, <2>6, <2>7, <2>8 DEF Next, Step, vars
<1> QED
  BY <1>1, Invariance, PTL DEF Spec, ReadProblemIsStable

(* What a client is given is the solution of the step that just ended.     *)
THEOREM PublishedIsLatest == ASSUME OneReader PROVE Spec => []PublishedProblemIsTheLatest
<1>1. IInv => PublishedProblemIsTheLatest
  BY DEF IInv, TypeOK, Ending, PublishedProblemIsTheLatest
<1> QED
  BY <1>1, Invariance, PTL

=============================================================================

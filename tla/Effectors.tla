----------------------------- MODULE Effectors ------------------------------
(***************************************************************************)
(* An effector of component/constraint/ over many steps: the target it     *)
(* gives to the QP, and where that leads.                                  *)
(*                                                                         *)
(* The user sets a goal.  In a step the effector writes its rows           *)
(* (buildConstraintMatrix), the bodies move freely, and the effector       *)
(* reports its violation, the distance to a target on the way to the goal  *)
(* (getConstraintViolation, Effector::getTarget).  The QP then chooses     *)
(* forces; what remains of the violation is delta (storeResults).          *)
(*                                                                         *)
(* An effector has coordinates: those of its points, of a barycenter, the  *)
(* length of a cable, the volume of a cavity.  It has a row for each       *)
(* coordinate that is solved, in their order.  Real numbers are integers;  *)
(* with maxSpeed a point moves along one coordinate, so that the norm of a *)
(* direction is an absolute value.                                         *)
(***************************************************************************)
EXTENDS Integers, FiniteSets

CONSTANTS
  Effs,     \* the effectors considered
  Space,    \* bound: the values of a coordinate
  Goals,    \* bound: the goals for a coordinate
  Free,     \* bound: the free motions of a coordinate
  Residuals \* bound: what may remain of the violation of a row

Kinds == {"position", "barycenter", "cable", "volume"}

(* limit, shift: limitShiftToTarget, maxShiftToTarget.  setSpeed, step:    *)
(* maxSpeed is set, and times dt.  solved: useDirections of each point, or *)
(* axis.                                                                   *)
Configuration(e) ==
  /\ e.kind \in Kinds /\ e.dim \in Nat \ {0} /\ e.solved \in SUBSET (1 .. e.dim) \ {{}}
  /\ e.limit \in BOOLEAN /\ e.shift \in Nat \ {0}
  /\ e.setSpeed \in BOOLEAN /\ e.step \in Nat \ {0}
  /\ e.setSpeed \/ e.kind \in {"cable", "volume"} => e.dim = 1

ASSUME EffsAssumption == \A e \in Effs : Configuration(e)
ASSUME BoundsAssumption ==
  /\ Space \subseteq Int /\ Goals \subseteq Space /\ 0 \in Goals
  /\ Free \subseteq Int /\ 0 \in Free /\ Residuals \subseteq Int /\ 0 \in Residuals

VARIABLES
  eff,      \* the effector
  pc,       \* "build", "violation" or "solve"
  goal,     \* d_effectorGoal, d_desiredLength, d_desiredVolume
  pos,      \* where it is
  free,     \* the free motion of the step
  measured, \* d_barycenter, d_cableLength, d_cavityVolume
  dfree,    \* the violation of the row of each solved coordinate
  shown,    \* d_delta, d_volumeGrowth
  exact     \* the last QP left nothing of the violations

vars == <<eff, pc, goal, pos, free, measured, dfree, shown, exact>>

Coords == 1 .. eff.dim
Abs(x) == IF x < 0 THEN -x ELSE x

(* A limit on the shift that is added, or only compared with.              *)
ShiftForward(e, target, current) ==
  IF e.limit /\ Abs(target - current) > e.shift THEN current + e.shift ELSE target
ShiftRefused(e, target, current) ==
  IF e.limit /\ Abs(target - current) > e.shift THEN current ELSE target

(* getTarget(Real): no further than maxShiftToTarget.                      *)
GetTargetReal(e, target, current) ==
  IF e.limit /\ Abs(target - current) > e.shift
  THEN IF target > current THEN current + e.shift ELSE current - e.shift
  ELSE target

(* getTarget(Coord): no further than maxSpeed allows, and then as above.   *)
GetTargetCoord(e, target, current) ==
  IF e.setSpeed /\ Abs(target - current) > e.step
  THEN LET toward == IF target > current THEN current + e.step ELSE current - e.step
       IN  GetTargetReal(e, toward, current)
  ELSE GetTargetReal(e, target, current)

(* A cable's row measures how much it shortens, the others how much the    *)
(* coordinate grows.                                                       *)
Sign(e) == IF e.kind = "cable" THEN -1 ELSE 1

(* The row of a solved coordinate, and the free motion along a row (Jdx).  *)
RowOf(e, c) == Cardinality({b \in e.solved : b <= c})
Jdx(e, row) == Sign(e) * free[CHOOSE c \in e.solved : RowOf(e, c) = row]

Init ==
  /\ eff \in Effs /\ pc = "build" /\ exact = TRUE
  /\ goal \in [Coords -> Goals]
  /\ pos = [c \in Coords |-> 0] /\ measured = pos /\ free = pos
  /\ dfree = [c \in eff.solved |-> 0] /\ shown = dfree

-----------------------------------------------------------------------------
(* Between two steps the user sets another goal.                           *)
SetGoal ==
  /\ pc = "build"
  /\ goal' \in [Coords -> Goals]
  /\ UNCHANGED <<eff, pc, pos, free, measured, dfree, shown, exact>>

(* A reset of the simulation: the bodies are back at their rest position.  *)
Reset ==
  /\ pc = "build"
  /\ pos' = [c \in Coords |-> 0]
  /\ measured' = IF eff.kind = "barycenter" THEN pos' ELSE measured
  /\ UNCHANGED <<eff, pc, goal, free, dfree, shown, exact>>

(* buildConstraintMatrix(), while the free motion is known to the solver   *)
(* only.                                                                   *)
BuildConstraintMatrix ==
  /\ pc = "build" /\ pc' = "violation"
  /\ free' \in {g \in [Coords -> Free] : \A c \in Coords : pos[c] + g[c] \in Space}
  /\ measured' = IF eff.kind = "barycenter" THEN pos ELSE measured
  /\ UNCHANGED <<eff, goal, pos, dfree, shown, exact>>

(* The violation of coordinate c: each kind for itself.  A barycenter adds *)
(* Jdx of the first rows to the first coordinates before it picks the      *)
(* solved ones.                                                            *)
PositionViolation(e, c) == Jdx(e, RowOf(e, c)) + pos[c] - GetTargetCoord(e, goal[c], pos[c])
BarycenterViolation(e, c) ==
  pos[c] - GetTargetCoord(e, goal[c], pos[c])
    + IF c <= Cardinality(e.solved) THEN Jdx(e, c) ELSE 0
CableViolation(e, c) == Jdx(e, RowOf(e, c)) + GetTargetReal(e, goal[c], pos[c]) - pos[c]
VolumeViolation(e, c) == Jdx(e, RowOf(e, c)) + pos[c] - GetTargetReal(e, goal[c], pos[c])

Violation(e, c) ==
  IF e.kind = "position" THEN PositionViolation(e, c)
  ELSE IF e.kind = "barycenter" THEN BarycenterViolation(e, c)
  ELSE IF e.kind = "cable" THEN CableViolation(e, c)
  ELSE VolumeViolation(e, c)

GetConstraintViolation ==
  /\ pc = "violation" /\ pc' = "solve"
  /\ dfree' = [c \in eff.solved |-> Violation(eff, c)]
  /\ measured' = IF eff.kind \in {"cable", "volume"} THEN pos ELSE measured
  /\ UNCHANGED <<eff, goal, pos, free, shown, exact>>

(* The QP's forces take the row of each solved coordinate from its         *)
(* violation to delta, and the bodies are moved accordingly.  The solver   *)
(* clears its vectors before the next step.                                *)
StoreResults(delta) ==
  /\ pc = "solve" /\ pc' = "build"
  /\ pos' = [c \in Coords |->
               pos[c] + free[c] + IF c \in eff.solved THEN Sign(eff) * (delta[c] - dfree[c]) ELSE 0]
  /\ exact' = \A c \in eff.solved : delta[c] = 0
  /\ exact' \/ \A c \in Coords : pos'[c] \in Space \* a bound on residuals
  /\ shown' = IF eff.kind \in {"barycenter", "volume"} THEN delta ELSE shown
  /\ free' = [c \in Coords |-> 0] /\ dfree' = [c \in eff.solved |-> 0]
  /\ UNCHANGED <<eff, goal, measured>>

Step == BuildConstraintMatrix \/ GetConstraintViolation
          \/ \E delta \in [eff.solved -> Residuals] : StoreResults(delta)
Next == Step \/ SetGoal \/ Reset

Spec == Init /\ [][Next]_vars

(* The simulation goes on.                                                 *)
FairSpec == Spec /\ WF_vars(Step)

-----------------------------------------------------------------------------
(* The types of the variables.                                             *)
TypeOK ==
  /\ eff \in Effs /\ pc \in {"build", "violation", "solve"} /\ exact \in BOOLEAN
  /\ goal \in [Coords -> Int] /\ pos \in [Coords -> Int] /\ free \in [Coords -> Int]
  /\ measured \in [Coords -> Int] /\ dfree \in [eff.solved -> Int] /\ shown \in [eff.solved -> Int]

Between(x, a, b) == (a <= x /\ x <= b) \/ (b <= x /\ x <= a)

(***************************************************************************)
(* A step whose QP leaves nothing of the violations takes every solved     *)
(* coordinate towards its goal and not past it, by no more than            *)
(* maxShiftToTarget, and maxSpeed if it concerns coordinates, whatever the *)
(* free motion was.                                                        *)
(***************************************************************************)
ApproachesGoal ==
  [][(pc = "solve" /\ exact') => \A c \in eff.solved :
       /\ Between(pos'[c], pos[c], goal[c])
       /\ eff.limit => Abs(pos'[c] - pos[c]) <= eff.shift
       /\ (eff.setSpeed /\ eff.kind \in {"position", "barycenter"})
            => Abs(pos'[c] - pos[c]) <= eff.step]_vars

AtGoal == \A c \in eff.solved : pos[c] = goal[c]

(***************************************************************************)
(* If the goal is not changed any more, the simulation is not reset and    *)
(* the QPs leave nothing of the violations, then the goal is reached and   *)
(* kept, although each target may only be a part of the way.               *)
(***************************************************************************)
GoalIsReached ==
  <>[][goal' = goal /\ exact' /\ ~Reset]_vars => <>[]AtGoal
=============================================================================

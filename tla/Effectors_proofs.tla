-------------------------- MODULE Effectors_proofs --------------------------
(***************************************************************************)
(* Steps without residual approach the goal, for every effector, whatever  *)
(* the coordinates, directions and limits are.                             *)
(*                                                                         *)
(* The argument: the violation that the QP cancels is, for each solved     *)
(* coordinate, its free motion plus its distance to the target (Aligned).  *)
(* This needs that the rows and the solved coordinates correspond one to   *)
(* one, and for a barycenter, which confuses them, that it is solved in    *)
(* its first axes.  The target itself is between position and goal.        *)
(***************************************************************************)
EXTENDS Effectors, FiniteSetTheorems, TLAPS

FirstAxesOnly ==
  \A e \in Effs : e.kind = "barycenter" => \E n \in Nat : e.solved = 1 .. n

(* The target, of a length or a volume, or of the coordinates of a point.  *)
GetTarget(e, target, current) ==
  IF e.kind \in {"cable", "volume"} THEN GetTargetReal(e, target, current)
  ELSE GetTargetCoord(e, target, current)

(* The violation of a solved coordinate is the one of its own row.         *)
Aligned(c) == dfree[c] = Sign(eff) * (free[c] + pos[c] - GetTarget(eff, goal[c], pos[c]))

IInv == TypeOK /\ (pc = "solve" => \A c \in eff.solved : Aligned(c))

-----------------------------------------------------------------------------
(* The target that getTarget hands out.                                    *)
LEMMA TargetOnTheWay ==
  ASSUME NEW e, Configuration(e), NEW t \in Int, NEW c \in Int
  PROVE  /\ GetTarget(e, t, c) \in Int
         /\ Between(GetTarget(e, t, c), c, t)
         /\ e.limit => Abs(GetTarget(e, t, c) - c) <= e.shift
         /\ (e.setSpeed /\ e.kind \in {"position", "barycenter"})
              => Abs(GetTarget(e, t, c) - c) <= e.step
<1>1. ASSUME NEW u \in Int
      PROVE  /\ GetTargetReal(e, u, c) \in Int
             /\ Between(GetTargetReal(e, u, c), c, u)
             /\ e.limit => Abs(GetTargetReal(e, u, c) - c) <= e.shift
  BY DEF GetTargetReal, Between, Abs, Configuration
<1>2. e.shift \in Nat /\ e.step \in Nat
  BY DEF Configuration
<1>3. CASE e.kind \in {"cable", "volume"}
  BY <1>1, <1>3 DEF GetTarget
<1>4. CASE e.kind \notin {"cable", "volume"}
  <2>1. GetTarget(e, t, c) = GetTargetCoord(e, t, c)
    BY <1>4 DEF GetTarget
  <2> DEFINE toward == IF t > c THEN c + e.step ELSE c - e.step
  <2>2. CASE e.setSpeed /\ Abs(t - c) > e.step
    <3>1. toward \in Int /\ Between(toward, c, t) /\ Abs(toward - c) <= e.step
      BY <1>2, <2>2 DEF Between, Abs
    <3>2. GetTarget(e, t, c) = GetTargetReal(e, toward, c)
      BY <2>1, <2>2 DEF GetTargetCoord
    <3> HIDE DEF toward
    <3> QED BY <1>1, <1>2, <3>1, <3>2 DEF Between, Abs
  <2>3. CASE ~(e.setSpeed /\ Abs(t - c) > e.step)
    <3>1. GetTarget(e, t, c) = GetTargetReal(e, t, c)
      BY <2>1, <2>3 DEF GetTargetCoord
    <3> QED BY <1>1, <1>2, <2>3, <3>1 DEF Between, Abs
  <2> QED BY <2>2, <2>3
<1> QED BY <1>3, <1>4

(* Two solved coordinates have two rows.                                   *)
LEMMA RowsDiffer ==
  ASSUME NEW e, Configuration(e), NEW b \in e.solved, NEW c \in e.solved,
         RowOf(e, b) = RowOf(e, c)
  PROVE  b = c
<1>1. e.dim \in Nat /\ e.solved \subseteq 1 .. e.dim
  BY DEF Configuration
<1>2. IsFiniteSet(1 .. e.dim)
  BY <1>1, FS_Interval
<1>3. ASSUME NEW x \in e.solved, NEW y \in e.solved, x < y
      PROVE  RowOf(e, x) # RowOf(e, y)
  <2> DEFINE X == {z \in e.solved : z <= x}
             Y == {z \in e.solved : z <= y}
  <2>1. IsFiniteSet(Y) BY <1>1, <1>2, FS_Subset
  <2>2. X \subseteq Y /\ y \in Y /\ y \notin X BY <1>1, <1>3
  <2>3. Cardinality(X) < Cardinality(Y)
    <3> HIDE DEF X, Y
    <3>1. X # Y BY <2>2
    <3>2. /\ IsFiniteSet(X) /\ Cardinality(X) <= Cardinality(Y)
          /\ Cardinality(X) = Cardinality(Y) => X = Y
      BY <2>1, <2>2, FS_Subset
    <3>3. Cardinality(X) \in Nat /\ Cardinality(Y) \in Nat
      BY <2>1, <3>2, FS_CardinalityType
    <3> QED BY <3>1, <3>2, <3>3
  <2>4. Cardinality(X) \in Nat /\ Cardinality(Y) \in Nat
    BY <2>1, <2>2, FS_Subset, FS_CardinalityType
  <2> QED BY <2>3, <2>4 DEF RowOf
<1>4. b \in Int /\ c \in Int BY <1>1
<1>5. ~(b < c) /\ ~(c < b) BY <1>3
<1> QED BY <1>4, <1>5

(* The free motion along the row of a solved coordinate is its own.        *)
LEMMA JdxOfRow ==
  ASSUME NEW e, Configuration(e), NEW c \in e.solved
  PROVE  Jdx(e, RowOf(e, c)) = Sign(e) * free[c]
<1> DEFINE d == CHOOSE b \in e.solved : RowOf(e, b) = RowOf(e, c)
<1>1. d \in e.solved /\ RowOf(e, d) = RowOf(e, c)
  OBVIOUS
<1>2. d = c
  <2> HIDE DEF d
  <2> QED BY <1>1, RowsDiffer
<1> QED BY <1>2 DEF Jdx

(* In its first axes a barycenter has coordinate c in row c.               *)
LEMMA RowOfFirst ==
  ASSUME NEW e, NEW n \in Nat, e.solved = 1 .. n, NEW c \in 1 .. n
  PROVE  RowOf(e, c) = c /\ Cardinality(e.solved) = n
<1>1. {b \in e.solved : b <= c} = 1 .. c
  OBVIOUS
<1>2. Cardinality(1 .. c) = c /\ Cardinality(1 .. n) = n
  BY FS_Interval
<1> QED BY <1>1, <1>2 DEF RowOf

-----------------------------------------------------------------------------
(* What getConstraintViolation computes.                                   *)
LEMMA ViolationIsAligned ==
  ASSUME TypeOK, FirstAxesOnly, NEW c \in eff.solved
  PROVE  Violation(eff, c) = Sign(eff) * (free[c] + pos[c] - GetTarget(eff, goal[c], pos[c]))
<1>1. Configuration(eff) BY EffsAssumption DEF TypeOK
<1>2. c \in Coords BY <1>1 DEF Configuration, Coords
<1>3. pos[c] \in Int /\ free[c] \in Int /\ goal[c] \in Int BY <1>2 DEF TypeOK
<1>4. GetTarget(eff, goal[c], pos[c]) \in Int BY <1>1, <1>3, TargetOnTheWay
<1>5. Jdx(eff, RowOf(eff, c)) = Sign(eff) * free[c] BY <1>1, JdxOfRow
<1>6. CASE eff.kind = "barycenter"
  <2>1. PICK n \in Nat : eff.solved = 1 .. n
    BY <1>6 DEF TypeOK, FirstAxesOnly
  <2>2. RowOf(eff, c) = c /\ Cardinality(eff.solved) = n /\ c <= n
    BY <2>1, RowOfFirst
  <2>3. Violation(eff, c) = pos[c] - GetTarget(eff, goal[c], pos[c]) + free[c]
    BY <1>3, <1>5, <1>6, <2>2 DEF Violation, BarycenterViolation, GetTarget, Sign
  <2> QED BY <1>3, <1>4, <1>6, <2>3 DEF Sign
<1>7. CASE eff.kind = "position"
  <2>1. Violation(eff, c) = free[c] + pos[c] - GetTarget(eff, goal[c], pos[c])
    BY <1>3, <1>5, <1>7 DEF Violation, PositionViolation, GetTarget, Sign
  <2> QED BY <1>3, <1>4, <1>7, <2>1 DEF Sign
<1>8. CASE eff.kind = "cable"
  <2>1. Violation(eff, c) = -free[c] + GetTarget(eff, goal[c], pos[c]) - pos[c]
    BY <1>3, <1>5, <1>8 DEF Violation, CableViolation, GetTarget, Sign
  <2> QED BY <1>3, <1>4, <1>8, <2>1 DEF Sign
<1>9. CASE eff.kind = "volume"
  <2>1. Violation(eff, c) = free[c] + pos[c] - GetTarget(eff, goal[c], pos[c])
    BY <1>3, <1>5, <1>9 DEF Violation, VolumeViolation, GetTarget, Sign
  <2> QED BY <1>3, <1>4, <1>9, <2>1 DEF Sign
<1> QED BY <1>1, <1>6, <1>7, <1>8, <1>9 DEF Configuration, Kinds

(* The inductive invariant: initially, and one step per action.            *)
LEMMA InductiveInit == Init => IInv
<1> SUFFICES ASSUME Init PROVE IInv OBVIOUS
<1>1. goal \in [Coords -> Int] BY BoundsAssumption DEF Init
<1> QED BY <1>1 DEF Init, IInv, TypeOK

LEMMA InductiveNext == FirstAxesOnly /\ IInv /\ [Next]_vars => IInv'
<1> SUFFICES ASSUME FirstAxesOnly, IInv, [Next]_vars PROVE IInv' OBVIOUS
<1>0. Configuration(eff) /\ eff.solved \subseteq Coords
  BY EffsAssumption DEF IInv, TypeOK, Configuration, Coords
<1>1. CASE BuildConstraintMatrix
  <2>1. free' \in [Coords -> Int] BY <1>1, BoundsAssumption DEF BuildConstraintMatrix
  <2> QED BY <1>1, <2>1 DEF BuildConstraintMatrix, IInv, TypeOK, Coords
<1>2. CASE GetConstraintViolation
  <2>1. ASSUME NEW c \in eff.solved
        PROVE  /\ Violation(eff, c) \in Int
               /\ Violation(eff, c) = Sign(eff) * (free[c] + pos[c] - GetTarget(eff, goal[c], pos[c]))
    <3>1. pos[c] \in Int /\ free[c] \in Int /\ goal[c] \in Int BY <1>0 DEF IInv, TypeOK
    <3>2. GetTarget(eff, goal[c], pos[c]) \in Int BY <1>0, <3>1, TargetOnTheWay
    <3> QED BY <3>1, <3>2, ViolationIsAligned DEF IInv, Sign
  <2>2. TypeOK' BY <1>2, <2>1 DEF GetConstraintViolation, IInv, TypeOK, Coords
  <2>3. ASSUME NEW c \in eff'.solved PROVE Aligned(c)'
    BY <1>2, <2>1 DEF GetConstraintViolation, Aligned
  <2> QED BY <2>2, <2>3 DEF IInv
<1>3. ASSUME NEW delta \in [eff.solved -> Residuals], StoreResults(delta) PROVE IInv'
  <2>1. pos' \in [Coords -> Int]
    <3>1. \A c \in eff.solved : delta[c] \in Int BY BoundsAssumption
    <3> QED BY <1>3, <3>1 DEF StoreResults, IInv, TypeOK, Sign
  <2>2. exact' \in BOOLEAN /\ free' \in [Coords -> Int] /\ dfree' \in [eff.solved -> Int]
    BY <1>3 DEF StoreResults
  <2>3. shown' \in [eff.solved -> Int]
    BY <1>3, BoundsAssumption DEF StoreResults, IInv, TypeOK
  <2> QED BY <1>3, <2>1, <2>2, <2>3 DEF StoreResults, IInv, TypeOK, Coords
<1>4. CASE SetGoal
  <2>1. goal' \in [Coords -> Int] BY <1>4, BoundsAssumption DEF SetGoal
  <2> QED BY <1>4, <2>1 DEF SetGoal, IInv, TypeOK, Coords
<1>5. CASE Reset
  <2>1. pos' \in [Coords -> Int] /\ measured' \in [Coords -> Int] BY <1>5 DEF Reset, IInv, TypeOK
  <2> QED BY <1>5, <2>1 DEF Reset, IInv, TypeOK, Coords
<1>6. CASE UNCHANGED vars
  BY <1>6 DEF vars, IInv, TypeOK, Coords, Aligned
<1> QED BY <1>1, <1>2, <1>3, <1>4, <1>5, <1>6 DEF Next, Step

(* The step of ApproachesGoal.                                             *)
Approach ==
  (pc = "solve" /\ exact') => \A c \in eff.solved :
     /\ Between(pos'[c], pos[c], goal[c])
     /\ eff.limit => Abs(pos'[c] - pos[c]) <= eff.shift
     /\ (eff.setSpeed /\ eff.kind \in {"position", "barycenter"})
          => Abs(pos'[c] - pos[c]) <= eff.step

LEMMA StepApproaches == IInv /\ [Next]_vars => [Approach]_vars
<1> SUFFICES ASSUME IInv, Next, pc = "solve", exact', NEW c \in eff.solved
             PROVE  /\ Between(pos'[c], pos[c], goal[c])
                    /\ eff.limit => Abs(pos'[c] - pos[c]) <= eff.shift
                    /\ (eff.setSpeed /\ eff.kind \in {"position", "barycenter"})
                         => Abs(pos'[c] - pos[c]) <= eff.step
  BY DEF Approach
<1>1. PICK delta \in [eff.solved -> Residuals] : StoreResults(delta)
  BY DEF Next, Step, SetGoal, Reset, BuildConstraintMatrix, GetConstraintViolation
<1>2. Configuration(eff) /\ c \in Coords
  BY EffsAssumption DEF IInv, TypeOK, Configuration, Coords
<1>3. pos[c] \in Int /\ free[c] \in Int /\ goal[c] \in Int /\ dfree[c] \in Int
  BY <1>2 DEF IInv, TypeOK
<1>4. delta[c] = 0 BY <1>1 DEF StoreResults
<1> DEFINE t == GetTarget(eff, goal[c], pos[c])
<1>5. /\ t \in Int /\ Between(t, pos[c], goal[c])
      /\ eff.limit => Abs(t - pos[c]) <= eff.shift
      /\ (eff.setSpeed /\ eff.kind \in {"position", "barycenter"}) => Abs(t - pos[c]) <= eff.step
  BY <1>2, <1>3, TargetOnTheWay
<1>6. dfree[c] = Sign(eff) * (free[c] + pos[c] - t)
  BY DEF IInv, Aligned
<1>7. pos'[c] = pos[c] + free[c] + Sign(eff) * (0 - dfree[c])
  BY <1>1, <1>2, <1>4 DEF StoreResults
<1>8. pos'[c] = t
  <2> HIDE DEF t
  <2> QED BY <1>3, <1>5, <1>6, <1>7 DEF Sign
<1> QED BY <1>5, <1>8

(***************************************************************************)
(* For all effectors whose barycenters are solved in their first axes:     *)
(* steps without residual take every solved coordinate towards its goal,   *)
(* not past it, and within the limits.                                     *)
(***************************************************************************)
THEOREM GoalIsApproached == ASSUME FirstAxesOnly PROVE Spec => ApproachesGoal
<1>1. IInv /\ [Next]_vars => IInv' BY InductiveNext
<1>2. Spec => []IInv BY <1>1, InductiveInit, PTL DEF Spec
<1>3. ApproachesGoal <=> [][Approach]_vars BY DEF ApproachesGoal, Approach
<1> QED BY <1>2, <1>3, StepApproaches, PTL DEF Spec
=============================================================================

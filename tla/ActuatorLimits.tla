--------------------------- MODULE ActuatorLimits ---------------------------
(***************************************************************************)
(* The limits that an actuator of component/constraint/ gives to the QP,   *)
(* from step to step.                                                      *)
(*                                                                         *)
(* The user sets absolute limits and a maximal variation per step on one   *)
(* quantity: the displacement of a cable or of a sliding actuator, the     *)
(* angle or the effort of a joint, the volume growth of a cavity, the      *)
(* force on a point or a surface.  init(), reinit() and reset() compute    *)
(* the window of the first QP, storeResults() that of the next QP from the *)
(* value the last one answered.  A cable joins in from constrainAtTime on. *)
(* The answer may lie outside the window, because an infeasible QP is      *)
(* retried with the limits released.  Real numbers are integers.           *)
(***************************************************************************)
EXTENDS Integers

CONSTANTS
  Actuators, \* the configurations considered
  Values,    \* bound: the values the quantity may take
  Dt,        \* the time step
  MaxTime    \* bound: no step begins later

Kinds == {"cable", "sliding", "joint", "pressure", "point", "surface"}

(* The lower limit: cables and sliding actuators are given its negation.   *)
Low(a) == IF a.kind \in {"cable", "sliding"} THEN -a.low ELSE a.low

(* set..: the Data is set.  from: constrainAtTime.  initial: the value     *)
(* that initDatas() stores.                                                *)
Configuration(a) ==
  /\ a.kind \in Kinds
  /\ a.setMax \in BOOLEAN /\ a.setLow \in BOOLEAN /\ a.setVar \in BOOLEAN
  /\ a.max \in Int /\ a.low \in Int /\ a.var \in Nat
  /\ a.accumulate \in BOOLEAN /\ (a.accumulate => a.kind = "sliding")
  /\ a.from \in Nat /\ (a.kind # "cable" => a.from = 0)
  /\ a.initial \in Int /\ (a.kind \in {"cable", "pressure", "surface"} => a.initial = 0)

(* The actuator starts within its absolute limits.                         *)
StartsInside(a) ==
  /\ a.setMax => a.initial <= a.max
  /\ a.setLow => Low(a) <= a.initial

ASSUME ActuatorsAssumption == \A a \in Actuators : Configuration(a) /\ StartsInside(a)
ASSUME ConstantsAssumption == Values \subseteq Int /\ Dt \in Nat \ {0} /\ MaxTime \in Nat

VARIABLES
  act,    \* the actuator
  time,   \* getContext()->getTime() of the step to come
  value,  \* d_displacement, d_angle, d_effort, d_volumeGrowth or d_force[0]
  lim,    \* m_hasDeltaMax, m_hasDeltaMin, m_deltaMax[0], m_deltaMin[0] (or Lambda)
  astray  \* history: since the last init an answer was not held to a window

vars == <<act, time, value, lim, astray>>

Abs(x) == IF x < 0 THEN -x ELSE x

-----------------------------------------------------------------------------
(* The statements that the actuators share.                                *)

(* Limits that are set are announced, on both sides by the variation.      *)
Announce(a, w) ==
  [w EXCEPT !.hasMax = @ \/ a.setMax \/ a.setVar, !.hasMin = @ \/ a.setLow \/ a.setVar]

(* The absolute limits.                                                    *)
Absolute(a, w) ==
  [w EXCEPT !.max = IF a.setMax THEN a.max ELSE @, !.min = IF a.setLow THEN Low(a) ELSE @]

(* The variation with the lower limit forgotten.                           *)
NarrowAbove(a, v, w) ==
  IF a.setVar
  THEN [w EXCEPT !.max = IF Abs(@ - v) >= a.var \/ ~a.setMax THEN v + a.var ELSE @]
  ELSE w

(* The maximal variation around v replaces the absolute limits that are    *)
(* further away than it reaches.                                           *)
Narrow(a, v, w) ==
  IF a.setVar
  THEN [w EXCEPT !.min = IF Abs(@ - v) >= a.var \/ ~a.setLow THEN v - a.var ELSE @,
                 !.max = IF Abs(@ - v) >= a.var \/ ~a.setMax THEN v + a.var ELSE @]
  ELSE w

-----------------------------------------------------------------------------
(* CableActuator: nothing before constrainAtTime, and its limits are       *)
(* announced by the step at exactly that time (CableUpdateLimitOnce: and   *)
(* never updated).                                                         *)
CableInitLimit(a, v, t, w) ==
  IF t < a.from THEN w ELSE Narrow(a, v, Absolute(a, Announce(a, w)))
CableUpdateLimitOnce(a, v, t, w) ==
  IF t = a.from THEN CableInitLimit(a, v, t, w) ELSE w
CableUpdateLimit(a, v, t, w) ==
  IF t < a.from THEN w
  ELSE IF t = a.from THEN CableInitLimit(a, v, t, w)
  ELSE Narrow(a, v, Absolute(a, w))

(* JointActuator (angle or effort; JointUpdateLimitAbsolute: the variation *)
(* forgotten).                                                             *)
JointInitLimit(a, v, w) == Narrow(a, v, Absolute(a, Announce(a, w)))
JointUpdateLimitAbsolute(a, v, w) == Absolute(a, w)
JointUpdateLimit(a, v, w) == Narrow(a, v, Absolute(a, w))

(* ForcePointActuator and ForceSurfaceActuator (force).                    *)
PointInitLimit(a, v, w) == Narrow(a, v, Absolute(a, Announce(a, w)))
PointUpdateLimit(a, v, w) == Narrow(a, v, Absolute(a, w))
SurfaceInitLimit(a, v, w) == Narrow(a, v, Absolute(a, Announce(a, w)))
SurfaceUpdateLimit(a, v, w) == Narrow(a, v, Absolute(a, w))

(* SurfacePressureActuator.  In updateLimits the test of the lower limit   *)
(* adds the volume growth and compares with -maxVolumeGrowthVariation.     *)
PressureInitLimits(a, w) ==
  LET u == Absolute(a, Announce(a, w)) IN
  IF a.setVar
  THEN [u EXCEPT !.max = IF @ >= a.var \/ ~a.setMax THEN a.var ELSE @,
                 !.min = IF @ <= -a.var \/ ~a.setLow THEN -a.var ELSE @]
  ELSE u
PressureUpdateLimits(a, v, w) ==
  LET u == Absolute(a, w) IN
  IF a.setVar
  THEN [u EXCEPT !.max = IF Abs(@ - v) >= a.var \/ ~a.setMax THEN v + a.var ELSE @,
                 !.min = IF Abs(@ + v) <= -a.var \/ ~a.setLow THEN v - a.var ELSE @]
  ELSE u

(* SlidingActuator.  With accumulateDisp the QP answers relative           *)
(* displacements, and the absolute limits are those of what is left.       *)
SlidingInitLimit(a, v, w) == Narrow(a, v, Absolute(a, Announce(a, w)))

(* What is left forgotten.                                                 *)
SlidingUpdateLimitAbsolute(a, v, w) ==
  LET u == Absolute(a, w) IN
  IF a.accumulate
  THEN IF a.setVar
       THEN [u EXCEPT !.min = IF @ < -a.var THEN -a.var ELSE @,
                      !.max = IF @ > a.var THEN a.var ELSE @]
       ELSE u
  ELSE Narrow(a, v, u)

SlidingUpdateLimit(a, v, w) ==
  IF a.accumulate
  THEN LET u == [w EXCEPT
                   !.max = IF a.setMax THEN IF v > 0 THEN a.max - v ELSE a.max ELSE @,
                   !.min = IF a.setLow THEN IF v < 0 THEN -a.low - v ELSE -a.low ELSE @]
       IN  IF a.setVar
           THEN [u EXCEPT !.min = IF @ < -a.var THEN -a.var ELSE @,
                          !.max = IF @ > a.var THEN a.var ELSE @]
           ELSE u
  ELSE Narrow(a, v, Absolute(a, w))

InitLimit(a, v, t, w) ==
  IF a.kind = "cable" THEN CableInitLimit(a, v, t, w)
  ELSE IF a.kind = "sliding" THEN SlidingInitLimit(a, v, w)
  ELSE IF a.kind = "joint" THEN JointInitLimit(a, v, w)
  ELSE IF a.kind = "pressure" THEN PressureInitLimits(a, w)
  ELSE IF a.kind = "point" THEN PointInitLimit(a, v, w)
  ELSE SurfaceInitLimit(a, v, w)

UpdateLimit(a, v, t, w) ==
  IF a.kind = "cable" THEN CableUpdateLimit(a, v, t, w)
  ELSE IF a.kind = "sliding" THEN SlidingUpdateLimit(a, v, w)
  ELSE IF a.kind = "joint" THEN JointUpdateLimit(a, v, w)
  ELSE IF a.kind = "pressure" THEN PressureUpdateLimits(a, v, w)
  ELSE IF a.kind = "point" THEN PointUpdateLimit(a, v, w)
  ELSE SurfaceUpdateLimit(a, v, w)

-----------------------------------------------------------------------------
NoLimits == [hasMax |-> FALSE, hasMin |-> FALSE, max |-> 0, min |-> 0]

(* The constructor, then init() at the beginning of the simulation.        *)
Init ==
  /\ act \in Actuators
  /\ time = 0 /\ astray = FALSE
  /\ value = act.initial
  /\ lim = InitLimit(act, act.initial, 0, NoLimits)

(* reinit(), when the user edits the component.  The one of a surface does *)
(* not touch the forces.                                                   *)
Reinit ==
  /\ IF act.kind = "surface"
     THEN UNCHANGED <<value, astray>>
     ELSE value' = act.initial /\ astray' = FALSE
  /\ lim' = InitLimit(act, value', time, lim)
  /\ UNCHANGED <<act, time>>

(* A reset of the simulation: the time goes back to zero.  Joints and      *)
(* actuators of forces have no reset() and keep their value.               *)
Reset ==
  /\ time' = 0
  /\ IF act.kind \in {"cable", "sliding", "pressure"}
     THEN /\ value' = act.initial
          /\ lim' = InitLimit(act, act.initial, 0, lim)
          /\ astray' = FALSE
     ELSE UNCHANGED <<value, lim, astray>>
  /\ UNCHANGED act

(* The QP's answer: a value, or a change of it if the actuator accumulates.*)
Answer(a, old, new) == IF a.accumulate THEN new - old ELSE new

(* The answer is in the window given to the QP.                            *)
InWindow(w, x) == (w.hasMax => x <= w.max) /\ (w.hasMin => w.min <= x)

(* All limits that are set are in the QP: they were computed by init() or  *)
(* by a step from constrainAtTime on, and are announced.                   *)
InForce ==
  /\ act.from = 0 \/ time >= act.from + Dt
  /\ (act.setMax \/ act.setVar) => lim.hasMax
  /\ (act.setLow \/ act.setVar) => lim.hasMin

(* One step: the QP moves the quantity to new, storeResults() stores it    *)
(* and computes the window of the next step.                               *)
StoreResults(new) ==
  /\ time <= MaxTime
  /\ value' = new
  /\ lim' = UpdateLimit(act, new, time, lim)
  /\ time' = time + Dt
  /\ astray' = (astray \/ ~InForce \/ ~InWindow(lim, Answer(act, value, new)))
  /\ UNCHANGED act

Next == Reinit \/ Reset \/ \E new \in Values : StoreResults(new)

Spec == Init /\ [][Next]_vars

-----------------------------------------------------------------------------
Inside(a, v) == (a.setMax => v <= a.max) /\ (a.setLow => Low(a) <= v)

(* An accumulating actuator starts from zero (initDisplacement not set).   *)
AccumulatesFromZero(a) == a.accumulate => a.initial = 0

(* The types of the variables.                                             *)
TypeOK ==
  /\ act \in Actuators /\ time \in Nat /\ value \in Int /\ astray \in BOOLEAN
  /\ lim \in [hasMax : BOOLEAN, hasMin : BOOLEAN, max : Int, min : Int]

(***************************************************************************)
(* The window that is recomputed in every step never lets the quantity out *)
(* of the absolute limits: as long as the answers respect the windows in   *)
(* force, the value is within the limits, over any number of steps and     *)
(* also where the variation's window meets them.                           *)
(***************************************************************************)
LimitsKept == ~astray => Inside(act, value)

(***************************************************************************)
(* From a value within the limits the actuator need not move: the window   *)
(* contains the present value, so it is not empty and the limits alone     *)
(* never make the QP infeasible.                                           *)
(***************************************************************************)
HoldIsAllowed ==
  (InForce /\ Inside(act, value)) => InWindow(lim, Answer(act, value, value))

(***************************************************************************)
(* Even after an answer outside the limits (a QP with released             *)
(* constraints) the next window is not empty.  Accumulating actuators and  *)
(* cavities are excepted: their windows may be empty then.                 *)
(***************************************************************************)
WindowIsOpen ==
  (InForce /\ lim.hasMax /\ lim.hasMin /\ act.kind # "pressure" /\ ~act.accumulate)
    => lim.min <= lim.max

(***************************************************************************)
(* In a step that respects the window the value changes by no more than    *)
(* the maximal variation.  The lower limit of a cavity is excepted: its    *)
(* test in updateLimits never succeeds.                                    *)
(***************************************************************************)
VariationKept ==
  [][(InForce /\ act.setVar /\ ~astray' /\ time' = time + Dt) =>
       /\ value' <= value + act.var
       /\ (act.kind = "pressure" /\ act.setLow) \/ value - act.var <= value']_vars

=============================================================================

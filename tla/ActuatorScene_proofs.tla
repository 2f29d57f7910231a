------------------------ MODULE ActuatorScene_proofs ------------------------
(***************************************************************************)
(* An actuator, alone and in a scene with an equality component.           *)
(*                                                                         *)
(* First, the windows of ActuatorLimits keep what they promise, for every  *)
(* configuration, time step and sequence of answers.  What matters about a *)
(* window is stated relative to the value it was computed from (Good).     *)
(* Each way of computing a window establishes Good from scratch, with one  *)
(* exception: an accumulating actuator keeps the side of the old window on *)
(* which it has no absolute limit, so Good also says that this side        *)
(* contains zero.                                                          *)
(*                                                                         *)
(* Then the composition: the actuator behaves as it does alone, so all     *)
(* this holds in the scene too, and the equalities are on time, for every  *)
(* configuration, time step and order of edits, reinits, resets and steps. *)
(* EqualityOnTime is inductive once the types are known and a component is *)
(* known to impose only what the user set, a position eqDelta in any case. *)
(*                                                                         *)
(* Last, the limits of a YoungModulusActuator, for every range, ratio and  *)
(* sequence of answers and resets.                                         *)
(***************************************************************************)
EXTENDS ActuatorScene, YoungModulusActuator, TLAPS

Window == [hasMax : BOOLEAN, hasMin : BOOLEAN, max : Int, min : Int]

(* The window w does not lead out of the absolute limits.                  *)
KeepsLimits(a, v, w) ==
  Inside(a, v) =>
    /\ a.setMax => IF a.accumulate THEN v + w.max <= a.max ELSE w.max <= a.max
    /\ a.setLow => IF a.accumulate THEN Low(a) <= v + w.min ELSE Low(a) <= w.min

(* It allows no more than the maximal variation.                           *)
KeepsVariation(a, v, w) ==
  a.setVar =>
    IF a.accumulate THEN w.max <= a.var /\ -a.var <= w.min
    ELSE /\ w.max <= v + a.var
         /\ (a.kind = "pressure" /\ a.setLow) \/ v - a.var <= w.min

(* It contains the present value.                                          *)
AllowsHold(a, v, w) ==
  Inside(a, v) =>
    /\ (a.setMax \/ a.setVar) => Answer(a, v, v) <= w.max
    /\ (a.setLow \/ a.setVar) => w.min <= Answer(a, v, v)

(* It is not empty.                                                        *)
Open(a, w) ==
  (a.setVar \/ (a.setMax /\ a.setLow)) => a.kind = "pressure" \/ a.accumulate \/ w.min <= w.max

(* The sides that an accumulating actuator will keep contain zero.         *)
Retained(a, w) ==
  (a.accumulate /\ a.setVar) => (~a.setMax => 0 <= w.max) /\ (~a.setLow => w.min <= 0)

Good(a, v, w) ==
  /\ KeepsLimits(a, v, w) /\ KeepsVariation(a, v, w) /\ AllowsHold(a, v, w)
  /\ Open(a, w) /\ Retained(a, w)

(* Only limits that are set are announced.                                 *)
Honest(a, w) == (w.hasMax => a.setMax \/ a.setVar) /\ (w.hasMin => a.setLow \/ a.setVar)

(* The window is that of the present value.                                *)
Due == act.from = 0 \/ time >= act.from + Dt

IInv == TypeOK /\ Honest(act, lim) /\ (Due => Good(act, value, lim)) /\ LimitsKept

AllAccumulateFromZero == \A a \in Actuators : AccumulatesFromZero(a)

-----------------------------------------------------------------------------
(* The window around v, as all actuators but cavities and accumulating     *)
(* ones compute it, is good; so is the first one of an accumulating        *)
(* actuator.                                                               *)
LEMMA NarrowIsGood ==
  ASSUME NEW a, Configuration(a), StartsInside(a),
         NEW v \in Int, a.accumulate => v = 0, NEW w \in Window
  PROVE  /\ Narrow(a, v, Absolute(a, w)) \in Window
         /\ Good(a, v, Narrow(a, v, Absolute(a, w)))
         /\ Narrow(a, v, Absolute(a, w)).hasMax = w.hasMax
         /\ Narrow(a, v, Absolute(a, w)).hasMin = w.hasMin
<1> DEFINE u == Absolute(a, w)
           n == Narrow(a, v, u)
<1>1. Low(a) \in Int /\ (a.setMax /\ a.setLow => Low(a) <= a.max)
  BY DEF Configuration, StartsInside, Low
<1>2. /\ u \in Window /\ u.hasMax = w.hasMax /\ u.hasMin = w.hasMin
      /\ a.setMax => u.max = a.max
      /\ a.setLow => u.min = Low(a)
  BY <1>1 DEF Absolute, Window, Configuration
<1> HIDE DEF u
<1>3. /\ n \in Window /\ n.hasMax = u.hasMax /\ n.hasMin = u.hasMin
      /\ ~a.setVar => n = u
      /\ a.setVar => /\ n.min = IF Abs(u.min - v) >= a.var \/ ~a.setLow THEN v - a.var ELSE u.min
                     /\ n.max = IF Abs(u.max - v) >= a.var \/ ~a.setMax THEN v + a.var ELSE u.max
  <2> DEFINE lo == IF Abs(u.min - v) >= a.var \/ ~a.setLow THEN v - a.var ELSE u.min
             hi == IF Abs(u.max - v) >= a.var \/ ~a.setMax THEN v + a.var ELSE u.max
  <2>1. lo \in Int /\ hi \in Int
    BY <1>2 DEF Window, Configuration
  <2>2. n = IF a.setVar THEN [u EXCEPT !.min = lo, !.max = hi] ELSE u
    BY DEF Narrow
  <2> HIDE DEF lo, hi, n
  <2>3. /\ n \in Window /\ n.hasMax = u.hasMax /\ n.hasMin = u.hasMin
        /\ ~a.setVar => n = u
        /\ a.setVar => n.min = lo /\ n.max = hi
    BY <1>2, <2>1, <2>2 DEF Window, Configuration
  <2> QED BY <2>3 DEF lo, hi
<1> HIDE DEF n
<1>4. Good(a, v, n)
  <2>1. KeepsLimits(a, v, n) BY <1>1, <1>2, <1>3 DEF KeepsLimits, Inside, Abs, Configuration, Window
  <2>2. KeepsVariation(a, v, n) BY <1>1, <1>2, <1>3 DEF KeepsVariation, Abs, Configuration, Window
  <2>3. AllowsHold(a, v, n) BY <1>1, <1>2, <1>3 DEF AllowsHold, Inside, Abs, Answer, Configuration, Window
  <2>4. Open(a, n) BY <1>1, <1>2, <1>3 DEF Open, Abs, Configuration, Window
  <2>5. Retained(a, n) BY <1>3 DEF Retained, Configuration
  <2> QED BY <2>1, <2>2, <2>3, <2>4, <2>5 DEF Good
<1> QED BY <1>2, <1>3, <1>4 DEF n, u

(* The windows of a cavity.                                                *)
LEMMA PressureIsGood ==
  ASSUME NEW a, Configuration(a), StartsInside(a), a.kind = "pressure",
         NEW v \in Int, NEW w \in Window
  PROVE  /\ PressureUpdateLimits(a, v, w) \in Window
         /\ Good(a, v, PressureUpdateLimits(a, v, w))
         /\ PressureUpdateLimits(a, v, w).hasMax = w.hasMax
         /\ PressureUpdateLimits(a, v, w).hasMin = w.hasMin
<1> DEFINE u == Absolute(a, w)
           lo == IF Abs(u.min + v) <= -a.var \/ ~a.setLow THEN v - a.var ELSE u.min
           hi == IF Abs(u.max - v) >= a.var \/ ~a.setMax THEN v + a.var ELSE u.max
           n == PressureUpdateLimits(a, v, w)
<1>1. Low(a) \in Int /\ ~a.accumulate
  BY DEF Configuration, Low
<1>2. /\ u \in Window /\ u.hasMax = w.hasMax /\ u.hasMin = w.hasMin
      /\ a.setMax => u.max = a.max
      /\ a.setLow => u.min = Low(a)
  BY <1>1 DEF Absolute, Window, Configuration
<1>3. n = IF a.setVar THEN [u EXCEPT !.max = hi, !.min = lo] ELSE u
  BY DEF PressureUpdateLimits
<1> HIDE DEF u
<1>4. lo \in Int /\ hi \in Int
  BY <1>2 DEF Window, Configuration
<1> HIDE DEF lo, hi, n
<1>5. /\ n \in Window /\ n.hasMax = u.hasMax /\ n.hasMin = u.hasMin
      /\ ~a.setVar => n = u
      /\ a.setVar => n.min = lo /\ n.max = hi
  BY <1>2, <1>3, <1>4 DEF Window, Configuration
<1>6. Good(a, v, n)
  <2>1. KeepsLimits(a, v, n) BY <1>1, <1>2, <1>5 DEF KeepsLimits, Inside, Abs, Configuration, Window, lo, hi
  <2>2. KeepsVariation(a, v, n) BY <1>1, <1>2, <1>5 DEF KeepsVariation, Abs, Configuration, Window, lo, hi
  <2>3. AllowsHold(a, v, n) BY <1>1, <1>2, <1>5 DEF AllowsHold, Inside, Abs, Answer, Configuration, Window, lo, hi
  <2>4. Open(a, n) BY DEF Open
  <2>5. Retained(a, n) BY <1>1 DEF Retained
  <2> QED BY <2>1, <2>2, <2>3, <2>4, <2>5 DEF Good
<1> QED BY <1>2, <1>5, <1>6 DEF n

(* The first window of a cavity, whose volume growth is zero.              *)
LEMMA PressureStartsGood ==
  ASSUME NEW a, Configuration(a), StartsInside(a), a.kind = "pressure", NEW w \in Window
  PROVE  /\ PressureInitLimits(a, w) \in Window
         /\ Good(a, 0, PressureInitLimits(a, w))
         /\ PressureInitLimits(a, w).hasMax = Announce(a, w).hasMax
         /\ PressureInitLimits(a, w).hasMin = Announce(a, w).hasMin
<1> DEFINE w1 == Announce(a, w)
           u == Absolute(a, w1)
           lo == IF u.min <= -a.var \/ ~a.setLow THEN -a.var ELSE u.min
           hi == IF u.max >= a.var \/ ~a.setMax THEN a.var ELSE u.max
           n == PressureInitLimits(a, w)
<1>1. /\ Low(a) \in Int /\ ~a.accumulate
      /\ a.setMax => 0 <= a.max
      /\ a.setLow => Low(a) <= 0
  BY DEF Configuration, StartsInside, Low
<1>2. w1 \in Window
  BY DEF Announce, Window, Configuration
<1>3. n = IF a.setVar THEN [u EXCEPT !.max = hi, !.min = lo] ELSE u
  BY DEF PressureInitLimits
<1> HIDE DEF w1
<1>4. /\ u \in Window /\ u.hasMax = w1.hasMax /\ u.hasMin = w1.hasMin
      /\ a.setMax => u.max = a.max
      /\ a.setLow => u.min = Low(a)
  BY <1>1, <1>2 DEF Absolute, Window, Configuration
<1> HIDE DEF u
<1>5. lo \in Int /\ hi \in Int
  BY <1>4 DEF Window, Configuration
<1> HIDE DEF lo, hi, n
<1>6. /\ n \in Window /\ n.hasMax = u.hasMax /\ n.hasMin = u.hasMin
      /\ ~a.setVar => n = u
      /\ a.setVar => n.min = lo /\ n.max = hi
  BY <1>3, <1>4, <1>5 DEF Window, Configuration
<1>7. Good(a, 0, n)
  <2>1. KeepsLimits(a, 0, n) BY <1>1, <1>4, <1>6 DEF KeepsLimits, Inside, Configuration, Window, lo, hi
  <2>2. KeepsVariation(a, 0, n) BY <1>1, <1>4, <1>6 DEF KeepsVariation, Configuration, Window, lo, hi
  <2>3. AllowsHold(a, 0, n) BY <1>1, <1>4, <1>6 DEF AllowsHold, Inside, Answer, Configuration, Window, lo, hi
  <2>4. Open(a, n) BY DEF Open
  <2>5. Retained(a, n) BY <1>1 DEF Retained
  <2> QED BY <2>1, <2>2, <2>3, <2>4, <2>5 DEF Good
<1> QED BY <1>4, <1>6, <1>7 DEF n, w1

(* The windows of an accumulating actuator, whose old one was good.        *)
LEMMA AccumulatingIsGood ==
  ASSUME NEW a, Configuration(a), StartsInside(a), AccumulatesFromZero(a), a.accumulate,
         NEW v \in Int, NEW w \in Window, Retained(a, w)
  PROVE  /\ SlidingUpdateLimit(a, v, w) \in Window
         /\ Good(a, v, SlidingUpdateLimit(a, v, w))
         /\ SlidingUpdateLimit(a, v, w).hasMax = w.hasMax
         /\ SlidingUpdateLimit(a, v, w).hasMin = w.hasMin
<1> DEFINE hi0 == IF a.setMax THEN IF v > 0 THEN a.max - v ELSE a.max ELSE w.max
           lo0 == IF a.setLow THEN IF v < 0 THEN -a.low - v ELSE -a.low ELSE w.min
           lo == IF a.setVar /\ lo0 < -a.var THEN -a.var ELSE lo0
           hi == IF a.setVar /\ hi0 > a.var THEN a.var ELSE hi0
           n == SlidingUpdateLimit(a, v, w)
<1>1. /\ Low(a) = -a.low /\ a.low \in Int
      /\ a.setMax => 0 <= a.max
      /\ a.setLow => Low(a) <= 0
  BY DEF Configuration, StartsInside, Low, AccumulatesFromZero
<1>2. hi0 \in Int /\ lo0 \in Int
  BY DEF Window, Configuration
<1>3. /\ n \in Window /\ n.hasMax = w.hasMax /\ n.hasMin = w.hasMin
      /\ n.min = lo /\ n.max = hi
  <2> DEFINE u == [w EXCEPT !.max = hi0, !.min = lo0]
             l == IF u.min < -a.var THEN -a.var ELSE u.min
             h == IF u.max > a.var THEN a.var ELSE u.max
  <2>1. n = IF a.setVar THEN [u EXCEPT !.min = l, !.max = h] ELSE u
    BY DEF SlidingUpdateLimit
  <2> HIDE DEF hi0, lo0, n
  <2>2. /\ u \in Window /\ u.hasMax = w.hasMax /\ u.hasMin = w.hasMin
        /\ u.min = lo0 /\ u.max = hi0
    BY <1>2 DEF Window
  <2> HIDE DEF u
  <2>3. l \in Int /\ h \in Int
    BY <1>2, <2>2 DEF Configuration
  <2> HIDE DEF l, h
  <2>4. /\ n \in Window /\ n.hasMax = w.hasMax /\ n.hasMin = w.hasMin
        /\ a.setVar => n.min = l /\ n.max = h
        /\ ~a.setVar => n.min = lo0 /\ n.max = hi0
    BY <2>1, <2>2, <2>3 DEF Window, Configuration
  <2> QED BY <2>2, <2>4 DEF l, h, Configuration
<1> HIDE DEF n
<1>4. /\ ~a.setMax /\ a.setVar => 0 <= w.max
      /\ ~a.setLow /\ a.setVar => w.min <= 0
  BY DEF Retained
<1>5. Good(a, v, n)
  <2>1. KeepsLimits(a, v, n) BY <1>1, <1>3 DEF KeepsLimits, Inside, Configuration, Window
  <2>2. KeepsVariation(a, v, n) BY <1>2, <1>3 DEF KeepsVariation, Configuration, Window
  <2>3. AllowsHold(a, v, n) BY <1>1, <1>3, <1>4 DEF AllowsHold, Inside, Answer, Configuration, Window
  <2>4. Open(a, n) BY DEF Open
  <2>5. Retained(a, n) BY <1>3, <1>4 DEF Retained, Configuration, Window
  <2> QED BY <2>1, <2>2, <2>3, <2>4, <2>5 DEF Good
<1> QED BY <1>3, <1>5 DEF n

(* init(), reinit() and reset() from constrainAtTime on.                   *)
LEMMA InitIsGood ==
  ASSUME NEW a, Configuration(a), StartsInside(a), AccumulatesFromZero(a),
         NEW t \in Nat, NEW v \in Int, a.kind # "surface" => v = a.initial,
         NEW w \in Window, Honest(a, w)
  PROVE  LET n == InitLimit(a, v, t, w) IN
         /\ n \in Window /\ Honest(a, n)
         /\ t >= a.from => Good(a, v, n)
<1> DEFINE u == Announce(a, w)
           n == InitLimit(a, v, t, w)
<1>1. (a.accumulate => v = 0) /\ a.from \in Nat
  BY DEF Configuration, AccumulatesFromZero
<1>2. u \in Window /\ Honest(a, u)
  BY DEF Announce, Honest, Window, Configuration
<1> HIDE DEF u
<1>3. /\ Narrow(a, v, Absolute(a, u)) \in Window
      /\ Good(a, v, Narrow(a, v, Absolute(a, u)))
      /\ Honest(a, Narrow(a, v, Absolute(a, u)))
  BY <1>1, <1>2, NarrowIsGood DEF Honest
<1>4. CASE a.kind = "cable"
  <2>1. n = IF t < a.from THEN w ELSE Narrow(a, v, Absolute(a, u))
    BY <1>4 DEF InitLimit, CableInitLimit, u
  <2> QED BY <1>1, <1>3, <2>1
<1>5. CASE a.kind = "pressure"
  <2>1. n = PressureInitLimits(a, w) /\ v = 0
    BY <1>5 DEF InitLimit, Configuration
  <2>2. n \in Window /\ Good(a, v, n) /\ n.hasMax = u.hasMax /\ n.hasMin = u.hasMin
    BY <1>5, <2>1, PressureStartsGood DEF u
  <2> QED BY <1>2, <2>2 DEF Honest
<1>6. CASE a.kind \notin {"cable", "pressure"}
  <2>1. n = Narrow(a, v, Absolute(a, u))
    BY <1>6 DEF InitLimit, SlidingInitLimit, JointInitLimit, PointInitLimit, SurfaceInitLimit, u
  <2> QED BY <1>3, <2>1
<1> QED BY <1>4, <1>5, <1>6

(* storeResults() from constrainAtTime on; before it, nothing changes.     *)
LEMMA UpdateIsGood ==
  ASSUME NEW a, Configuration(a), StartsInside(a), AccumulatesFromZero(a),
         NEW t \in Nat, NEW v \in Int, NEW w \in Window, Honest(a, w), Retained(a, w)
  PROVE  LET n == UpdateLimit(a, v, t, w) IN
         /\ n \in Window /\ Honest(a, n)
         /\ t >= a.from => Good(a, v, n)
<1> DEFINE u == Announce(a, w)
           n == UpdateLimit(a, v, t, w)
<1>1. a.from \in Nat /\ (a.accumulate => a.kind = "sliding")
  BY DEF Configuration
<1>2. u \in Window /\ Honest(a, u)
  BY DEF Announce, Honest, Window, Configuration
<1> HIDE DEF u
<1>3. ASSUME ~a.accumulate, NEW x \in Window, Honest(a, x)
      PROVE  /\ Narrow(a, v, Absolute(a, x)) \in Window
             /\ Good(a, v, Narrow(a, v, Absolute(a, x)))
             /\ Honest(a, Narrow(a, v, Absolute(a, x)))
  BY <1>3, NarrowIsGood DEF Honest
<1>4. CASE a.kind = "cable"
  <2>1. n = IF t < a.from THEN w
            ELSE IF t = a.from THEN Narrow(a, v, Absolute(a, u))
            ELSE Narrow(a, v, Absolute(a, w))
    BY <1>1, <1>4 DEF UpdateLimit, CableUpdateLimit, CableInitLimit, u
  <2> QED BY <1>1, <1>2, <1>3, <1>4, <2>1
<1>5. CASE a.kind = "pressure"
  <2>1. n = PressureUpdateLimits(a, v, w)
    BY <1>5 DEF UpdateLimit
  <2> QED BY <1>5, <2>1, PressureIsGood DEF Honest
<1>6. CASE a.kind = "sliding" /\ a.accumulate
  <2>1. n = SlidingUpdateLimit(a, v, w)
    BY <1>6 DEF UpdateLimit
  <2> QED BY <1>6, <2>1, AccumulatingIsGood DEF Honest
<1>7. CASE a.kind \notin {"cable", "pressure"} /\ ~a.accumulate
  <2>1. n = Narrow(a, v, Absolute(a, w))
    BY <1>7 DEF UpdateLimit, SlidingUpdateLimit, JointUpdateLimit, PointUpdateLimit, SurfaceUpdateLimit
  <2> QED BY <1>3, <1>7, <2>1
<1> QED BY <1>1, <1>4, <1>5, <1>6, <1>7

-----------------------------------------------------------------------------
(* An answer in a good window of a value within the limits is within them. *)
LEMMA AnswersStayInside ==
  ASSUME NEW a, Configuration(a), NEW v \in Int, NEW new \in Int, NEW w \in Window,
         Good(a, v, w), Inside(a, v), InWindow(w, Answer(a, v, new)),
         a.setMax => w.hasMax, a.setLow => w.hasMin
  PROVE  Inside(a, new)
<1>1. Low(a) \in Int BY DEF Low, Configuration
<1> QED
  BY <1>1 DEF Good, KeepsLimits, Inside, InWindow, Answer, Window, Configuration

LEMMA InductiveInit == AllAccumulateFromZero /\ Init => IInv
<1> SUFFICES ASSUME AllAccumulateFromZero, Init PROVE IInv
  OBVIOUS
<1>1. act \in Actuators /\ Configuration(act) /\ StartsInside(act) /\ AccumulatesFromZero(act)
  BY ActuatorsAssumption DEF Init, AllAccumulateFromZero
<1>2. NoLimits \in Window /\ Honest(act, NoLimits)
  BY DEF NoLimits, Window, Honest
<1>3. lim \in Window /\ Honest(act, lim) /\ (0 >= act.from => Good(act, act.initial, lim))
  <2>1. act.initial \in Int /\ 0 \in Nat
    BY <1>1 DEF Configuration
  <2>2. LET n == InitLimit(act, act.initial, 0, NoLimits) IN
        /\ n \in Window /\ Honest(act, n)
        /\ 0 >= act.from => Good(act, act.initial, n)
    BY <1>1, <1>2, <2>1, InitIsGood
  <2> QED BY <2>2 DEF Init
<1>4. TypeOK
  BY <1>1, <1>3 DEF TypeOK, Init, Window, Configuration
<1>5. Due => Good(act, value, lim)
  BY <1>1, <1>3, ConstantsAssumption DEF Due, Init, Configuration
<1>6. LimitsKept
  BY <1>1 DEF LimitsKept, Inside, StartsInside, Init
<1> QED BY <1>3, <1>4, <1>5, <1>6 DEF IInv

LEMMA InductiveNext == AllAccumulateFromZero /\ IInv /\ [Next]_vars => IInv'
<1> SUFFICES ASSUME AllAccumulateFromZero, IInv, [Next]_vars PROVE IInv'
  OBVIOUS
<1>1. /\ act \in Actuators /\ Configuration(act) /\ StartsInside(act)
      /\ AccumulatesFromZero(act)
      /\ time \in Nat /\ value \in Int /\ astray \in BOOLEAN /\ lim \in Window
      /\ act.from \in Nat /\ act.initial \in Int /\ Dt \in Nat \ {0}
  BY ActuatorsAssumption, ConstantsAssumption
     DEF IInv, TypeOK, AllAccumulateFromZero, Window, Configuration
<1>2. CASE Reinit
  <2>1. value' \in Int /\ (act.kind # "surface" => value' = act.initial)
    BY <1>1, <1>2 DEF Reinit
  <2>2. /\ lim' \in Window /\ Honest(act, lim')
        /\ time >= act.from => Good(act, value', lim')
    BY <1>1, <1>2, <2>1, InitIsGood DEF Reinit, IInv
  <2>3. TypeOK' BY <1>1, <1>2, <2>1, <2>2 DEF TypeOK, Reinit, Window
  <2>4. Due' => Good(act, value, lim)'
    BY <1>1, <1>2, <2>2 DEF Due, Reinit
  <2>5. LimitsKept'
    BY <1>1, <1>2 DEF IInv, LimitsKept, Inside, StartsInside, Reinit
  <2> QED BY <1>2, <2>2, <2>3, <2>4, <2>5 DEF IInv, Reinit
<1>3. CASE Reset
  <2>1. CASE act.kind \in {"cable", "sliding", "pressure"}
    <3>1. /\ lim' \in Window /\ Honest(act, lim')
          /\ 0 >= act.from => Good(act, act.initial, lim')
      BY <1>1, <1>3, <2>1, InitIsGood DEF Reset, IInv
    <3>2. TypeOK' BY <1>1, <1>3, <2>1, <3>1 DEF TypeOK, Reset, Window
    <3>3. Due' => Good(act, value, lim)'
      BY <1>1, <1>3, <2>1, <3>1 DEF Due, Reset
    <3>4. LimitsKept'
      BY <1>1, <1>3, <2>1 DEF LimitsKept, Inside, StartsInside, Reset
    <3> QED BY <1>3, <2>1, <3>1, <3>2, <3>3, <3>4 DEF IInv, Reset
  <2>2. CASE act.kind \notin {"cable", "sliding", "pressure"}
    <3>1. act.from = 0 /\ act' = act /\ value' = value /\ lim' = lim /\ astray' = astray /\ time' = 0
      BY <1>1, <1>3, <2>2 DEF Configuration, Reset
    <3>2. Due /\ InForce' = InForce
      BY <3>1 DEF Due, InForce
    <3> QED BY <1>1, <3>1, <3>2 DEF IInv, TypeOK, LimitsKept, Due
  <2> QED BY <2>1, <2>2
<1>4. ASSUME NEW new \in Values, StoreResults(new) PROVE IInv'
  <2>1. new \in Int /\ act' = act /\ value' = new /\ time' = time + Dt
    BY <1>4, ConstantsAssumption DEF StoreResults
  <2>2. Retained(act, lim)
    <3>1. CASE act.from = 0 BY <3>1 DEF IInv, Due, Good
    <3>2. CASE act.from # 0
      BY <1>1, <3>2 DEF Retained, Configuration
    <3> QED BY <3>1, <3>2
  <2>3. /\ lim' \in Window /\ Honest(act, lim')
        /\ time >= act.from => Good(act, new, lim')
    BY <1>1, <1>4, <2>1, <2>2, UpdateIsGood DEF StoreResults, IInv
  <2>4. TypeOK' BY <1>1, <1>4, <2>1, <2>3 DEF TypeOK, StoreResults, Window
  <2>5. Due' => Good(act, value, lim)'
    BY <1>1, <2>1, <2>3 DEF Due
  <2>6. LimitsKept'
    <3> SUFFICES ASSUME ~astray' PROVE Inside(act, new)
      BY <2>1 DEF LimitsKept
    <3>1. ~astray /\ InForce /\ InWindow(lim, Answer(act, value, new))
      BY <1>4 DEF StoreResults
    <3>2. Good(act, value, lim) /\ Inside(act, value)
      BY <3>1 DEF IInv, InForce, Due, LimitsKept
    <3>3. (act.setMax => lim.hasMax) /\ (act.setLow => lim.hasMin)
      BY <3>1 DEF InForce
    <3> QED BY <1>1, <2>1, <3>1, <3>2, <3>3, AnswersStayInside
  <2> QED BY <2>1, <2>3, <2>4, <2>5, <2>6 DEF IInv
<1>5. CASE UNCHANGED vars
  <2>1. act' = act /\ value' = value /\ lim' = lim /\ astray' = astray /\ time' = time
    BY <1>5 DEF vars
  <2> QED BY <2>1 DEF IInv, TypeOK, Due, LimitsKept, InForce
<1> QED BY <1>2, <1>3, <1>4, <1>5 DEF Next

-----------------------------------------------------------------------------
(* The windows keep the value within the absolute limits, whatever the     *)
(* configuration, as long as the answers are held to them (initLimit and   *)
(* updateLimit of all actuators).                                          *)
THEOREM LimitsAreKept == ASSUME AllAccumulateFromZero PROVE Spec => []LimitsKept
<1>1. Init => IInv BY InductiveInit
<1>2. IInv /\ [Next]_vars => IInv' BY InductiveNext
<1>3. IInv => LimitsKept BY DEF IInv
<1> QED BY <1>1, <1>2, <1>3, PTL DEF Spec

(* From within the limits the actuator may always stay where it is.        *)
THEOREM HoldingIsAllowed == ASSUME AllAccumulateFromZero PROVE Spec => []HoldIsAllowed
<1>1. Init => IInv BY InductiveInit
<1>2. IInv /\ [Next]_vars => IInv' BY InductiveNext
<1>3. IInv => HoldIsAllowed
  <2> SUFFICES ASSUME IInv, InForce, Inside(act, value)
               PROVE  InWindow(lim, Answer(act, value, value))
    BY DEF HoldIsAllowed
  <2>1. Good(act, value, lim) /\ Honest(act, lim)
    BY DEF IInv, InForce, Due
  <2> QED BY <2>1 DEF Good, AllowsHold, Honest, InWindow
<1> QED BY <1>1, <1>2, <1>3, PTL DEF Spec

(* No window of an actuator that neither accumulates nor is a cavity is    *)
(* empty, also after answers outside the limits.                           *)
THEOREM WindowsAreOpen == ASSUME AllAccumulateFromZero PROVE Spec => []WindowIsOpen
<1>1. Init => IInv BY InductiveInit
<1>2. IInv /\ [Next]_vars => IInv' BY InductiveNext
<1>3. IInv => WindowIsOpen
  <2> SUFFICES ASSUME IInv, InForce, lim.hasMax, lim.hasMin,
                      act.kind # "pressure", ~act.accumulate
               PROVE  lim.min <= lim.max
    BY DEF WindowIsOpen
  <2>1. Open(act, lim) /\ Honest(act, lim)
    BY DEF IInv, InForce, Due, Good
  <2> QED BY <2>1 DEF Open, Honest
<1> QED BY <1>1, <1>2, <1>3, PTL DEF Spec

(* A step held to its window changes the value by the maximal variation at *)
(* most.                                                                   *)
THEOREM VariationIsKept == ASSUME AllAccumulateFromZero PROVE Spec => VariationKept
<1>1. Init => IInv BY InductiveInit
<1>2. IInv /\ [Next]_vars => IInv' BY InductiveNext
<1> DEFINE Step == (InForce /\ act.setVar /\ ~astray' /\ time' = time + Dt) =>
                     /\ value' <= value + act.var
                     /\ (act.kind = "pressure" /\ act.setLow) \/ value - act.var <= value'
<1>3. IInv /\ [Next]_vars => [Step]_vars
  <2> SUFFICES ASSUME IInv, Next, InForce, act.setVar, ~astray', time' = time + Dt
               PROVE  /\ value' <= value + act.var
                      /\ (act.kind = "pressure" /\ act.setLow) \/ value - act.var <= value'
    OBVIOUS
  <2>1. /\ Configuration(act) /\ time \in Nat /\ value \in Int /\ lim \in Window
        /\ Dt \in Nat \ {0}
    BY ActuatorsAssumption, ConstantsAssumption DEF IInv, TypeOK, Window
  <2>2. ~Reinit /\ ~Reset
    BY <2>1 DEF Reinit, Reset
  <2>3. PICK new \in Values : StoreResults(new)
    BY <2>2 DEF Next
  <2>4. new \in Int /\ value' = new /\ InWindow(lim, Answer(act, value, new))
    BY <2>3, ConstantsAssumption DEF StoreResults
  <2>5. KeepsVariation(act, value, lim) /\ lim.hasMax /\ lim.hasMin
    BY DEF IInv, InForce, Due, Good
  <2> QED BY <2>1, <2>4, <2>5 DEF KeepsVariation, InWindow, Answer, Configuration, Window
<1> QED BY <1>1, <1>2, <1>3, PTL DEF Spec, VariationKept

-----------------------------------------------------------------------------
(* The scene.                                                              *)

Setting == [set : BOOLEAN, value : Int]

EqTypeOK ==
  /\ time \in Nat /\ equality \in Equalities
  /\ wanted \in [Quantities -> Setting] /\ imposed \in [Quantities -> Setting]
  /\ edited \in BOOLEAN /\ rewound \in BOOLEAN

OnlyWanted ==
  /\ equality.kind = "position" => ~wanted["lambda"].set
  /\ \A q \in Quantities :
       imposed[q].set => wanted[q].set \/ (equality.kind = "position" /\ q = "delta")

EqInv == EqTypeOK /\ OnlyWanted /\ EqualityOnTime

-----------------------------------------------------------------------------
(* What updateConstraint() computes, for each component: nothing before    *)
(* constrainAtTime, and afterwards what is wanted.                         *)
LEMMA UpdateComputes ==
  ASSUME NEW e \in Equalities, NEW t \in Nat,
         NEW w \in [Quantities -> Setting], NEW i \in [Quantities -> Setting],
         e.kind = "position" => ~w["lambda"].set /\ ~i["lambda"].set
  PROVE  LET u == UpdateConstraint(e, w, t, i) IN
         /\ u \in [Quantities -> Setting]
         /\ e.kind = "position" => ~u["lambda"].set
         /\ t < e.from => u = i
         /\ t >= e.from => \A q \in Quantities :
                             /\ w[q].set => u[q] = w[q]
                             /\ u[q] # i[q] => u[q].set /\ u[q].value = w[q].value
                             /\ ~w[q].set /\ e.kind # "position" => u[q] = i[q]
                             /\ e.kind = "position" /\ q = "delta"
                                  => u[q].set /\ u[q].value = w[q].value
<1> DEFINE u == UpdateConstraint(e, w, t, i)
<1>1. e.kind \in {"cable", "pressure", "position"} /\ e.from \in Nat /\ (e.kind = "pressure" => e.from = 0)
  BY EqualitiesAssumption
<1>2. CopySet(w, i) \in [Quantities -> Setting]
  BY DEF CopySet
<1>3. CASE e.kind = "cable"
  <2>1. u = IF t < e.from THEN i ELSE CopySet(w, i)
    BY <1>3 DEF UpdateConstraint, CableUpdateConstraint
  <2> QED BY <1>1, <1>2, <1>3, <2>1 DEF CopySet, Quantities
<1>4. CASE e.kind = "pressure"
  <2>1. u = CopySet(w, i)
    BY <1>4 DEF UpdateConstraint, PressureUpdateConstraint
  <2> QED BY <1>1, <1>2, <1>4, <2>1 DEF CopySet, Quantities
<1>5. CASE e.kind = "position"
  <2>1. u = IF t < e.from THEN i ELSE [i EXCEPT !["delta"] = [w["delta"] EXCEPT !.set = TRUE]]
    BY <1>5 DEF UpdateConstraint, PositionUpdateConstraint
  <2>2. [w["delta"] EXCEPT !.set = TRUE] \in Setting
    BY DEF Setting, Quantities
  <2>3. w["delta"].set => [w["delta"] EXCEPT !.set = TRUE] = w["delta"]
    BY DEF Setting, Quantities
  <2>4. [w["delta"] EXCEPT !.set = TRUE].set /\ [w["delta"] EXCEPT !.set = TRUE].value = w["delta"].value
    BY DEF Setting, Quantities
  <2> QED BY <1>1, <1>5, <2>1, <2>2, <2>3, <2>4 DEF Quantities
<1> QED BY <1>1, <1>3, <1>4, <1>5

(* The constructor and init().                                             *)
LEMMA EqInductiveInit == SceneInit => EqInv
<1> SUFFICES ASSUME SceneInit PROVE EqInv
  OBVIOUS
<1> DEFINE none == [q \in Quantities |-> Unset]
<1>1. time = 0 /\ equality \in Equalities /\ wanted \in Settings(equality)
      /\ imposed = UpdateConstraint(equality, wanted, 0, none)
      /\ edited = (equality.from > 0) /\ rewound = FALSE
  BY DEF SceneInit, Init, EqInit
<1>2. wanted \in [Quantities -> Setting] /\ none \in [Quantities -> Setting]
  <2>1. ASSUME NEW r \in [set : {TRUE}, value : EqValues] PROVE r \in Setting
    BY EqualitiesAssumption DEF Setting
  <2>3. Unset \in Setting
    BY DEF Setting, Unset
  <2>2. wanted \in [Quantities -> {Unset} \cup [set : {TRUE}, value : EqValues]]
    BY <1>1 DEF Settings
  <2> QED BY <2>1, <2>2, <2>3
<1>3. \A q \in Quantities : ~none[q].set
  BY DEF Unset
<1>4. equality.kind = "position" => ~wanted["lambda"].set /\ ~none["lambda"].set
  BY <1>1, <1>3 DEF Settings, Unset, Quantities
<1>5. equality.from \in Nat
  BY <1>1, EqualitiesAssumption
<1> HIDE DEF none
<1>6. /\ imposed \in [Quantities -> Setting]
      /\ equality.kind = "position" => ~imposed["lambda"].set
      /\ 0 < equality.from => imposed = none
      /\ 0 >= equality.from => \A q \in Quantities :
            /\ wanted[q].set => imposed[q] = wanted[q]
            /\ imposed[q] # none[q] => imposed[q].set /\ imposed[q].value = wanted[q].value
            /\ ~wanted[q].set /\ equality.kind # "position" => imposed[q] = none[q]
  BY <1>1, <1>2, <1>4, UpdateComputes
<1>7. EqualityOnTime
  BY <1>1, <1>3, <1>5, <1>6, ConstantsAssumption DEF EqualityOnTime
<1>8. EqTypeOK
  <2>1. (equality.from > 0) \in BOOLEAN
    BY <1>5
  <2>2. edited \in BOOLEAN
    BY <1>1, <2>1, Zenon
  <2>3. rewound \in BOOLEAN
    BY <1>1
  <2> QED BY <1>1, <1>2, <1>6, <2>2, <2>3 DEF EqTypeOK
<1>9. OnlyWanted
  BY <1>3, <1>4, <1>5, <1>6 DEF OnlyWanted, Quantities
<1> QED BY <1>7, <1>8, <1>9 DEF EqInv

(* An update at the present time, after which the time is the same or that *)
(* of the next step, or at time zero in a reset.                           *)
LEMMA UpdateKeeps ==
  ASSUME EqInv, NEW t \in Nat, Update(t), time' \in Nat,
         rewound' \in BOOLEAN,
         \/ t = time /\ time' \in {time, time + Dt} /\ rewound' = rewound
         \/ t = 0 /\ time' = 0 /\ rewound' = TRUE
  PROVE  EqInv'
<1>1. /\ equality \in Equalities /\ time \in Nat /\ edited \in BOOLEAN
      /\ wanted \in [Quantities -> Setting] /\ imposed \in [Quantities -> Setting]
      /\ equality.kind = "position" => ~wanted["lambda"].set /\ ~imposed["lambda"].set
      /\ \A q \in Quantities :
           imposed[q].set => wanted[q].set \/ (equality.kind = "position" /\ q = "delta")
  BY DEF EqInv, EqTypeOK, OnlyWanted, Quantities
<1>2. /\ imposed' = UpdateConstraint(equality, wanted, t, imposed)
      /\ edited' = (edited /\ t < equality.from)
      /\ equality' = equality /\ wanted' = wanted
  BY DEF Update
<1>3. equality.from \in Nat /\ Dt \in Nat \ {0}
  BY <1>1, EqualitiesAssumption, ConstantsAssumption
<1>4. /\ imposed' \in [Quantities -> Setting]
      /\ equality.kind = "position" => ~imposed'["lambda"].set
      /\ t < equality.from => imposed' = imposed
      /\ t >= equality.from => \A q \in Quantities :
            /\ wanted[q].set => imposed'[q] = wanted[q]
            /\ imposed'[q] # imposed[q] => imposed'[q].set /\ imposed'[q].value = wanted[q].value
            /\ ~wanted[q].set /\ equality.kind # "position" => imposed'[q] = imposed[q]
            /\ equality.kind = "position" /\ q = "delta"
                 => imposed'[q].set /\ imposed'[q].value = wanted[q].value
  BY <1>1, <1>2, UpdateComputes
<1>5. EqTypeOK'
  BY <1>1, <1>2, <1>3, <1>4 DEF EqTypeOK
<1>6. ASSUME NEW q \in Quantities
      PROVE  /\ (imposed'[q].set /\ ~edited') => imposed'[q].value = wanted'[q].value
             /\ (time' >= equality'.from + Dt /\ wanted'[q].set /\ ~edited') => imposed'[q].set
             /\ (~rewound' /\ time' < equality'.from) => ~imposed'[q].set
  <2>1. /\ (imposed[q].set /\ ~edited) => imposed[q].value = wanted[q].value
        /\ (time >= equality.from + Dt /\ wanted[q].set /\ ~edited) => imposed[q].set
        /\ (~rewound /\ time < equality.from) => ~imposed[q].set
    BY DEF EqInv, EqualityOnTime
  <2>2. CASE t < equality.from
    BY <1>1, <1>2, <1>3, <1>4, <2>1, <2>2
  <2>3. CASE t >= equality.from
    BY <1>1, <1>2, <1>3, <1>4, <2>1, <2>3
  <2> QED BY <1>3, <2>2, <2>3
<1>7. OnlyWanted'
  <2>1. CASE t < equality.from
    BY <1>1, <1>2, <1>4, <2>1 DEF OnlyWanted, Quantities
  <2>2. CASE t >= equality.from
    BY <1>1, <1>2, <1>4, <2>2 DEF OnlyWanted, Quantities
  <2> QED BY <1>3, <2>1, <2>2
<1>8. EqualityOnTime'
  BY <1>6 DEF EqualityOnTime
<1> QED BY <1>5, <1>7, <1>8 DEF EqInv

(* Every action of the scene.                                              *)
LEMMA EqInductiveNext == EqInv /\ [SceneNext]_sceneVars => EqInv'
<1> SUFFICES ASSUME EqInv, [SceneNext]_sceneVars PROVE EqInv'
  OBVIOUS
<1>1. time \in Nat /\ rewound \in BOOLEAN /\ 0 \in Nat /\ Dt \in Nat
  BY ConstantsAssumption DEF EqInv, EqTypeOK
<1>2. ASSUME NEW new \in Values, SceneStep(new) PROVE EqInv'
  <2>1. time' = time + Dt /\ Update(time) /\ rewound' = rewound
    BY <1>2 DEF SceneStep, StoreResults, EqStore
  <2>2. time' \in Nat
    BY <1>1, <2>1
  <2>3. rewound' \in BOOLEAN
    BY <1>1, <2>1, Zenon
  <2> QED BY <1>1, <2>1, <2>2, <2>3, UpdateKeeps
<1>3. ASSUME SceneReset PROVE EqInv'
  <2>1. time' = 0 /\ rewound' = TRUE
    BY <1>3 DEF SceneReset, Reset, EqReset
  <2>2. CASE equality.kind = "position"
    <3>1. UNCHANGED <<equality, wanted, imposed, edited>>
      BY <1>3, <2>2 DEF SceneReset, EqReset
    <3>2. equality.from \in Nat /\ Dt \in Nat \ {0}
      BY EqualitiesAssumption, ConstantsAssumption DEF EqInv, EqTypeOK
    <3>3. EqualityOnTime'
      BY <2>1, <3>1, <3>2 DEF EqInv, EqualityOnTime
    <3>4. EqTypeOK' /\ OnlyWanted'
      BY <2>1, <3>1 DEF EqInv, EqTypeOK, OnlyWanted
    <3> QED BY <3>3, <3>4 DEF EqInv
  <2>3. CASE equality.kind # "position"
    <3>1. Update(0)
      BY <1>3, <2>3 DEF SceneReset, EqReset
    <3>2. rewound' \in BOOLEAN /\ time' \in Nat
      BY <1>1, <2>1, Zenon
    <3> QED BY <1>1, <2>1, <3>1, <3>2, UpdateKeeps
  <2> QED BY <2>2, <2>3
<1>4. ASSUME UNCHANGED eqVars, time' = time PROVE EqInv'
  BY <1>4 DEF eqVars, EqInv, EqTypeOK, OnlyWanted, EqualityOnTime
<1>5. ASSUME EqReinit(time), UNCHANGED vars PROVE EqInv'
  <2>1. time' = time /\ Update(time) /\ rewound' = rewound
    BY <1>5 DEF EqReinit, vars
  <2> QED BY <1>1, <2>1, UpdateKeeps
<1>6. ASSUME NEW q \in Quantities, NEW v \in EqValues, Edit(q, v), UNCHANGED vars PROVE EqInv'
  <2>1. /\ equality.kind = "position" => q = "delta"
        /\ wanted' = [wanted EXCEPT ![q] = [set |-> TRUE, value |-> v]]
        /\ edited' = TRUE /\ time' = time
        /\ UNCHANGED <<equality, imposed, rewound>>
    BY <1>6 DEF Edit, vars
  <2>2. [set |-> TRUE, value |-> v] \in Setting /\ [set |-> TRUE, value |-> v].set
    BY EqualitiesAssumption DEF Setting
  <2>3. EqTypeOK'
    BY <2>1, <2>2 DEF EqInv, EqTypeOK
  <2>4. OnlyWanted'
    BY <2>1, <2>2 DEF EqInv, EqTypeOK, OnlyWanted, Quantities
  <2>5. EqualityOnTime'
    BY <2>1 DEF EqInv, EqTypeOK, EqualityOnTime
  <2> QED BY <2>3, <2>4, <2>5 DEF EqInv
<1>7. CASE UNCHANGED sceneVars
  BY <1>4, <1>7 DEF sceneVars, vars, eqVars
<1>8. CASE Reinit /\ UNCHANGED eqVars
  BY <1>4, <1>8 DEF Reinit
<1> QED BY <1>2, <1>3, <1>5, <1>6, <1>7, <1>8 DEF SceneNext

-----------------------------------------------------------------------------
(***************************************************************************)
(* In every scene the equality component imposes the wanted values in      *)
(* time: updateConstraint() is called often enough and copies the right    *)
(* Data, in whatever order the user edits, reinitialises and resets.       *)
(***************************************************************************)
THEOREM EqualitiesAreOnTime == SceneSpec => []EqualityOnTime
<1>1. EqInv => EqualityOnTime
  BY DEF EqInv
<1> QED BY <1>1, EqInductiveInit, EqInductiveNext, PTL DEF SceneSpec

(***************************************************************************)
(* In a scene the actuator behaves as ActuatorLimits describes it alone:   *)
(* no action of the equality component touches its limits.                 *)
(***************************************************************************)
THEOREM SceneImplementsActuator == SceneSpec => Spec
<1>1. SceneInit => Init
  BY DEF SceneInit
<1>2. [SceneNext]_sceneVars => [Next]_vars
  BY DEF SceneNext, SceneStep, SceneReset, Next, sceneVars, vars
<1> QED BY <1>1, <1>2, PTL DEF SceneSpec, Spec

(***************************************************************************)
(* So the limits of the actuator are kept in the scene.                    *)
(***************************************************************************)
THEOREM SceneKeepsLimits == ASSUME AllAccumulateFromZero PROVE SceneSpec => []LimitsKept
BY SceneImplementsActuator, LimitsAreKept, PTL

-----------------------------------------------------------------------------
(* YoungModulusActuator.                                                   *)

(* A common factor is cancelled.                                           *)
LEMMA Cancel ==
  ASSUME NEW d \in Nat \ {0}, NEW x \in Int, NEW y \in Int, x * d <= y * d
  PROVE  x <= y
OBVIOUS

(* The window of a modulus y: both limits are within the absolute ones,    *)
(* and for a modulus in the range within the ratio.                        *)
LEMMA WindowOf ==
  ASSUME NEW y \in Int
  PROVE  /\ YoungUpdateLimit(y) \in [min : Int, max : Int]
         /\ (MinYoung - y) * Den <= YoungUpdateLimit(y).min
         /\ YoungUpdateLimit(y).max <= (MaxYoung - y) * Den
         /\ -y * Num <= YoungUpdateLimit(y).min
         /\ YoungUpdateLimit(y).max <= y * Num
<1> DEFINE n == y * Num
           d == y * Den
           mi == MinYoung * Den
           ma == MaxYoung * Den
<1>1. n \in Int /\ d \in Int /\ mi \in Int /\ ma \in Int
  BY YoungAssumption
<1>2. -y * Num = -n /\ (MinYoung - y) * Den = mi - d /\ (MaxYoung - y) * Den = ma - d
  BY YoungAssumption
<1>3. YoungUpdateLimit(y) = [min |-> IF d - n >= mi THEN -n ELSE mi - d,
                        max |-> IF d + n <= ma THEN n ELSE ma - d]
  BY <1>2 DEF YoungUpdateLimit
<1> HIDE DEF n, d, mi, ma
<1>4. /\ YoungUpdateLimit(y) \in [min : Int, max : Int]
      /\ mi - d <= YoungUpdateLimit(y).min /\ YoungUpdateLimit(y).max <= ma - d
      /\ -n <= YoungUpdateLimit(y).min /\ YoungUpdateLimit(y).max <= n
  BY <1>1, <1>3
<1> QED BY <1>2, <1>4 DEF n

YoungInv == YoungTypeOK /\ YoungInRange

LEMMA YoungInvInit == YoungInit => YoungInv
<1> SUFFICES ASSUME YoungInit PROVE YoungInv
  OBVIOUS
<1>1. Initial \in Int BY YoungAssumption
<1> QED BY <1>1, WindowOf, YoungAssumption DEF YoungInit, YoungInv, YoungTypeOK, YoungInRange

(* An answer in the window of the field's modulus ends in the range.       *)
LEMMA AnswersEndInRange ==
  ASSUME NEW y \in Int, NEW new \in Int,
         YoungUpdateLimit(y).min <= (new - y) * Den, (new - y) * Den <= YoungUpdateLimit(y).max
  PROVE  new \in MinYoung .. MaxYoung
<1> DEFINE x == (new - y) * Den
           mi == (MinYoung - y) * Den
           ma == (MaxYoung - y) * Den
<1>1. x \in Int /\ mi \in Int /\ ma \in Int /\ YoungUpdateLimit(y).min \in Int /\ YoungUpdateLimit(y).max \in Int
  BY WindowOf, YoungAssumption
<1>2. mi <= YoungUpdateLimit(y).min /\ YoungUpdateLimit(y).max <= ma
  BY WindowOf
<1>3. mi <= x /\ x <= ma
  <2> HIDE DEF mi, ma
  <2> QED BY <1>1, <1>2
<1>4. MinYoung - y <= new - y /\ new - y <= MaxYoung - y
  <2>1. MinYoung - y \in Int /\ new - y \in Int /\ MaxYoung - y \in Int
    BY YoungAssumption
  <2> QED BY <1>3, <2>1, Cancel, YoungAssumption
<1> QED BY <1>4, YoungAssumption

LEMMA YoungInvNext == YoungInv /\ [YoungNext]_youngVars => YoungInv'
<1> SUFFICES ASSUME YoungInv, [YoungNext]_youngVars PROVE YoungInv'
  OBVIOUS
<1>1. CASE BuildConstraintMatrix
  BY <1>1 DEF BuildConstraintMatrix, YoungInv, YoungTypeOK, YoungInRange
<1>2. CASE YoungReset
  <2>1. Initial \in Int BY YoungAssumption
  <2> QED BY <1>2, <2>1, WindowOf DEF YoungReset, YoungInv, YoungTypeOK, YoungInRange
<1>3. ASSUME NEW new \in Moduli, YoungStoreResults(new) PROVE YoungInv'
  <2>1. new \in Int /\ field \in Int BY YoungAssumption DEF YoungInv, YoungTypeOK
  <2>2. YoungTypeOK' BY <1>3, <2>1, WindowOf DEF YoungStoreResults, YoungInv, YoungTypeOK
  <2>3. YoungInRange'
    <3> SUFFICES ASSUME ~offWindow' PROVE new \in MinYoung .. MaxYoung
      BY <1>3 DEF YoungStoreResults, YoungInRange
    <3>1. window = YoungUpdateLimit(field) /\ InYoungWindow(new - field)
      BY <1>3 DEF YoungStoreResults
    <3> QED BY <2>1, <3>1, AnswersEndInRange DEF InYoungWindow
  <2> QED BY <2>2, <2>3 DEF YoungInv
<1>4. CASE UNCHANGED youngVars
  BY <1>4 DEF youngVars, YoungInv, YoungTypeOK, YoungInRange
<1> QED BY <1>1, <1>2, <1>3, <1>4 DEF YoungNext

(* Answers in the window of the field's modulus keep it between minYoung   *)
(* and maxYoung, also after resets and answers out of the window           *)
(* (updateLimit, storeResults and reset).                                  *)
THEOREM YoungStaysInRange == YoungSpec => []YoungInRange
<1>1. YoungInv => YoungInRange BY DEF YoungInv
<1> QED BY <1>1, YoungInvInit, YoungInvNext, PTL DEF YoungSpec

(* A step held to its window changes the modulus by the ratio at most.     *)
THEOREM RatioIsKept == YoungSpec => RatioKept
<1> DEFINE Step == (stage = "solve" /\ ~offWindow') =>
                     /\ (field' - field) * Den <= field * Num
                     /\ (field - field') * Den <= field * Num
<1>1. YoungInv /\ [YoungNext]_youngVars => [Step]_youngVars
  <2> SUFFICES ASSUME YoungInv, YoungNext, stage = "solve", ~offWindow'
               PROVE  /\ (field' - field) * Den <= field * Num
                      /\ (field - field') * Den <= field * Num
    OBVIOUS
  <2>1. PICK new \in Moduli : YoungStoreResults(new)
    BY DEF YoungNext, BuildConstraintMatrix, YoungReset
  <2>2. /\ new \in Int /\ field \in Int /\ field' = new
        /\ window = YoungUpdateLimit(field) /\ InYoungWindow(new - field)
    BY <2>1, YoungAssumption DEF YoungStoreResults, YoungInv, YoungTypeOK
  <2>3. /\ -field * Num <= YoungUpdateLimit(field).min /\ YoungUpdateLimit(field).max <= field * Num
        /\ YoungUpdateLimit(field).min \in Int /\ YoungUpdateLimit(field).max \in Int
    BY <2>2, WindowOf
  <2> DEFINE n == field * Num
             x == (new - field) * Den
  <2>4. n \in Int /\ x \in Int /\ -field * Num = -n /\ (field - new) * Den = -x
    BY <2>2, YoungAssumption
  <2>5. -n <= YoungUpdateLimit(field).min /\ YoungUpdateLimit(field).max <= n
        /\ YoungUpdateLimit(field).min <= x /\ x <= YoungUpdateLimit(field).max
    BY <2>2, <2>3, <2>4 DEF InYoungWindow
  <2> HIDE DEF n, x
  <2>6. x <= n /\ -x <= n
    BY <2>3, <2>4, <2>5
  <2> QED BY <2>2, <2>4, <2>6 DEF n, x
<1> QED BY <1>1, YoungInvInit, YoungInvNext, PTL DEF YoungSpec, RatioKept
=============================================================================

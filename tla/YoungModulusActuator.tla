------------------------ MODULE YoungModulusActuator ------------------------
(***************************************************************************)
(* component/constraint/YoungModulusActuator.inl: the stiffness of a body  *)
(* as an actuator.                                                         *)
(*                                                                         *)
(* The QP's lambda is added to the Young modulus of the body's force field *)
(* (storeResults).  The limits on lambda keep the modulus in               *)
(* [minYoung, maxYoung] and its change below a ratio of its value.  They   *)
(* are computed from the actuator's copy of the modulus, m_youngModulus.   *)
(* Real numbers are integers, the ratio is Num/Den, and limits on lambda   *)
(* are multiplied by Den.                                                  *)
(***************************************************************************)
EXTENDS Integers

CONSTANTS
  MinYoung, MaxYoung, \* d_minYoung, d_maxYoung
  Num, Den,           \* d_maxYoungVariationRatio = Num / Den
  Initial,            \* the modulus of the force field at bwdInit()
  Moduli              \* bound: the moduli considered

ASSUME YoungAssumption ==
  /\ MinYoung \in Nat /\ MaxYoung \in Nat /\ Num \in Nat /\ Den \in Nat \ {0}
  /\ Initial \in MinYoung .. MaxYoung
  /\ Moduli \subseteq Int

VARIABLES
  field,     \* the Young modulus of the force field
  young,     \* m_youngModulus
  window,    \* m_lambdaMin[0], m_lambdaMax[0], times Den
  stage,     \* "set" between the steps, "solve" when the constraint is built
  offWindow  \* history: the last answer was not in the window of the field's modulus

youngVars == <<field, young, window, stage, offWindow>>

(* The ratio only, and the absolute limits where the ratio should count.   *)
LimitsByRatio(y) == [min |-> -y * Num, max |-> y * Num]
LimitsSwapped(y) ==
  [min |-> IF y * Den - y * Num >= MinYoung * Den THEN (MinYoung - y) * Den ELSE -y * Num,
   max |-> IF y * Den + y * Num <= MaxYoung * Den THEN (MaxYoung - y) * Den ELSE y * Num]

(* updateLimit(): the ratio counts if it stays within the absolute limits. *)
YoungUpdateLimit(y) ==
  [min |-> IF y * Den - y * Num >= MinYoung * Den THEN -y * Num ELSE (MinYoung - y) * Den,
   max |-> IF y * Den + y * Num <= MaxYoung * Den THEN y * Num ELSE (MaxYoung - y) * Den]

(* bwdInit() with a force field.                                           *)
YoungInit ==
  /\ field = Initial /\ young = Initial
  /\ window = YoungUpdateLimit(Initial)
  /\ stage = "set" /\ offWindow = FALSE

(* buildConstraintMatrix(): the copy is refreshed, the limits are not.     *)
BuildConstraintMatrix ==
  /\ stage = "set" /\ stage' = "solve"
  /\ young' = field
  /\ UNCHANGED <<field, window, offWindow>>

InYoungWindow(lambda) == window.min <= lambda * Den /\ lambda * Den <= window.max

(* storeResults() of an answer that takes the modulus to new.              *)
YoungStoreResults(new) ==
  /\ stage = "solve" /\ stage' = "set"
  /\ field' = new /\ young' = new
  /\ window' = YoungUpdateLimit(new)
  /\ offWindow' = (window # YoungUpdateLimit(field) \/ ~InYoungWindow(new - field))

(* reset() of the simulation, between two steps: the copy goes back to the *)
(* initial modulus, the force field's does not.                            *)
YoungReset ==
  /\ stage = "set"
  /\ young' = Initial /\ window' = YoungUpdateLimit(Initial)
  /\ UNCHANGED <<field, stage, offWindow>>

YoungNext == BuildConstraintMatrix \/ YoungReset \/ \E new \in Moduli : YoungStoreResults(new)

YoungSpec == YoungInit /\ [][YoungNext]_youngVars

-----------------------------------------------------------------------------
(* The types of the variables.                                             *)
YoungTypeOK ==
  /\ field \in Int /\ young \in Int /\ window \in [min : Int, max : Int]
  /\ stage \in {"set", "solve"} /\ offWindow \in BOOLEAN

(***************************************************************************)
(* After an answer in the window of the force field's modulus, that        *)
(* modulus is in [minYoung, maxYoung], wherever earlier answers had left   *)
(* it; resets in between do not change it.                                 *)
(***************************************************************************)
YoungInRange == ~offWindow => field \in MinYoung .. MaxYoung

(***************************************************************************)
(* An answer in the window of the force field's modulus changes it by no   *)
(* more than the ratio, wherever it was, although the absolute limits      *)
(* replace the ratio where it leads beyond them.                           *)
(***************************************************************************)
RatioKept ==
  [][(stage = "solve" /\ ~offWindow') =>
       /\ (field' - field) * Den <= field * Num
       /\ (field - field') * Den <= field * Num]_youngVars
=============================================================================

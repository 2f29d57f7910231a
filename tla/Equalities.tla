----------------------------- MODULE Equalities -----------------------------
(***************************************************************************)
(* The equality components of component/constraint/: what CableEquality,   *)
(* SurfacePressureEquality and PositionEquality impose on the QP.          *)
(*                                                                         *)
(* The user sets the value of a displacement, volume growth or position    *)
(* (delta) and of a force or pressure (lambda).  updateConstraint() copies *)
(* what is set to m_deltaEqual and m_lambdaEqual, which the assembly of    *)
(* the QP reads; it is called by init(), reinit(), reset() and at the end  *)
(* of a step, so a change of the user reaches the QP after the next one.   *)
(* Cables and positions join in from constrainAtTime on.  The time is that *)
(* of the scene.                                                           *)
(***************************************************************************)
EXTENDS Integers

CONSTANTS
  Equalities, \* the configurations considered, [kind, from]
  EqValues    \* bound: the values the user may set

ASSUME EqualitiesAssumption ==
  /\ EqValues \subseteq Int
  /\ \A e \in Equalities :
       /\ e.kind \in {"cable", "pressure", "position"}
       /\ e.from \in Nat /\ (e.kind = "pressure" => e.from = 0)

VARIABLES
  equality, \* the component
  wanted,   \* the user's Data: delta and lambda, each [set, value]
  imposed,  \* m_hasDeltaEqual with m_deltaEqual[0], and the same for lambda
  edited,   \* history: wanted changed after the last effective update
  rewound   \* history: the simulation was reset

eqVars == <<equality, wanted, imposed, edited, rewound>>

Quantities == {"delta", "lambda"}
Unset == [set |-> FALSE, value |-> 0]

(* A Data that is set is imposed; nothing lowers a flag again.             *)
CopySet(w, i) == [q \in Quantities |-> IF w[q].set THEN w[q] ELSE i[q]]

(* CableEquality::updateConstraint (CableUpdateAtOnce: constrainAtTime     *)
(* forgotten), that of SurfacePressureEquality, and that of                *)
(* PositionEquality, which imposes eqDelta whether it is set or not.       *)
CableUpdateAtOnce(e, w, t, i) == CopySet(w, i)
CableUpdateConstraint(e, w, t, i) == IF t < e.from THEN i ELSE CopySet(w, i)
PressureUpdateConstraint(w, i) == CopySet(w, i)
PositionUpdateConstraint(e, w, t, i) ==
  IF t < e.from THEN i ELSE [i EXCEPT !["delta"] = [w["delta"] EXCEPT !.set = TRUE]]

UpdateConstraint(e, w, t, i) ==
  CASE e.kind = "cable"    -> CableUpdateConstraint(e, w, t, i)
    [] e.kind = "pressure" -> PressureUpdateConstraint(w, i)
    [] e.kind = "position" -> PositionUpdateConstraint(e, w, t, i)

(* updateConstraint() at time t, as every caller leaves the component.     *)
Update(t) ==
  /\ imposed' = UpdateConstraint(equality, wanted, t, imposed)
  /\ edited' = (edited /\ t < equality.from)
  /\ UNCHANGED <<equality, wanted>>

-----------------------------------------------------------------------------
(* The user's Data of a scene: set or left at zero, no force for positions.*)
Settings(e) ==
  {w \in [Quantities -> {Unset} \cup [set : {TRUE}, value : EqValues]] :
     e.kind = "position" => w["lambda"] = Unset}

(* The constructor and init() at time zero.                                *)
EqInit ==
  /\ equality \in Equalities
  /\ wanted \in Settings(equality)
  /\ imposed = UpdateConstraint(equality, wanted, 0, [q \in Quantities |-> Unset])
  /\ edited = (equality.from > 0) /\ rewound = FALSE

(* The user, or a controller of the scene, sets a Data.                    *)
Edit(q, v) ==
  /\ equality.kind = "position" => q = "delta"
  /\ wanted[q] # [set |-> TRUE, value |-> v]
  /\ wanted' = [wanted EXCEPT ![q] = [set |-> TRUE, value |-> v]]
  /\ edited' = TRUE
  /\ UNCHANGED <<equality, imposed, rewound>>

(* reinit(): a position has none of its own.                               *)
EqReinit(t) ==
  /\ equality.kind # "position"
  /\ Update(t) /\ UNCHANGED rewound

(* The end of a step that began at t: storeLambda(), of a position         *)
(* storeResults().                                                         *)
EqStore(t) == Update(t) /\ UNCHANGED rewound

(* A reset of the simulation: a position has none of its own.              *)
EqReset ==
  /\ rewound' = TRUE
  /\ IF equality.kind = "position"
     THEN UNCHANGED <<equality, wanted, imposed, edited>>
     ELSE Update(0)
=============================================================================

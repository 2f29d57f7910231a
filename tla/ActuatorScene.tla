--------------------------- MODULE ActuatorScene ----------------------------
(***************************************************************************)
(* A scene with an actuator and an equality component: both follow the     *)
(* scene's time, both are updated at the end of every step, and both are   *)
(* reset together, but the user edits and reinitialises them one by one.   *)
(***************************************************************************)
EXTENDS ActuatorLimits, Equalities

sceneVars == <<vars, eqVars>>

SceneInit == Init /\ EqInit

(* One step: the actuator's storeResults() and the equality's update read  *)
(* the same time.                                                          *)
SceneStep(new) == StoreResults(new) /\ EqStore(time)

SceneReset == Reset /\ EqReset

SceneNext ==
  \/ \E new \in Values : SceneStep(new)
  \/ SceneReset
  \/ Reinit /\ UNCHANGED eqVars
  \/ EqReinit(time) /\ UNCHANGED vars
  \/ \E q \in Quantities, v \in EqValues : Edit(q, v) /\ UNCHANGED vars

SceneSpec == SceneInit /\ [][SceneNext]_sceneVars

-----------------------------------------------------------------------------
(***************************************************************************)
(* The QP never runs with an outdated equality, over edits, reinits,       *)
(* resets and steps in any order: an imposed value is the one the user     *)
(* wants unless the user changed it after the last update; what is wanted  *)
(* is imposed in every QP after a step at or after constrainAtTime; and in *)
(* the first run of the simulation nothing is imposed before that time.    *)
(* (After a reset the flags stay up, so a rewound scene is excepted.)      *)
(***************************************************************************)
EqualityOnTime ==
  \A q \in Quantities :
    /\ (imposed[q].set /\ ~edited) => imposed[q].value = wanted[q].value
    /\ (time >= equality.from + Dt /\ wanted[q].set /\ ~edited) => imposed[q].set
    /\ (~rewound /\ time < equality.from) => ~imposed[q].set
=============================================================================

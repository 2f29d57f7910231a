------------------------ MODULE MCQPConstraintLists -------------------------
(***************************************************************************)
(* Scenes for QPConstraintLists: three robots, with contacts that come and *)
(* go, before or after the robot's components in the order of the visitor. *)
(***************************************************************************)
EXTENDS QPConstraintLists

C(name, kind, lines, apply) == [name |-> name, kind |-> kind, lines |-> lines, apply |-> apply]

(* An actuator with two rows and one that applies no force.                *)
Finger == <<C("a", "actuator", 2, TRUE), C("e", "effector", 2, TRUE), C("b", "actuator", 1, FALSE)>>

(* Equality components among the actuators; an invalid effector.           *)
Gripper == <<C("s", "sensor", 1, TRUE), C("a", "actuator", 1, FALSE), C("q", "equality", 2, TRUE),
             C("e", "effector", 0, TRUE), C("b", "actuator", 2, TRUE), C("p", "equality", 1, TRUE)>>

(* An invalid actuator, last.                                              *)
Trunk == <<C("e", "effector", 1, TRUE), C("a", "actuator", 3, TRUE), C("b", "actuator", 0, TRUE)>>

Touching == {<<>>, <<C("c", "contact", 1, TRUE)>>,
             <<C("c", "contact", 2, TRUE), C("d", "contact", 1, TRUE)>>}

ScenesOf(robot, comps) ==
  {[robot |-> robot, only |-> o, comps |-> t \o comps \o u] :
     o \in BOOLEAN, t \in {<<>>, <<C("g", "contact", 1, TRUE)>>}, u \in Touching}

Robots == ScenesOf(1, Finger) \cup ScenesOf(2, Gripper) \cup ScenesOf(3, Trunk)
=============================================================================

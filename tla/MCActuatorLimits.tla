-------------------------- MODULE MCActuatorLimits --------------------------
(***************************************************************************)
(* Instances of ActuatorScene: every combination of limits for every kind  *)
(* of actuator, next to every kind of equality component.                  *)
(***************************************************************************)
EXTENDS ActuatorScene

Range4 == -4 .. 4

Config(kind, initial, from, accumulate) ==
  {[kind |-> kind, setMax |-> sm, setLow |-> sl, setVar |-> sv, max |-> 3,
    low |-> IF kind \in {"cable", "sliding"} THEN 2 ELSE -2, var |-> var,
    accumulate |-> accumulate, from |-> from, initial |-> initial] :
      sm \in BOOLEAN, sl \in BOOLEAN, sv \in BOOLEAN, var \in {1, 4}}

AllKinds ==
  Config("cable", 0, 0, FALSE) \cup Config("cable", 0, 4, FALSE)
    \cup Config("sliding", 1, 0, FALSE) \cup Config("sliding", 0, 0, TRUE)
    \cup Config("joint", -2, 0, FALSE) \cup Config("pressure", 0, 0, FALSE)
    \cup Config("point", 3, 0, FALSE) \cup Config("surface", 0, 0, FALSE)

(* A constrainAtTime that is no multiple of Dt, and one that is.           *)
SomeEqualities ==
  {[kind |-> "cable", from |-> 3], [kind |-> "pressure", from |-> 0],
   [kind |-> "position", from |-> 4]}
=============================================================================

----------------------------- MODULE Correction -----------------------------
(***************************************************************************)
(* What one resolution of QPInverseProblemSolver promises about the        *)
(* constraint corrections (the deformable bodies): the compliance matrix   *)
(* holds the compliance of every active one exactly once, and the motion   *)
(* is corrected for those that are active and awake.                       *)
(***************************************************************************)
EXTENDS Integers

CONSTANT Corrections \* the constraint corrections of the scene

VARIABLES
  stage,     \* "idle" or "built"
  listed,    \* the corrections the solver knows
  asleep,    \* those in a sleeping node
  inactive,  \* those with isActive() false
  comp,      \* how often each one's compliance is in the matrix
  moved      \* those corrected by the last resolution

Zero == [c \in Corrections |-> 0]

Init == /\ stage = "idle" /\ comp = Zero /\ moved = {}
        /\ listed \subseteq Corrections
        /\ asleep \subseteq Corrections /\ inactive \subseteq Corrections

(* Between two resolutions the scene may change.                           *)
ChangeScene ==
  /\ stage = "idle"
  /\ listed' \subseteq Corrections
  /\ asleep' \subseteq Corrections /\ inactive' \subseteq Corrections
  /\ UNCHANGED <<stage, comp, moved>>

Build ==
  /\ stage = "idle" /\ stage' = "built"
  /\ comp' = [c \in Corrections |-> IF c \in listed \ inactive THEN 1 ELSE 0]
  /\ UNCHANGED <<listed, asleep, inactive, moved>>

Apply ==
  /\ stage = "built" /\ stage' = "idle"
  /\ comp' = Zero
  /\ moved' = listed \ (inactive \cup asleep)
  /\ UNCHANGED <<listed, asleep, inactive>>

Next == ChangeScene \/ Build \/ Apply

Spec == Init /\ [][Next]_<<stage, listed, asleep, inactive, comp, moved>>
=============================================================================

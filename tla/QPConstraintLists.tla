-------------------------- MODULE QPConstraintLists --------------------------
(***************************************************************************)
(* Rows, variables and results: which numbers of a step belong to which    *)
(* component.                                                              *)
(*                                                                         *)
(* QPMechanicalSetConstraint numbers the rows of the constraints in the    *)
(* order of the scene and sorts them into five lists.  The QP has a        *)
(* variable for each row of an actuator, of an equality component and of a *)
(* contact, in this order.  Four functions walk through the lists on the   *)
(* assumption that lists, row ids and numbers of lines agree: init and     *)
(* buildQPMatrices (QPInverseProblemImpl.cpp), storeResults and            *)
(* sendResults (QPInverseProblem.cpp).                                     *)
(*                                                                         *)
(* A force is modelled by what it was computed for: the name of a          *)
(* component and one of its lines.  The states of the contacts and the     *)
(* pivots are in QPInverseProblemImpl.                                     *)
(***************************************************************************)
EXTENDS Integers, Sequences

CONSTANT Scenes \* the scenes that a step may find

Lists == {"actuator", "equality", "effector", "sensor", "contact"}

(* A scene: its components in the order of the visitor, actuatorsOnly, and *)
(* the robot it belongs to, whose contacts may change from step to step.   *)
(* lines: the rows that buildConstraintMatrix writes, which getNbLines     *)
(* returns; none if the component is invalid.  apply: applyForce.          *)
IsComponent(c) == c.kind \in Lists /\ c.lines \in Nat /\ c.apply \in BOOLEAN
IsScene(s) ==
  /\ s.only \in BOOLEAN /\ s.comps \in Seq({s.comps[i] : i \in DOMAIN s.comps})
  /\ \A i, j \in DOMAIN s.comps :
       IsComponent(s.comps[i]) /\ (s.comps[i].name = s.comps[j].name => i = j)

ASSUME ScenesAssumption == \A s \in Scenes : IsScene(s)

VARIABLES
  pc,      \* where the step is
  sc,      \* the scene of the step
  next,    \* the component the visitor comes to
  jac,     \* the rows of the Jacobian: the component of each and its line there
  list,    \* m_qpCLists: actuators, equality, effectors, sensors, contacts
  rowIds,  \* m_qpCLists: the row ids of each list (counted from 0)
  started, \* m_step > 0
  x,       \* m_qpSystem->lambda: what each variable is the force of
  k, id, line, \* counters of the loop under way
  energy,  \* per variable: the component whose epsilon weighs its energy
  f,       \* getF(): the force applied to each row
  nDelta,  \* the size of m_qpSystem->delta
  got      \* what each component was given by sendResults

vars == <<pc, sc, next, jac, list, rowIds, started, x, k, id, line, energy, f, nDelta, got>>
lists == <<sc, next, jac, list, rowIds>>
loop == <<k, id, line>>

Zero == <<"none", 0>>
NbRows(l) == Len(rowIds[l])
Dim == NbRows("actuator") + NbRows("equality") + NbRows("contact")
ForceOn(row) == <<jac[row + 1].of.name, jac[row + 1].line>>

(* The contacts before the actuators.                                      *)
BeforeContactsFirst(l) ==
  IF l = "contact" THEN 0
  ELSE IF l = "actuator" THEN NbRows("contact")
  ELSE NbRows("contact") + NbRows("actuator")

(* The variables before those of a list: "actuators first", "equality      *)
(* second", "contacts last".                                               *)
Before(l) ==
  IF l = "actuator" THEN 0
  ELSE IF l = "equality" THEN NbRows("actuator")
  ELSE NbRows("actuator") + NbRows("equality")

(* acIds: the row of variable v (counted from 1).                          *)
AcIds(v) ==
  LET na == NbRows("actuator") ne == NbRows("equality") IN
  IF v <= na THEN rowIds["actuator"][v]
  ELSE IF v <= na + ne THEN rowIds["equality"][v - na]
  ELSE rowIds["contact"][v - na - ne]

Init ==
  /\ pc = "idle" /\ sc \in Scenes /\ next = 1
  /\ jac = <<>> /\ list = [l \in Lists |-> <<>>] /\ rowIds = [l \in Lists |-> <<>>]
  /\ started = FALSE /\ x = <<>> /\ energy = <<>> /\ f = <<>> /\ nDelta = 0 /\ got = <<>>
  /\ k = 1 /\ id = 1 /\ line = 0

-----------------------------------------------------------------------------
(* clearProblem() in accumulateConstraint: lists and matrices are emptied. *)
ClearProblem ==
  /\ pc = "idle" /\ pc' = "visit"
  /\ sc' \in {s \in Scenes : s.robot = sc.robot}
  /\ next' = 1 /\ jac' = <<>>
  /\ list' = [l \in Lists |-> <<>>] /\ rowIds' = [l \in Lists |-> <<>>]
  /\ energy' = <<>> /\ got' = <<>>
  /\ UNCHANGED <<started, x, loop, f, nDelta>>

(* fwdConstraintSet: the next component writes its rows and is sorted.     *)
FwdConstraintSet ==
  /\ pc = "visit" /\ next <= Len(sc.comps)
  /\ LET c == sc.comps[next]
         index == Len(jac)
     IN  /\ jac' = jac \o [j \in 1 .. c.lines |-> [of |-> c, line |-> j]]
         /\ rowIds' = [rowIds EXCEPT ![c.kind] = @ \o [j \in 1 .. c.lines |-> index + j - 1]]
         /\ list' = [list EXCEPT ![c.kind] = Append(@, c)]
  /\ next' = next + 1
  /\ UNCHANGED <<pc, sc, started, x, loop, energy, f, nDelta, got>>

(* setConstraintProblemSize clears the forces; solve() then branches on    *)
(* the numbers of rows.                                                    *)
Solve ==
  /\ pc = "visit" /\ next > Len(sc.comps)
  /\ f' = [r \in 1 .. Len(jac) |-> Zero]
  /\ k' = 1 /\ id' = 1 /\ line' = 0
  /\ IF NbRows("contact") > 0
     THEN IF started THEN pc' = "contacts" /\ UNCHANGED x
          ELSE pc' = "init" /\ x' = [v \in 1 .. Dim |-> Zero]
     ELSE /\ pc' = IF Dim > 0 THEN "energy" ELSE "store"
          /\ UNCHANGED x
  /\ UNCHANGED <<lists, started, energy, nDelta, got>>

(* The counter compared before it goes up.                                 *)
AdvanceLate(c) ==
  IF line = c.lines
  THEN id' = id + 1 /\ line' = 0
  ELSE line' = line + 1 /\ UNCHANGED id

(* The walk along the variables of a list: the counter of lines goes up,   *)
(* and when it equals getNbLines() the next component is next.             *)
Advance(c) ==
  IF line + 1 = c.lines
  THEN id' = id + 1 /\ line' = 0
  ELSE line' = line + 1 /\ UNCHANGED id

(* init(): variable k takes the initial force of line line of the          *)
(* actuator that the walk has reached.                                     *)
InitLambda ==
  /\ pc = "init"
  /\ IF k <= NbRows("actuator")
     THEN LET c == list["actuator"][id] IN
          /\ x' = [x EXCEPT ![k] = <<c.name, line + 1>>]
          /\ Advance(c) /\ k' = k + 1
          /\ UNCHANGED <<pc, started>>
     ELSE /\ pc' = "contacts" /\ started' = TRUE
          /\ k' = 1 /\ id' = 1 /\ line' = 0
          /\ UNCHANGED x
  /\ UNCHANGED <<lists, energy, f, nDelta, got>>

(* solveContacts(): the LCP's forces of the contacts, and the forces that  *)
(* the actuators had.                                                      *)
SolveContacts ==
  /\ pc = "contacts"
  /\ LET na == NbRows("actuator") IN
     /\ x' = [v \in 1 .. Dim |->
                IF v <= na THEN IF Len(x) >= na THEN x[v] ELSE Zero
                ELSE IF v <= na + NbRows("contact") THEN ForceOn(rowIds["contact"][v - na])
                ELSE Zero]
     /\ pc' = IF na > 0 THEN "energy" ELSE "store"
  /\ UNCHANGED <<lists, started, loop, energy, f, nDelta, got>>

(* buildQPMatrices(): the energy of variable k is weighed with the epsilon *)
(* of the component that the walk has reached.                             *)
BuildQPMatrices ==
  /\ pc = "energy"
  /\ LET na == NbRows("actuator")
         ne == NbRows("equality")
         dim == IF sc.only THEN na ELSE Dim
     IN  \/ /\ k <= dim /\ k <= na
            /\ energy' = Append(energy, list["actuator"][id].name)
            /\ IF k = na THEN id' = 1 /\ line' = 0 ELSE Advance(list["actuator"][id])
            /\ k' = k + 1 /\ UNCHANGED pc
         \/ /\ k <= dim /\ na < k /\ k <= na + ne
            /\ energy' = Append(energy, list["equality"][id].name)
            /\ Advance(list["equality"][id])
            /\ k' = k + 1 /\ UNCHANGED pc
         \/ /\ k <= dim /\ k > na + ne
            /\ energy' = Append(energy, "none")
            /\ k' = k + 1 /\ UNCHANGED <<pc, id, line>>
         \/ /\ k > dim /\ pc' = "qp"
            /\ UNCHANGED <<loop, energy>>
  /\ UNCHANGED <<lists, started, x, f, nDelta, got>>

(* The QPs of the pivot loop, or the one QP without contacts: variable v   *)
(* is the force on row acIds[v], by which Q, c and A were built.           *)
SolveInverseProblem ==
  /\ pc = "qp" /\ pc' = "store"
  /\ x' = [v \in 1 .. Dim |-> ForceOn(AcIds(v))]
  /\ UNCHANGED <<lists, started, loop, energy, f, nDelta, got>>

(* storeResults(): each variable goes to its row, effectors and sensors    *)
(* get no force, and delta is computed for as many rows as the lists have. *)
StoreResults ==
  /\ pc = "store" /\ pc' = "actuator"
  /\ LET Variables(r) ==
           UNION {{Before(l) + i : i \in {i \in DOMAIN rowIds[l] : rowIds[l][i] = r - 1}} :
                    l \in {"actuator", "equality", "contact"}}
     IN  f' = [r \in DOMAIN f |->
                 IF Variables(r) = {} THEN Zero ELSE x[CHOOSE v \in Variables(r) : TRUE]]
  /\ nDelta' = Dim + NbRows("effector") + NbRows("sensor")
  /\ k' = 1 /\ id' = 1 /\ line' = 0
  /\ UNCHANGED <<lists, started, x, energy, got>>

-----------------------------------------------------------------------------
(* sendResults(): one component after the other, list after list.          *)

Following(l) ==
  CASE l = "actuator" -> "equality" [] l = "equality" -> "effector"
    [] l = "effector" -> "sensor"   [] l = "sensor" -> "idle"

(* The row of delta at index row, if delta reaches that far.               *)
Delta(row) == IF row < nDelta THEN ForceOn(row) ELSE <<"outside", 0>>

(* The next list begins at its first row.                                  *)
NextList(l) ==
  /\ id > Len(list[l])
  /\ pc' = Following(l) /\ id' = 1 /\ line' = 0
  /\ UNCHANGED <<f, got>>

(* line++ for every line of the component (LineAfterOne: once).            *)
LineAfterOne(n) == line + 1
LineAfter(n) == line + n

(* storeResults of the component; an actuator with applyForce false sets   *)
(* its forces to zero, and they are written back.                          *)
Send(l) ==
  /\ id <= Len(list[l])
  /\ LET c == list[l][id]
         n == c.lines
         Row(j) == rowIds[l][line + j]
         mine == {Row(j) + 1 : j \in 1 .. n}
     IN  /\ got' = Append(got, [comp |-> c,
                     delta |-> [j \in 1 .. n |-> Delta(Row(j))],
                     force |-> IF l \in {"actuator", "equality"}
                               THEN [j \in 1 .. n |-> f[Row(j) + 1]] ELSE <<>>])
         /\ f' = IF l = "actuator" /\ ~c.apply
                 THEN [r \in DOMAIN f |-> IF r \in mine THEN Zero ELSE f[r]] ELSE f
         /\ line' = LineAfter(n) /\ id' = id + 1 /\ UNCHANGED pc

SendResults ==
  /\ pc \in Lists \ {"contact"}
  /\ NextList(pc) \/ Send(pc)
  /\ UNCHANGED <<lists, started, x, k, energy, nDelta>>

Next == ClearProblem \/ FwdConstraintSet \/ Solve \/ InitLambda \/ SolveContacts
          \/ BuildQPMatrices \/ SolveInverseProblem \/ StoreResults \/ SendResults

Spec == Init /\ [][Next]_vars

-----------------------------------------------------------------------------
(***************************************************************************)
(* Each component is given the results of the rows it wrote, all of them   *)
(* and in its order, whatever precedes it in the scene.                    *)
(***************************************************************************)
OwnResults ==
  \A g \in DOMAIN got :
    LET c == got[g].comp
        own == [j \in 1 .. c.lines |-> <<c.name, j>>]
    IN  /\ got[g].delta = own
        /\ c.kind \in {"actuator", "equality"} => got[g].force = own

(* The step is over: the forces that the corrections will apply are in f.  *)
Over == pc = "idle" /\ jac # <<>>

(***************************************************************************)
(* At the end of a step the force on a row is the one the QP or the LCP    *)
(* computed for that row ("actuators first", "equality second", "contacts  *)
(* last"), except that effectors, sensors and actuators with applyForce    *)
(* false have none.                                                        *)
(***************************************************************************)
ForcesReachTheirRows ==
  Over => \A r \in DOMAIN f :
    LET c == jac[r].of IN
    f[r] = IF c.kind \in {"effector", "sensor"} \/ (c.kind = "actuator" /\ ~c.apply)
           THEN Zero ELSE ForceOn(r - 1)

EnergyOfOwner ==
  \A v \in DOMAIN energy :
    LET c == jac[AcIds(v) + 1].of IN
    energy[v] = IF c.kind = "contact" THEN "none" ELSE c.name
ContactsFeelTheActuators ==
  pc = "contacts" => /\ Len(x) >= NbRows("actuator")
                     /\ \A v \in 1 .. NbRows("actuator") : x[v] = ForceOn(AcIds(v))

(***************************************************************************)
(* The walks along the variables reach the component whose variable it is: *)
(* the energy of a variable is weighed with the epsilon of the component   *)
(* whose force it is, and the LCP of the contacts starts from forces of    *)
(* the same actuators, those of their last QP or their initial ones,       *)
(* although contacts come and go between.                                  *)
(***************************************************************************)
WalksReachTheOwners == EnergyOfOwner /\ ContactsFeelTheActuators
=============================================================================

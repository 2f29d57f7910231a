------------------------- MODULE ConstraintHandler -------------------------
(***************************************************************************)
(* The assembly of the QP's constraints, solver/modules/                   *)
(* ConstraintHandler.cpp:                                                  *)
(*                                                                         *)
(*     bl <= A x <= bu,   Aeq x = beq,   l <= x <= u                       *)
(*                                                                         *)
(* A step of the simulation hands over its constraint lists as a record sc *)
(*   act    the actuators, each with its first variable, its number of     *)
(*          lines and the limits that are set on it                        *)
(*   eq     the equality components, likewise                              *)
(*   na ne nc   the numbers of actuator, equality and contact rows         *)
(*   comps  whether the list of contact components is non-empty            *)
(*   mu     whether the friction coefficient is positive                   *)
(*   slide  allowSliding                                                   *)
(*   minF maxF  whether a bound on the sum of contact forces is set        *)
(* The variables of the QP are 0 .. Dim(sc)-1: actuators first, equality   *)
(* second, contacts last.                                                  *)
(*                                                                         *)
(* A row of A or Aeq keeps what the algorithm looks at: the variable it is *)
(* filed under in constraintsId, its purpose, its line within the          *)
(* component, and whether an entry of bl was pushed for it.                *)
(***************************************************************************)
EXTENDS ContactHandler, FiniteSets

Actuator == [first : Nat, lines : Nat, dMax : BOOLEAN, dMin : BOOLEAN,
             lMax : BOOLEAN, lMin : BOOLEAN, dEq : BOOLEAN, lEq : BOOLEAN]
Equality == [first : Nat, lines : Nat, dEq : BOOLEAN, lEq : BOOLEAN]

Kinds == {"forceSum", "actuator", "gap", "cone", "slip",
          "lambdaEq", "deltaEq", "closed", "stuck", "coneEq"}
Row == [id : Nat, kind : Kinds, line : Nat, lo : BOOLEAN]

(* contactNbLines, nbContactPoints and dim, as set by solve().             *)
ContactNbLines(sc) == IF sc.mu THEN 3 ELSE 1
NbContactPoints(sc) == sc.nc \div ContactNbLines(sc)
Dim(sc) == sc.na + sc.ne + sc.nc

(* contactStates is a function on 0 .. n-1; "oob" stands for what a read   *)
(* past its end gives: none of the handlers.                               *)
StateOf(states, p) == IF p \in DOMAIN states THEN states[p] ELSE "oob"
NoStates == [p \in {} |-> "inactive"]

(* The positions i at which the walk over the contacts stops.              *)
ContactWalk(sc, start) ==
  {i \in {start + ContactNbLines(sc) * k : k \in 0 .. sc.nc} : i < Dim(sc)}

(* The handler consulted at position i: the frictionless branches subtract *)
(* the actuator rows only.                                                 *)
HandlerAt(sc, states, i) ==
  IF sc.mu THEN StateOf(states, (i - sc.na - sc.ne) \div 3)
           ELSE StateOf(states, i - sc.na)

(* initContactHandlerList and initContactHandlers(result): every contact   *)
(* point gets the state that the LCP's forces suggest, among the allowed   *)
(* ones; sliding only where it is enabled.                                 *)
InitialStates(sc) ==
  [0 .. NbContactPoints(sc) - 1 -> AllowedStates(sc.mu, sc.slide)]

(* checkCListsConsistency: both assemblies return at once when there are   *)
(* contacts and their number is not that of the handlers.                  *)
CListsConsistent(sc, states) ==
  sc.nc > 0 => Cardinality(DOMAIN states) = NbContactPoints(sc)

-----------------------------------------------------------------------------
(* hasBothSideInequalityConstraint is only ever raised.                    *)
FlagFromActuators(sc, flag) ==
  flag \/ \E a \in sc.act : (a.dMax /\ a.dMin) \/ (a.lMax /\ a.lMin)
BothSides(sc, flag) == FlagFromActuators(sc, flag) \/ (sc.minF /\ sc.maxF)

(* addContactLimits: one row bounding the sum of the normal forces, as     *)
(* soon as two contacts are closed.  It runs before the flag is raised for *)
(* a two-sided bound of its own.                                           *)
AddContactLimits(sc, states, flag) ==
  LET closed == {p \in 0 .. NbContactPoints(sc) - 1 : StateOf(states, p) # "inactive"} IN
  IF (sc.minF \/ sc.maxF) /\ Cardinality(closed) >= 2
  THEN {[id |-> 0, kind |-> "forceSum", line |-> 0,
         lo |-> (sc.minF /\ sc.maxF) \/ FlagFromActuators(sc, flag)]}
  ELSE {}

(* The rows of one actuator: delta limits, one row per line.               *)
ActuatorRows(a, both) ==
  IF a.dMax \/ a.dMin
  THEN {[id |-> a.first, kind |-> "actuator", line |-> k,
         lo |-> (a.dMax /\ a.dMin) \/ both] : k \in 0 .. a.lines - 1}
  ELSE {}

(* The inequality rows of the contact at position i in state s.            *)
ContactInequalityRows(sc, s, i, both) ==
  CASE s = "inactive"             -> {[id |-> i, kind |-> "gap", line |-> 0, lo |-> both]}
    [] s = "stick" /\ sc.slide    -> {[id |-> i + 1, kind |-> "cone", line |-> k, lo |-> both] : k \in 0 .. 3}
    [] s = "sliding"              -> {[id |-> i + k, kind |-> "slip", line |-> k, lo |-> both] : k \in 1 .. 2}
    [] OTHER                      -> {}

(* Where the walk of buildInequalityConstraintMatrices reaches the         *)
(* contacts.  Its equality branch re-declares equalityId in the loop, so   *)
(* it always advances by the lines of the first equality component.        *)
InequalityContactStart(sc) ==
  IF sc.ne = 0 THEN sc.na
  ELSE LET n0 == (CHOOSE e \in sc.eq : e.first = sc.na).lines
       IN  sc.na + n0 * ((sc.ne + n0 - 1) \div n0)

(* buildInequalityConstraintMatrices, the contacts left out of A.          *)
InequalityRowsWithoutGaps(sc, states, flag) ==
  AddContactLimits(sc, states, flag)
    \cup (UNION {ActuatorRows(a, BothSides(sc, flag)) : a \in sc.act})

(* buildInequalityConstraintMatrices: the rows of A.                       *)
InequalityRows(sc, states, flag) ==
  AddContactLimits(sc, states, flag)
    \cup (UNION {ActuatorRows(a, BothSides(sc, flag)) : a \in sc.act})
    \cup (UNION {ContactInequalityRows(sc, HandlerAt(sc, states, i), i, BothSides(sc, flag))
                   : i \in ContactWalk(sc, InequalityContactStart(sc))})

-----------------------------------------------------------------------------
(* The equality rows of an actuator or equality component.                 *)
EqualRows(c) ==
  {[id |-> c.first, kind |-> t, line |-> k, lo |-> TRUE] :
     t \in (IF c.lEq THEN {"lambdaEq"} ELSE {}) \cup (IF c.dEq THEN {"deltaEq"} ELSE {}),
     k \in 0 .. c.lines - 1}

(* The equality rows of the contact at position i in state s.              *)
ContactEqualityRows(s, i) ==
  LET closed == {[id |-> i, kind |-> "closed", line |-> 0, lo |-> TRUE]} IN
  CASE s = "inactive" -> {}
    [] s = "stick"    -> closed \cup {[id |-> i + k, kind |-> "stuck", line |-> k, lo |-> TRUE] : k \in 1 .. 2}
    [] s = "sliding"  -> closed \cup {[id |-> i + 1, kind |-> "coneEq", line |-> 1, lo |-> TRUE]}
    [] s = "active"   -> closed
    [] OTHER          -> {}

(* The contacts' equality rows filed one variable too far.                 *)
EqualityRowsShifted(sc, states) ==
  {[r EXCEPT !.id = r.id + 1] : r \in
     UNION {ContactEqualityRows(HandlerAt(sc, states, i), i) : i \in ContactWalk(sc, sc.na + sc.ne)}}

(* buildEqualityConstraintMatrices: the rows of Aeq.                       *)
EqualityRows(sc, states) ==
  (UNION {EqualRows(c) : c \in sc.act \cup sc.eq})
    \cup (UNION {ContactEqualityRows(HandlerAt(sc, states, i), i)
                   : i \in ContactWalk(sc, sc.na + sc.ne)})

-----------------------------------------------------------------------------
(* The bounds l, u on the variable of line k of a contact in state s.      *)
ContactBound(s, k) ==
  IF s \in {"inactive", "oob"} THEN "zero"
  ELSE IF k = 0 THEN "nonneg"
  ELSE IF s = "sliding" THEN "signed" ELSE "free"

(* getConstraintOnLambda without the reset of the actuators' bounds.       *)
ConstraintOnLambdaKeeping(sc, states, old) ==
  [v \in 0 .. Dim(sc) - 1 |->
     IF v < sc.na + sc.ne
     THEN IF v \in DOMAIN old THEN old[v] ELSE "component"
     ELSE LET c == v - sc.na - sc.ne
              n == ContactNbLines(sc)
          IN  ContactBound(StateOf(states, c \div n), c % n)]

(* getConstraintOnLambda: every bound is written anew ("component" stands  *)
(* for the limits of the actuator or equality component); the bounds of    *)
(* the previous assembly, old, do not survive.                             *)
ConstraintOnLambda(sc, states, old) ==
  [v \in 0 .. Dim(sc) - 1 |->
     IF v < sc.na + sc.ne THEN "component"
     ELSE LET c == v - sc.na - sc.ne
              n == ContactNbLines(sc)
          IN  ContactBound(StateOf(states, c \div n), c % n)]

-----------------------------------------------------------------------------
(* getInfeasibleConstraints: the rows of A that may be released are those  *)
(* filed under a variable below the number of actuator components; id[r]   *)
(* is the variable row r is filed under.                                   *)
Releasable(sc, A, id) == {r \in A : id[r] < Cardinality(sc.act)}

(* checkAndUpdateActuatorConstraints: the variable each released row is    *)
(* filed under is fixed to zero.                                           *)
FixReleased(bounds, R, id) ==
  [v \in DOMAIN bounds |-> IF \E r \in R : id[r] = v THEN "fixed" ELSE bounds[v]]
=============================================================================

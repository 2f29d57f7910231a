----------------------------- MODULE SubjectTo ------------------------------
(***************************************************************************)
(* qpOASES::Bounds and qpOASES::Constraints on their common base SubjectTo *)
(* (extlibs/qpOASES-3.2.0/src/): the status of each index, and the index   *)
(* lists of the working set and of the rest, which the operations must     *)
(* keep in agreement with the statuses.                                    *)
(*                                                                         *)
(* A Bounds object holds its indices as fixed or free, a Constraints       *)
(* object as active or inactive: "in" and "out".  The rest of qpOASES sets *)
(* types and, for a constraint it gives up, a status directly.             *)
(***************************************************************************)
EXTENDS Indexlist

CONSTANTS
  Sizes, \* the sizes of an object
  Types  \* bound: the types its indices may have

AllTypes == {"UNBOUNDED", "BOUNDED", "EQUALITY", "DISABLED", "UNKNOWN"}
ASSUME SubjectToAssumption == Sizes \subseteq Nat \ {0} /\ Types \subseteq AllTypes

VARIABLES
  class, \* "Bounds" or "Constraints"
  s,     \* the object: n, type, status, in (fixed, active), out (freee, inactive)
  ok     \* no operation has failed since init()

vars == <<class, s, ok>>

Held == {"LOWER", "UPPER"}

-----------------------------------------------------------------------------
(* SubjectTo.  An operation returns the object and whether it succeeded.   *)

(* init(): nothing is known of any index.                                  *)
SubjectToInit(n) ==
  [n |-> n, type |-> [i \in 1 .. n |-> "UNKNOWN"], status |-> [i \in 1 .. n |-> "UNDEFINED"],
   in |-> EmptyList, out |-> EmptyList]

AddIndex(o, list, i, st) ==
  IF o.status[i] = st THEN [o |-> o, ok |-> FALSE]
  ELSE LET marked == [o EXCEPT !.status[i] = st]
       IN  IF Length(o[list]) >= o.n THEN [o |-> marked, ok |-> FALSE]
           ELSE [o |-> [marked EXCEPT ![list] = AddNumber(@, i)], ok |-> TRUE]

RemoveIndex(o, list, i) == [o EXCEPT !.status[i] = "UNDEFINED", ![list] = RemoveNumber(@, i)]

SwapIndex(o, list, i, j) ==
  IF o.status[i] # o.status[j] THEN [o |-> o, ok |-> FALSE]
  ELSE IF i = j THEN [o |-> o, ok |-> TRUE]
  ELSE IF Holds(o[list], i) /\ Holds(o[list], j)
  THEN [o |-> [o EXCEPT ![list] = SwapNumbers(@, i, j)], ok |-> TRUE]
  ELSE [o |-> o, ok |-> FALSE]

ListFor(st) == IF st = "INACTIVE" THEN "out" ELSE "in"

-----------------------------------------------------------------------------
(* Bounds.                                                                 *)

SetupBound(o, i, st) == AddIndex(o, ListFor(st), i, st)

(* setupAll(): a loop over all indices for the unbounded ones, then one    *)
(* for the bounded ones, one for the equalities and one for the rest.      *)
RankOf(t) ==
  CASE t = "UNBOUNDED" -> 1 [] t = "BOUNDED" -> 2 [] t = "EQUALITY" -> 3 [] OTHER -> 4
SetupBoundTurn(r, rank, i, st) ==
  IF ~r.ok \/ RankOf(r.o.type[i]) # rank THEN r ELSE SetupBound(r.o, i, st)
SetupBoundLoop(r, rank, st) ==
  LET upTo[k \in 0 .. r.o.n] ==
        IF k = 0 THEN r ELSE SetupBoundTurn(upTo[k - 1], rank, k, st)
  IN  upTo
SetupBounds(r, rank, st) == SetupBoundLoop(r, rank, st)[r.o.n]
SetupAllBounds(o, st) ==
  SetupBounds(SetupBounds(SetupBounds(SetupBounds([o |-> o, ok |-> TRUE], 1, st), 2, st), 3, st), 4, st)

MoveFixedToFree(o, i) == AddIndex(RemoveIndex(o, "in", i), "out", i, "INACTIVE")
MoveFreeToFixedTwice(o, i, st) == AddIndex(o, "in", i, st)
MoveFreeToFixed(o, i, st) == AddIndex(RemoveIndex(o, "out", i), "in", i, st)

FlipFixedBound(o, i) ==
  IF o.status[i] \in Held
  THEN [o |-> [o EXCEPT !.status[i] = IF @ = "LOWER" THEN "UPPER" ELSE "LOWER"], ok |-> TRUE]
  ELSE [o |-> o, ok |-> FALSE]

SwapFree(o, i, j) == SwapIndex(o, "out", i, j)

(* The lists of an object rebuilt from its statuses, in order; it fails at *)
(* a status that belongs in neither.                                       *)
Filed(o, k, lists) == [lists EXCEPT ![ListFor(o.status[k])] = AddNumber(@, k)]
FiledUpTo(o) ==
  LET fill[k \in 0 .. o.n] ==
        IF k = 0 THEN [in |-> EmptyList, out |-> EmptyList] ELSE Filed(o, k, fill[k - 1])
  IN  fill
Rebuilt(o) ==
  LET lists == FiledUpTo(o)[o.n]
  IN  IF \A i \in 1 .. o.n : o.status[i] \in Held \cup {"INACTIVE"}
      THEN [o |-> [o EXCEPT !.in = lists.in, !.out = lists.out], ok |-> TRUE]
      ELSE [o |-> o, ok |-> FALSE]

(* Types and statuses move from[i] to i, and then the lists follow.        *)
Rearranged(o, from) ==
  Rebuilt([o EXCEPT !.type = [i \in 1 .. o.n |-> o.type[from[i]]],
                    !.status = [i \in 1 .. o.n |-> o.status[from[i]]]])

(* shift(): the last offset indices are duplicated.                        *)
ShiftBounds(o, offset) ==
  IF offset = 0 \/ o.n <= 1 THEN [o |-> o, ok |-> TRUE]
  ELSE IF offset > o.n \div 2 \/ o.n % offset # 0 THEN [o |-> o, ok |-> FALSE]
  ELSE Rearranged(o, [i \in 1 .. o.n |-> IF i <= o.n - offset THEN i + offset ELSE i])

RotateBounds(o, offset) ==
  IF offset \in {0, o.n} \/ o.n <= 1 THEN [o |-> o, ok |-> TRUE]
  ELSE Rearranged(o, [i \in 1 .. o.n |-> IF i <= o.n - offset THEN i + offset ELSE i - o.n + offset])

-----------------------------------------------------------------------------
(* Constraints: the same on the lists of active and inactive constraints.  *)

SetupConstraint(o, i, st) == AddIndex(o, ListFor(st), i, st)
SetupConstraintTurn(r, rank, i, st) ==
  IF ~r.ok \/ RankOf(r.o.type[i]) # rank THEN r ELSE SetupConstraint(r.o, i, st)
SetupConstraintLoop(r, rank, st) ==
  LET upTo[k \in 0 .. r.o.n] ==
        IF k = 0 THEN r ELSE SetupConstraintTurn(upTo[k - 1], rank, k, st)
  IN  upTo
SetupConstraints(r, rank, st) == SetupConstraintLoop(r, rank, st)[r.o.n]
SetupAllConstraints(o, st) ==
  SetupConstraints(SetupConstraints(SetupConstraints(SetupConstraints(
    [o |-> o, ok |-> TRUE], 1, st), 2, st), 3, st), 4, st)
MoveActiveToInactive(o, i) == AddIndex(RemoveIndex(o, "in", i), "out", i, "INACTIVE")
MoveInactiveToActive(o, i, st) == AddIndex(RemoveIndex(o, "out", i), "in", i, st)
FlipFixedConstraint(o, i) == FlipFixedBound(o, i)
ShiftConstraints(o, offset) == ShiftBounds(o, offset)
RotateConstraints(o, offset) == RotateBounds(o, offset)

-----------------------------------------------------------------------------
Init ==
  /\ class \in {"Bounds", "Constraints"} /\ ok = TRUE
  /\ \E n \in Sizes : s = SubjectToInit(n)

Returns(r) == s' = r.o /\ ok' = r.ok /\ UNCHANGED class

(* init(), at any time: the only way on after a failed operation.          *)
Restart == \E n \in Sizes : s' = SubjectToInit(n) /\ ok' = TRUE /\ UNCHANGED class

(* setType(), by setupSubjectToType() of the problem.  To limit the state  *)
(* space the types are set once.                                           *)
SetTypes ==
  /\ ok /\ \A i \in 1 .. s.n : s.type[i] = "UNKNOWN" /\ s.status[i] = "UNDEFINED"
  /\ \E t \in [1 .. s.n -> Types] : s' = [s EXCEPT !.type = t]
  /\ UNCHANGED <<class, ok>>

(* setupBound(), setupConstraint(): for an index that is in neither list.  *)
Setup(i, st) ==
  /\ ok /\ s.status[i] = "UNDEFINED"
  /\ \/ class = "Bounds" /\ Returns(SetupBound(s, i, st))
     \/ class = "Constraints" /\ Returns(SetupConstraint(s, i, st))

(* setupAllFree(), setupAllInactive(), setupAllLower(), setupAllUpper().   *)
SetupAll(st) ==
  /\ ok /\ \A i \in 1 .. s.n : s.status[i] = "UNDEFINED"
  /\ \/ class = "Bounds" /\ Returns(SetupAllBounds(s, st))
     \/ class = "Constraints" /\ Returns(SetupAllConstraints(s, st))

(* The solver moves an index out of the list it is in.                     *)
MoveOut(i) ==
  /\ ok /\ i \in Numbers(s.in)
  /\ \/ class = "Bounds" /\ Returns(MoveFixedToFree(s, i))
     \/ class = "Constraints" /\ Returns(MoveActiveToInactive(s, i))

MoveIn(i, st) ==
  /\ ok /\ i \in Numbers(s.out)
  /\ \/ class = "Bounds" /\ Returns(MoveFreeToFixed(s, i, st))
     \/ class = "Constraints" /\ Returns(MoveInactiveToActive(s, i, st))

Flip(i) ==
  /\ ok
  /\ \/ class = "Bounds" /\ Returns(FlipFixedBound(s, i))
     \/ class = "Constraints" /\ Returns(FlipFixedConstraint(s, i))

(* addBound() brings the variable it fixes to the end of the free ones.    *)
Swap(i, j) ==
  /\ ok /\ class = "Bounds" /\ {i, j} \subseteq Numbers(s.out)
  /\ Returns(SwapFree(s, i, j))

(* setStatus(), by dropInfeasibles() of the problem.                       *)
GiveUp(i, st) ==
  /\ ok /\ i \in Numbers(s.out)
  /\ s' = [s EXCEPT !.status[i] = st]
  /\ UNCHANGED <<class, ok>>

Shift(offset) ==
  /\ ok /\ Numbers(s.in) \cup Numbers(s.out) = 1 .. s.n
  /\ \/ class = "Bounds" /\ Returns(ShiftBounds(s, offset))
     \/ class = "Constraints" /\ Returns(ShiftConstraints(s, offset))

Rotate(offset) ==
  /\ ok /\ Numbers(s.in) \cup Numbers(s.out) = 1 .. s.n
  /\ \/ class = "Bounds" /\ Returns(RotateBounds(s, offset))
     \/ class = "Constraints" /\ Returns(RotateConstraints(s, offset))

Next ==
  \/ Restart \/ SetTypes
  \/ \E st \in Held \cup {"INACTIVE"} : SetupAll(st) \/ \E i \in 1 .. s.n : Setup(i, st)
  \/ \E i \in 1 .. s.n : MoveOut(i) \/ Flip(i) \/ \E st \in Held : MoveIn(i, st)
  \/ \E i, j \in 1 .. s.n : Swap(i, j)
  \/ \E i \in 1 .. s.n, st \in {"INFEASIBLE_LOWER", "INFEASIBLE_UPPER"} : GiveUp(i, st)
  \/ \E offset \in 0 .. s.n : Shift(offset) \/ Rotate(offset)

Spec == Init /\ [][Next]_vars

-----------------------------------------------------------------------------
(* After any sequence of insertions, removals and swaps, and even after an *)
(* operation that failed, iSort sorts both lists and neither holds an      *)
(* index twice (Indexlist::addNumber, removeNumber, swapNumbers).          *)
ListsAreSorted == IsSorted(s.in) /\ IsSorted(s.out)

Abstract == INSTANCE WorkingSet
  WITH n <- s.n, status <- s.status, working <- Numbers(s.in), outside <- Numbers(s.out), ok <- ok

(* The lists, whatever the order of their entries, are the two sets of     *)
(* WorkingSet: no operation that succeeds loses or duplicates an index, or *)
(* leaves it in a list its status contradicts.                             *)
ImplementsWorkingSet == Abstract!Spec
=============================================================================

----------------------------- MODULE WorkingSet -----------------------------
(***************************************************************************)
(* What qpOASES::Bounds and qpOASES::Constraints promise the solver: each  *)
(* index is in the working set or outside it, and its status says which    *)
(* side it is held at.  An operation that fails leaves the object          *)
(* unusable until init().                                                  *)
(***************************************************************************)
EXTENDS Integers

CONSTANT Sizes \* the sizes of the object

VARIABLES
  n,       \* the number of indices
  status,  \* the status of each index
  working, \* the indices in the working set
  outside, \* the indices outside it
  ok       \* no operation has failed since init()

vars == <<n, status, working, outside, ok>>

Indices == 1 .. n
Held == {"LOWER", "UPPER"}
NotHeld == {"INACTIVE", "INFEASIBLE_LOWER", "INFEASIBLE_UPPER"}

Blank ==
  /\ ok' = TRUE /\ working' = {} /\ outside' = {}
  /\ status' = [i \in 1 .. n' |-> "UNDEFINED"]

Init ==
  /\ n \in Sizes /\ ok = TRUE /\ working = {} /\ outside = {}
  /\ status = [i \in Indices |-> "UNDEFINED"]

Restart == n' \in Sizes /\ Blank

(* Indices that are in neither set enter one of them.                      *)
Setup(I, st) ==
  /\ ok /\ I \cap (working \cup outside) = {}
  /\ status' = [i \in Indices |-> IF i \in I THEN st ELSE status[i]]
  /\ working' = IF st \in Held THEN working \cup I ELSE working
  /\ outside' = IF st \in Held THEN outside ELSE outside \cup I
  /\ UNCHANGED <<n, ok>>

Enter(i, st) ==
  /\ ok /\ i \in outside /\ st \in Held
  /\ working' = working \cup {i} /\ outside' = outside \ {i}
  /\ status' = [status EXCEPT ![i] = st]
  /\ UNCHANGED <<n, ok>>

Leave(i) ==
  /\ ok /\ i \in working
  /\ working' = working \ {i} /\ outside' = outside \cup {i}
  /\ status' = [status EXCEPT ![i] = "INACTIVE"]
  /\ UNCHANGED <<n, ok>>

(* The side of a held index changes, or an index outside is given up.      *)
Mark(i, st) ==
  /\ ok /\ IF i \in working THEN st \in Held ELSE i \in outside /\ st \in NotHeld
  /\ status' = [status EXCEPT ![i] = st]
  /\ UNCHANGED <<n, working, outside, ok>>

(* The indices change places: from[i] is what i was before.                *)
Rearrange(from) ==
  /\ ok /\ working \cup outside = Indices
  /\ status' = [i \in Indices |-> status[from[i]]]
  /\ working' = {i \in Indices : from[i] \in working}
  /\ outside' = {i \in Indices : from[i] \in outside}
  /\ UNCHANGED <<n, ok>>

(* An operation that fails may leave anything behind.                      *)
Fail ==
  /\ ok' = FALSE /\ n' = n
  /\ working' \subseteq Indices /\ outside' \subseteq Indices
  /\ status' \in [Indices -> Held \cup NotHeld \cup {"UNDEFINED"}]

Next ==
  \/ Restart
  \/ \E I \in SUBSET Indices, st \in Held \cup {"INACTIVE"} : Setup(I, st)
  \/ \E i \in Indices : Leave(i) \/ \E st \in Held : Enter(i, st)
  \/ \E i \in Indices, st \in Held \cup NotHeld : Mark(i, st)
  \/ \E from \in [Indices -> Indices] : Rearrange(from)
  \/ Fail

Spec == Init /\ [][Next]_vars

(* As long as no operation has failed, the two sets are disjoint and the   *)
(* statuses tell which set each index is in.                               *)
Agree ==
  ok => /\ working = {i \in Indices : status[i] \in Held}
        /\ outside = {i \in Indices : status[i] \in NotHeld}
=============================================================================

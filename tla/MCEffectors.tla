---------------------------- MODULE MCEffectors -----------------------------
(***************************************************************************)
(* Instances of Effectors: each kind with and without its limits.          *)
(***************************************************************************)
EXTENDS Effectors

E(kind, dim, solved, limit, setSpeed, step) ==
  [kind |-> kind, dim |-> dim, solved |-> solved, limit |-> limit, shift |-> 2,
   setSpeed |-> setSpeed, step |-> step]

(* Targets that are a part of the way, along one coordinate.               *)
Along == {E(kind, 1, {1}, l, s, st) : kind \in Kinds, l \in BOOLEAN, s \in BOOLEAN, st \in {1, 3}}

(* Some directions of a point; the first axes of a barycenter.             *)
Across ==
  {E("position", 3, d, l, FALSE, 1) : d \in {{1}, {2, 3}, {1, 3}, {1, 2, 3}}, l \in BOOLEAN}
    \cup {E("barycenter", 3, {1, 2}, l, FALSE, 1) : l \in BOOLEAN}

All == Along \cup Across

Space3 == -1 .. 3
Goals3 == {0, 3}
Free1 == {0, 1}
Residuals1 == {-1, 0}
=============================================================================

----------------------- MODULE MCConstraintCorrections ----------------------
(***************************************************************************)
(* Instances of ConstraintCorrections for TLC: three bodies.               *)
(***************************************************************************)
EXTENDS ConstraintCorrections

CONSTANTS b1, b2, b3

Bodies == {b1, b2, b3}
=============================================================================

------------------------ MODULE MCYoungModulusActuator ----------------------
(* An instance of YoungModulusActuator: moduli on both sides of the range. *)
EXTENDS YoungModulusActuator

SomeModuli == 0 .. 20
=============================================================================

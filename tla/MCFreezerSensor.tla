-------------------------- MODULE MCFreezerSensor --------------------------
(***************************************************************************)
(* FreezerSensor with a freezer that is cold or has been left open.        *)
(***************************************************************************)
EXTENDS FreezerSensor

MCTemps == {-1700, 400}
=============================================================================

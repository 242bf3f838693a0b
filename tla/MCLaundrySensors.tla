-------------------------- MODULE MCLaundrySensors --------------------------
(***************************************************************************)
(* LaundrySensors with a few measurements and every way in which one, two  *)
(* or three of the 48 bits of a frame arrive flipped.                      *)
(***************************************************************************)
EXTENDS LaundrySensors

(* The smallest and the largest words there are, which the humidity is cut *)
(* off at and the temperature not; a temperature below zero with a         *)
(* fraction to truncate; a room.                                           *)
MCMeasurements == {[t |-> 0, h |-> 0], [t |-> 10000, h |-> 30000],
                   [t |-> 26214, h |-> 26214], [t |-> 65535, h |-> 65535]}

MCCharges == {0, 57, 103}

MCDisturbances == {{a, b, c} : a, b, c \in 0 .. 47}
=============================================================================

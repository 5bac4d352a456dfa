------------------------------ MODULE MCBlink ------------------------------
(***************************************************************************)
(* Blink with as many units as there are blinks, so that units can go and  *)
(* come back in any order and leave serial numbers behind.                 *)
(***************************************************************************)
EXTENDS Blink
=============================================================================

-------------------------- MODULE MCCvCalibration --------------------------
(***************************************************************************)
(* CvCalibration with two voices that share the calibrator and a sweep of  *)
(* two voltages, or with one voice and a sweep of three, the last two of   *)
(* which the instrument plays at the same frequency.                       *)
(***************************************************************************)
EXTENDS CvCalibration

MCTone == [s \in Steps |-> IF s = 0 THEN 2 ELSE 5]
=============================================================================

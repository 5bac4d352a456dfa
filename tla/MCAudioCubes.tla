---------------------------- MODULE MCAudioCubes ----------------------------
(***************************************************************************)
(* AudioCubes with two cubes, of which the agent creates one (the library  *)
(* can have 16 cubes and the agent creates 15), two faces, two channels.   *)
(***************************************************************************)
EXTENDS AudioCubes
=============================================================================

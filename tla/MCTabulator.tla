---------------------------- MODULE MCTabulator -----------------------------
(* Two keys of the first course, one of the second, one that is beyond it  *)
(* and one that is on no course.                                           *)
EXTENDS Tabulator

MCNotes == {<<1, 1>>, <<1, 2>>, <<2, 1>>, <<3, 1>>, <<0, 2>>}
=============================================================================

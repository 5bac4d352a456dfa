--------------------------- MODULE MCCubeTopology ---------------------------
(***************************************************************************)
(* CubeTopology on three cubes, one of them with two faces: enough for a   *)
(* face to be mentioned as the lower end of two links (11), as the higher  *)
(* end of two (31), and once as each (22).                                 *)
(***************************************************************************)
EXTENDS CubeTopology

CONSTANT MaxLinks

MCFaces == {11, 21, 22, 31}

(* Some links are read with the higher cube first. *)
MCLinks == {<<11, 21>>, <<22, 11>>, <<31, 11>>, <<21, 31>>, <<31, 22>>}

MCTables == UNION {[1 .. n -> MCLinks] : n \in 0 .. MaxLinks}
=============================================================================

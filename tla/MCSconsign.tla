----------------------------- MODULE MCSconsign -----------------------------
(* Two sources and two targets: b is made of r and a, and a of s. *)
EXTENDS Sconsign

CONSTANTS a, b, r, s

MCFiles == {a, b, r, s}
MCKids == [f \in MCFiles |-> CASE f = a -> <<s>> [] f = b -> <<r, a>> [] OTHER -> <<>>]
MCTops == {{b}, {a}}
=============================================================================

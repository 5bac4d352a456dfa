------------------------------- MODULE MCLeap -------------------------------
(***************************************************************************)
(* Leap on a small instance: three hands compete for the two outputs, in   *)
(* any order within a frame, each possibly with too few fingers to count.  *)
(* The position of a hand names the hand, so that positions sent to the    *)
(* wrong output are told apart.                                            *)
(***************************************************************************)
EXTENDS Leap, SequencesExt

CONSTANTS Ids, Moves

MCPositions == {0} \cup {10 * id + m : id \in Ids, m \in Moves}

(* All hands of a frame have moved to the same m; at most one of them, x,  *)
(* is not usable (x = 0: all are).                                         *)
MCFrames ==
    {[i \in 1 .. Len(s) |-> [id |-> s[i], usable |-> s[i] # x, pos |-> 10 * s[i] + m]] :
        s \in {t \in UNION {[1 .. n -> Ids] : n \in 0 .. 3} : IsInjective(t)},
        m \in Moves, x \in {0, 1}}
=============================================================================

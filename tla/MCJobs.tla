------------------------------- MODULE MCJobs -------------------------------
(* Small builds.  Each graph differs from a plain one in a few places.     *)
EXTENDS Jobs

MCNodes == 1..5
Plain(kids, tops) ==
  [kids |-> kids, late |-> [n \in MCNodes |-> <<>>], generated |-> [n \in MCNodes |-> {}],
   targets |-> [n \in MCNodes |-> <<n>>], effects |-> [n \in MCNodes |-> <<>>],
   plain |-> {n \in MCNodes : kids[n] = <<>>}, missing |-> {}, broken |-> {}, unready |-> {},
   cached |-> {}, tops |-> tops]

(* Every graph over 1, 2 and 3 and a source, 4, cycles included, in which  *)
(* 1 and 2 have up to two children and 3 has up to one.                    *)
EveryGraph ==
  {Plain([n \in MCNodes |-> IF n \in 1..3 THEN SetToSortSeq(f[n], <) ELSE <<>>], <<2, 1>>) :
     f \in {f \in [1..3 -> SUBSET (1..4)] :
             \A n \in 1..3 : n \notin f[n] /\ Cardinality(f[n]) <= IF n = 3 THEN 1 ELSE 2}}

(* The graphs of Taskmaster.py 644-668: a cycle of three, and a diamond    *)
(* whose lower end is being built while its other side is looked at.       *)
Cycle == Plain(<< <<2>>, <<3>>, <<1>>, <<5>>, <<>> >>, <<1, 4>>)
Diamond == Plain(<< <<2, 4>>, <<3>>, <<5>>, <<3>>, <<>> >>, <<1>>)
Several == [Plain(<< <<4>>, <<1, 3>>, <<4>>, <<5>>, <<>> >>, <<3, 2, 5>>) EXCEPT !.missing = {5}]
Shared == Plain(<< <<>>, <<1>>, <<2, 5>>, <<2>>, <<1>> >>, <<3, 4>>)

(* One action makes 2 and 3; some of them may be in the cache. *)
Pair == [Plain(<< <<2, 3>>, <<4>>, <<4>>, <<>>, <<3>> >>, <<1, 5>>)
           EXCEPT !.targets[2] = <<2, 3>>, !.targets[3] = <<2, 3>>]
CachedPair(c) == [Pair EXCEPT !.cached = c]

(* 2, 3 and 4 write the same log, 5. *)
Log == [Plain(<< <<2, 3, 4>>, <<>>, <<>>, <<>>, <<2, 3, 4>> >>, <<1>>)
          EXCEPT !.plain = {5}, !.effects[2] = <<5>>, !.effects[3] = <<5>>, !.effects[4] = <<5>>]
(* 2 and 3 come from one action and write a log, so does 4. *)
PairLog == [Pair EXCEPT !.kids[1] = <<2, 4>>, !.kids[2] = <<>>, !.kids[3] = <<>>,
                        !.kids[5] = <<2, 3, 4>>, !.plain = {5}, !.tops = <<1>>,
                        !.effects[2] = <<5>>, !.effects[3] = <<5>>, !.effects[4] = <<5>>]

(* Scanning what 2 generates finds that 1 needs 3 as well. *)
Generated(c) ==
  [Plain(<< <<2, 4>>, <<5>>, <<5>>, <<5>>, <<>> >>, <<1>>)
     EXCEPT !.late[1] = <<3>>, !.generated[1] = {2}, !.cached = c]

(* The same, while 1 hangs in a cycle; or what the scan finds is one.      *)
LateHung == [Generated({}) EXCEPT !.kids = << <<2, 4>>, <<>>, <<>>, <<5>>, <<4>> >>, !.plain = {3}]
LateCycle(c) == [Generated(c) EXCEPT !.kids[3] = <<1>>]

(* 2 is asked for first, and may be on its way when 1 is scanned. *)
Asked(c) == [Generated(c) EXCEPT !.tops = <<2, 1>>]

(* 1 is a candidate twice; it needs 2, which may be in the cache, while 3, *)
(* that the same action makes, is not.                                     *)
Twice(c) == [Plain(<< <<2>>, <<>>, <<>>, <<1>>, <<4, 1>> >>, <<5>>)
               EXCEPT !.plain = {}, !.targets[2] = <<2, 3>>, !.targets[3] = <<2, 3>>, !.cached = c]

(* The children of 3 cannot be determined. *)
Broken == [Plain(<< <<2>>, <<3>>, <<5>>, <<3, 2>>, <<>> >>, <<4, 1>>) EXCEPT !.broken = {3}]

(* 2, 3 and 4 write the same log, and the children of 3 cannot be determined. *)
BrokenLog == [Log EXCEPT !.broken = {3}]

(* 2, which one action makes with 3, cannot be read, or whatever is in the *)
(* cache; a target of the command line and a source; two nodes above a     *)
(* cycle; and one whose children cannot be determined either.  (None makes *)
(* side effects: the stack of candidates would have no bound.)             *)
Unread(c) == [Pair EXCEPT !.cached = c, !.unready = {2}]
UnreadTop == [Diamond EXCEPT !.unready = {3, 5}, !.tops = <<3, 1>>]
UnreadCycle == [Cycle EXCEPT !.unready = {5, 1}, !.kids[1] = <<2, 5>>]
UnreadBroken == [Broken EXCEPT !.unready = {3}]

(* Scanning 2, which is tried once more after 4 has come from the cache,   *)
(* finds that 1 needs 5 as well.                                           *)
Slipping == [Plain(<< <<3, 2>>, <<4>>, <<2>>, <<>>, <<>> >>, <<1>>)
               EXCEPT !.plain = {5}, !.late[1] = <<5>>, !.generated[1] = {2}, !.unready = {2},
                      !.cached = {4}]

(* A child that only a scan of 2 finds does not exist. *)
LateMissing == [Generated({}) EXCEPT !.late[1] = <<5>>, !.kids[2] = <<>>, !.kids[4] = <<>>,
                                     !.missing = {5}]

(* 1 needs 2 and its log, 3. *)
LogNeeded == {[Plain(<< <<2, 3>>, <<4>>, <<2>>, <<>>, <<>> >>, <<1>>)
                 EXCEPT !.plain = {3, 4}, !.effects[2] = <<3>>]}

MCGraphs == EveryGraph \cup {CachedPair(c) : c \in {{}, {2}, {3}, {2, 3}}}
              \cup {Twice(c) : c \in {{2}, {1, 2}}}
              \cup {Generated(c) : c \in {{}, {2}}} \cup {Asked(c) : c \in {{}, {2}}}
              \cup {LateCycle(c) : c \in {{}, {2}}}
              \cup {Unread(c) : c \in {{}, {2, 3}}}
              \cup {UnreadTop, UnreadCycle, UnreadBroken, LateMissing, Slipping}
              \cup {BrokenLog, LateHung, Cycle, Diamond, Several, Shared, Log, PairLog, Broken}
=============================================================================

----------------------------- MODULE Tabulator ------------------------------
(***************************************************************************)
(* The tabulator (tabulator_plg.py) notates what is played.  A session has *)
(* a raw file, to which every key is written at once, and a page of        *)
(* tablature: keys that follow each other closely are a chord, which       *)
(* becomes one column of the staves, and staves that would get too wide    *)
(* are printed below each other.                                           *)
(*                                                                         *)
(* A stave is a sequence of columns here; the code keeps one text for each *)
(* course and makes all of a column's equally wide.  Keys have one digit.  *)
(***************************************************************************)
EXTENDS Integers, Sequences, FiniteSets, SequencesExt

CONSTANTS
  MaxCourses, Notes,        \* courses of the instrument; the courses and keys played
  Timeouts, PageWidths,     \* what the two settings may be
  MaxTime, MaxKeys          \* bounds of the clock, and of the keys in a session

ASSUME TabulatorAssumption ==
  /\ MaxCourses \in Nat \ {0}
  /\ \A note \in Notes : note[1] \in Nat /\ note[2] \in 0..9
  /\ Timeouts \subseteq Nat /\ PageWidths \subseteq Nat
  /\ MaxTime \in Nat /\ MaxKeys \in Nat

VARIABLES
  chordTimeout, pageWidth, courselen,   \* settings; 0 courses: not known
  notating,                             \* atom 6
  queue, render, lasttime,              \* the chord being played, and the stave
  raw, html,                            \* the files of the session, kept when it ends
  now,                                  \* the clock
  courses, widest                       \* of the session, for the properties: its courses,
                                        \* and the widest page that was set

settings == <<chordTimeout, pageWidth, courselen>>
vars == <<settings, notating, queue, render, lasttime, raw, html, now, courses, widest>>

Never == -1
EmptyQueue == [c \in 1..courselen |-> <<>>]

Init ==
  /\ chordTimeout \in Timeouts /\ pageWidth \in PageWidths
  /\ courselen = 0
  /\ notating = FALSE
  /\ queue = <<>> /\ render = <<>> /\ lasttime = Never
  /\ raw = <<>> /\ html = <<>>
  /\ now = 0 /\ courses = 0 /\ widest = pageWidth

-----------------------------------------------------------------------------
(* The text of a course has its sorted keys with bars between them; the    *)
(* column is as wide as the widest of them, and a dash.                    *)
Sorted(keys) ==
  LET order == CHOOSE p \in Bijection(DOMAIN keys, DOMAIN keys) :
                 \A i, j \in DOMAIN keys : i < j => keys[p[i]] <= keys[p[j]]
  IN  [i \in DOMAIN keys |-> keys[order[i]]]
TextWidth(keys) == IF keys = <<>> THEN 0 ELSE 2 * Len(keys) - 1
Column(q) ==
  LET widths == {TextWidth(q[c]) : c \in DOMAIN q}
  IN  [keys |-> [c \in DOMAIN q |-> Sorted(q[c])],
       width |-> 1 + CHOOSE w \in widths : \A v \in widths : v <= w]
Width(stave) ==
  LET before[n \in 0..Len(stave)] == IF n = 0 THEN 0 ELSE before[n - 1] + stave[n].width
  IN  before[Len(stave)]

(* __render_html: what the stave and the page become. *)
(* Mutant of Overflows: only what the stave has already counts. *)
OverflowsLate(column) == Width(render) >= pageWidth
Overflows(column) == Width(render) + column.width >= pageWidth
Page(column) == IF Overflows(column) THEN Append(html, render) ELSE html
(* Mutant of Stave: the stave after a printed one begins empty. *)
StaveCleared(column) == IF Overflows(column) THEN <<>> ELSE Append(render, column)
Stave(column) == IF Overflows(column) THEN <<column>> ELSE Append(render, column)

(* The index of a course that is counted from 1; Python's index -1 is the  *)
(* last one.                                                               *)
CourseOf(course, len) == IF course = 0 THEN len ELSE course

(* A key is written to the raw file; it is in the tablature if the course  *)
(* exists, otherwise storing it fails, after the chord before it has been  *)
(* rendered.  (The timeout in raw is for the properties.)                  *)
Key(course, key) ==
  /\ notating /\ courselen # 0
  /\ Len(raw) < MaxKeys
  /\ raw' = Append(raw, [time |-> now, course |-> course, key |-> key,
                        timeout |-> chordTimeout])
  /\ LET late == lasttime # Never /\ now - lasttime > chordTimeout
         rest == IF late THEN EmptyQueue ELSE queue
         stored == course <= courselen
     IN  /\ html' = IF late THEN Page(Column(queue)) ELSE html
         /\ render' = IF late THEN Stave(Column(queue)) ELSE render
         /\ queue' = IF stored THEN [rest EXCEPT ![CourseOf(course, courselen)] = Append(@, key)] ELSE rest
         /\ lasttime' = IF stored THEN now ELSE lasttime
  /\ UNCHANGED <<settings, notating, now, courses, widest>>

(* __stop renders what is left and prints the stave. *)
Closed == Append(Page(Column(queue)), Stave(Column(queue)))
Stop ==
  /\ notating
  /\ html' = Closed
  /\ render' = Stave(Column(queue))
  /\ notating' = FALSE
  /\ queue' = <<>>
  /\ lasttime' = Never
  /\ UNCHANGED <<settings, raw, now, courses, widest>>

(* __start ends a session that runs, and begins a new one with new files;  *)
(* __toggle is the one of the two that changes whether a session runs.     *)
Start ==
  /\ courselen # 0
  /\ notating' = TRUE
  /\ queue' = EmptyQueue
  /\ render' = <<>>
  /\ lasttime' = IF notating THEN Never ELSE lasttime
  /\ raw' = <<>> /\ html' = <<>>
  /\ courses' = courselen /\ widest' = pageWidth
  /\ UNCHANGED <<settings, now>>

(* The controller's message counts when no session runs. *)
Controller(len) ==
  /\ ~notating
  /\ courselen' = len
  /\ UNCHANGED <<chordTimeout, pageWidth, notating, queue, render, lasttime, raw, html,
                 now, courses, widest>>

SetChordTimeout(v) ==
  /\ chordTimeout' = v
  /\ UNCHANGED <<pageWidth, courselen, notating, queue, render, lasttime, raw, html, now,
                 courses, widest>>

SetPageWidth(v) ==
  /\ pageWidth' = v
  /\ widest' = IF v > widest THEN v ELSE widest
  /\ UNCHANGED <<chordTimeout, courselen, notating, queue, render, lasttime, raw, html,
                 now, courses>>

Tick ==
  /\ now < MaxTime
  /\ now' = now + 1
  /\ UNCHANGED <<settings, notating, queue, render, lasttime, raw, html, courses, widest>>

Next ==
  \/ Start \/ Stop \/ Tick
  \/ \E note \in Notes : Key(note[1], note[2])
  \/ \E len \in 0..MaxCourses : Controller(len)
  \/ \E v \in Timeouts : SetChordTimeout(v)
  \/ \E v \in PageWidths : SetPageWidth(v)

Spec == Init /\ [][Next]_vars

-----------------------------------------------------------------------------
(* The columns of the printed staves and of the one being written.         *)
Written == FlattenSeq(html) \o IF notating THEN Append(render, Column(queue)) ELSE <<>>

(* Where there is a key in the tablature: in which column, on which course, *)
(* and which of the keys there.                                             *)
Places ==
  UNION {{<<n, c, x>> : x \in DOMAIN Written[n].keys[c]} : n \in DOMAIN Written, c \in 1..courses}

(* The keys that have a course, and whether the chord of one was over when  *)
(* another was played: that one, or a key between them, came late.          *)
Played == {i \in DOMAIN raw : raw[i].course <= courses}
Apart(i, j) == \E k \in i + 1..j : raw[k].time - raw[i].time > raw[k].timeout

(* The tablature is the raw file: every key that has a course is in it,    *)
(* once, on its course, and in one column with exactly the keys that were  *)
(* played within the timeout of each other, however the columns are broken *)
(* into staves, whenever the session ends and however often the settings   *)
(* change.                                                                 *)
TablatureIsPlayed ==
  /\ \A p, q \in Places : p[1] = q[1] /\ p[2] = q[2] /\ p[3] < q[3]
       => Written[p[1]].keys[p[2]][p[3]] <= Written[q[1]].keys[q[2]][q[3]]
  /\ \E place \in Bijection(Played, Places) :
       /\ \A i \in Played :
            /\ place[i][2] = CourseOf(raw[i].course, courses)
            /\ Written[place[i][1]].keys[place[i][2]][place[i][3]] = raw[i].key
       /\ \A i, j \in Played : i < j /\ (\A k \in Played : k <= i \/ j <= k)
            => IF Apart(i, j) THEN place[i][1] < place[j][1] ELSE place[i][1] = place[j][1]

(* A printed stave is narrower than a page that was set since the session  *)
(* began, unless it is one column that no page would hold.                 *)
PageFits ==
  \A i \in DOMAIN html : Len(html[i]) <= 1 \/ Width(html[i]) < widest
=============================================================================

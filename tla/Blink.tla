------------------------------- MODULE Blink -------------------------------
(***************************************************************************)
(* The blink manager, src/blink/blink.cpp: it finds the blink(1) units     *)
(* that are plugged in, opens one for each of its blinks, and shows the    *)
(* colours that its inputs ask for.                                        *)
(*                                                                         *)
(* The slow thread creates the blinks and afterwards looks once a second   *)
(* whether the number of units has changed; if so it opens every blink's   *)
(* unit anew and paints it.  The fast thread sets colours in the meantime: *)
(* nothing but the order of loads and stores keeps the two apart.          *)
(* Units are opened by serial number through a table of blink1-lib.cpp,    *)
(* which an enumeration fills from the front.                              *)
(***************************************************************************)
EXTENDS Integers, Sequences, FiniteSets, SequencesExt

CONSTANTS
    NBlinks,    \* blink1_max_devices, 16: also the length of the table
    Units,      \* serial numbers, in the order in which they are sorted
    Colours,    \* the colours that can be set
    MaxEvents   \* bound: units plugged in or unplugged

Blinks == 1 .. NBlinks

None == 0       \* the null handle, and the empty serial number
Unset == "unset"
Dark == "dark"

ASSUME BlinksAssumption == NBlinks \in Nat \ {0}
ASSUME UnitsAssumption == Units \subseteq Nat \ {None} /\ IsFiniteSet(Units)
ASSUME ColoursAssumption == Unset \notin Colours /\ Dark \notin Colours

VARIABLES
    plugged,    \* the units that are plugged in
    shows,      \* the colour each unit shows
    serials,    \* blink1_cached_serials
    count,      \* count_: how many units the last enumeration found
    created,    \* the blinks that have been constructed
    dev,        \* dev_ per blink: the unit it was opened for
    live,       \* the blinks whose handle is still good
    last,       \* last_red_, last_green_ and last_blue_ per blink
    todo,       \* slow thread: the blinks it has yet to refresh, in order
    stage,      \* slow thread: where it is in refresh_dev of Head(todo)
    paint,      \* slow thread: the colour it has read and not yet written
    pending,    \* fast thread: what set_color has stored and not yet written
    events,     \* units plugged in or unplugged so far
    touched,    \* history: a unit came or went since the last enumeration
    missed,     \* history: an enumeration found changed units, same number
    dropped,    \* history: an enumeration found fewer than the one before
    raced,      \* history: blinks set while a refresh held an older colour
    shared,     \* history: units that two blinks have had open at once
    strayed     \* history: units last written through a forgotten handle

slow == <<todo, stage, paint>>
handles == <<dev, live, shared>>
usb == <<plugged, events>>
poll == <<serials, count, missed, dropped>>
vars == <<usb, shows, poll, created, handles, last, slow, pending, touched, raced, strayed>>

(* What is found is sorted: the i-th has i - 1 before it. *)
Sorted(S) ==
    [i \in 1 .. Cardinality(S) |-> CHOOSE u \in S : Cardinality({v \in S : v < u}) = i - 1]

(* aimed: set_color_raw has read dev_; unit: the unit that it is good for. *)
NoPending == [blink |-> 0, colour |-> Unset, aimed |-> FALSE, unit |-> None]

(* Assumed: the table has a place for every unit that is plugged in.       *)
(* blink1_enumerateByVidPid does not look, and writes behind its arrays.   *)
FitTable(found) == Cardinality(found) <= NBlinks

(* The constructor has enumerated before the blinks are created. *)
Init ==
    /\ plugged \in SUBSET Units
    /\ FitTable(plugged)
    /\ shows = [u \in Units |-> Dark]
    /\ LET found == Sorted(plugged)
       IN  serials = [i \in Blinks |-> IF i <= Len(found) THEN found[i] ELSE None]
    /\ count = Cardinality(plugged)
    /\ created = {}
    /\ dev = [b \in Blinks |-> None]
    /\ live = {}
    /\ last = [b \in Blinks |-> Unset]
    /\ todo = [i \in 1 .. NBlinks |-> i] /\ stage = "release" /\ paint = Unset
    /\ pending = NoPending
    /\ events = 0
    /\ touched = FALSE /\ missed = FALSE /\ dropped = FALSE
    /\ raced = {}
    /\ shared = {}
    /\ strayed = {}

-----------------------------------------------------------------------------
(* The user *)

Plug ==
    \E u \in Units \ plugged :
        /\ events < MaxEvents
        /\ events' = events + 1
        /\ plugged' = plugged \cup {u}
        /\ FitTable(plugged')
        /\ shows' = [shows EXCEPT ![u] = Dark]
        /\ touched' = TRUE
        /\ UNCHANGED <<poll, created, handles, last, slow, pending, raced, strayed>>

(* A handle does not come back to life with its unit. *)
Unplug ==
    \E u \in plugged :
        /\ events < MaxEvents
        /\ events' = events + 1
        /\ plugged' = plugged \ {u}
        /\ live' = {b \in live : dev[b] # u}
        /\ pending' = IF pending.unit = u THEN [pending EXCEPT !.unit = None] ELSE pending
        /\ touched' = TRUE
        /\ UNCHANGED <<shows, poll, created, dev, shared, last, slow, raced, strayed>>

-----------------------------------------------------------------------------
(* Slow thread: thing_timer_slow. *)

(* Mutant of Refilled: what was found is added behind what was known. *)
RefilledBehind(found) ==
    [i \in Blinks |-> IF i > 1 /\ i <= Len(found) + 1 THEN found[i - 1] ELSE serials[i]]

(* blink1_enumerateByVidPid overwrites and sorts the first entries of the  *)
(* table; the others keep what an earlier enumeration left.                *)
Refilled(found) == [i \in Blinks |-> IF i <= Len(found) THEN found[i] ELSE serials[i]]

(* Mutants of Changed: only more units matter; only fewer. *)
ChangedMore(n) == n > count
ChangedFewer(n) == n < count

Changed(n) == n # count

Poll ==
    /\ todo = <<>>
    /\ LET n == Cardinality(plugged)
       IN  /\ serials' = Refilled(Sorted(plugged))
           /\ count' = n
           /\ todo' = IF Changed(n) THEN [i \in 1 .. NBlinks |-> i] ELSE <<>>
           /\ missed' = (n = count /\ (touched \/ missed))
           /\ dropped' = (dropped \/ n < count)
    /\ touched' = FALSE
    /\ UNCHANGED <<usb, shows, created, handles, last, stage, paint, pending, raced, strayed>>

(* refresh_dev.  The old handle is forgotten, not closed. *)

Released ==
    /\ dev' = [dev EXCEPT ![Head(todo)] = None]
    /\ live' = live \ {Head(todo)}

Release ==
    /\ todo # <<>> /\ stage = "release"
    /\ Released
    /\ stage' = "open"
    /\ UNCHANGED <<usb, shows, poll, created, shared, last, todo, paint, pending,
                   touched, raced, strayed>>

(* The constructor of a blink is refresh_dev's first caller. *)
Refreshed ==
    /\ todo' = Tail(todo)
    /\ stage' = "release"
    /\ created' = created \cup {Head(todo)}

(* blink1_openById *)
Open ==
    /\ todo # <<>> /\ stage = "open"
    /\ LET b == Head(todo)
           u == serials[b]
       IN  IF u \in plugged
             THEN /\ dev' = [dev EXCEPT ![b] = u]
                  /\ live' = live \cup {b}
                  /\ shared' = IF \E a \in live : dev[a] = u THEN shared \cup {u} ELSE shared
                  /\ stage' = "read"
                  /\ UNCHANGED <<todo, created>>
             ELSE Refreshed /\ UNCHANGED handles
    /\ UNCHANGED <<usb, shows, poll, last, paint, pending, touched, raced, strayed>>

(* set_color_raw(last_red_, last_green_, last_blue_): the arguments are    *)
(* evaluated (ReadLast) before the unit is written (WriteLast).            *)
ReadLast ==
    /\ todo # <<>> /\ stage = "read"
    /\ paint' = last[Head(todo)]
    /\ stage' = "write"
    /\ raced' = raced \ {Head(todo)}
    /\ UNCHANGED <<usb, shows, poll, created, handles, last, todo, pending, touched,
                   strayed>>

(* A write through a handle that is not good has no effect. *)
Shown(b, colour) == IF b \in live THEN [shows EXCEPT ![dev[b]] = colour] ELSE shows

(* Mutant of Repainted: a unit that is opened again is not painted. *)
RepaintedNever(b) == shows' = shows

(* The colour of a blink that was never set is -1, which is converted to   *)
(* an unsigned byte: the unit may then show any colour.                    *)
Repainted(b) ==
    \/ paint # Unset /\ shows' = Shown(b, paint)
    \/ paint = Unset /\ \E colour \in Colours : shows' = Shown(b, colour)

WriteLast ==
    /\ todo # <<>> /\ stage = "write"
    /\ Repainted(Head(todo))
    /\ paint' = Unset
    /\ strayed' = strayed \ {dev[b] : b \in live \cap {Head(todo)}}
    /\ Refreshed
    /\ UNCHANGED <<usb, poll, handles, last, pending, touched, raced>>

-----------------------------------------------------------------------------
(* Fast thread: set_color.  (It takes colours within range only, after     *)
(* clamping, and returns early if nothing changes.)  If the slow thread    *)
(* has just read the old channels, it may have read some of the new ones   *)
(* among them: what it is about to paint is then any mixture.              *)

Racing(b) == todo # <<>> /\ Head(todo) = b /\ stage = "write"

SetColor ==
    \E b \in created, colour \in Colours :
        /\ pending = NoPending
        /\ colour # last[b]
        /\ last' = [last EXCEPT ![b] = colour]
        /\ pending' = [NoPending EXCEPT !.blink = b, !.colour = colour]
        /\ paint' \in {paint} \cup IF Racing(b) THEN Colours ELSE {}
        /\ raced' = IF Racing(b) THEN raced \cup {b} ELSE raced \ {b}
        /\ UNCHANGED <<usb, shows, poll, created, handles, todo, stage, touched, strayed>>

(* set_color_raw reads dev_, and then writes through what it has read.     *)
AimColor ==
    /\ pending # NoPending /\ ~ pending.aimed
    /\ pending' = [pending EXCEPT !.aimed = TRUE,
                                  !.unit = IF pending.blink \in live THEN dev[pending.blink]
                                             ELSE None]
    /\ UNCHANGED <<usb, shows, poll, created, handles, last, slow, touched, raced, strayed>>

WriteColor ==
    /\ pending.aimed
    /\ LET u == pending.unit
           current == pending.blink \in live /\ dev[pending.blink] = u
       IN  /\ shows' = IF u = None THEN shows ELSE [shows EXCEPT ![u] = pending.colour]
           /\ strayed' = IF u = None \/ current THEN strayed \ {u} ELSE strayed \cup {u}
    /\ pending' = NoPending
    /\ UNCHANGED <<usb, poll, created, handles, last, slow, touched, raced>>

-----------------------------------------------------------------------------

Next ==
    \/ Plug
    \/ Unplug
    \/ Poll
    \/ Release
    \/ Open
    \/ ReadLast
    \/ WriteLast
    \/ SetColor
    \/ AimColor
    \/ WriteColor

(* The timer is armed again by each of its runs, and both threads finish   *)
(* what they have begun.  Nothing makes the user plug in a unit or set a   *)
(* colour.                                                                 *)
Fairness ==
    /\ WF_vars(Poll) /\ WF_vars(Release) /\ WF_vars(Open)
    /\ WF_vars(ReadLast) /\ WF_vars(WriteLast)
    /\ WF_vars(AimColor) /\ WF_vars(WriteColor)

Spec == Init /\ [][Next]_vars

FairSpec == Spec /\ Fairness

-----------------------------------------------------------------------------
(* Properties                                                              *)

Idle == todo = <<>> /\ pending = NoPending

(* When neither thread is writing, the unit of a blink shows the colour    *)
(* that was set last, whatever was plugged and unplugged, with three       *)
(* exceptions: a colour that was set between the load and the write of a   *)
(* refresh; a unit that two blinks had open; and one that was written last *)
(* through a handle loaded before a refresh gave the unit to another.      *)
(* (Setting the same colour again does not help: set_color returns early.) *)
ColourShown ==
    Idle => \A b \in live :
                last[b] # Unset /\ b \notin raced /\ dev[b] \notin shared \cup strayed
                    => shows[dev[b]] = last[b]

(* After an enumeration and the refresh that follows it, if any, and until *)
(* the next unit comes or goes, the n-th blink has the n-th unit open: the *)
(* only changes that go unnoticed are those between two enumerations that  *)
(* find the same number.                                                   *)
HandlesCurrent ==
    todo = <<>> /\ ~ touched /\ ~ missed =>
        \A b \in Blinks : b <= count => b \in live /\ dev[b] = serials[b]

(* When a refresh is over, no two blinks have the same unit open, until an *)
(* enumeration finds fewer units and leaves serial numbers behind in the   *)
(* table.  (During a refresh they may: a unit whose place in the table has *)
(* changed is opened for one blink before the other lets go of it.)        *)
UnitsApart ==
    todo = <<>> /\ ~ dropped => \A a, b \in live : a # b => dev[a] # dev[b]

(* A unit that stays plugged in is eventually opened, unless the number of *)
(* units hides its coming.                                                 *)
UnitEventuallyOpen ==
    \A u \in Units :
        (u \in plugged) ~> (u \notin plugged \/ missed \/ \E b \in live : dev[b] = u)
=============================================================================

---------------------------- MODULE EventSource ----------------------------
(***************************************************************************)
(* What every agent of this repository owes to a piw::event_data_source_   *)
(* real_t it owns.  The class itself belongs to EigenD; this module states *)
(* the contract as eleap.cpp and audiocubes.cpp use it:                    *)
(*                                                                         *)
(*   - source_start(0, pathone_nb(id, t), buffer) opens an event stamped t *)
(*     and source_end(t) closes it; the two alternate;                     *)
(*   - values are added only while the event is open;                      *)
(*   - every stamp a source uses is later than all the stamps it has used. *)
(*                                                                         *)
(* A handler may make several calls at once, so that one step of an agent  *)
(* can close an event and open the next one (Reopen), or open and close an *)
(* event (Pulse).                                                          *)
(***************************************************************************)
EXTENDS Naturals

CONSTANT Sources         \* the event sources of one agent

VARIABLE src             \* per source: the last stamp used (time), the stamp
                         \* of the last start (since) and end (until)

(* An event is open when its source was started after it was last ended. *)
Open(w) == w.since > w.until

Idle == [time |-> 0, since |-> 0, until |-> 0]

SourceTypeOK == src \in [Sources -> [time : Nat, since : Nat, until : Nat]]

Init == src = [s \in Sources |-> Idle]

-----------------------------------------------------------------------------

(* Each step relates a source's record w to its next value n. *)

Opens(w, n) ==
    /\ ~ Open(w)
    /\ n.time > w.time
    /\ n.since = n.time
    /\ n.until = w.until

Emits(w, n) ==
    /\ Open(w)
    /\ n.time > w.time
    /\ n.since = w.since
    /\ n.until = w.until

Closes(w, n) ==
    /\ Open(w)
    /\ n.time > w.time
    /\ n.since = w.since
    /\ n.until = n.time

Reopens(w, n) ==
    /\ Open(w)
    /\ n.until > w.time
    /\ n.since > n.until
    /\ n.time = n.since

Pulses(w, n) ==
    /\ ~ Open(w)
    /\ n.since > w.time
    /\ n.until > n.since
    /\ n.time = n.until

Step(w, n) ==
    \/ Opens(w, n)
    \/ Emits(w, n)
    \/ Closes(w, n)
    \/ Reopens(w, n)
    \/ Pulses(w, n)

(* The sources of an agent are independent: a handler may move several. *)
Next == \A s \in Sources : src'[s] = src[s] \/ Step(src[s], src'[s])

Spec == Init /\ [][Next]_src
=============================================================================

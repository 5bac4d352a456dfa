-------------------------------- MODULE Leap --------------------------------
(***************************************************************************)
(* The Leap agent, src/leap/eleap.cpp: the hands of a Leap controller come *)
(* and go, and the agent gives each of its HANDS outputs to one of them.   *)
(*                                                                         *)
(* Three threads meet here.  The Leap SDK's listener thread runs onFrame   *)
(* and enqueues messages; the fast thread dequeues them one at a time; the *)
(* slow thread (Python) constructs the agent and then creates the hands,   *)
(* which the listener, registered by the constructor, does not wait for.   *)
(***************************************************************************)
EXTENDS Integers, Sequences, FiniteSets

CONSTANTS
    HANDS,       \* #define HANDS: the outputs of the agent
    Positions,   \* normalised palm positions, abstracted to a set
    Origin,      \* the position (0, 0, 0)
    Frames,      \* the frames a controller can deliver: sequences of hands
    IdMod,       \* an id keeps this much of itself in a message's time: 2^24
    MaxFrames,   \* bound: frames the controller delivers
    MaxBacklog,  \* bound: a frame is delivered only below this queue length
    MaxNow       \* bound: the clock of the fast thread

Hands == 1 .. HANDS

FrameHand == [id : Nat \ {0}, usable : BOOLEAN, pos : Positions]

(* Hands of one frame have different ids (Leap SDK). *)
ASSUME FramesAssumption ==
    \A f \in Frames : /\ f \in Seq(FrameHand)
                      /\ \A i, k \in 1 .. Len(f) : f[i].id = f[k].id => i = k
ASSUME HandsAssumption == HANDS \in Nat \ {0}
ASSUME IdModAssumption == IdMod \in Nat \ {0}
ASSUME OriginAssumption == Origin \in Positions
ASSUME BoundsAssumption == MaxFrames \in Nat /\ MaxBacklog \in Nat /\ MaxNow \in Nat

(* Every hand's id survives the trip through the message's time. *)
IdsFit == \A f \in Frames : \A i \in 1 .. Len(f) : f[i].id < IdMod

VARIABLES
    created,     \* the slots of hands_ that create_hand has filled
    leapId,      \* hand_t::leap_id_ per slot, 0 when the slot is free
    wire,        \* palm_wire_t per slot: its time_, last start and last end
    pos,         \* palm_wire_t's cur_x_, cur_y_, cur_z_ per slot
    queue,       \* messages from the listener thread to the fast thread
    frame,       \* the last valid frame the listener was called with
    sending,     \* the hand of frame that the listener's loop sends next
    frames,      \* how many frames have been delivered
    now,         \* piw::tsd_time()
    crashed      \* a null hands_[i] has been dereferenced

vars == <<created, leapId, wire, pos, queue, frame, sending, frames, now, crashed>>

Contract == INSTANCE EventSource WITH Sources <- Hands, src <- wire

IdsOf(f) == {f[i].id : i \in {k \in 1 .. Len(f) : f[k].usable}}

KnownMsg == [type : {"known"}, ids : Seq(Nat)]
PalmMsg == [type : {"palm"}, arg : Nat, pos : Positions]

TypeOK ==
    /\ created \subseteq Hands
    /\ leapId \in [Hands -> Nat]
    /\ wire \in [Hands -> [time : Nat, since : Nat, until : Nat]]
    /\ pos \in [Hands -> Positions]
    /\ queue \in Seq(KnownMsg \cup PalmMsg)
    /\ frame \in Seq(FrameHand)
    /\ sending \in Nat \ {0}
    /\ frames \in 0 .. MaxFrames
    /\ now \in 0 .. MaxNow
    /\ crashed \in BOOLEAN

Init ==
    /\ created = {}
    /\ leapId = [h \in Hands |-> 0]
    /\ wire = [h \in Hands |-> [time |-> 0, since |-> 0, until |-> 0]]
    /\ pos = [h \in Hands |-> Origin]
    /\ queue = <<>>
    /\ frame = <<>>
    /\ sending = 1
    /\ frames = 0
    /\ now = 0
    /\ crashed = FALSE

-----------------------------------------------------------------------------
(* Slow thread: the agent's Python constructor calls create_hand(1), then  *)
(* create_hand(2), ...                                                     *)

CreateHand ==
    \E h \in Hands :
        /\ ~ crashed
        /\ created = 1 .. h - 1
        /\ created' = created \cup {h}
        /\ UNCHANGED <<leapId, wire, pos, queue, frame, sending, frames, now, crashed>>

-----------------------------------------------------------------------------
(* Listener thread.  onFrame enqueues the ids of the frame's hands, with 0 *)
(* for one that is invalid or shows fewer than two fingers, and then one   *)
(* palm position per usable hand.  The fast thread may run in between.     *)

Known(f) == [type |-> "known",
             ids |-> [i \in 1 .. Len(f) |-> IF f[i].usable THEN f[i].id ELSE 0]]

(* Mutant of Palm: the id is cut to half of what the message can carry. *)
PalmNarrow(hand) == [type |-> "palm", arg |-> hand.id % (IdMod \div 2), pos |-> hand.pos]

(* The id is shifted by 8 into a 32 bit word and loses its high bits. *)
Palm(hand) == [type |-> "palm", arg |-> hand.id % IdMod, pos |-> hand.pos]

CallbackDone == sending > Len(frame)

OnFrame ==
    \E f \in Frames :
        /\ ~ crashed
        /\ CallbackDone
        /\ frames < MaxFrames /\ Len(queue) < MaxBacklog
        /\ frames' = frames + 1
        /\ frame' = f
        /\ sending' = 1
        /\ queue' = Append(queue, Known(f))
        /\ UNCHANGED <<created, leapId, wire, pos, now, crashed>>

SendPalm ==
    /\ ~ crashed
    /\ ~ CallbackDone
    /\ sending' = sending + 1
    /\ queue' = IF frame[sending].usable THEN Append(queue, Palm(frame[sending]))
                                         ELSE queue
    /\ UNCHANGED <<created, leapId, wire, pos, frame, frames, now, crashed>>

-----------------------------------------------------------------------------
(* Fast thread: thing_dequeue_fast.                                        *)

(* Mutant of Stamp: the clock alone, which two messages may share. *)
StampClock(w) == now

(* add_palm_position: time_ = max(time_ + 1, tsd_time()) *)
Stamp(w) == IF w.time + 1 > now THEN w.time + 1 ELSE now

Added(w) == [w EXCEPT !.time = Stamp(w)]

(* palm_wire_t::start *)
Started(w) == [w EXCEPT !.time = Stamp(w), !.since = Stamp(w)]

(* palm_wire_t::stop *)
Stopped(w) == [w EXCEPT !.time = Stamp(w) + 1, !.until = Stamp(w) + 1]

(* First loop: a slot whose hand is not among the known ids is freed. *)
IsKnown(ids, id) == id # 0 /\ \E i \in 1 .. Len(ids) : ids[i] = id

(* Mutants of Kept: no hand is ever dropped; every hand is.                *)
KeptAll(ids) == leapId
KeptNone(ids) == [h \in Hands |-> 0]

Kept(ids) == [h \in Hands |-> IF IsKnown(ids, leapId[h]) THEN leapId[h] ELSE 0]

(* Second loop: in the order of the message, each id that no slot has goes *)
(* to the first free slot; the loop ends when there is none.  So the n-th  *)
(* new id goes to the n-th free slot.                                      *)
NewUnchecked(ids, kept) == {i \in 1 .. Len(ids) : ids[i] # 0}   \* mutant of New

New(ids, kept) ==
    {i \in 1 .. Len(ids) : ids[i] # 0 /\ \A h \in Hands : kept[h] # ids[i]}

Free(kept) == {h \in Hands : kept[h] = 0}

Below(S, n) == {k \in S : k < n}

(* Mutant of Given: free slots are taken from the last one down. *)
GivenLast(new, free, h) ==
    {i \in new : /\ h \in free
                 /\ Cardinality(Below(new, i)) = Cardinality({g \in free : g > h})}

Given(new, free, h) ==
    {i \in new : h \in free /\ Cardinality(Below(new, i)) = Cardinality(Below(free, h))}

Assigned(ids, kept) ==
    LET new == New(ids, kept)
        free == Free(kept)
    IN  [h \in Hands |-> IF Given(new, free, h) = {} THEN kept[h]
                         ELSE ids[CHOOSE i \in Given(new, free, h) : TRUE]]

(* The second loop as it is written: the slots, and whether the loop has   *)
(* been left, after one id more; and the slots after all of them.          *)
Served(acc, id) ==
    LET free == {h \in Hands : acc.slots[h] = 0}
    IN  IF acc.left \/ id = 0 \/ \E h \in Hands : acc.slots[h] = id
          THEN acc
          ELSE IF free = {}
            THEN [acc EXCEPT !.left = TRUE]
            ELSE [acc EXCEPT !.slots[CHOOSE h \in free : \A g \in free : h <= g] = id]

Loop(slots, ids) ==
    LET after[n \in 0 .. Len(ids)] ==
            IF n = 0 THEN [slots |-> slots, left |-> FALSE]
                     ELSE Served(after[n - 1], ids[n])
    IN  after[Len(ids)].slots

RewiredNoStop(w, old, kept, new) ==                        \* mutant of Rewired
    IF new # kept THEN Started(w) ELSE w

(* The calls of stop and start that the two loops make on one wire. *)
Rewired(w, old, kept, new) ==
    LET w1 == IF old # kept THEN Stopped(w) ELSE w
    IN  IF new # kept THEN Started(w1) ELSE w1

RestedOnStart(p, old, new) == IF new \in {old, 0} THEN p ELSE Origin  \* mutant of Rested

(* Both calls begin by moving the wire to the origin. *)
Rested(p, old, new) == IF old = new THEN p ELSE Origin

HandleKnown(ids) ==
    LET kept == Kept(ids)
        new == Assigned(ids, kept)
    IN  /\ leapId' = new
        /\ wire' = [h \in Hands |-> Rewired(wire[h], leapId[h], kept[h], new[h])]
        /\ pos' = [h \in Hands |-> Rested(pos[h], leapId[h], new[h])]

(* The search for the hand does not stop at the first match: the last wins. *)
Target(arg, h) == leapId[h] = arg /\ \A g \in Hands : g > h => leapId[g] # arg

HandlePalm(arg, p) ==
    /\ wire' = [h \in Hands |-> IF Target(arg, h) THEN Added(wire[h]) ELSE wire[h]]
    /\ pos' = [h \in Hands |-> IF Target(arg, h) THEN p ELSE pos[h]]
    /\ UNCHANGED leapId

(* Both handlers visit every slot, created or not. *)
DequeueNull ==
    /\ ~ crashed
    /\ queue # <<>>
    /\ created # Hands
    /\ crashed' = TRUE
    /\ queue' = Tail(queue)
    /\ UNCHANGED <<created, leapId, wire, pos, frame, sending, frames, now>>

DequeueKnown ==
    /\ ~ crashed
    /\ queue # <<>> /\ Head(queue).type = "known"
    /\ created = Hands
    /\ HandleKnown(Head(queue).ids)
    /\ queue' = Tail(queue)
    /\ UNCHANGED <<created, frame, sending, frames, now, crashed>>

DequeuePalm ==
    /\ ~ crashed
    /\ queue # <<>> /\ Head(queue).type = "palm"
    /\ created = Hands
    /\ HandlePalm(Head(queue).arg, Head(queue).pos)
    /\ queue' = Tail(queue)
    /\ UNCHANGED <<created, frame, sending, frames, now, crashed>>

Tick ==
    /\ ~ crashed
    /\ now < MaxNow
    /\ now' = now + 1
    /\ UNCHANGED <<created, leapId, wire, pos, queue, frame, sending, frames, crashed>>

-----------------------------------------------------------------------------

Next ==
    \/ CreateHand
    \/ OnFrame
    \/ SendPalm
    \/ DequeueNull
    \/ DequeueKnown
    \/ DequeuePalm
    \/ Tick

(* A callback that has begun finishes, and the fast thread keeps draining  *)
(* its queue.  Nothing makes the controller deliver another frame.         *)
Fairness == WF_vars(SendPalm) /\ WF_vars(DequeueKnown) /\ WF_vars(DequeuePalm)

Spec == Init /\ [][Next]_vars

FairSpec == Spec /\ Fairness

-----------------------------------------------------------------------------
(* Properties                                                              *)

Tracked == {leapId[h] : h \in Hands} \ {0}

Quiet == ~ crashed /\ CallbackDone /\ queue = <<>>

(* No hand is ever given two of the agent's outputs, however the ids of    *)
(* one frame are shuffled or come back (thing_dequeue_fast, both loops).   *)
SlotsDistinct ==
    \A g, h \in Hands : g # h /\ leapId[g] # 0 => leapId[g] # leapId[h]

(* A slot's output event is open exactly while the slot has a hand: the    *)
(* start and stop calls and leap_id_ never get out of step; and no start   *)
(* or end is stamped ahead of the wire's own clock.                        *)
WireTracksSlot ==
    \A h \in Hands : /\ Contract!Open(wire[h]) <=> leapId[h] # 0
                     /\ wire[h].since <= wire[h].time
                     /\ wire[h].until <= wire[h].time

(* A free output rests at the origin: no position reaches an output that   *)
(* has no hand, and the position of the last hand does not linger there.   *)
IdleAtOrigin ==
    IdsFit => \A h \in Hands : leapId[h] = 0 => pos[h] = Origin

(* When every message of the last frame has been handled, the agent shows  *)
(* hands of that frame only, and as many of them as it has outputs for.    *)
TrackedExact ==
    Quiet /\ frames > 0 =>
        /\ Tracked \subseteq IdsOf(frame)
        /\ Cardinality(Tracked) =
             IF Cardinality(IdsOf(frame)) < HANDS THEN Cardinality(IdsOf(frame)) ELSE HANDS

(* ... and each of them at its own position in that frame, not at that of  *)
(* another hand or of an earlier frame.                                    *)
PositionsFresh ==
    Quiet /\ IdsFit =>
        \A h \in Hands : \A i \in 1 .. Len(frame) :
            leapId[h] = frame[i].id /\ frame[i].usable => pos[h] = frame[i].pos

(* A hand that stays in view keeps its output: handling a frame moves no   *)
(* hand from one output to another.                                        *)
HandsStay ==
    [][\A g, h \in Hands : leapId[g] # 0 /\ leapId'[h] = leapId[g] => g = h]_vars

(* The ids the outputs end up with are those of the second loop as it is   *)
(* written, whatever outputs were free and whatever order the hands come   *)
(* in: its closed form in Assigned is right.                               *)
LoopAgrees ==
    [][DequeueKnown => LET ids == Head(queue).ids
                       IN  leapId' = Loop(Kept(ids), ids)]_vars

(* Every output obeys the event source contract. *)
WireContract == Contract!Spec

(* A hand that has left the view loses its output, whatever is still in    *)
(* the queue, unless it comes back first.                                  *)
HandReleased ==
    \A id \in UNION {IdsOf(f) : f \in Frames} :
        (id \in Tracked /\ id \notin IdsOf(frame))
            ~> (id \notin Tracked \/ id \in IdsOf(frame))
=============================================================================

----------------------------- MODULE AudioCubes -----------------------------
(***************************************************************************)
(* The cubes of the AudioCubes agent, src/audiocubes/audiocubes.cpp: their *)
(* colours, which the agent sets, and their sensors, which it reads.  (The *)
(* topology tables that share the queue are in CubeTopology.)              *)
(*                                                                         *)
(* The cube library's thread runs libraryCallback, which paints a new cube *)
(* white and enqueues; the fast thread dequeues, and also runs the cfilter *)
(* that sets colours; the slow thread creates the audiocubes, while the    *)
(* library, given its callback by the constructor, is already calling.     *)
(***************************************************************************)
EXTENDS Integers, Sequences, FiniteSets

CONSTANTS
    Cubes,       \* the library's cube numbers, below #define CUBES (16)
    Creatable,   \* the cubes the agent creates: Agent.__init__ makes 15
    Faces,       \* face numbers, below #define FACES
    Channels,    \* red, green and blue
    Levels,      \* what a channel can be set to, within [0, 1]
    Full,        \* the level of each channel in white
    Readings,    \* sensor values
    Zero,        \* the value startup() gives a sensor output
    MaxEvents,   \* bound: cubes attached or detached, and sensor updates
    MaxBacklog   \* bound: the library calls back only below this queue length

ASSUME CubesAssumption == Cubes \subseteq 0 .. 15 /\ Creatable \subseteq Cubes
ASSUME FacesAssumption == Faces \subseteq 0 .. 3
ASSUME LevelsAssumption == Levels \subseteq Nat /\ Full \in Levels
ASSUME ChannelsAssumption == Channels # {}
ASSUME ReadingsAssumption == Zero \in Readings
ASSUME BoundsAssumption == MaxEvents \in Nat /\ MaxBacklog \in Nat

Unset == -1                                 \* last_red_(-1.f), ...

Colours == [Channels -> Levels]
White == [k \in Channels |-> Full]
Off == [k \in Channels |-> Unset]           \* a cube that nobody has painted

VARIABLES
    created,     \* the cubes with an audiocube_t: cubes_[c].isvalid()
    attached,    \* the cubes the library has
    shown,       \* the colour each attached cube shows
    last,        \* last_red_, last_green_, last_blue_ per cube
    callback,    \* what libraryCallback has still to do for CUBE_ADDED
    queue,       \* messages from the library's thread to the fast thread
    reading,     \* what the library reports of each sensor
    started,     \* the cubes whose wires have been started
    output,      \* the last value given to each sensor output
    inTime,      \* history: attached cubes that were created beforehand
    events       \* events of the library so far

vars == <<created, attached, shown, last, callback, queue, reading, started,
          output, inTime, events>>

NoCallback == [step |-> "none"]

AddedMsg == [type : {"added"}, cube : Cubes]
SensorMsg == [type : {"sensor"}, time : 0 .. 255, value : Readings]
Callbacks == [step : {"paint", "enqueue"}, cube : Cubes]

TypeOK ==
    /\ created \subseteq Creatable
    /\ attached \subseteq Cubes
    /\ shown \in [Cubes -> Colours \cup {Off}]
    /\ last \in [Cubes -> Colours \cup {Off}]
    /\ callback \in {NoCallback} \cup Callbacks
    /\ queue \in Seq(AddedMsg \cup SensorMsg)
    /\ reading \in [Cubes \X Faces -> Readings]
    /\ started \subseteq created
    /\ output \in [Cubes \X Faces -> Readings]
    /\ inTime \subseteq attached
    /\ events \in 0 .. MaxEvents

Init ==
    /\ created = {}
    /\ attached = {}
    /\ shown = [c \in Cubes |-> Off]
    /\ last = [c \in Cubes |-> Off]
    /\ callback = NoCallback
    /\ queue = <<>>
    /\ reading = [x \in Cubes \X Faces |-> Zero]
    /\ started = {}
    /\ output = [x \in Cubes \X Faces |-> Zero]
    /\ inTime = {}
    /\ events = 0

-----------------------------------------------------------------------------
(* Slow thread *)

Create ==
    \E c \in Creatable \ created :
        /\ created' = created \cup {c}
        /\ UNCHANGED <<attached, shown, last, callback, queue, reading, started,
                       output, inTime, events>>

-----------------------------------------------------------------------------
(* The library and its callback.  A sensor of a new cube starts at Zero.   *)

MayCallBack == events < MaxEvents /\ callback = NoCallback /\ Len(queue) < MaxBacklog

Attach ==
    \E c \in Cubes \ attached :
        /\ MayCallBack
        /\ events' = events + 1
        /\ attached' = attached \cup {c}
        /\ shown' = [shown EXCEPT ![c] = Off]
        /\ reading' = [x \in Cubes \X Faces |-> IF x[1] = c THEN Zero ELSE reading[x]]
        /\ callback' = [step |-> "paint", cube |-> c]
        /\ inTime' = inTime \cup ({c} \cap created)
        /\ UNCHANGED <<created, last, queue, started, output>>

(* CUBE_EVENT_CUBE_REMOVED is not handled. *)
Detach ==
    \E c \in attached :
        /\ events < MaxEvents
        /\ events' = events + 1
        /\ attached' = attached \ {c}
        /\ inTime' = inTime \ {c}
        /\ UNCHANGED <<created, shown, last, callback, queue, reading, started, output>>

(* CubeSetColor does nothing for a cube that is gone. *)
Shows(c, colour) == IF c \in attached THEN [shown EXCEPT ![c] = colour] ELSE shown

PaintWhite ==
    /\ callback.step = "paint"
    /\ shown' = Shows(callback.cube, White)
    /\ callback' = [callback EXCEPT !.step = "enqueue"]
    /\ UNCHANGED <<created, attached, last, queue, reading, started, output,
                   inTime, events>>

EnqueueAdded ==
    /\ callback.step = "enqueue"
    /\ queue' = Append(queue, [type |-> "added", cube |-> callback.cube])
    /\ callback' = NoCallback
    /\ UNCHANGED <<created, attached, shown, last, reading, started, output,
                   inTime, events>>

(* Mutant of Encoded: the face overlaps the cube. *)
EncodedNarrow(c, f) == c * 2 + f

(* (numCube & 0xf) << 4 | (param & 0xf) *)
Encoded(c, f) == c * 16 + f

SensorUpdate ==
    \E c \in attached, f \in Faces, v \in Readings :
        /\ MayCallBack
        /\ events' = events + 1
        /\ reading' = [reading EXCEPT ![<<c, f>>] = v]
        /\ queue' = Append(queue, [type |-> "sensor", time |-> Encoded(c, f), value |-> v])
        /\ UNCHANGED <<created, attached, shown, last, callback, started, output, inTime>>

-----------------------------------------------------------------------------
(* Fast thread: thing_dequeue_fast. *)

(* Mutant of Refreshed: a cube that is added again stays white. *)
RefreshedNever(c) == shown

(* refresh_color *)
Refreshed(c) == IF last[c] = Off THEN shown ELSE Shows(c, last[c])

(* Mutant of Startup: it ends the events that are open. *)
StartupToggle(c) ==
    /\ started' = IF c \in started THEN started \ {c} ELSE started \cup {c}
    /\ output' = [x \in Cubes \X Faces |-> IF x[1] = c THEN Zero ELSE output[x]]

(* startup of the four wires.  It does not end an event that is open. *)
Startup(c) ==
    /\ started' = started \cup {c}
    /\ output' = [x \in Cubes \X Faces |-> IF x[1] = c THEN Zero ELSE output[x]]

DequeueAdded ==
    /\ queue # <<>> /\ Head(queue).type = "added"
    /\ LET c == Head(queue).cube
       IN  IF c \in created
             THEN Startup(c) /\ shown' = Refreshed(c)
             ELSE UNCHANGED <<started, output, shown>>
    /\ queue' = Tail(queue)
    /\ UNCHANGED <<created, attached, last, callback, reading, inTime, events>>

DequeueSensor ==
    /\ queue # <<>> /\ Head(queue).type = "sensor"
    /\ LET c == Head(queue).time \div 16
           f == Head(queue).time % 16
       IN  output' = IF c \in created /\ f \in Faces
                       THEN [output EXCEPT ![<<c, f>>] = Head(queue).value]
                       ELSE output
    /\ queue' = Tail(queue)
    /\ UNCHANGED <<created, attached, shown, last, callback, reading, started,
                   inTime, events>>

-----------------------------------------------------------------------------
(* Fast thread: func_t::process.  The channels with a new value replace    *)
(* the last ones, and set_color takes the result only if it is in range.   *)

Settable(colour) == \A k \in Channels : colour[k] >= 0

Wanted(c, new) == [k \in Channels |-> IF k \in DOMAIN new THEN new[k] ELSE last[c][k]]

(* Mutant of Painted: the cube is written before the colour is stored. *)
PaintedLate(c, colour) == Shows(c, last[c])

(* set_color_raw *)
Painted(c, colour) == Shows(c, colour)

NewValues == UNION {[ks -> Levels] : ks \in (SUBSET Channels) \ {{}}}

Process ==
    \E c \in created, new \in NewValues :
        LET colour == Wanted(c, new)
        IN  /\ Settable(colour)
            /\ colour # last[c]
            /\ last' = [last EXCEPT ![c] = colour]
            /\ shown' = Painted(c, colour)
            /\ UNCHANGED <<created, attached, callback, queue, reading, started,
                           output, inTime, events>>

-----------------------------------------------------------------------------

Next ==
    \/ Create
    \/ Attach
    \/ Detach
    \/ PaintWhite
    \/ EnqueueAdded
    \/ SensorUpdate
    \/ DequeueAdded
    \/ DequeueSensor
    \/ Process

(* A callback that has begun finishes, and the fast thread keeps draining. *)
Fairness == WF_vars(PaintWhite) /\ WF_vars(EnqueueAdded)
            /\ WF_vars(DequeueAdded) /\ WF_vars(DequeueSensor)

Spec == Init /\ [][Next]_vars

FairSpec == Spec /\ Fairness

-----------------------------------------------------------------------------
(* Properties                                                              *)

(* The cube is being added: painted white, and the agent has yet to hear.  *)
BeingAdded(c) ==
    \/ callback # NoCallback /\ callback.cube = c
    \/ \E i \in 1 .. Len(queue) : queue[i].type = "added" /\ queue[i].cube = c

(* An attached cube shows the colour it was last given, however the white  *)
(* of libraryCallback, a new colour and the refresh race; only a cube that *)
(* the agent has not heard of yet may show another colour.                 *)
ColourShown ==
    \A c \in created \cap attached : last[c] # Off /\ ~ BeingAdded(c) => shown[c] = last[c]

(* When all messages have been handled, the outputs of a cube show its     *)
(* present readings: startup's zero never overtakes a reading.             *)
ReadingsShown ==
    queue = <<>> /\ callback = NoCallback =>
        \A c \in started \cap attached : \A f \in Faces : output[<<c, f>>] = reading[<<c, f>>]

(* A cube that was created before it was attached has running outputs once *)
(* the agent has heard of it; the others may stay mute until re-attached.  *)
OutputsStarted ==
    \A c \in inTime : ~ BeingAdded(c) => c \in started

(* The colour of a cube that stays attached is eventually shown. *)
ColourEventuallyShown ==
    \A c \in Creatable :
        (c \in attached /\ last[c] # Off)
            ~> (c \notin attached \/ shown[c] = last[c])
=============================================================================

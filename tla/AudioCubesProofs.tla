-------------------------- MODULE AudioCubesProofs --------------------------
(***************************************************************************)
(* Theorems about the AudioCubes agent: about its colours and sensors, for *)
(* any cubes, colours, sensor values and bounds, and then about its        *)
(* topology, for any faces and any tables.                                 *)
(***************************************************************************)
EXTENDS AudioCubes, CubeTopology, Ranks, TLAPS

Messages == AddedMsg \cup SensorMsg

(* Only a created cube can have been given a colour, and a cube that was   *)
(* created before it was attached is both.                                 *)
CreatedFirst ==
    /\ \A c \in Cubes : last[c] # Off => c \in created
    /\ inTime \subseteq created \cap attached

IInv == TypeOK /\ CreatedFirst /\ ColourShown /\ OutputsStarted

(* The messages that set an output, and to what.                           *)
Concerns(m, c, f) ==
    \/ m.type = "added" /\ m.cube = c
    \/ m.type = "sensor" /\ m.time = Encoded(c, f)

Says(m) == IF m.type = "added" THEN Zero ELSE m.value

LastOf(c, f, n) ==
    Concerns(queue[n], c, f) /\ \A k \in n + 1 .. Len(queue) : ~ Concerns(queue[k], c, f)

Silent(c, f) == \A k \in 1 .. Len(queue) : ~ Concerns(queue[k], c, f)

CalledBack(c) == callback # NoCallback /\ callback.cube = c

(* A sensor's present reading is what the last message about it says; when *)
(* there is none, it is the output.                                        *)
ReadingsFollowed ==
    \A c \in attached : \A f \in Faces :
        IF CalledBack(c)
          THEN reading[<<c, f>>] = Zero
          ELSE \/ \E n \in 1 .. Len(queue) :
                    LastOf(c, f, n) /\ Says(queue[n]) = reading[<<c, f>>]
               \/ /\ Silent(c, f)
                  /\ c \in started => output[<<c, f>>] = reading[<<c, f>>]

-----------------------------------------------------------------------------

LEMMA ColourFacts ==
    /\ White \in Colours
    /\ Off \notin Colours
<1>1. White \in Colours
  BY LevelsAssumption DEF White, Colours
<1>2. Off \notin Colours
  <2> SUFFICES ASSUME Off \in Colours PROVE FALSE
    OBVIOUS
  <2>1. PICK k : k \in Channels
    BY ChannelsAssumption
  <2>2. Off[k] = -1 /\ Off[k] \in Levels
    BY <2>1 DEF Off, Unset, Colours
  <2> QED
    BY <2>2, LevelsAssumption
<1> QED
  BY <1>1, <1>2

(* Appending keeps the queue's type and its messages. *)
LEMMA AppendFacts ==
    ASSUME TypeOK, NEW m \in Messages, queue' = Append(queue, m)
    PROVE  /\ queue' \in Seq(Messages)
           /\ \E i \in 1 .. Len(queue') : queue'[i] = m
           /\ \A i \in 1 .. Len(queue) : i \in 1 .. Len(queue') /\ queue'[i] = queue[i]
<1>1. queue \in Seq(Messages)
  BY DEF TypeOK, Messages
<1>2. /\ queue' \in Seq(Messages)
      /\ Len(queue') = Len(queue) + 1
      /\ Len(queue) \in Nat
      /\ queue'[Len(queue) + 1] = m
      /\ \A i \in 1 .. Len(queue) : queue'[i] = queue[i]
  BY <1>1
<1> QED
  BY <1>2

(* Dequeuing keeps the queue's type and every message but the first. *)
LEMMA TailFacts ==
    ASSUME TypeOK, queue # <<>>, queue' = Tail(queue)
    PROVE  /\ queue' \in Seq(Messages)
           /\ Head(queue) \in Messages
           /\ \A i \in 1 .. Len(queue) :
                 queue[i] = Head(queue) \/ \E k \in 1 .. Len(queue') : queue'[k] = queue[i]
<1>1. queue \in Seq(Messages) /\ Len(queue) > 0 /\ Len(queue) \in Nat
  BY DEF TypeOK, Messages
<1>2. queue' \in Seq(Messages) /\ Head(queue) \in Messages /\ Head(queue) = queue[1]
  BY <1>1
<1>3. /\ Len(queue') = Len(queue) - 1
      /\ \A k \in 1 .. Len(queue') : queue'[k] = queue[k + 1]
  BY <1>1
<1>4. ASSUME NEW i \in 1 .. Len(queue), i # 1
      PROVE  \E k \in 1 .. Len(queue') : queue'[k] = queue[i]
  <2>1. i - 1 \in 1 .. Len(queue') /\ queue'[i - 1] = queue[i]
    BY <1>1, <1>3, <1>4
  <2> QED
    BY <2>1
<1> QED
  BY <1>2, <1>4

(* A cube whose ADDED is in the queue is still being added. *)
LEMMA QueuedIsAdded ==
    ASSUME NEW c, NEW i \in 1 .. Len(queue), queue[i].type = "added", queue[i].cube = c
    PROVE  BeingAdded(c)
  BY DEF BeingAdded

LEMMA InitIInv == Init => IInv
<1> SUFFICES ASSUME Init PROVE IInv
  OBVIOUS
<1>1. TypeOK
  <2>1. /\ created \subseteq Creatable /\ attached \subseteq Cubes
        /\ started \subseteq created /\ inTime \subseteq attached
    BY DEF Init
  <2>2. shown \in [Cubes -> Colours \cup {Off}] /\ last \in [Cubes -> Colours \cup {Off}]
    BY DEF Init
  <2>3. callback \in {NoCallback} \cup Callbacks
    BY DEF Init
  <2>4. queue \in Seq(Messages)
    BY DEF Init
  <2>5. /\ reading \in [Cubes \X Faces -> Readings]
        /\ output \in [Cubes \X Faces -> Readings]
    BY ReadingsAssumption DEF Init
  <2>6. events \in 0 .. MaxEvents
    BY BoundsAssumption DEF Init
  <2> QED
    BY <2>1, <2>2, <2>3, <2>4, <2>5, <2>6 DEF TypeOK, Messages
<1>2. CreatedFirst /\ ColourShown /\ OutputsStarted
  BY DEF Init, CreatedFirst, ColourShown, OutputsStarted
<1> QED
  BY <1>1, <1>2 DEF IInv

-----------------------------------------------------------------------------
(* One lemma per action that touches the colours, the wires or the queue.  *)

(* CubeSetColor keeps the type and touches at most one cube. *)
LEMMA ShowsFacts ==
    ASSUME TypeOK, NEW c \in Cubes, NEW colour \in Colours
    PROVE  /\ Shows(c, colour) \in [Cubes -> Colours \cup {Off}]
           /\ \A d \in Cubes : d # c => Shows(c, colour)[d] = shown[d]
           /\ c \in attached => Shows(c, colour)[c] = colour
  BY DEF TypeOK, Shows

LEMMA CreateStep == IInv /\ Create => IInv'
<1> SUFFICES ASSUME IInv, Create PROVE IInv'
  OBVIOUS
<1>1. PICK c \in Creatable \ created :
         /\ created' = created \cup {c}
         /\ UNCHANGED <<attached, shown, last, callback, queue, reading, started,
                        output, inTime, events>>
  BY DEF Create
<1>2. TypeOK'
  BY <1>1 DEF IInv, TypeOK
<1>3. c \in Cubes /\ last[c] = Off
  BY <1>1, CubesAssumption DEF IInv, CreatedFirst
<1>4. \A d : BeingAdded(d)' <=> BeingAdded(d)
  BY <1>1 DEF BeingAdded
<1>5. CreatedFirst' /\ ColourShown' /\ OutputsStarted'
  BY <1>1, <1>3, <1>4 DEF IInv, CreatedFirst, ColourShown, OutputsStarted
<1> QED
  BY <1>2, <1>5 DEF IInv

LEMMA AttachStep == IInv /\ Attach => IInv'
<1> SUFFICES ASSUME IInv, Attach PROVE IInv'
  OBVIOUS
<1>1. PICK c \in Cubes \ attached :
         /\ MayCallBack
         /\ events' = events + 1
         /\ attached' = attached \cup {c}
         /\ shown' = [shown EXCEPT ![c] = Off]
         /\ reading' = [x \in Cubes \X Faces |-> IF x[1] = c THEN Zero ELSE reading[x]]
         /\ callback' = [step |-> "paint", cube |-> c]
         /\ inTime' = inTime \cup ({c} \cap created)
         /\ UNCHANGED <<created, last, queue, started, output>>
  BY DEF Attach
<1>2. TypeOK'
  <2>1. shown' \in [Cubes -> Colours \cup {Off}] /\ events' \in 0 .. MaxEvents
    BY <1>1, BoundsAssumption DEF IInv, TypeOK, MayCallBack
  <2>2. reading' \in [Cubes \X Faces -> Readings]
    BY <1>1, ReadingsAssumption DEF IInv, TypeOK
  <2>3. callback' \in Callbacks
    BY <1>1 DEF Callbacks
  <2>4. /\ created' \subseteq Creatable /\ attached' \subseteq Cubes
        /\ started' \subseteq created' /\ inTime' \subseteq attached'
    BY <1>1 DEF IInv, TypeOK
  <2> QED
    BY <1>1, <2>1, <2>2, <2>3, <2>4 DEF IInv, TypeOK
<1>3. BeingAdded(c)' /\ \A d : BeingAdded(d) => BeingAdded(d)'
  BY <1>1 DEF BeingAdded, MayCallBack, NoCallback
<1>4. CreatedFirst'
  BY <1>1 DEF IInv, CreatedFirst
<1>5. ColourShown'
  <2>1. \A d \in Cubes : d # c => shown'[d] = shown[d]
    BY <1>1 DEF IInv, TypeOK
  <2>2. created \subseteq Cubes
    BY CubesAssumption DEF IInv, TypeOK
  <2> QED
    BY <1>1, <1>3, <2>1, <2>2 DEF IInv, ColourShown
<1>6. OutputsStarted'
  BY <1>1, <1>3 DEF IInv, OutputsStarted
<1> QED
  BY <1>2, <1>4, <1>5, <1>6 DEF IInv

LEMMA DetachStep == IInv /\ Detach => IInv'
<1> SUFFICES ASSUME IInv, Detach PROVE IInv'
  OBVIOUS
<1>1. PICK c \in attached :
         /\ events < MaxEvents
         /\ events' = events + 1
         /\ attached' = attached \ {c}
         /\ inTime' = inTime \ {c}
         /\ UNCHANGED <<created, shown, last, callback, queue, reading, started, output>>
  BY DEF Detach
<1>2. TypeOK'
  <2>1. events' \in 0 .. MaxEvents
    BY <1>1, BoundsAssumption DEF IInv, TypeOK
  <2> QED
    BY <1>1, <2>1 DEF IInv, TypeOK
<1>3. \A d : BeingAdded(d)' <=> BeingAdded(d)
  BY <1>1 DEF BeingAdded
<1>4. CreatedFirst' /\ ColourShown' /\ OutputsStarted'
  BY <1>1, <1>3 DEF IInv, CreatedFirst, ColourShown, OutputsStarted
<1> QED
  BY <1>2, <1>4 DEF IInv

LEMMA PaintWhiteStep == IInv /\ PaintWhite => IInv'
<1> SUFFICES ASSUME IInv, PaintWhite PROVE IInv'
  OBVIOUS
<1> DEFINE c == callback.cube
<1>1. /\ callback \in Callbacks /\ c \in Cubes /\ callback # NoCallback
      /\ shown' = Shows(c, White)
      /\ callback' = [callback EXCEPT !.step = "enqueue"]
      /\ UNCHANGED <<created, attached, last, queue, reading, started, output, inTime, events>>
  BY DEF PaintWhite, IInv, TypeOK, NoCallback, Callbacks
<1>2. callback' \in Callbacks /\ callback'.cube = c /\ callback' # NoCallback
  BY <1>1 DEF Callbacks, NoCallback
<1>3. /\ shown' \in [Cubes -> Colours \cup {Off}]
      /\ \A d \in Cubes : d # c => shown'[d] = shown[d]
  BY <1>1, ShowsFacts, ColourFacts DEF IInv
<1>4. TypeOK'
  BY <1>1, <1>2, <1>3 DEF IInv, TypeOK
<1>5. BeingAdded(c)' /\ \A d : BeingAdded(d) => BeingAdded(d)'
  BY <1>1, <1>2 DEF BeingAdded
<1>6. CreatedFirst'
  BY <1>1 DEF IInv, CreatedFirst
<1>7. ColourShown'
  <2>1. created \subseteq Cubes
    BY CubesAssumption DEF IInv, TypeOK
  <2> QED
    BY <1>1, <1>3, <1>5, <2>1 DEF IInv, ColourShown
<1>8. OutputsStarted'
  BY <1>1, <1>5 DEF IInv, OutputsStarted
<1> QED
  BY <1>4, <1>6, <1>7, <1>8 DEF IInv

LEMMA EnqueueAddedStep == IInv /\ EnqueueAdded => IInv'
<1> SUFFICES ASSUME IInv, EnqueueAdded PROVE IInv'
  OBVIOUS
<1> DEFINE m == [type |-> "added", cube |-> callback.cube]
<1>1. /\ callback \in Callbacks /\ callback.cube \in Cubes
      /\ queue' = Append(queue, m)
      /\ callback' = NoCallback
      /\ UNCHANGED <<created, attached, shown, last, reading, started, output, inTime, events>>
  BY DEF EnqueueAdded, IInv, TypeOK, NoCallback, Callbacks
<1>2. m \in Messages
  BY <1>1 DEF Messages, AddedMsg
<1>3. /\ queue' \in Seq(Messages)
      /\ \E i \in 1 .. Len(queue') : queue'[i] = m
      /\ \A i \in 1 .. Len(queue) : i \in 1 .. Len(queue') /\ queue'[i] = queue[i]
  BY <1>1, <1>2, AppendFacts DEF IInv
<1>4. TypeOK'
  BY <1>1, <1>3 DEF IInv, TypeOK, Messages
<1>5. \A d : BeingAdded(d) => BeingAdded(d)'
  BY <1>3 DEF BeingAdded
<1>6. CreatedFirst' /\ ColourShown' /\ OutputsStarted'
  BY <1>1, <1>5 DEF IInv, CreatedFirst, ColourShown, OutputsStarted
<1> QED
  BY <1>4, <1>6 DEF IInv

LEMMA SensorUpdateStep == IInv /\ SensorUpdate => IInv'
<1> SUFFICES ASSUME IInv, SensorUpdate PROVE IInv'
  OBVIOUS
<1>1. PICK c \in attached, f \in Faces, v \in Readings :
         /\ MayCallBack
         /\ events' = events + 1
         /\ reading' = [reading EXCEPT ![<<c, f>>] = v]
         /\ queue' = Append(queue, [type |-> "sensor", time |-> Encoded(c, f), value |-> v])
         /\ UNCHANGED <<created, attached, shown, last, callback, started, output, inTime>>
  BY DEF SensorUpdate
<1> DEFINE m == [type |-> "sensor", time |-> Encoded(c, f), value |-> v]
<1>2. Encoded(c, f) \in 0 .. 255
  <2>1. c \in 0 .. 15 /\ f \in 0 .. 3
    BY CubesAssumption, FacesAssumption DEF IInv, TypeOK
  <2> QED
    BY <2>1 DEF Encoded
<1>3. m \in Messages
  BY <1>2 DEF Messages, SensorMsg
<1>4. /\ queue' \in Seq(Messages)
      /\ \A i \in 1 .. Len(queue) : i \in 1 .. Len(queue') /\ queue'[i] = queue[i]
  BY <1>1, <1>3, AppendFacts DEF IInv
<1>5. TypeOK'
  <2>1. reading' \in [Cubes \X Faces -> Readings] /\ events' \in 0 .. MaxEvents
    BY <1>1, BoundsAssumption DEF IInv, TypeOK, MayCallBack
  <2> QED
    BY <1>1, <1>4, <2>1 DEF IInv, TypeOK, Messages
<1>6. \A d : BeingAdded(d) => BeingAdded(d)'
  BY <1>1, <1>4 DEF BeingAdded
<1>7. CreatedFirst' /\ ColourShown' /\ OutputsStarted'
  BY <1>1, <1>6 DEF IInv, CreatedFirst, ColourShown, OutputsStarted
<1> QED
  BY <1>5, <1>7 DEF IInv

(* A cube is no longer being added only if its ADDED was the head. *)
LEMMA DequeueAddedStep == IInv /\ DequeueAdded => IInv'
<1> SUFFICES ASSUME IInv, DequeueAdded PROVE IInv'
  OBVIOUS
<1> DEFINE c == Head(queue).cube
<1>1. /\ queue # <<>> /\ Head(queue).type = "added" /\ queue' = Tail(queue)
      /\ IF c \in created THEN Startup(c) /\ shown' = Refreshed(c)
                          ELSE UNCHANGED <<started, output, shown>>
      /\ UNCHANGED <<created, attached, last, callback, reading, inTime, events>>
  BY DEF DequeueAdded
<1>2. /\ queue' \in Seq(Messages)
      /\ Head(queue) \in Messages
      /\ \A i \in 1 .. Len(queue) :
            queue[i] = Head(queue) \/ \E k \in 1 .. Len(queue') : queue'[k] = queue[i]
  BY <1>1, TailFacts DEF IInv
<1>3. c \in Cubes
  BY <1>1, <1>2 DEF Messages, AddedMsg, SensorMsg
<1>4. \A d : d # c /\ BeingAdded(d) => BeingAdded(d)'
  BY <1>1, <1>2 DEF BeingAdded
<1>5. started' = IF c \in created THEN started \cup {c} ELSE started
  BY <1>1 DEF Startup
<1>6. /\ shown' \in [Cubes -> Colours \cup {Off}]
      /\ \A d \in Cubes : d # c => shown'[d] = shown[d]
      /\ c \in created \cap attached /\ last[c] # Off => shown'[c] = last[c]
  <2>1. shown \in [Cubes -> Colours \cup {Off}] /\ last[c] \in Colours \cup {Off}
    BY <1>3 DEF IInv, TypeOK
  <2>2. CASE c \in created /\ last[c] # Off
    <3>1. last[c] \in Colours /\ shown' = Shows(c, last[c])
      BY <1>1, <2>1, <2>2 DEF Refreshed
    <3> QED
      BY <1>3, <2>2, <3>1, ShowsFacts DEF IInv
  <2>3. CASE ~ (c \in created /\ last[c] # Off)
    <3>1. shown' = shown
      BY <1>1, <2>3 DEF Refreshed
    <3> QED
      BY <2>1, <2>3, <3>1
  <2> QED
    BY <2>2, <2>3
<1>7. TypeOK'
  <2>1. output' \in [Cubes \X Faces -> Readings]
    BY <1>1, ReadingsAssumption DEF Startup, IInv, TypeOK
  <2>2. started' \subseteq created'
    BY <1>1, <1>5 DEF IInv, TypeOK
  <2> QED
    BY <1>1, <1>2, <1>6, <2>1, <2>2 DEF IInv, TypeOK, Messages
<1>8. CreatedFirst'
  BY <1>1 DEF IInv, CreatedFirst
<1>9. ColourShown'
  <2>1. created \subseteq Cubes
    BY CubesAssumption DEF IInv, TypeOK
  <2> QED
    BY <1>1, <1>4, <1>6, <2>1 DEF IInv, ColourShown
<1>10. OutputsStarted'
  BY <1>1, <1>4, <1>5 DEF IInv, OutputsStarted, CreatedFirst
<1> QED
  BY <1>7, <1>8, <1>9, <1>10 DEF IInv

LEMMA DequeueSensorStep == IInv /\ DequeueSensor => IInv'
<1> SUFFICES ASSUME IInv, DequeueSensor PROVE IInv'
  OBVIOUS
<1> DEFINE c == Head(queue).time \div 16
           f == Head(queue).time % 16
<1>1. /\ queue # <<>> /\ Head(queue).type = "sensor" /\ queue' = Tail(queue)
      /\ output' = IF c \in created /\ f \in Faces
                     THEN [output EXCEPT ![<<c, f>>] = Head(queue).value] ELSE output
      /\ UNCHANGED <<created, attached, shown, last, callback, reading, started,
                     inTime, events>>
  BY DEF DequeueSensor
<1>2. /\ queue' \in Seq(Messages)
      /\ Head(queue) \in Messages
      /\ \A i \in 1 .. Len(queue) :
            queue[i] = Head(queue) \/ \E k \in 1 .. Len(queue') : queue'[k] = queue[i]
  BY <1>1, TailFacts DEF IInv
<1>3. Head(queue).value \in Readings
  BY <1>1, <1>2 DEF Messages, AddedMsg, SensorMsg
<1>4. output' \in [Cubes \X Faces -> Readings]
  BY <1>1, <1>3 DEF IInv, TypeOK
<1>5. TypeOK'
  BY <1>1, <1>2, <1>4 DEF IInv, TypeOK, Messages
<1>6. \A d : BeingAdded(d) => BeingAdded(d)'
  BY <1>1, <1>2 DEF BeingAdded
<1>7. CreatedFirst' /\ ColourShown' /\ OutputsStarted'
  BY <1>1, <1>6 DEF IInv, CreatedFirst, ColourShown, OutputsStarted
<1> QED
  BY <1>5, <1>7 DEF IInv

LEMMA ProcessStep == IInv /\ Process => IInv'
<1> SUFFICES ASSUME IInv, Process PROVE IInv'
  OBVIOUS
<1>1. PICK c \in created, new \in NewValues :
         /\ Settable(Wanted(c, new))
         /\ last' = [last EXCEPT ![c] = Wanted(c, new)]
         /\ shown' = Painted(c, Wanted(c, new))
         /\ UNCHANGED <<created, attached, callback, queue, reading, started,
                        output, inTime, events>>
  BY DEF Process
<1> DEFINE colour == Wanted(c, new)
<1>2. c \in Cubes
  BY CubesAssumption DEF IInv, TypeOK
<1>3. colour \in Colours
  <2>1. PICK ks \in SUBSET Channels : new \in [ks -> Levels]
    BY DEF NewValues
  <2>2. last[c] \in Colours \/ last[c] = Off
    BY <1>2 DEF IInv, TypeOK
  <2>3. \A k \in Channels : colour[k] \in Levels \/ colour[k] = Unset
    BY <2>1, <2>2 DEF Wanted, Colours, Off
  <2>4. \A k \in Channels : colour[k] \in Levels
    BY <1>1, <2>3 DEF Settable, Unset
  <2> QED
    BY <2>4 DEF Wanted, Colours
<1>4. /\ shown' \in [Cubes -> Colours \cup {Off}]
      /\ \A d \in Cubes : d # c => shown'[d] = shown[d]
      /\ c \in attached => shown'[c] = colour
  BY <1>1, <1>2, <1>3, ShowsFacts DEF Painted, IInv
<1>5. /\ last' \in [Cubes -> Colours \cup {Off}]
      /\ last'[c] = colour
      /\ \A d \in Cubes : d # c => last'[d] = last[d]
  BY <1>1, <1>2, <1>3 DEF IInv, TypeOK
<1>6. TypeOK'
  BY <1>1, <1>4, <1>5 DEF IInv, TypeOK
<1>7. \A d : BeingAdded(d)' <=> BeingAdded(d)
  BY <1>1 DEF BeingAdded
<1>8. CreatedFirst' /\ OutputsStarted'
  BY <1>1, <1>5, <1>7 DEF IInv, CreatedFirst, OutputsStarted
<1>9. ColourShown'
  <2>1. created \subseteq Cubes
    BY CubesAssumption DEF IInv, TypeOK
  <2> QED
    BY <1>1, <1>4, <1>5, <1>7, <2>1 DEF IInv, ColourShown
<1> QED
  BY <1>6, <1>8, <1>9 DEF IInv

-----------------------------------------------------------------------------
(* Theorems. *)

(* The inductive invariant. *)
THEOREM Invariance == Spec => []IInv
<1>1. IInv /\ UNCHANGED vars => IInv'
  BY DEF vars, IInv, TypeOK, CreatedFirst, ColourShown, OutputsStarted, BeingAdded
<1>2. IInv /\ [Next]_vars => IInv'
  BY <1>1, CreateStep, AttachStep, DetachStep, PaintWhiteStep, EnqueueAddedStep,
     SensorUpdateStep, DequeueAddedStep, DequeueSensorStep, ProcessStep DEF Next
<1> QED
  BY InitIInv, <1>2, PTL DEF Spec

(* The variables keep their types: a cube's last colour is either wholly   *)
(* unset or wholly in range, because set_color rejects a mixture.          *)
THEOREM TypeCorrect == Spec => []TypeOK
  BY Invariance, PTL DEF IInv

(* An attached cube that the agent has heard of shows its last colour.     *)
THEOREM ColourAlwaysShown == Spec => []ColourShown
  BY Invariance, PTL DEF IInv

(* A cube created before it was attached gets running outputs.             *)
THEOREM OutputsAlwaysStarted == Spec => []OutputsStarted
  BY Invariance, PTL DEF IInv

-----------------------------------------------------------------------------
(* The readings. *)

(* The byte of a sensor's message names the cube and the face.             *)
LEMMA EncodedFacts ==
    ASSUME NEW c \in Cubes, NEW f \in Faces
    PROVE  /\ Encoded(c, f) \in 0 .. 255
           /\ \A d \in Cubes, g \in Faces : Encoded(d, g) = Encoded(c, f) => d = c /\ g = f
           /\ Encoded(c, f) \div 16 = c /\ Encoded(c, f) % 16 = f
<1>1. /\ Cubes \subseteq 0 .. 15 /\ Faces \subseteq 0 .. 3
  BY CubesAssumption, FacesAssumption
<1>2. \A d \in 0 .. 15, g \in 0 .. 3 :
         /\ d * 16 + g \in 0 .. 255
         /\ (d * 16 + g) \div 16 = d /\ (d * 16 + g) % 16 = g
  OBVIOUS
<1> QED
  BY <1>1, <1>2 DEF Encoded

(* The last message about a sensor, when one is appended, ...              *)
LEMMA LastAppended ==
    ASSUME TypeOK, NEW m \in Messages, queue' = Append(queue, m), NEW c, NEW f
    PROVE  /\ Concerns(m, c, f) =>
                \E n \in 1 .. Len(queue') : queue'[n] = m /\ LastOf(c, f, n)'
           /\ ~ Concerns(m, c, f) =>
                /\ \A n \in 1 .. Len(queue) : LastOf(c, f, n) =>
                      n \in 1 .. Len(queue') /\ queue'[n] = queue[n] /\ LastOf(c, f, n)'
                /\ Silent(c, f) => Silent(c, f)'
<1>1. queue \in Seq(Messages)
  BY DEF TypeOK, Messages
<1>2. /\ Len(queue) \in Nat /\ Len(queue') = Len(queue) + 1
      /\ queue'[Len(queue) + 1] = m
      /\ \A k \in 1 .. Len(queue) : queue'[k] = queue[k]
  BY <1>1
<1>3. \A k \in 1 .. Len(queue') : k \in 1 .. Len(queue) \/ k = Len(queue) + 1
  BY <1>2
<1>4. ASSUME Concerns(m, c, f)
      PROVE  \E n \in 1 .. Len(queue') : queue'[n] = m /\ LastOf(c, f, n)'
  <2>1. PICK n \in 1 .. Len(queue') : n = Len(queue) + 1
    BY <1>2
  <2>2. n + 1 .. Len(queue') = {}
    BY <1>2, <2>1
  <2>3. LastOf(c, f, n)'
    BY <1>2, <1>4, <2>1, <2>2 DEF LastOf
  <2> QED
    BY <1>2, <2>1, <2>3
<1>5. ASSUME ~ Concerns(m, c, f), NEW n \in 1 .. Len(queue), LastOf(c, f, n)
      PROVE  n \in 1 .. Len(queue') /\ queue'[n] = queue[n] /\ LastOf(c, f, n)'
  <2>1. \A k \in n + 1 .. Len(queue') : k \in n + 1 .. Len(queue) \/ k = Len(queue) + 1
    BY <1>2
  <2>2. \A k \in n + 1 .. Len(queue) : queue'[k] = queue[k]
    BY <1>2
  <2>3. n \in 1 .. Len(queue') /\ queue'[n] = queue[n]
    BY <1>2
  <2>4. ASSUME NEW k \in n + 1 .. Len(queue')
        PROVE  ~ Concerns(queue'[k], c, f)
    BY <1>2, <1>5, <2>1, <2>2 DEF LastOf
  <2> QED
    BY <1>5, <2>3, <2>4 DEF LastOf
<1>6. ASSUME ~ Concerns(m, c, f), Silent(c, f)
      PROVE  Silent(c, f)'
  <2>1. ASSUME NEW k \in 1 .. Len(queue')
        PROVE  ~ Concerns(queue'[k], c, f)
    BY <1>2, <1>3, <1>6 DEF Silent
  <2> QED
    BY <2>1 DEF Silent
<1> QED
  BY <1>4, <1>5, <1>6

(* ... and when one is taken.                                              *)
LEMMA LastTaken ==
    ASSUME TypeOK, queue # <<>>, queue' = Tail(queue), NEW c, NEW f
    PROVE  /\ \A n \in 1 .. Len(queue) : LastOf(c, f, n) =>
                \/ queue[n] = Head(queue) /\ Concerns(Head(queue), c, f) /\ Silent(c, f)'
                \/ \E k \in 1 .. Len(queue') : queue'[k] = queue[n] /\ LastOf(c, f, k)'
           /\ Silent(c, f) => Silent(c, f)' /\ ~ Concerns(Head(queue), c, f)
<1>1. queue \in Seq(Messages)
  BY DEF TypeOK, Messages
<1>2. /\ Len(queue) \in Nat \ {0} /\ Len(queue') = Len(queue) - 1
      /\ Head(queue) = queue[1]
      /\ \A k \in 1 .. Len(queue') : queue'[k] = queue[k + 1]
  BY <1>1
<1>3. ASSUME NEW n \in 1 .. Len(queue), LastOf(c, f, n)
      PROVE  \/ queue[n] = Head(queue) /\ Concerns(Head(queue), c, f) /\ Silent(c, f)'
             \/ \E k \in 1 .. Len(queue') : queue'[k] = queue[n] /\ LastOf(c, f, k)'
  <2>0. \A k \in 1 .. Len(queue') : n < k + 1 => k + 1 \in n + 1 .. Len(queue)
    BY <1>2
  <2>1. CASE n = 1
    <3>1. \A k \in 1 .. Len(queue') : ~ Concerns(queue'[k], c, f)
      BY <1>2, <1>3, <2>0, <2>1 DEF LastOf
    <3> QED
      BY <1>2, <1>3, <2>1, <3>1 DEF LastOf, Silent
  <2>2. CASE n # 1
    <3>1. PICK j \in 1 .. Len(queue') : j = n - 1
      BY <1>2, <2>2
    <3>2. queue'[j] = queue[n]
      BY <1>2, <3>1
    <3>3. ASSUME NEW k \in j + 1 .. Len(queue')
          PROVE  ~ Concerns(queue'[k], c, f)
      <4>1. k \in 1 .. Len(queue') /\ n < k + 1
        BY <1>2, <3>1
      <4> QED
        BY <1>2, <1>3, <2>0, <4>1 DEF LastOf
    <3> QED
      BY <1>3, <3>2, <3>3 DEF LastOf
  <2> QED
    BY <2>1, <2>2
<1>4. ASSUME Silent(c, f)
      PROVE  Silent(c, f)' /\ ~ Concerns(Head(queue), c, f)
  <2>1. \A k \in 1 .. Len(queue') : k + 1 \in 1 .. Len(queue)
    BY <1>2
  <2>2. \A k \in 1 .. Len(queue') : ~ Concerns(queue'[k], c, f)
    BY <1>2, <1>4, <2>1 DEF Silent
  <2>3. 1 \in 1 .. Len(queue)
    BY <1>2
  <2> QED
    BY <1>2, <1>4, <2>2, <2>3 DEF Silent
<1> QED
  BY <1>3, <1>4

(* The library's thread: a new reading, or a new cube's zero, is the last. *)
LEMMA FollowLibrary ==
    ASSUME IInv, ReadingsFollowed, EnqueueAdded \/ SensorUpdate
    PROVE  ReadingsFollowed'
<1> SUFFICES ASSUME NEW c \in attached', NEW f \in Faces
             PROVE  IF CalledBack(c)'
                      THEN reading'[<<c, f>>] = Zero
                      ELSE \/ \E n \in 1 .. Len(queue') :
                                LastOf(c, f, n)' /\ Says(queue'[n]) = reading'[<<c, f>>]
                           \/ /\ Silent(c, f)'
                              /\ c \in started' => output'[<<c, f>>] = reading'[<<c, f>>]
  BY DEF ReadingsFollowed
<1>1. /\ ~ CalledBack(c)' /\ attached' = attached /\ started' = started /\ output' = output
      /\ c \in Cubes
  BY DEF EnqueueAdded, SensorUpdate, MayCallBack, CalledBack, IInv, TypeOK
<1>2. /\ CalledBack(c) => reading[<<c, f>>] = Zero
      /\ ~ CalledBack(c) =>
            \/ \E n \in 1 .. Len(queue) : LastOf(c, f, n) /\ Says(queue[n]) = reading[<<c, f>>]
            \/ /\ Silent(c, f)
               /\ c \in started => output[<<c, f>>] = reading[<<c, f>>]
  BY <1>1 DEF ReadingsFollowed
<1>3. CASE EnqueueAdded
  <2> DEFINE m == [type |-> "added", cube |-> callback.cube]
  <2>1. /\ callback \in Callbacks /\ callback # NoCallback
        /\ queue' = Append(queue, m) /\ reading' = reading
    BY <1>3 DEF EnqueueAdded, IInv, TypeOK, NoCallback, Callbacks
  <2>2. m \in Messages /\ (Concerns(m, c, f) <=> CalledBack(c)) /\ Says(m) = Zero
    BY <2>1 DEF Messages, AddedMsg, Callbacks, Concerns, CalledBack, Says
  <2> HIDE DEF m
  <2>3. /\ Concerns(m, c, f) =>
             \E n \in 1 .. Len(queue') : queue'[n] = m /\ LastOf(c, f, n)'
        /\ ~ Concerns(m, c, f) =>
             /\ \A n \in 1 .. Len(queue) : LastOf(c, f, n) =>
                   n \in 1 .. Len(queue') /\ queue'[n] = queue[n] /\ LastOf(c, f, n)'
             /\ Silent(c, f) => Silent(c, f)'
    BY <2>1, <2>2, LastAppended DEF IInv
  <2> QED
    BY <1>1, <1>2, <2>1, <2>2, <2>3
<1>4. CASE SensorUpdate
  <2>1. PICK d \in attached, g \in Faces, v \in Readings :
           /\ callback = NoCallback
           /\ reading' = [reading EXCEPT ![<<d, g>>] = v]
           /\ queue' = Append(queue, [type |-> "sensor", time |-> Encoded(d, g), value |-> v])
    BY <1>4 DEF SensorUpdate, MayCallBack
  <2> DEFINE m == [type |-> "sensor", time |-> Encoded(d, g), value |-> v]
  <2>2. d \in Cubes /\ reading \in [Cubes \X Faces -> Readings]
    BY DEF IInv, TypeOK
  <2>3. m \in Messages
    BY <2>2, EncodedFacts DEF Messages, SensorMsg
  <2>4. (Concerns(m, c, f) <=> c = d /\ f = g) /\ Says(m) = v
    <3>1. Concerns(m, c, f) <=> Encoded(d, g) = Encoded(c, f)
      BY DEF Concerns
    <3> QED
      BY <1>1, <2>2, <3>1, EncodedFacts DEF Says
  <2>5. /\ c = d /\ f = g => reading'[<<c, f>>] = v
        /\ ~ (c = d /\ f = g) => reading'[<<c, f>>] = reading[<<c, f>>]
    BY <1>1, <2>1, <2>2
  <2>6. ~ CalledBack(c)
    BY <2>1 DEF CalledBack
  <2>7. queue' = Append(queue, m)
    BY <2>1
  <2> HIDE DEF m
  <2>8. /\ Concerns(m, c, f) =>
             \E n \in 1 .. Len(queue') : queue'[n] = m /\ LastOf(c, f, n)'
        /\ ~ Concerns(m, c, f) =>
             /\ \A n \in 1 .. Len(queue) : LastOf(c, f, n) =>
                   n \in 1 .. Len(queue') /\ queue'[n] = queue[n] /\ LastOf(c, f, n)'
             /\ Silent(c, f) => Silent(c, f)'
    BY <2>3, <2>7, LastAppended DEF IInv
  <2>9. CASE c = d /\ f = g
    BY <1>1, <2>4, <2>5, <2>8, <2>9
  <2>10. CASE ~ (c = d /\ f = g)
    BY <1>1, <1>2, <2>4, <2>5, <2>6, <2>8, <2>10
  <2> QED
    BY <2>9, <2>10
<1> QED
  BY <1>3, <1>4

(* The fast thread: the head sets the outputs that it concerns, and no     *)
(* other.                                                                  *)
LEMMA Outputs ==
    ASSUME IInv, IInv', DequeueAdded \/ DequeueSensor, NEW c \in Cubes, NEW f \in Faces
    PROVE  /\ Concerns(Head(queue), c, f) =>
                (c \in started' => output'[<<c, f>>] = Says(Head(queue)))
           /\ ~ Concerns(Head(queue), c, f) =>
                output'[<<c, f>>] = output[<<c, f>>] /\ (c \in started' => c \in started)
<1>1. /\ <<c, f>> \in Cubes \X Faces /\ output \in [Cubes \X Faces -> Readings]
      /\ c \in started' => c \in created
  BY DEF IInv, TypeOK, DequeueAdded, DequeueSensor
<1>2. CASE DequeueAdded
  <2> DEFINE d == Head(queue).cube
  <2>1. /\ Head(queue).type = "added"
        /\ d \in created => /\ started' = started \cup {d}
                            /\ output' = [x \in Cubes \X Faces |->
                                            IF x[1] = d THEN Zero ELSE output[x]]
        /\ d \notin created => started' = started /\ output' = output
    BY <1>2 DEF DequeueAdded, Startup
  <2>2. Concerns(Head(queue), c, f) <=> c = d
    BY <2>1 DEF Concerns
  <2>3. Says(Head(queue)) = Zero
    BY <2>1 DEF Says
  <2>4. d \in created => output'[<<c, f>>] = IF c = d THEN Zero ELSE output[<<c, f>>]
    BY <1>1, <2>1
  <2> HIDE DEF d
  <2> QED
    BY <1>1, <2>1, <2>2, <2>3, <2>4
<1>3. CASE DequeueSensor
  <2> DEFINE t == Head(queue).time
  <2>1. /\ Head(queue).type = "sensor" /\ started' = started
        /\ output' = IF t \div 16 \in created /\ t % 16 \in Faces
                       THEN [output EXCEPT ![<<t \div 16, t % 16>>] = Head(queue).value]
                       ELSE output
    BY <1>3 DEF DequeueSensor
  <2>2. Head(queue).time \in 0 .. 255
    <3>1. Head(queue) \in Messages
      BY <1>3, TailFacts DEF DequeueSensor, IInv
    <3> QED
      BY <2>1, <3>1 DEF Messages, AddedMsg, SensorMsg
  <2>3. Says(Head(queue)) = Head(queue).value
    BY <2>1 DEF Says
  <2>4. Concerns(Head(queue), c, f) <=> t = Encoded(c, f)
    BY <2>1 DEF Concerns
  <2>5. t = Encoded(c, f) <=> c = t \div 16 /\ f = t % 16
    <3>1. t = Encoded(c, f) => c = t \div 16 /\ f = t % 16
      BY EncodedFacts
    <3>2. c = t \div 16 /\ f = t % 16 => t = Encoded(c, f)
      <4>1. \A x \in 0 .. 255 : x = ((x \div 16) * 16) + (x % 16)
        OBVIOUS
      <4> QED
        BY <2>2, <4>1 DEF Encoded
    <3> QED
      BY <3>1, <3>2
  <2> HIDE DEF t
  <2> DEFINE d == t \div 16
             g == t % 16
  <2>6. output' = IF d \in created /\ g \in Faces
                    THEN [output EXCEPT ![<<d, g>>] = Head(queue).value] ELSE output
    BY <2>1
  <2>7. Concerns(Head(queue), c, f) <=> c = d /\ f = g
    BY <2>4, <2>5
  <2> HIDE DEF d, g
  <2>8. CASE c = d /\ f = g
    BY <1>1, <2>3, <2>6, <2>7, <2>8
  <2>9. CASE ~ (c = d /\ f = g)
    BY <1>1, <2>1, <2>6, <2>7, <2>9
  <2> QED
    BY <2>8, <2>9
<1> QED
  BY <1>2, <1>3

LEMMA FollowFast ==
    ASSUME IInv, ReadingsFollowed, DequeueAdded \/ DequeueSensor, IInv'
    PROVE  ReadingsFollowed'
<1> SUFFICES ASSUME NEW c \in attached', NEW f \in Faces
             PROVE  IF CalledBack(c)'
                      THEN reading'[<<c, f>>] = Zero
                      ELSE \/ \E n \in 1 .. Len(queue') :
                                LastOf(c, f, n)' /\ Says(queue'[n]) = reading'[<<c, f>>]
                           \/ /\ Silent(c, f)'
                              /\ c \in started' => output'[<<c, f>>] = reading'[<<c, f>>]
  BY DEF ReadingsFollowed
<1>1. /\ (CalledBack(c)' <=> CalledBack(c)) /\ attached' = attached /\ reading' = reading
      /\ queue # <<>> /\ queue' = Tail(queue) /\ c \in Cubes
  BY DEF DequeueAdded, DequeueSensor, CalledBack, IInv, TypeOK
<1>2. /\ CalledBack(c) => reading[<<c, f>>] = Zero
      /\ ~ CalledBack(c) =>
            \/ \E n \in 1 .. Len(queue) : LastOf(c, f, n) /\ Says(queue[n]) = reading[<<c, f>>]
            \/ /\ Silent(c, f)
               /\ c \in started => output[<<c, f>>] = reading[<<c, f>>]
  BY <1>1 DEF ReadingsFollowed
<1>3. /\ \A n \in 1 .. Len(queue) : LastOf(c, f, n) =>
           \/ queue[n] = Head(queue) /\ Concerns(Head(queue), c, f) /\ Silent(c, f)'
           \/ \E k \in 1 .. Len(queue') : queue'[k] = queue[n] /\ LastOf(c, f, k)'
      /\ Silent(c, f) => Silent(c, f)' /\ ~ Concerns(Head(queue), c, f)
  BY <1>1, LastTaken DEF IInv
<1>4. /\ Concerns(Head(queue), c, f) =>
           (c \in started' => output'[<<c, f>>] = Says(Head(queue)))
      /\ ~ Concerns(Head(queue), c, f) =>
           output'[<<c, f>>] = output[<<c, f>>] /\ (c \in started' => c \in started)
  BY <1>1, Outputs
<1>5. CASE CalledBack(c)
  BY <1>1, <1>2, <1>5
<1>6. CASE /\ ~ CalledBack(c)
           /\ \E n \in 1 .. Len(queue) : LastOf(c, f, n) /\ Says(queue[n]) = reading[<<c, f>>]
  <2>1. PICK n \in 1 .. Len(queue) : LastOf(c, f, n) /\ Says(queue[n]) = reading[<<c, f>>]
    BY <1>6
  <2> QED
    BY <1>1, <1>3, <1>4, <1>6, <2>1
<1>7. CASE /\ ~ CalledBack(c)
           /\ Silent(c, f)
           /\ c \in started => output[<<c, f>>] = reading[<<c, f>>]
  BY <1>1, <1>3, <1>4, <1>7
<1> QED
  BY <1>2, <1>5, <1>6, <1>7

LEMMA FollowOther ==
    ASSUME IInv, ReadingsFollowed,
           Create \/ Attach \/ Detach \/ PaintWhite \/ Process \/ UNCHANGED vars
    PROVE  ReadingsFollowed'
<1>1. CASE Attach
  <2>1. PICK d \in Cubes \ attached :
           /\ callback = NoCallback /\ attached' = attached \cup {d}
           /\ reading' = [x \in Cubes \X Faces |-> IF x[1] = d THEN Zero ELSE reading[x]]
           /\ callback' = [step |-> "paint", cube |-> d]
           /\ UNCHANGED <<queue, started, output>>
    BY <1>1 DEF Attach, MayCallBack
  <2>2. \A c, f : (Silent(c, f)' <=> Silent(c, f)) /\ \A n : LastOf(c, f, n)' <=> LastOf(c, f, n)
    BY <2>1 DEF Silent, LastOf
  <2>3. \A c : CalledBack(c)' <=> c = d
    BY <2>1 DEF CalledBack, NoCallback
  <2>4. \A c : ~ CalledBack(c)
    BY <2>1 DEF CalledBack
  <2>5. \A c \in attached', f \in Faces :
           reading'[<<c, f>>] = IF c = d THEN Zero ELSE reading[<<c, f>>]
    BY <2>1 DEF IInv, TypeOK
  <2> SUFFICES ASSUME NEW c \in attached', NEW f \in Faces
               PROVE  IF CalledBack(c)'
                        THEN reading'[<<c, f>>] = Zero
                        ELSE \/ \E n \in 1 .. Len(queue') :
                                  LastOf(c, f, n)' /\ Says(queue'[n]) = reading'[<<c, f>>]
                             \/ /\ Silent(c, f)'
                                /\ c \in started' => output'[<<c, f>>] = reading'[<<c, f>>]
    BY DEF ReadingsFollowed
  <2>6. CASE c = d
    BY <2>3, <2>5, <2>6
  <2>7. CASE c # d
    <3>1. c \in attached
      BY <2>1, <2>7
    <3>2. \/ \E n \in 1 .. Len(queue) : LastOf(c, f, n) /\ Says(queue[n]) = reading[<<c, f>>]
          \/ /\ Silent(c, f)
             /\ c \in started => output[<<c, f>>] = reading[<<c, f>>]
      BY <2>4, <3>1 DEF ReadingsFollowed
    <3>3. /\ reading'[<<c, f>>] = reading[<<c, f>>] /\ queue' = queue
          /\ started' = started /\ output' = output
      BY <2>1, <2>5, <2>7
    <3>4. CASE \E n \in 1 .. Len(queue) : LastOf(c, f, n) /\ Says(queue[n]) = reading[<<c, f>>]
      BY <2>2, <2>3, <2>7, <3>3, <3>4
    <3>5. CASE Silent(c, f) /\ (c \in started => output[<<c, f>>] = reading[<<c, f>>])
      BY <2>2, <2>3, <2>7, <3>3, <3>5
    <3> QED
      BY <3>2, <3>4, <3>5
  <2> QED
    BY <2>6, <2>7
<1>2. CASE ~ Attach
  <2>1. /\ attached' \subseteq attached
        /\ UNCHANGED <<reading, queue, started, output>>
    BY <1>2 DEF Create, Detach, PaintWhite, Process, vars
  <2>2. \A c : CalledBack(c)' <=> CalledBack(c)
    <3>1. \/ callback' = callback
          \/ /\ callback.step = "paint"
             /\ callback' = [callback EXCEPT !.step = "enqueue"]
      BY <1>2 DEF Create, Detach, PaintWhite, Process, vars
    <3>2. CASE callback.step = "paint" /\ callback' = [callback EXCEPT !.step = "enqueue"]
      <4>1. callback \in Callbacks /\ callback # NoCallback
        BY <3>2 DEF IInv, TypeOK, NoCallback, Callbacks
      <4>2. callback'.cube = callback.cube /\ callback' # NoCallback
        BY <3>2, <4>1 DEF Callbacks, NoCallback
      <4> QED
        BY <4>1, <4>2 DEF CalledBack
    <3>3. CASE callback' = callback
      BY <3>3 DEF CalledBack
    <3> QED
      BY <3>1, <3>2, <3>3
  <2>3. \A c, f : (Silent(c, f)' <=> Silent(c, f)) /\ \A n : LastOf(c, f, n)' <=> LastOf(c, f, n)
    BY <2>1 DEF Silent, LastOf
  <2> QED
    BY <2>1, <2>2, <2>3 DEF ReadingsFollowed
<1> QED
  BY <1>1, <1>2

(* Each output of an attached cube is, or is about to become, the reading  *)
(* of its sensor, in whatever order cubes come, go and are created.        *)
THEOREM ReadingsAlwaysFollowed == Spec => []ReadingsFollowed
<1>1. Init => ReadingsFollowed
  BY DEF Init, ReadingsFollowed
<1>2. IInv /\ ReadingsFollowed /\ [Next]_vars /\ IInv' => ReadingsFollowed'
  BY FollowLibrary, FollowFast, FollowOther DEF Next
<1> QED
  BY <1>1, <1>2, Invariance, PTL DEF Spec

(* Once all messages have been handled, the outputs show the readings.     *)
THEOREM ReadingsAreShown == Spec => []ReadingsShown
<1>1. ReadingsFollowed => ReadingsShown
  <2> SUFFICES ASSUME ReadingsFollowed, queue = <<>>, callback = NoCallback,
                      NEW c \in started, c \in attached, NEW f \in Faces
               PROVE  output[<<c, f>>] = reading[<<c, f>>]
    BY DEF ReadingsShown
  <2>1. ~ CalledBack(c)
    BY DEF CalledBack
  <2>2. \/ \E n \in 1 .. Len(queue) : LastOf(c, f, n) /\ Says(queue[n]) = reading[<<c, f>>]
        \/ /\ Silent(c, f)
           /\ c \in started => output[<<c, f>>] = reading[<<c, f>>]
    BY <2>1 DEF ReadingsFollowed
  <2>3. Len(queue) = 0
    OBVIOUS
  <2>4. \A n \in 1 .. Len(queue) : FALSE
    BY <2>3, SMT
  <2> QED
    BY <2>2, <2>4
<1> QED
  BY <1>1, ReadingsAlwaysFollowed, PTL

-----------------------------------------------------------------------------
(* The topology *)

(* A topology has at most one link for each face. *)
Topology(links) == DOMAIN links \in SUBSET CubeFaces /\ links \in [DOMAIN links -> CubeFaces]

Accumulators == [seen : SUBSET CubeFaces,
                 links : UNION {[D -> CubeFaces] : D \in SUBSET CubeFaces},
                 null : BOOLEAN]

Ends(t, i) == {Oriented(t[i]).from, Oriented(t[i]).to}

(* No other of the first n links of the table starts or ends where the     *)
(* i-th does.                                                              *)
Sole(t, n, i) ==
    \A k \in 1 .. n : k # i => /\ Oriented(t[k]).from # Oriented(t[i]).from
                               /\ Oriented(t[k]).to # Oriented(t[i]).to

(* What the loop has accumulated after the first n links of the table: a   *)
(* link that stands for itself, or one that was known before.              *)
Looping(t, n, acc) ==
    /\ acc.seen = UNION {Ends(t, i) : i \in 1 .. n}
    /\ DOMAIN acc.links \subseteq acc.seen
    /\ \A e \in Graph(acc.links) :
         \/ e \in Graph(topology)
         \/ \E i \in 1 .. n : e = Oriented(t[i]) /\ Sole(t, n, i)
    /\ Settled(t) => Graph(acc.links) = {Oriented(t[i]) : i \in 1 .. n}

TopologyInv ==
    /\ Topology(topology)
    /\ source \in [time : Nat, since : Nat, until : Nat]
    /\ source.since <= source.until
    /\ now \in Nat
    /\ known /\ Settled(table) => Graph(topology) = LinksOf(table)
    /\ DOMAIN heard \subseteq CubeFaces
    /\ lasting \subseteq DOMAIN topology \cap DOMAIN heard
    /\ \A f \in lasting : heard[f] = topology[f]

-----------------------------------------------------------------------------
(* The loop *)

LEMMA TableFacts ==
    ASSUME NEW t \in Tables, NEW i \in 1 .. Len(t)
    PROVE  /\ Len(t) \in Nat
           /\ t[i][1] \in CubeFaces /\ t[i][2] \in CubeFaces
           /\ Oriented(t[i]) = [from |-> Oriented(t[i]).from, to |-> Oriented(t[i]).to]
           /\ Oriented(t[i]).from \in CubeFaces /\ Oriented(t[i]).to \in CubeFaces
           /\ Ends(t, i) = {t[i][1], t[i][2]}
           /\ Oriented(t[i]).from # Oriented(t[i]).to
<1>1. t \in Seq(CubeFaces \X CubeFaces) /\ Cube(t[i][1]) # Cube(t[i][2])
  BY TablesAssumption
<1>2. Len(t) \in Nat /\ t[i] \in CubeFaces \X CubeFaces
  BY <1>1
<1>3. t[i][1] \in CubeFaces /\ t[i][2] \in CubeFaces /\ t[i][1] # t[i][2]
  BY <1>1, <1>2
<1> QED
  BY <1>2, <1>3 DEF Oriented, Ends

LEMMA TopologyFacts ==
    ASSUME NEW links
    PROVE  Topology(links) <=> links \in UNION {[D -> CubeFaces] : D \in SUBSET CubeFaces}
  BY DEF Topology

LEMMA GraphFacts ==
    ASSUME NEW f, NEW e
    PROVE  e \in Graph(f) <=> \E x \in DOMAIN f : e = [from |-> x, to |-> f[x]]
  BY DEF Graph

(* The links that a step leaves, and the ones that it adds. *)
LEMMA Joining ==
    ASSUME NEW f, NEW g
    PROVE  /\ DOMAIN Joined(f, g) = DOMAIN f \cup DOMAIN g
           /\ \A x \in DOMAIN f : Joined(f, g)[x] = f[x]
           /\ \A x \in DOMAIN g \ DOMAIN f : Joined(f, g)[x] = g[x]
           /\ Topology(f) /\ Topology(g) => Topology(Joined(f, g))
  BY DEF Joined, Topology

LEMMA StepTyped ==
    ASSUME Topology(topology), NEW t \in Tables, NEW i \in 1 .. Len(t), NEW acc \in Accumulators
    PROVE  AddLink(acc, t[i]) \in Accumulators
<1> DEFINE e == Oriented(t[i])
           exists == e.from \in acc.seen \/ e.to \in acc.seen
           rest == Restrict(acc.links, Cleared(acc.links, acc.seen, e))
           added == IF exists THEN Recalled(e) ELSE Only(e)
<1>1. e.from \in CubeFaces /\ e.to \in CubeFaces
  BY TableFacts
<1>2. acc.seen \in SUBSET CubeFaces /\ Topology(acc.links) /\ acc.null \in BOOLEAN
  BY TopologyFacts DEF Accumulators
<1>3. Topology(rest)
  BY <1>2 DEF Topology, Restrict, Cleared
<1>4. Topology(added)
  BY <1>1 DEF Topology, Recalled, Only, Restrict
<1>5. AddLink(acc, t[i]) = [seen |-> acc.seen \cup {e.from, e.to}, links |-> Joined(rest, added),
                            null |-> acc.null \/ (exists /\ ~ known)]
  BY DEF AddLink
<1>6. (acc.null \/ (exists /\ ~ known)) \in BOOLEAN
  OBVIOUS
<1> HIDE DEF e, exists, rest, added
<1>7. Joined(rest, added) \in UNION {[D -> CubeFaces] : D \in SUBSET CubeFaces}
  BY <1>3, <1>4, Joining, TopologyFacts
<1>8. acc.seen \cup {e.from, e.to} \in SUBSET CubeFaces
  BY <1>1, <1>2
<1> QED
  BY <1>5, <1>6, <1>7, <1>8 DEF Accumulators

LEMMA LoopStep ==
    ASSUME Topology(topology), NEW t \in Tables, NEW n \in Nat, n + 1 \in 1 .. Len(t),
           NEW acc \in Accumulators, Looping(t, n, acc)
    PROVE  Looping(t, n + 1, AddLink(acc, t[n + 1]))
<1> DEFINE e == Oriented(t[n + 1])
           exists == e.from \in acc.seen \/ e.to \in acc.seen
           kept == Cleared(acc.links, acc.seen, e)
           rest == Restrict(acc.links, kept)
           added == IF exists THEN Recalled(e) ELSE Only(e)
           new == AddLink(acc, t[n + 1])
<1>1. /\ new.seen = acc.seen \cup {e.from, e.to}
      /\ new.links = Joined(rest, added)
  BY DEF AddLink
<1>2. /\ 1 .. n + 1 = 1 .. n \cup {n + 1} /\ n + 1 \notin 1 .. n
      /\ 1 .. n \subseteq 1 .. Len(t)
  BY TableFacts
<1>3. /\ e.from \in CubeFaces /\ e.to \in CubeFaces /\ e.from # e.to
      /\ e = [from |-> e.from, to |-> e.to] /\ Ends(t, n + 1) = {e.from, e.to}
  BY TableFacts DEF Ends
<1>4. /\ acc.seen = UNION {Ends(t, i) : i \in 1 .. n}
      /\ DOMAIN acc.links \subseteq acc.seen
      /\ \A x \in Graph(acc.links) :
           \/ x \in Graph(topology)
           \/ \E i \in 1 .. n : x = Oriented(t[i]) /\ Sole(t, n, i)
      /\ Settled(t) => Graph(acc.links) = {Oriented(t[i]) : i \in 1 .. n}
  BY DEF Looping
<1>5. /\ kept \subseteq DOMAIN acc.links
      /\ \A x \in kept : /\ e.from \in acc.seen => x # e.from
                         /\ e.to \in acc.seen => acc.links[x] # e.to
      /\ ~ exists => kept = DOMAIN acc.links
      /\ DOMAIN rest = kept /\ \A x \in kept : rest[x] = acc.links[x]
  BY DEF Cleared, Restrict
<1>6. /\ exists => /\ DOMAIN added \subseteq {e.from} \cap DOMAIN topology
                   /\ \A x \in DOMAIN added : added[x] = topology[x]
      /\ ~ exists => DOMAIN added = {e.from} /\ added[e.from] = e.to
  BY DEF Recalled, Only, Restrict
<1>7. \A i \in 1 .. n : Oriented(t[i]).from \in acc.seen /\ Oriented(t[i]).to \in acc.seen
  BY <1>4 DEF Ends
<1> HIDE DEF e, exists, kept, rest, added, new
<1>8. /\ DOMAIN new.links = kept \cup DOMAIN added
      /\ \A x \in kept : new.links[x] = acc.links[x]
      /\ \A x \in DOMAIN added \ kept : new.links[x] = added[x]
  <2> DEFINE all == Joined(rest, added)
  <2>1. /\ DOMAIN all = DOMAIN rest \cup DOMAIN added
        /\ \A x \in DOMAIN rest : all[x] = rest[x]
        /\ \A x \in DOMAIN added \ DOMAIN rest : all[x] = added[x]
    BY Joining
  <2> HIDE DEF all
  <2>2. /\ DOMAIN all = kept \cup DOMAIN added
        /\ \A x \in kept : all[x] = acc.links[x]
        /\ \A x \in DOMAIN added \ kept : all[x] = added[x]
    BY <1>5, <2>1
  <2>3. new.links = all
    BY <1>1 DEF all
  <2> QED
    BY <2>2, <2>3
<1>9. new.seen = UNION {Ends(t, i) : i \in 1 .. n + 1}
  BY <1>1, <1>2, <1>3, <1>4
<1>10. DOMAIN new.links \subseteq new.seen
  BY <1>1, <1>4, <1>5, <1>6, <1>8
<1>11. ASSUME NEW x \in DOMAIN new.links
       PROVE  \/ [from |-> x, to |-> new.links[x]] \in Graph(topology)
              \/ \E i \in 1 .. n + 1 : /\ [from |-> x, to |-> new.links[x]] = Oriented(t[i])
                                       /\ Sole(t, n + 1, i)
  <2> DEFINE link == [from |-> x, to |-> new.links[x]]
  <2>1. CASE x \in kept /\ link \notin Graph(topology)
    <3>1. link \in Graph(acc.links)
      BY <1>5, <1>8, <2>1, GraphFacts
    <3>2. PICK i \in 1 .. n : link = Oriented(t[i]) /\ Sole(t, n, i)
      BY <1>4, <2>1, <3>1
    <3>3. Oriented(t[i]).from = x /\ Oriented(t[i]).to = acc.links[x]
      <4>1. link.from = x /\ link.to = acc.links[x]
        BY <1>8, <2>1
      <4> QED
        BY <3>2, <4>1
    <3>4. x # e.from /\ acc.links[x] # e.to
      BY <1>5, <1>7, <2>1, <3>3
    <3>5. Sole(t, n + 1, i)
      BY <1>2, <3>2, <3>3, <3>4 DEF Sole, e
    <3> QED
      BY <1>2, <3>2, <3>5
  <2>2. CASE x \in DOMAIN added \ kept /\ exists
    BY <1>6, <1>8, <2>2, GraphFacts
  <2>3. CASE x \in DOMAIN added \ kept /\ ~ exists
    <3>1. link = e
      BY <1>3, <1>6, <1>8, <2>3
    <3>2. e.from \notin acc.seen /\ e.to \notin acc.seen
      BY <2>3 DEF exists
    <3>3. Sole(t, n + 1, n + 1)
      BY <1>2, <1>7, <3>2 DEF Sole, e
    <3> QED
      BY <1>2, <3>1, <3>3 DEF e
  <2> QED
    BY <1>8, <2>1, <2>2, <2>3
<1>12. \A x \in Graph(new.links) :
         \/ x \in Graph(topology)
         \/ \E i \in 1 .. n + 1 : x = Oriented(t[i]) /\ Sole(t, n + 1, i)
  BY <1>11, GraphFacts
<1>13. ASSUME Settled(t)
       PROVE  Graph(new.links) = {Oriented(t[i]) : i \in 1 .. n + 1}
  <2>1. \A i \in 1 .. n : Ends(t, i) \cap Ends(t, n + 1) = {}
    BY <1>2, <1>13, TableFacts DEF Settled
  <2>2. e.from \notin acc.seen /\ e.to \notin acc.seen
    BY <1>3, <1>4, <2>1
  <2>3. ~ exists
    BY <2>2 DEF exists
  <2>4. /\ DOMAIN new.links = DOMAIN acc.links \cup {e.from} /\ e.from \notin DOMAIN acc.links
        /\ \A x \in DOMAIN acc.links : new.links[x] = acc.links[x]
        /\ new.links[e.from] = e.to
    BY <1>4, <1>5, <1>6, <1>8, <2>2, <2>3
  <2>5. \A x : x \in Graph(new.links) <=> x \in Graph(acc.links) \/ x = e
    <3>1. \A x : x \in Graph(acc.links) => x \in Graph(new.links)
      BY <2>4, GraphFacts
    <3>2. e \in Graph(new.links)
      BY <1>3, <2>4, GraphFacts
    <3>3. \A x : x \in Graph(new.links) => x \in Graph(acc.links) \/ x = e
      BY <1>3, <2>4, GraphFacts
    <3> QED
      BY <3>1, <3>2, <3>3
  <2>6. Graph(acc.links) = {Oriented(t[i]) : i \in 1 .. n}
    BY <1>4, <1>13
  <2> QED
    BY <1>2, <2>5, <2>6 DEF e
<1> QED
  BY <1>9, <1>10, <1>12, <1>13 DEF Looping, new

(* The functions that the loop of Looped may be: there is one, and each    *)
(* accumulates as Looping says.                                            *)
Accumulates(t, links, f) ==
    f = [n \in 0 .. Len(t) |-> IF n = 0 THEN [seen |-> {}, links |-> links, null |-> FALSE]
                                        ELSE AddLink(f[n - 1], t[n])]

LEMMA LoopExists ==
    ASSUME Topology(topology), NEW t \in Tables
    PROVE  \E f : Accumulates(t, NoLinks, f)
<1> DEFINE base == [seen |-> {}, links |-> NoLinks, null |-> FALSE]
           m == Len(t)
           Step == [p \in Accumulators \X Nat |->
                       IF p[2] \in 1 .. m THEN AddLink(p[1], t[p[2]]) ELSE p[1]]
<1>1. m \in Nat
  BY TablesAssumption
<1>2. base \in Accumulators
  <2>1. Topology(NoLinks)
    BY DEF Topology, NoLinks
  <2> QED
    BY <2>1, TopologyFacts DEF Accumulators
<1>3. Step \in [Accumulators \X Nat -> Accumulators]
  <2>1. \A a \in Accumulators, i \in 1 .. m : AddLink(a, t[i]) \in Accumulators
    BY StepTyped
  <2> HIDE DEF m
  <2> QED
    BY <2>1
<1>4. \A a \in Accumulators, i \in 1 .. m : Step[<<a, i>>] = AddLink(a, t[i])
  BY <1>1
<1> HIDE DEF base, m, Step
<1>5. PICK f \in [0 .. m -> Accumulators] : StepwiseFrom(f, base, Step, m)
  BY <1>1, <1>2, <1>3, Recursion
<1>6. \A i \in 1 .. m : f[i] = AddLink(f[i - 1], t[i])
  <2> SUFFICES ASSUME NEW i \in 1 .. m
               PROVE  f[i] = AddLink(f[i - 1], t[i])
    OBVIOUS
  <2>1. i - 1 \in 0 .. m
    BY <1>1
  <2>2. f[i - 1] \in Accumulators
    BY <2>1
  <2> QED
    BY <1>4, <1>5, <2>2 DEF StepwiseFrom
<1>7. \A i \in 0 .. m : f[i] = IF i = 0 THEN base ELSE AddLink(f[i - 1], t[i])
  <2>1. \A i \in 0 .. m : i = 0 \/ i \in 1 .. m
    BY <1>1
  <2> QED
    BY <1>5, <1>6, <2>1 DEF StepwiseFrom
<1>8. f = [i \in 0 .. m |-> f[i]]
  OBVIOUS
<1>9. f = [i \in 0 .. m |-> IF i = 0 THEN base ELSE AddLink(f[i - 1], t[i])]
  BY <1>7, <1>8
<1> QED
  BY <1>9 DEF Accumulates, base, m

LEMMA LoopResult ==
    ASSUME Topology(topology), NEW t \in Tables
    PROVE  Pass(t) \in Accumulators /\ Looping(t, Len(t), Pass(t))
<1> DEFINE after == CHOOSE f : Accumulates(t, NoLinks, f)
           m == Len(t)
           P == {n \in Nat : n <= m => after[n] \in Accumulators /\ Looping(t, n, after[n])}
<1>1. m \in Nat
  BY TablesAssumption
<1>2. Accumulates(t, NoLinks, after)
  BY LoopExists
<1>3. Pass(t) = after[m]
  BY DEF Pass, Looped, Accumulates
<1> HIDE DEF after
<1>4. /\ after[0] = [seen |-> {}, links |-> NoLinks, null |-> FALSE]
      /\ \A i \in 1 .. m : after[i] = AddLink(after[i - 1], t[i])
  <2> DEFINE next(i) == IF i = 0 THEN [seen |-> {}, links |-> NoLinks, null |-> FALSE]
                                 ELSE AddLink(after[i - 1], t[i])
  <2>1. after = [i \in 0 .. m |-> next(i)]
    BY <1>2 DEF Accumulates
  <2> HIDE DEF next, m
  <2>2. \A i \in 0 .. m : after[i] = next(i)
    BY <2>1, Zenon
  <2>3. 0 \in 0 .. m /\ \A i \in 1 .. m : i \in 0 .. m /\ i # 0
    BY <1>1
  <2> QED
    BY <2>2, <2>3 DEF next
<1>5. 0 \in P
  <2>1. DOMAIN NoLinks = {} /\ Graph(NoLinks) = {} /\ Topology(NoLinks)
    BY DEF NoLinks, Graph, Topology
  <2>2. [seen |-> {}, links |-> NoLinks, null |-> FALSE] \in Accumulators
    BY <2>1, TopologyFacts DEF Accumulators
  <2>3. Looping(t, 0, [seen |-> {}, links |-> NoLinks, null |-> FALSE])
    BY <2>1 DEF Looping
  <2> QED
    BY <1>4, <2>2, <2>3
<1>6. ASSUME NEW n \in P
      PROVE  n + 1 \in P
  <2>1. n \in Nat /\ n + 1 \in Nat
    OBVIOUS
  <2> SUFFICES ASSUME n + 1 <= m
               PROVE  after[n + 1] \in Accumulators /\ Looping(t, n + 1, after[n + 1])
    BY <2>1
  <2>2. after[n] \in Accumulators /\ Looping(t, n, after[n])
    BY <1>1, <2>1
  <2>3. n + 1 \in 1 .. m
    BY <1>1, <2>1
  <2>4. after[n + 1] = AddLink(after[n], t[n + 1])
    BY <1>1, <1>4, <2>1, <2>3
  <2> HIDE DEF P
  <2>5. AddLink(after[n], t[n + 1]) \in Accumulators
    BY <2>2, <2>3, StepTyped
  <2>6. Looping(t, n + 1, AddLink(after[n], t[n + 1]))
    BY <2>1, <2>2, <2>3, LoopStep
  <2> QED
    BY <2>4, <2>5, <2>6
<1>7. P = Nat
  <2>1. P \in SUBSET Nat
    OBVIOUS
  <2> HIDE DEF P
  <2> QED
    BY <1>5, <1>6, <2>1, Induction
<1>8. m \in P
  BY <1>1, <1>7
<1> QED
  BY <1>1, <1>3, <1>8

-----------------------------------------------------------------------------
(* The invariant *)

LEMMA NoLinksFacts ==
    Topology(NoLinks) /\ Graph(NoLinks) = {}
  BY DEF Topology, NoLinks, Graph

LEMMA InitTopologyInv ==
    TopologyInit => TopologyInv
<1>1. DOMAIN NoLinks = {}
  BY DEF NoLinks
<1> QED
  BY <1>1, NoLinksFacts DEF TopologyInit, TopologyInv

(* What the pass over a table leaves. *)
LEMMA PassFacts ==
    ASSUME Topology(topology), NEW t \in Tables
    PROVE  /\ Topology(Pass(t).links)
           /\ Settled(t) => Graph(Pass(t).links) = LinksOf(t)
           /\ \A e \in Graph(Pass(t).links) :
                \/ e \in Graph(topology)
                \/ e \in LinksOf(t) /\ ~ RepeatedFrom(t, e.from) /\ ~ RepeatedTo(t, e.to)
<1> DEFINE n == Len(t)
           links == Pass(t).links
<1>1. Pass(t) \in Accumulators /\ Looping(t, n, Pass(t))
  BY LoopResult
<1>2. links \in UNION {[D -> CubeFaces] : D \in SUBSET CubeFaces}
  BY <1>1 DEF Accumulators
<1>3. /\ Settled(t) => Graph(links) = {Oriented(t[i]) : i \in 1 .. n}
      /\ \A e \in Graph(links) :
           \/ e \in Graph(topology)
           \/ \E i \in 1 .. n : e = Oriented(t[i]) /\ Sole(t, n, i)
  BY <1>1 DEF Looping
<1>4. ASSUME NEW i \in 1 .. n, Sole(t, n, i)
      PROVE  /\ Oriented(t[i]) \in LinksOf(t)
             /\ ~ RepeatedFrom(t, Oriented(t[i]).from)
             /\ ~ RepeatedTo(t, Oriented(t[i]).to)
  <2>1. Oriented(t[i]) \in LinksOf(t)
    BY DEF LinksOf
  <2> DEFINE from(k) == Oriented(t[k]).from
             to(k) == Oriented(t[k]).to
  <2>2. \A k \in 1 .. n : k # i => from(k) # from(i) /\ to(k) # to(i)
    BY <1>4 DEF Sole
  <2>3. /\ RepeatedFrom(t, from(i)) =>
             \E j, k \in 1 .. n : j # k /\ from(j) = from(i) /\ from(k) = from(i)
        /\ RepeatedTo(t, to(i)) =>
             \E j, k \in 1 .. n : j # k /\ to(j) = to(i) /\ to(k) = to(i)
    BY DEF RepeatedFrom, RepeatedTo
  <2> HIDE DEF from, to, n
  <2>4. ~ RepeatedFrom(t, from(i)) /\ ~ RepeatedTo(t, to(i))
    BY <2>2, <2>3
  <2> QED
    BY <2>1, <2>4 DEF from, to
<1> HIDE DEF links
<1>5. ASSUME NEW e \in Graph(links), e \notin Graph(topology)
      PROVE  e \in LinksOf(t) /\ ~ RepeatedFrom(t, e.from) /\ ~ RepeatedTo(t, e.to)
  <2>1. PICK i \in 1 .. n : e = Oriented(t[i]) /\ Sole(t, n, i)
    BY <1>3, <1>5
  <2> HIDE DEF n
  <2> QED
    BY <1>4, <2>1
<1>6. Settled(t) => Graph(links) = LinksOf(t)
  BY <1>3 DEF LinksOf
<1> QED
  BY <1>2, <1>5, <1>6, TopologyFacts DEF links

(* What is sent, and what the listener then remembers. *)
LEMMA HeardFacts ==
    ASSUME TopologyInv, NEW links, Topology(links),
           NEW told, told = Joined(Announced(links), heard),
           NEW ever, ever = DOMAIN links \cap (IF topology = NoLinks THEN CubeFaces ELSE lasting)
    PROVE  /\ DOMAIN told \subseteq CubeFaces
           /\ ever \subseteq DOMAIN links \cap DOMAIN told
           /\ \A f \in ever : told[f] = links[f]
<1> DEFINE sent == Announced(links)
<1>1. /\ DOMAIN links \subseteq CubeFaces /\ DOMAIN heard \subseteq CubeFaces
      /\ lasting \subseteq DOMAIN topology \cap DOMAIN heard
      /\ \A f \in lasting : heard[f] = topology[f]
  BY DEF Topology, TopologyInv
<1>2. /\ DOMAIN told = DOMAIN sent \cup DOMAIN heard
      /\ \A f \in DOMAIN told : told[f] = IF f \in DOMAIN sent THEN sent[f] ELSE heard[f]
  BY DEF Joined
<1>3. CASE topology = NoLinks
  <2>1. sent = links
    BY <1>3 DEF Announced
  <2> HIDE DEF sent
  <2> QED
    BY <1>1, <1>2, <1>3, <2>1
<1>4. CASE topology # NoLinks
  <2>1. /\ DOMAIN sent = {f \in DOMAIN links \cap DOMAIN topology : links[f] # topology[f]}
        /\ \A f \in DOMAIN sent : sent[f] = links[f]
    BY <1>4 DEF Announced, Restrict
  <2>2. ever = DOMAIN links \cap lasting
    BY <1>4
  <2> HIDE DEF sent
  <2> QED
    BY <1>1, <1>2, <2>1, <2>2
<1> QED
  BY <1>3, <1>4

LEMMA DequeueStep ==
    ASSUME TopologyInv, Dequeue
    PROVE  TopologyInv'
<1>1. PICK t \in Tables :
        /\ topology' = Pass(t).links /\ table' = t
        /\ source' = [time |-> Stamp + 1, since |-> Stamp, until |-> Stamp + 1]
        /\ now' = now
        /\ heard' = Joined(Announced(topology'), heard)
        /\ lasting' = DOMAIN topology' \cap (IF topology = NoLinks THEN CubeFaces ELSE lasting)
  BY DEF Dequeue
<1>2. Topology(topology) /\ source.time \in Nat /\ now \in Nat
  BY DEF TopologyInv
<1>3. Topology(topology') /\ (Settled(t) => Graph(topology') = LinksOf(t))
  BY <1>1, <1>2, PassFacts
<1>4. (known /\ Settled(table) => Graph(topology) = LinksOf(table))'
  BY <1>1, <1>3
<1>5. Stamp \in Nat
  BY <1>2 DEF Stamp
<1>6. source' \in [time : Nat, since : Nat, until : Nat] /\ source'.since <= source'.until
  BY <1>1, <1>5
<1>7. /\ DOMAIN heard' \subseteq CubeFaces
      /\ lasting' \subseteq DOMAIN topology' \cap DOMAIN heard'
      /\ \A f \in lasting' : heard'[f] = topology'[f]
  BY <1>1, <1>3, HeardFacts
<1> QED
  BY <1>1, <1>2, <1>3, <1>4, <1>6, <1>7 DEF TopologyInv

LEMMA TopologyInvStep ==
    TopologyInv /\ [TopologyNext]_topologyVars => TopologyInv'
<1> SUFFICES ASSUME TopologyInv, [TopologyNext]_topologyVars
             PROVE  TopologyInv'
  OBVIOUS
<1>1. CASE Dequeue
  BY <1>1, DequeueStep
<1>2. CASE DequeueNull
  BY <1>2 DEF DequeueNull, TopologyInv
<1>3. CASE Tick
  BY <1>3 DEF Tick, TopologyInv
<1>4. CASE UNCHANGED topologyVars
  BY <1>4 DEF topologyVars, TopologyInv
<1> QED
  BY <1>1, <1>2, <1>3, <1>4 DEF TopologyNext

(* The topology is always a partial function on the faces, the event       *)
(* source is closed whenever the agent waits, and a settled table is the   *)
(* topology.                                                               *)
THEOREM TopologyInvariance ==
    TopologySpec => []TopologyInv
<1>1. TopologyInit => TopologyInv
  BY InitTopologyInv
<1>2. TopologyInv /\ [TopologyNext]_topologyVars => TopologyInv'
  BY TopologyInvStep
<1> QED
  BY <1>1, <1>2, PTL DEF TopologySpec

-----------------------------------------------------------------------------
(* The properties *)

(* Whatever tables came before, the topology after a settled table is      *)
(* exactly that table's links (audiocubes.cpp, the loop of thing_dequeue_  *)
(* fast).                                                                  *)
THEOREM SettledIsExact ==
    TopologySpec => []SettledExact
<1>1. TopologyInv => SettledExact
  BY DEF TopologyInv, SettledExact
<1> QED
  BY <1>1, TopologyInvariance, PTL

(* A step either leaves the topology alone or is the pass over a table.    *)
LEMMA TopologySteps ==
    ASSUME TopologyInv, [TopologyNext]_topologyVars
    PROVE  \/ topology' = topology /\ tables' = tables
           \/ \E t \in Tables : /\ topology' = Pass(t).links /\ table' = t
                                /\ Topology(topology)
<1>1. CASE Dequeue
  BY <1>1 DEF Dequeue, TopologyInv
<1>2. CASE ~ Dequeue
  BY <1>2 DEF TopologyNext, DequeueNull, Tick, topologyVars
<1> QED
  BY <1>1, <1>2

(* No link of the topology is invented: each is in the table just handled, *)
(* or was known before.                                                    *)
THEOREM LinksAreFound ==
    TopologySpec => LinksHaveOrigin
<1>1. TopologyInv /\ [TopologyNext]_topologyVars
        => Graph(topology') \subseteq LinksOf(table') \cup Graph(topology)
  <2> SUFFICES ASSUME TopologyInv, [TopologyNext]_topologyVars
               PROVE  Graph(topology') \subseteq LinksOf(table') \cup Graph(topology)
    OBVIOUS
  <2>1. CASE topology' = topology
    BY <2>1
  <2>2. CASE topology' # topology
    <3>1. PICK t \in Tables : topology' = Pass(t).links /\ table' = t /\ Topology(topology)
      BY <2>2, TopologySteps
    <3> QED
      BY <3>1, PassFacts
  <2> QED
    BY <2>1, <2>2
<1> QED
  BY <1>1, TopologyInvariance, PTL DEF TopologySpec, LinksHaveOrigin

(* What a table in flux says of a face that it mentions twice at the same  *)
(* end is not believed: such a face has a link it had before, or none.     *)
THEOREM FluxIsNotBelieved ==
    TopologySpec => FluxKeepsPrevious
<1> DEFINE Kept == \A e \in Graph(topology') :
                      RepeatedFrom(table', e.from) \/ RepeatedTo(table', e.to)
                          => e \in Graph(topology)
<1>1. TopologyInv /\ [TopologyNext]_topologyVars => Kept
  <2> SUFFICES ASSUME TopologyInv, [TopologyNext]_topologyVars
               PROVE  Kept
    OBVIOUS
  <2>1. CASE topology' = topology
    BY <2>1
  <2>2. CASE topology' # topology
    <3>1. PICK t \in Tables : topology' = Pass(t).links /\ table' = t /\ Topology(topology)
      BY <2>2, TopologySteps
    <3> QED
      BY <3>1, PassFacts
  <2> QED
    BY <2>1, <2>2
<1> QED
  BY <1>1, TopologyInvariance, PTL DEF TopologySpec, FluxKeepsPrevious

(* Whatever flux its table was in, a face that has had a link ever since   *)
(* there was none at all is known, with the link it has now, to whoever    *)
(* remembers the last key of each face.                                    *)
THEOREM LastingAreKnown ==
    TopologySpec => []LastingHeard
<1>1. TopologyInv => LastingHeard
  BY DEF TopologyInv, LastingHeard
<1> QED
  BY <1>1, TopologyInvariance, PTL

(* The agent's event source obeys the contract of EventSource: each table  *)
(* is one event, opened and closed with stamps later than all before.      *)
THEOREM TablesAreEvents ==
    TopologySpec => EventPerTable
<1>1. TopologyInit => Contract!Init
  <2> SUFFICES ASSUME TopologyInit
               PROVE  Contract!Init
    OBVIOUS
  <2>1. source = Contract!Idle
    BY DEF TopologyInit, Contract!Idle
  <2>2. <<source>> = [s \in {1} |-> source]
    OBVIOUS
  <2> QED
    BY <2>1, <2>2 DEF Contract!Init
<1>2. TopologyInv /\ [TopologyNext]_topologyVars => [Contract!Next]_(<<source>>)
  <2> SUFFICES ASSUME TopologyInv, [TopologyNext]_topologyVars
               PROVE  source' = source \/ Contract!Step(source, source')
    <3>1. \A s \in {1} : <<source>>[s] = source /\ <<source>>'[s] = source'
      OBVIOUS
    <3> QED
      BY <3>1 DEF Contract!Next
  <2>1. CASE Dequeue
    <3>1. /\ source.time \in Nat /\ source.since \in Nat /\ source.until \in Nat
          /\ source.since <= source.until /\ now \in Nat
      BY DEF TopologyInv
    <3>2. source' = [time |-> Stamp + 1, since |-> Stamp, until |-> Stamp + 1]
      BY <2>1 DEF Dequeue
    <3>3. Stamp \in Nat /\ Stamp > source.time
      BY <3>1 DEF Stamp
    <3>4. Contract!Pulses(source, source')
      BY <3>1, <3>2, <3>3 DEF Contract!Pulses, Contract!Open
    <3> QED
      BY <3>4 DEF Contract!Step
  <2>2. CASE ~ Dequeue
    BY <2>2 DEF TopologyNext, DequeueNull, Tick, topologyVars
  <2> QED
    BY <2>1, <2>2
<1> QED
  BY <1>1, <1>2, TopologyInvariance, PTL DEF TopologySpec, EventPerTable, Contract!Spec
=============================================================================

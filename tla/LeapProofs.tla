----------------------------- MODULE LeapProofs -----------------------------
(***************************************************************************)
(* Theorems about the Leap agent, for any number of outputs, any frames    *)
(* and any bounds.                                                         *)
(***************************************************************************)
EXTENDS Leap, Ranks, FiniteSetTheorems, TLAPS

Messages == KnownMsg \cup PalmMsg

Distinct(ids) == \A i, k \in 1 .. Len(ids) : ids[i] # 0 /\ ids[i] = ids[k] => i = k

(* What the listener thread puts in the queue. *)
QueueOK ==
    \A n \in 1 .. Len(queue) :
        /\ queue[n].type = "known" => Distinct(queue[n].ids)
        /\ queue[n].type = "palm" /\ IdsFit => queue[n].arg # 0

FrameOK == frame = <<>> \/ frame \in Frames

IInv == TypeOK /\ QueueOK /\ FrameOK /\ SlotsDistinct /\ WireTracksSlot /\ IdleAtOrigin

(* No message of known hands is left in the queue from the n-th on.        *)
Late(n) == \A k \in n .. Len(queue) : queue[k].type # "known"

(* The outputs show hands of the last frame, as many as there can be.      *)
Exact ==
    /\ Tracked \subseteq IdsOf(frame)
    /\ Cardinality(Tracked) =
         IF Cardinality(IdsOf(frame)) < HANDS THEN Cardinality(IdsOf(frame)) ELSE HANDS

(* The last message of known hands is that of the last frame; once it has  *)
(* been handled, the outputs are right.                                    *)
FrameFollowed ==
    ~ crashed =>
        /\ \A n \in 1 .. Len(queue) :
              queue[n].type = "known" /\ Late(n + 1) => queue[n] = Known(frame)
        /\ Late(1) => Exact

(* What follows that message are positions of the last frame; and each one *)
(* that was sent is still there, or has reached the hand's output.         *)
PositionsFollowed ==
    ~ crashed /\ IdsFit =>
        /\ \A n \in 1 .. Len(queue) :
              Late(n) => \E i \in 1 .. Len(frame) : frame[i].usable /\ queue[n] = Palm(frame[i])
        /\ \A i \in 1 .. Len(frame) : i < sending /\ frame[i].usable =>
              \/ \E n \in 1 .. Len(queue) : Late(n) /\ queue[n] = Palm(frame[i])
              \/ /\ Late(1)
                 /\ \A h \in Hands : leapId[h] = frame[i].id => pos[h] = frame[i].pos

FollowInv == FrameFollowed /\ PositionsFollowed

-----------------------------------------------------------------------------
(* The messages. *)

(* A message of known hands has the right shape and names no hand twice. *)
LEMMA KnownShape ==
    ASSUME NEW f \in Frames
    PROVE  Known(f) \in KnownMsg /\ Distinct(Known(f).ids)
<1>1. /\ f \in Seq(FrameHand)
      /\ \A i, k \in 1 .. Len(f) : f[i].id = f[k].id => i = k
  BY FramesAssumption
<1>2. \A i \in 1 .. Len(f) : f[i] \in FrameHand
  BY <1>1
<1>3. Known(f).ids \in Seq(Nat)
  BY <1>2, <1>1 DEF Known, FrameHand
<1>4. Len(Known(f).ids) = Len(f)
  BY <1>1 DEF Known
<1>5. \A i \in 1 .. Len(f) : Known(f).ids[i] = IF f[i].usable THEN f[i].id ELSE 0
  BY DEF Known
<1>6. Distinct(Known(f).ids)
  BY <1>1, <1>4, <1>5 DEF Distinct
<1> QED
  BY <1>3, <1>6 DEF Known, KnownMsg

(* A palm message keeps a non-zero id when the ids fit. *)
LEMMA PalmShape ==
    ASSUME NEW hand \in FrameHand
    PROVE  /\ Palm(hand) \in PalmMsg
           /\ hand.id < IdMod => Palm(hand).arg = hand.id
  BY IdModAssumption, SMTT(30) DEF Palm, PalmMsg, FrameHand

-----------------------------------------------------------------------------
(* Handling a message of known hands. *)

LEMMA KeptType ==
    ASSUME TypeOK, NEW ids
    PROVE  /\ Kept(ids) \in [Hands -> Nat]
           /\ \A h \in Hands : Kept(ids)[h] = leapId[h] \/ Kept(ids)[h] = 0
  BY DEF TypeOK, Kept

LEMMA HandsFinite == IsFiniteSet(Hands)
  BY FS_Interval, HandsAssumption DEF Hands

(* The free slots below a free slot are fewer than those below a later one. *)
LEMMA BelowMono ==
    ASSUME NEW S \in SUBSET Hands, NEW g \in S, NEW h \in S, g < h
    PROVE  Cardinality(Below(S, g)) < Cardinality(Below(S, h))
<1>1. S \in SUBSET Nat /\ IsFiniteSet(S)
  <2>1. Hands \subseteq Nat
    BY HandsAssumption DEF Hands
  <2> QED
    BY <2>1, HandsFinite, FS_Subset
<1>2. Rank(S, g) < Rank(S, h)
  BY <1>1, Ranked
<1> QED
  BY <1>2 DEF Rank, Below

(* A slot gets another hand only if it is free, and gets one of the ids    *)
(* that no slot has; two slots never get the same.                         *)
LEMMA AssignedFacts ==
    ASSUME NEW ids \in Seq(Nat), NEW kept \in [Hands -> Nat], Distinct(ids)
    PROVE  /\ Assigned(ids, kept) \in [Hands -> Nat]
           /\ \A h \in Hands : Assigned(ids, kept)[h] # kept[h] =>
                 /\ kept[h] = 0
                 /\ Assigned(ids, kept)[h] # 0
                 /\ \A g \in Hands : kept[g] # Assigned(ids, kept)[h]
           /\ \A g, h \in Hands :
                 /\ Assigned(ids, kept)[g] # kept[g]
                 /\ Assigned(ids, kept)[h] # kept[h]
                 /\ Assigned(ids, kept)[g] = Assigned(ids, kept)[h]
                 => g = h
<1> DEFINE new == New(ids, kept)
           free == Free(kept)
           a == Assigned(ids, kept)
           pick(h) == CHOOSE i \in Given(new, free, h) : TRUE
<1>1. \A h \in Hands : a[h] = IF Given(new, free, h) = {} THEN kept[h] ELSE ids[pick(h)]
  BY DEF Assigned
<1>2. \A h \in Hands : Given(new, free, h) # {} =>
         /\ pick(h) \in new
         /\ h \in free
         /\ Cardinality(Below(new, pick(h))) = Cardinality(Below(free, h))
  BY DEF Given
<1>3. \A i \in new : i \in 1 .. Len(ids) /\ ids[i] \in Nat /\ ids[i] # 0
                     /\ \A h \in Hands : kept[h] # ids[i]
  BY DEF New
<1>4. \A h \in free : h \in Hands /\ kept[h] = 0
  BY DEF Free
<1>5. a \in [Hands -> Nat]
  <2>1. \A h \in Hands : a[h] \in Nat
    BY <1>1, <1>2, <1>3
  <2> QED
    BY <2>1 DEF Assigned
<1>6. \A h \in Hands : a[h] # kept[h] =>
         kept[h] = 0 /\ a[h] # 0 /\ \A g \in Hands : kept[g] # a[h]
  BY <1>1, <1>2, <1>3, <1>4
<1>7. ASSUME NEW g \in Hands, NEW h \in Hands, a[g] # kept[g], a[h] # kept[h], a[g] = a[h]
      PROVE  g = h
  <2>1. Given(new, free, g) # {} /\ Given(new, free, h) # {}
    BY <1>1, <1>7
  <2>2. ids[pick(g)] = ids[pick(h)]
    BY <1>1, <1>7, <2>1
  <2>3. pick(g) = pick(h)
    BY <1>2, <1>3, <2>1, <2>2 DEF Distinct
  <2>4. Cardinality(Below(free, g)) = Cardinality(Below(free, h))
    BY <1>2, <2>1, <2>3
  <2>5. g \in free /\ h \in free /\ free \in SUBSET Hands
    BY <1>2, <2>1 DEF Free
  <2>6. Cardinality(Below(free, g)) \in Nat /\ Cardinality(Below(free, h)) \in Nat
    <3>1. IsFiniteSet(Below(free, g)) /\ IsFiniteSet(Below(free, h))
      BY <2>5, HandsFinite, FS_Subset DEF Below
    <3> QED
      BY <3>1, FS_CardinalityType
  <2>7. ~ (g < h) /\ ~ (h < g)
    BY <2>4, <2>5, <2>6, BelowMono
  <2> QED
    BY <2>7, HandsAssumption DEF Hands
<1> QED
  BY <1>5, <1>6, <1>7

-----------------------------------------------------------------------------
(* One step of the fast thread. *)

(* What the head of the queue is, and what the rest of the queue still is. *)
LEMMA HeadFacts ==
    ASSUME TypeOK, QueueOK, queue # <<>>, queue' = Tail(queue)
    PROVE  /\ Head(queue) \in Messages
           /\ Head(queue).type = "known" => /\ Head(queue).ids \in Seq(Nat)
                                            /\ Distinct(Head(queue).ids)
           /\ Head(queue).type = "palm" => /\ Head(queue).arg \in Nat
                                           /\ Head(queue).pos \in Positions
                                           /\ IdsFit => Head(queue).arg # 0
           /\ queue' \in Seq(Messages)
           /\ QueueOK'
<1>1. queue \in Seq(Messages) /\ Len(queue) > 0
  BY DEF TypeOK, Messages
<1>2. Head(queue) \in Messages /\ queue' \in Seq(Messages)
  BY <1>1
<1>3. Head(queue) = queue[1] /\ 1 \in 1 .. Len(queue)
  BY <1>1
<1>4. \A n \in 1 .. Len(queue') : queue'[n] = queue[n + 1] /\ n + 1 \in 1 .. Len(queue)
  BY <1>1
<1>5. QueueOK'
  BY <1>4 DEF QueueOK
<1> QED
  BY <1>2, <1>3, <1>5 DEF QueueOK, Messages, KnownMsg, PalmMsg

(* Each slot either is untouched, or is freed, or is given a hand, or both. *)
LEMMA SlotCases ==
    ASSUME TypeOK, NEW ids \in Seq(Nat), Distinct(ids), HandleKnown(ids), NEW h \in Hands
    PROVE  \/ /\ leapId'[h] = leapId[h] /\ wire'[h] = wire[h] /\ pos'[h] = pos[h]
           \/ /\ leapId[h] # 0 /\ leapId'[h] = 0
              /\ wire'[h] = Stopped(wire[h]) /\ pos'[h] = Origin
           \/ /\ leapId[h] = 0 /\ leapId'[h] # 0
              /\ wire'[h] = Started(wire[h]) /\ pos'[h] = Origin
           \/ /\ leapId[h] # 0 /\ leapId'[h] # 0 /\ leapId'[h] # leapId[h]
              /\ wire'[h] = Started(Stopped(wire[h])) /\ pos'[h] = Origin
<1> DEFINE kept == Kept(ids)
           new == Assigned(ids, kept)
<1>1. /\ kept \in [Hands -> Nat]
      /\ kept[h] = leapId[h] \/ kept[h] = 0
  BY KeptType
<1>2. kept[h] # leapId[h] => \A i \in 1 .. Len(ids) : ids[i] # leapId[h]
  BY DEF Kept, IsKnown
<1>3. new[h] # kept[h] => /\ kept[h] = 0
                          /\ new[h] # 0
                          /\ \E i \in 1 .. Len(ids) : new[h] = ids[i]
  <2>1. new[h] # kept[h] => kept[h] = 0 /\ new[h] # 0
    BY <1>1, AssignedFacts
  <2>2. new[h] # kept[h] => \E i \in New(ids, kept) : new[h] = ids[i]
    BY DEF Assigned, Given
  <2> QED
    BY <2>1, <2>2 DEF New
<1>4. /\ leapId'[h] = new[h]
      /\ wire'[h] = Rewired(wire[h], leapId[h], kept[h], new[h])
      /\ pos'[h] = IF leapId[h] = new[h] THEN pos[h] ELSE Origin
  BY DEF HandleKnown, Rested
<1>5. CASE kept[h] = leapId[h] /\ new[h] = kept[h]
  BY <1>4, <1>5 DEF Rewired
<1>6. CASE kept[h] # leapId[h] /\ new[h] = kept[h]
  BY <1>1, <1>4, <1>6 DEF Rewired
<1>7. CASE kept[h] = leapId[h] /\ new[h] # kept[h]
  BY <1>3, <1>4, <1>7 DEF Rewired
<1>8. CASE kept[h] # leapId[h] /\ new[h] # kept[h]
  <2>1. new[h] # leapId[h]
    BY <1>2, <1>3, <1>8
  <2> QED
    BY <1>1, <1>3, <1>4, <1>8, <2>1 DEF Rewired
<1> QED
  BY <1>5, <1>6, <1>7, <1>8

(* The arithmetic of the stamps, for any record of a wire. *)
WireRec == [time : Nat, since : Nat, until : Nat]

Behind(w) == w.since <= w.time /\ w.until <= w.time

LEMMA StampFacts ==
    ASSUME NEW w \in WireRec, now \in Nat, Behind(w)
    PROVE  /\ Added(w) \in WireRec /\ Behind(Added(w))
           /\ Added(w).time > w.time
           /\ Added(w).since = w.since /\ Added(w).until = w.until
           /\ Started(w) \in WireRec /\ Behind(Started(w))
           /\ Started(w).time > w.time
           /\ Started(w).since = Started(w).time /\ Started(w).until = w.until
           /\ Stopped(w) \in WireRec /\ Behind(Stopped(w))
           /\ Stopped(w).time > w.time
           /\ Stopped(w).until = Stopped(w).time /\ Stopped(w).since = w.since
<1>1. w.time \in Nat /\ w.since \in Nat /\ w.until \in Nat
  BY DEF WireRec
<1>2. Stamp(w) \in Nat /\ Stamp(w) > w.time
  BY <1>1 DEF Stamp
<1>3. /\ Added(w) \in WireRec
      /\ Added(w).time = Stamp(w)
      /\ Added(w).since = w.since /\ Added(w).until = w.until
  BY <1>2 DEF Added, WireRec
<1>4. /\ Started(w) \in WireRec
      /\ Started(w).time = Stamp(w)
      /\ Started(w).since = Stamp(w) /\ Started(w).until = w.until
  BY <1>2 DEF Started, WireRec
<1>5. /\ Stopped(w) \in WireRec
      /\ Stopped(w).time = Stamp(w) + 1
      /\ Stopped(w).since = w.since /\ Stopped(w).until = Stamp(w) + 1
  <2>1. Stamp(w) + 1 \in Nat
    BY <1>2
  <2> QED
    BY <2>1 DEF Stopped, WireRec
<1> QED
  BY <1>1, <1>2, <1>3, <1>4, <1>5 DEF Behind

-----------------------------------------------------------------------------
(* The invariant. *)

LEMMA InitIInv == Init => IInv
<1> SUFFICES ASSUME Init PROVE IInv
  OBVIOUS
<1>1. TypeOK
  <2>1. frames \in 0 .. MaxFrames /\ now \in 0 .. MaxNow /\ sending \in Nat \ {0}
    BY BoundsAssumption DEF Init
  <2>4. leapId \in [Hands -> Nat] /\ pos \in [Hands -> Positions]
    BY OriginAssumption DEF Init
  <2>5. created \subseteq Hands /\ crashed \in BOOLEAN
    BY DEF Init
  <2>2. wire \in [Hands -> WireRec]
    BY DEF Init, WireRec
  <2>3. queue \in Seq(Messages) /\ frame \in Seq(FrameHand)
    BY DEF Init
  <2> QED
    BY <2>1, <2>2, <2>3, <2>4, <2>5 DEF TypeOK, WireRec, Messages
<1>2. QueueOK /\ FrameOK /\ SlotsDistinct /\ IdleAtOrigin
  BY DEF Init, QueueOK, FrameOK, SlotsDistinct, IdleAtOrigin
<1>3. WireTracksSlot
  BY DEF Init, WireTracksSlot, Contract!Open
<1> QED
  BY <1>1, <1>2, <1>3 DEF IInv

(* Appending a message to the queue. *)
LEMMA AppendFacts ==
    ASSUME TypeOK, QueueOK, NEW m \in Messages, queue' = Append(queue, m),
           m.type = "known" => Distinct(m.ids),
           m.type = "palm" /\ IdsFit => m.arg # 0
    PROVE  queue' \in Seq(Messages) /\ QueueOK'
<1>1. queue \in Seq(Messages)
  BY DEF TypeOK, Messages
<1>2. /\ queue' \in Seq(Messages)
      /\ Len(queue') = Len(queue) + 1
      /\ \A n \in 1 .. Len(queue') : queue'[n] = IF n = Len(queue) + 1 THEN m ELSE queue[n]
      /\ Len(queue) \in Nat
  BY <1>1
<1> QED
  BY <1>2 DEF QueueOK

(* The parts of the invariant that the listener thread can disturb. *)
LEMMA ListenerStep ==
    ASSUME IInv, OnFrame \/ SendPalm
    PROVE  TypeOK' /\ QueueOK' /\ FrameOK'
<1>1. CASE OnFrame
  <2>1. PICK f \in Frames : /\ frames < MaxFrames
                            /\ frames' = frames + 1
                            /\ frame' = f
                            /\ sending' = 1
                            /\ queue' = Append(queue, Known(f))
                            /\ UNCHANGED <<created, leapId, wire, pos, now, crashed>>
    BY <1>1 DEF OnFrame
  <2>2. Known(f) \in KnownMsg /\ Distinct(Known(f).ids) /\ Known(f).type = "known"
    BY KnownShape DEF Known
  <2>3. queue' \in Seq(Messages) /\ QueueOK'
    BY <2>1, <2>2, AppendFacts DEF IInv, Messages
  <2>4. f \in Seq(FrameHand)
    BY FramesAssumption
  <2>5. frames' \in 0 .. MaxFrames
    BY <2>1, BoundsAssumption DEF IInv, TypeOK
  <2> QED
    BY <2>1, <2>3, <2>4, <2>5 DEF IInv, TypeOK, FrameOK, Messages
<1>2. CASE SendPalm
  <2>1. /\ sending <= Len(frame)
        /\ sending' = sending + 1
        /\ UNCHANGED <<created, leapId, wire, pos, frame, frames, now, crashed>>
        /\ \/ queue' = queue
           \/ queue' = Append(queue, Palm(frame[sending]))
    BY <1>2 DEF SendPalm, CallbackDone, IInv, TypeOK
  <2>2. frame[sending] \in FrameHand /\ sending \in 1 .. Len(frame) /\ frame \in Frames
    BY <2>1 DEF IInv, TypeOK, FrameOK
  <2>3. IdsFit => frame[sending].id < IdMod
    BY <2>2 DEF IdsFit
  <2>4. /\ Palm(frame[sending]) \in Messages
        /\ Palm(frame[sending]).type = "palm"
        /\ IdsFit => Palm(frame[sending]).arg # 0
    BY <2>2, <2>3, PalmShape DEF Messages, FrameHand, Palm
  <2>5. queue' \in Seq(Messages) /\ QueueOK'
    <3>1. CASE queue' = queue
      BY <3>1 DEF IInv, TypeOK, Messages, QueueOK
    <3>2. CASE queue' = Append(queue, Palm(frame[sending]))
      BY <3>2, <2>4, AppendFacts DEF IInv
    <3> QED
      BY <2>1, <3>1, <3>2
  <2> QED
    BY <2>1, <2>5 DEF IInv, TypeOK, FrameOK, Messages
<1> QED
  BY <1>1, <1>2

(* Only the fast thread touches the slots and the wires. *)
LEMMA SlotsUntouched ==
    ASSUME IInv, UNCHANGED <<leapId, wire, pos>>
    PROVE  SlotsDistinct' /\ WireTracksSlot' /\ IdleAtOrigin'
  BY DEF IInv, SlotsDistinct, WireTracksSlot, IdleAtOrigin, Contract!Open

(* A slot's wire keeps its type, its stamps and its event in step when the *)
(* known hands are handled.                                                *)
LEMMA KnownWire ==
    ASSUME TypeOK, WireTracksSlot, NEW ids \in Seq(Nat), Distinct(ids), HandleKnown(ids),
           NEW h \in Hands
    PROVE  /\ wire'[h] \in WireRec
           /\ Behind(wire'[h])
           /\ wire'[h].since > wire'[h].until <=> leapId'[h] # 0
           /\ wire'[h] = wire[h] \/ Contract!Step(wire[h], wire'[h])
<1> DEFINE w == wire[h]
<1>1. /\ w \in WireRec /\ Behind(w) /\ now \in Nat
      /\ w.since > w.until <=> leapId[h] # 0
      /\ w.time \in Nat /\ w.since \in Nat /\ w.until \in Nat
  BY BoundsAssumption DEF TypeOK, WireTracksSlot, WireRec, Behind, Contract!Open
<1>2. CASE leapId'[h] = leapId[h] /\ wire'[h] = w
  BY <1>1, <1>2
<1>3. CASE leapId[h] # 0 /\ leapId'[h] = 0 /\ wire'[h] = Stopped(w)
  <2>1. /\ Stopped(w) \in WireRec /\ Behind(Stopped(w))
        /\ Stopped(w).time > w.time
        /\ Stopped(w).until = Stopped(w).time /\ Stopped(w).since = w.since
    BY <1>1, StampFacts
  <2>2. Contract!Closes(w, Stopped(w))
    BY <1>1, <1>3, <2>1 DEF Contract!Closes, Contract!Open
  <2>3. ~ (Stopped(w).since > Stopped(w).until)
    BY <1>1, <2>1 DEF Behind, WireRec
  <2> QED
    BY <1>3, <2>1, <2>2, <2>3 DEF Contract!Step
<1>4. CASE leapId[h] = 0 /\ leapId'[h] # 0 /\ wire'[h] = Started(w)
  <2>1. /\ Started(w) \in WireRec /\ Behind(Started(w))
        /\ Started(w).time > w.time
        /\ Started(w).since = Started(w).time /\ Started(w).until = w.until
    BY <1>1, StampFacts
  <2>2. Contract!Opens(w, Started(w))
    BY <1>1, <1>4, <2>1 DEF Contract!Opens, Contract!Open
  <2>3. Started(w).since > Started(w).until
    BY <1>1, <2>1 DEF Behind, WireRec
  <2> QED
    BY <1>4, <2>1, <2>2, <2>3 DEF Contract!Step
<1>5. CASE leapId[h] # 0 /\ leapId'[h] # 0 /\ wire'[h] = Started(Stopped(w))
  <2> DEFINE v == Stopped(w)
             n == Started(v)
  <2>1. /\ v \in WireRec /\ Behind(v)
        /\ v.time > w.time
        /\ v.until = v.time
        /\ v.time \in Nat
    BY <1>1, StampFacts DEF WireRec
  <2>2. /\ n \in WireRec /\ Behind(n)
        /\ n.time > v.time
        /\ n.since = n.time /\ n.until = v.until
        /\ n.time \in Nat
    BY <1>1, <2>1, StampFacts DEF WireRec
  <2>3. Contract!Reopens(w, n) /\ n.since > n.until
    BY <1>1, <1>5, <2>1, <2>2 DEF Contract!Reopens, Contract!Open
  <2> QED
    BY <1>5, <2>2, <2>3 DEF Contract!Step
<1> QED
  BY <1>2, <1>3, <1>4, <1>5, SlotCases

(* No two slots have the same hand after the known hands are handled, and  *)
(* no hand moves from one slot to another.                                 *)
LEMMA KnownSlots ==
    ASSUME TypeOK, SlotsDistinct, NEW ids \in Seq(Nat), Distinct(ids), HandleKnown(ids),
           NEW g \in Hands, NEW h \in Hands
    PROVE  /\ leapId' \in [Hands -> Nat]
           /\ leapId'[g] # 0 /\ leapId'[g] = leapId'[h] => g = h
           /\ leapId[g] # 0 /\ leapId'[h] = leapId[g] => g = h
<1> DEFINE kept == Kept(ids)
           new == Assigned(ids, kept)
<1>1. /\ kept \in [Hands -> Nat]
      /\ kept[g] = leapId[g] \/ kept[g] = 0
      /\ kept[h] = leapId[h] \/ kept[h] = 0
  BY KeptType
<1>2. leapId' = new /\ new \in [Hands -> Nat]
  BY <1>1, AssignedFacts DEF HandleKnown
<1>3. /\ new[g] # kept[g] => /\ kept[g] = 0 /\ new[g] # 0
                             /\ kept[g] # new[g] /\ kept[h] # new[g]
      /\ new[h] # kept[h] => /\ kept[h] = 0 /\ new[h] # 0
                             /\ kept[g] # new[h] /\ kept[h] # new[h]
      /\ new[g] # kept[g] /\ new[h] # kept[h] /\ new[g] = new[h] => g = h
  BY <1>1, AssignedFacts
<1>4. leapId[g] # 0 /\ leapId[g] = leapId[h] => g = h
  BY DEF SlotsDistinct
<1>5. new[g] # 0 /\ new[g] = new[h] => g = h
  BY <1>1, <1>3, <1>4
<1>6. kept[g] = 0 /\ leapId[g] # 0 => \A i \in 1 .. Len(ids) : ids[i] # leapId[g]
  BY DEF Kept, IsKnown
<1>7. new[h] # kept[h] => \E i \in 1 .. Len(ids) : new[h] = ids[i]
  BY DEF Assigned, Given, New
<1>8. leapId[g] # 0 /\ new[h] = leapId[g] => g = h
  BY <1>1, <1>3, <1>4, <1>6, <1>7
<1> QED
  BY <1>2, <1>5, <1>8

LEMMA KnownStep ==
    ASSUME IInv, DequeueKnown
    PROVE  IInv' /\ Contract!Next
<1> DEFINE ids == Head(queue).ids
<1>1. /\ ids \in Seq(Nat) /\ Distinct(ids)
      /\ queue' \in Seq(Messages) /\ QueueOK'
  BY HeadFacts DEF DequeueKnown, IInv
<1>2. HandleKnown(ids)
  BY DEF DequeueKnown
<1>3. \A h \in Hands : /\ wire'[h] \in WireRec
                       /\ Behind(wire'[h])
                       /\ wire'[h].since > wire'[h].until <=> leapId'[h] # 0
                       /\ wire'[h] = wire[h] \/ Contract!Step(wire[h], wire'[h])
  BY <1>1, <1>2, KnownWire DEF IInv
<1>4. \A g, h \in Hands : /\ leapId' \in [Hands -> Nat]
                          /\ leapId'[g] # 0 /\ leapId'[g] = leapId'[h] => g = h
  BY <1>1, <1>2, KnownSlots DEF IInv
<1>5. TypeOK'
  <2>1. wire' \in [Hands -> WireRec]
    BY <1>2, <1>3 DEF HandleKnown
  <2>2. pos' \in [Hands -> Positions]
    BY <1>2, OriginAssumption DEF HandleKnown, Rested, IInv, TypeOK
  <2>3. leapId' \in [Hands -> Nat]
    BY <1>4, HandsAssumption DEF Hands
  <2> QED
    BY <1>1, <2>1, <2>2, <2>3 DEF DequeueKnown, IInv, TypeOK, Messages, WireRec
<1>6. FrameOK'
  BY DEF DequeueKnown, IInv, FrameOK
<1>7. SlotsDistinct'
  BY <1>4 DEF SlotsDistinct
<1>8. WireTracksSlot'
  BY <1>3 DEF WireTracksSlot, Contract!Open, Behind
<1>9. IdleAtOrigin'
  <2>1. \A h \in Hands : leapId'[h] = 0 =>
           \/ pos'[h] = Origin
           \/ pos'[h] = pos[h] /\ leapId[h] = 0
    BY <1>1, <1>2, SlotCases DEF IInv
  <2> QED
    BY <2>1 DEF IInv, IdleAtOrigin, IdsFit
<1>10. Contract!Next
  BY <1>3 DEF Contract!Next
<1> QED
  BY <1>1, <1>5, <1>6, <1>7, <1>8, <1>9, <1>10 DEF IInv

LEMMA PalmStep ==
    ASSUME IInv, DequeuePalm
    PROVE  /\ IInv'
           /\ IdsFit => Contract!Next
<1> DEFINE arg == Head(queue).arg
           p == Head(queue).pos
<1>1. /\ arg \in Nat /\ p \in Positions
      /\ IdsFit => arg # 0
      /\ queue' \in Seq(Messages) /\ QueueOK'
  BY HeadFacts DEF DequeuePalm, IInv
<1>2. HandlePalm(arg, p) /\ UNCHANGED <<created, frame, sending, frames, now, crashed>>
  BY DEF DequeuePalm
<1>3. /\ leapId' = leapId
      /\ \A h \in Hands : \/ wire'[h] = wire[h] /\ pos'[h] = pos[h]
                          \/ leapId[h] = arg /\ wire'[h] = Added(wire[h])
  BY <1>2 DEF HandlePalm, Target
<1>4. \A h \in Hands : /\ wire[h] \in WireRec /\ Behind(wire[h]) /\ now \in Nat
                       /\ Contract!Open(wire[h]) <=> leapId[h] # 0
  BY BoundsAssumption DEF IInv, TypeOK, WireTracksSlot, WireRec, Behind
<1>5. \A h \in Hands : /\ Added(wire[h]) \in WireRec /\ Behind(Added(wire[h]))
                       /\ Added(wire[h]).time > wire[h].time
                       /\ Added(wire[h]).since = wire[h].since
                       /\ Added(wire[h]).until = wire[h].until
  BY <1>4, StampFacts
<1>6. TypeOK'
  <2>1. wire' \in [Hands -> WireRec]
    BY <1>2, <1>4, <1>5 DEF HandlePalm
  <2>2. pos' \in [Hands -> Positions]
    <3>1. pos \in [Hands -> Positions]
      BY DEF IInv, TypeOK
    <3> QED
      BY <1>1, <1>2, <3>1 DEF HandlePalm
  <2> QED
    BY <1>1, <1>2, <1>3, <2>1, <2>2 DEF IInv, TypeOK, Messages, WireRec
<1>7. FrameOK' /\ SlotsDistinct'
  BY <1>2, <1>3 DEF IInv, FrameOK, SlotsDistinct
<1>8. WireTracksSlot'
  BY <1>3, <1>4, <1>5 DEF WireTracksSlot, Contract!Open, Behind
<1>9. IdleAtOrigin'
  BY <1>1, <1>3 DEF IInv, IdleAtOrigin, IdsFit
<1>10. ASSUME IdsFit PROVE Contract!Next
  <2>1. ASSUME NEW h \in Hands, wire'[h] # wire[h]
        PROVE  Contract!Emits(wire[h], wire'[h])
    <3>1. leapId[h] = arg /\ wire'[h] = Added(wire[h])
      BY <1>3, <2>1
    <3>2. Contract!Open(wire[h])
      BY <1>1, <1>4, <1>10, <3>1
    <3> QED
      BY <1>5, <3>1, <3>2 DEF Contract!Emits
  <2> QED
    BY <2>1 DEF Contract!Next, Contract!Step
<1> QED
  BY <1>1, <1>6, <1>7, <1>8, <1>9, <1>10 DEF IInv

(* The steps of the other threads, and the crash. *)
LEMMA OtherStep ==
    ASSUME IInv, CreateHand \/ OnFrame \/ SendPalm \/ DequeueNull \/ Tick \/ UNCHANGED vars
    PROVE  IInv' /\ UNCHANGED <<leapId, wire, pos>>
<1>1. UNCHANGED <<leapId, wire, pos>>
  BY DEF CreateHand, OnFrame, SendPalm, DequeueNull, Tick, vars
<1>2. SlotsDistinct' /\ WireTracksSlot' /\ IdleAtOrigin'
  BY <1>1, SlotsUntouched
<1>3. TypeOK' /\ QueueOK' /\ FrameOK'
  <2>1. CASE OnFrame \/ SendPalm
    BY <2>1, ListenerStep
  <2>2. CASE CreateHand
    BY <2>2 DEF CreateHand, IInv, TypeOK, QueueOK, FrameOK
  <2>3. CASE DequeueNull
    <3>1. queue' \in Seq(Messages) /\ QueueOK'
      BY <2>3, HeadFacts DEF DequeueNull, IInv
    <3>2. UNCHANGED <<created, leapId, wire, pos, frame, sending, frames, now>> /\ crashed' = TRUE
      BY <2>3 DEF DequeueNull
    <3> QED
      BY <3>1, <3>2 DEF IInv, TypeOK, FrameOK, Messages
  <2>4. CASE Tick
    <3>1. now' \in 0 .. MaxNow
      BY <2>4, BoundsAssumption DEF Tick, IInv, TypeOK
    <3> QED
      BY <2>4, <3>1 DEF Tick, IInv, TypeOK, QueueOK, FrameOK
  <2>5. CASE UNCHANGED vars
    BY <2>5 DEF vars, IInv, TypeOK, QueueOK, FrameOK
  <2> QED
    BY <2>1, <2>2, <2>3, <2>4, <2>5
<1> QED
  BY <1>2, <1>3, <1>1 DEF IInv

-----------------------------------------------------------------------------
(* Theorems. *)

(* The inductive invariant: everything else follows from it. *)
THEOREM Invariance == Spec => []IInv
<1>1. Init => IInv
  BY InitIInv
<1>2. IInv /\ [Next]_vars => IInv'
  BY KnownStep, PalmStep, OtherStep DEF Next
<1> QED
  BY <1>1, <1>2, PTL DEF Spec

(* The variables keep their types (the handlers never leave a partial      *)
(* record or a message of a third kind).                                   *)
THEOREM TypeCorrect == Spec => []TypeOK
  BY Invariance, PTL DEF IInv

(* thing_dequeue_fast never gives one hand two outputs. *)
THEOREM SlotsAlwaysDistinct == Spec => []SlotsDistinct
  BY Invariance, PTL DEF IInv

(* An output's event is open exactly while the output has a hand. *)
THEOREM WireAlwaysTracksSlot == Spec => []WireTracksSlot
  BY Invariance, PTL DEF IInv

(* A free output rests at the origin, as long as ids fit in 24 bits. *)
THEOREM IdleAlwaysAtOrigin == Spec => []IdleAtOrigin
  BY Invariance, PTL DEF IInv

(* A hand in view keeps its output. *)
THEOREM HandsAlwaysStay == Spec => HandsStay
<1> DEFINE Stay == \A g, h \in Hands : leapId[g] # 0 /\ leapId'[h] = leapId[g] => g = h
<1>1. IInv /\ [Next]_vars => [Stay]_vars
  <2> SUFFICES ASSUME IInv, Next PROVE Stay
    OBVIOUS
  <2>1. CASE DequeueKnown
    <3>1. HandleKnown(Head(queue).ids)
      BY <2>1 DEF DequeueKnown
    <3>2. Head(queue).ids \in Seq(Nat) /\ Distinct(Head(queue).ids)
      BY <2>1, HeadFacts DEF DequeueKnown, IInv
    <3> QED
      BY <3>1, <3>2, KnownSlots DEF IInv
  <2>2. CASE leapId' = leapId
    BY <2>2 DEF IInv, SlotsDistinct
  <2>3. CASE DequeuePalm
    BY <2>2, <2>3 DEF DequeuePalm, HandlePalm
  <2> QED
    BY <2>1, <2>2, <2>3, OtherStep DEF Next
<1>2. QED
  BY <1>1, Invariance, PTL DEF Spec, HandsStay

(* The outputs implement the event source contract: every event is opened, *)
(* fed and closed in turn, with stamps that run forward.                   *)
THEOREM WiresObeyContract == ASSUME IdsFit PROVE Spec => WireContract
<1>1. Init => Contract!Init
  BY DEF Init, Contract!Init, Contract!Idle
<1>2. IInv /\ [Next]_vars => [Contract!Next]_wire
  BY KnownStep, PalmStep, OtherStep, IdsFit DEF Next
<1> QED
  BY <1>1, <1>2, Invariance, PTL DEF Spec, WireContract, Contract!Spec

-----------------------------------------------------------------------------
(* The last frame is followed. *)

(* The range of a finite function is finite, and not larger.               *)
LEMMA RangeFacts ==
    ASSUME NEW D, IsFiniteSet(D), NEW f \in [D -> Nat]
    PROVE  LET R == {f[x] : x \in D}
           IN  /\ IsFiniteSet(R) /\ Cardinality(R) <= Cardinality(D)
               /\ (\A x, y \in D : f[x] = f[y] => x = y) => Cardinality(R) = Cardinality(D)
<1> DEFINE R == {f[x] : x \in D}
<1>1. f \in Surjection(D, R)
  BY DEF Surjection
<1>2. (\A x, y \in D : f[x] = f[y] => x = y) => f \in Injection(D, R)
  BY DEF Injection, IsInjective
<1> HIDE DEF R
<1>3. /\ IsFiniteSet(R) /\ Cardinality(R) <= Cardinality(D)
      /\ Cardinality(R) = Cardinality(D) <=> f \in Injection(D, R)
  BY <1>1, FS_Surjection
<1>4. /\ IsFiniteSet(R) /\ Cardinality(R) <= Cardinality(D)
      /\ (\A x, y \in D : f[x] = f[y] => x = y) => Cardinality(R) = Cardinality(D)
  BY <1>2, <1>3
<1> QED
  BY <1>4 DEF R

(* Either every id of the message has a slot, or every slot has an id.     *)
LEMMA AllGiven ==
    ASSUME NEW ids \in Seq(Nat), NEW kept \in [Hands -> Nat]
    PROVE  \/ \A i \in New(ids, kept) : \E h \in Hands : Assigned(ids, kept)[h] = ids[i]
           \/ \A h \in Hands : Assigned(ids, kept)[h] # 0
<1> DEFINE new == New(ids, kept)
           free == Free(kept)
           a == Assigned(ids, kept)
           pick(h) == CHOOSE i \in Given(new, free, h) : TRUE
<1>1. \A h \in Hands : a[h] = IF Given(new, free, h) = {} THEN kept[h] ELSE ids[pick(h)]
  BY DEF Assigned
<1>2. \A h \in Hands, i \in new :
         i \in Given(new, free, h) <=> h \in free /\ Rank(new, i) = Rank(free, h)
  BY DEF Given, Rank, Below
<1>3. \A h \in Hands : Given(new, free, h) # {} => pick(h) \in Given(new, free, h)
  OBVIOUS
<1>4. \A h \in Hands : Given(new, free, h) \subseteq new /\ (h \notin free => Given(new, free, h) = {})
  BY DEF Given
<1>5. new \in SUBSET Nat /\ IsFiniteSet(new) /\ free \in SUBSET Hands /\ free \in SUBSET Nat
      /\ IsFiniteSet(free)
  <2>0. Len(ids) \in Nat
    OBVIOUS
  <2>1. Hands \subseteq Nat /\ 1 .. Len(ids) \subseteq Nat /\ IsFiniteSet(1 .. Len(ids))
    <3>1. IsFiniteSet(1 .. Len(ids))
      BY <2>0, FS_Interval
    <3> QED
      BY <2>0, <3>1, HandsAssumption DEF Hands
  <2>2. new \subseteq 1 .. Len(ids) /\ free \subseteq Hands
    BY DEF New, Free
  <2> HIDE DEF new, free
  <2> QED
    BY <2>1, <2>2, HandsFinite, FS_Subset
<1>6. \A i \in new : ids[i] # 0
  BY DEF New
<1>7. \A h \in Hands : h \notin free => kept[h] # 0
  BY DEF Free
<1> HIDE DEF new, free, a, pick
<1>8. /\ Cardinality(new) \in Nat /\ Cardinality(free) \in Nat
      /\ \A i \in new : Rank(new, i) \in 0 .. Cardinality(new) - 1
      /\ \A h \in free : Rank(free, h) \in 0 .. Cardinality(free) - 1
      /\ \A i, k \in new : i < k => Rank(new, i) < Rank(new, k)
      /\ \A r \in 0 .. Cardinality(new) - 1 : \E i \in new : Rank(new, i) = r
      /\ \A r \in 0 .. Cardinality(free) - 1 : \E h \in free : Rank(free, h) = r
  BY <1>5, Ranked
<1>9. CASE Cardinality(new) <= Cardinality(free)
  <2>1. ASSUME NEW i \in new
        PROVE  \E h \in Hands : a[h] = ids[i]
    <3>1. Rank(new, i) \in 0 .. Cardinality(free) - 1
      BY <1>8, <1>9
    <3>2. PICK h \in free : Rank(free, h) = Rank(new, i)
      BY <1>8, <3>1
    <3>3. h \in Hands /\ i \in Given(new, free, h)
      BY <1>2, <1>5, <3>2
    <3>4. pick(h) \in new /\ Rank(new, pick(h)) = Rank(new, i)
      BY <1>2, <1>3, <1>4, <3>2, <3>3
    <3>5. pick(h) = i
      <4>1. ~ (pick(h) < i) /\ ~ (i < pick(h))
        BY <1>8, <3>4
      <4>2. pick(h) \in Nat /\ i \in Nat
        BY <1>5, <3>4
      <4> QED
        BY <4>1, <4>2
    <3> QED
      BY <1>1, <3>3, <3>5
  <2> QED
    BY <2>1 DEF a, new
<1>10. CASE Cardinality(free) < Cardinality(new)
  <2>1. ASSUME NEW h \in Hands
        PROVE  a[h] # 0
    <3>1. CASE h \in free
      <4>1. Rank(free, h) \in 0 .. Cardinality(new) - 1
        BY <1>8, <1>10, <3>1
      <4>2. PICK i \in new : Rank(new, i) = Rank(free, h)
        BY <1>8, <4>1
      <4>3. i \in Given(new, free, h)
        BY <1>2, <3>1, <4>2
      <4> QED
        BY <1>1, <1>3, <1>4, <1>6, <4>3
    <3>2. CASE h \notin free
      BY <1>1, <1>4, <1>7, <3>2
    <3> QED
      BY <3>1, <3>2
  <2> QED
    BY <2>1 DEF a
<1> QED
  BY <1>8, <1>9, <1>10

(* After a message of known hands, the outputs have hands of the message   *)
(* and as many of them as there are outputs.                               *)
LEMMA HandledExact ==
    ASSUME TypeOK, SlotsDistinct, NEW ids \in Seq(Nat), Distinct(ids), HandleKnown(ids),
           NEW I, I = {ids[i] : i \in 1 .. Len(ids)} \ {0}
    PROVE  /\ Tracked' \subseteq I
           /\ Cardinality(Tracked') = IF Cardinality(I) < HANDS THEN Cardinality(I) ELSE HANDS
<1> DEFINE kept == Kept(ids)
           a == Assigned(ids, kept)
           R == {a[h] : h \in Hands}
           T == R \ {0}
<1>1. kept \in [Hands -> Nat]
  BY KeptType
<1>2. leapId' = a /\ a \in [Hands -> Nat]
  BY <1>1, AssignedFacts DEF HandleKnown
<1>3. Tracked' = T
  BY <1>2 DEF Tracked
<1>4. \A g, h \in Hands : a[g] # 0 /\ a[g] = a[h] => g = h
  <2>1. \A g, h \in Hands : leapId'[g] # 0 /\ leapId'[g] = leapId'[h] => g = h
    BY KnownSlots
  <2> HIDE DEF a
  <2> QED
    BY <1>2, <2>1
<1>5. \A h \in Hands : kept[h] # 0 => \E i \in 1 .. Len(ids) : kept[h] = ids[i]
  BY DEF Kept, IsKnown
<1>6. \A h \in Hands : a[h] # kept[h] => kept[h] = 0 /\ \E i \in 1 .. Len(ids) : a[h] = ids[i]
  <2>1. \A h \in Hands : a[h] # kept[h] => kept[h] = 0
    BY <1>1, AssignedFacts
  <2>2. \A h \in Hands : a[h] # kept[h] => \E i \in New(ids, kept) : a[h] = ids[i]
    BY DEF Assigned, Given
  <2> QED
    BY <2>1, <2>2 DEF New
<1>7. T \subseteq I
  <2> HIDE DEF a, kept
  <2> QED
    BY <1>5, <1>6
<1>8. \/ I \subseteq T
      \/ \A h \in Hands : a[h] # 0
  <2>1. \/ \A i \in New(ids, kept) : \E h \in Hands : a[h] = ids[i]
        \/ \A h \in Hands : a[h] # 0
    BY <1>1, AllGiven
  <2>2. \A i \in 1 .. Len(ids) : ids[i] # 0 =>
           i \in New(ids, kept) \/ \E h \in Hands : kept[h] = ids[i]
    BY DEF New
  <2> HIDE DEF a, kept
  <2>3. ASSUME \A i \in New(ids, kept) : \E h \in Hands : a[h] = ids[i],
               NEW i \in 1 .. Len(ids), ids[i] # 0
        PROVE  ids[i] \in T
    <3>1. \E h \in Hands : a[h] = ids[i]
      BY <1>6, <2>2, <2>3
    <3> QED
      BY <2>3, <3>1
  <2> QED
    BY <2>1, <2>3
<1>9. IsFiniteSet(I)
  <2>1. ids \in [1 .. Len(ids) -> Nat] /\ IsFiniteSet(1 .. Len(ids))
    BY FS_Interval
  <2>2. IsFiniteSet({ids[i] : i \in 1 .. Len(ids)})
    BY <2>1, RangeFacts
  <2> QED
    BY <2>2, FS_Subset
<1>10. IsFiniteSet(Hands) /\ Cardinality(Hands) = HANDS
  BY HandsFinite, FS_Interval, HandsAssumption DEF Hands
<1> HIDE DEF a, kept
<1>11. /\ IsFiniteSet(R) /\ Cardinality(R) <= HANDS
       /\ (\A g, h \in Hands : a[g] = a[h] => g = h) => Cardinality(R) = HANDS
  BY <1>2, <1>10, RangeFacts
<1>12. (\A h \in Hands : a[h] # 0) => T = R /\ Cardinality(R) = HANDS
  BY <1>4, <1>11
<1> HIDE DEF R
<1>13. Cardinality(T) <= HANDS /\ Cardinality(T) <= Cardinality(I)
  <2>1. Cardinality(T) <= Cardinality(R) /\ Cardinality(T) <= Cardinality(I)
    BY <1>7, <1>9, <1>11, FS_Subset
  <2>2. Cardinality(R) \in Nat /\ Cardinality(T) \in Nat
    BY <1>11, FS_Subset, FS_CardinalityType
  <2> QED
    BY <1>11, <2>1, <2>2, HandsAssumption
<1> HIDE DEF T
<1>14. Cardinality(I) \in Nat
  BY <1>9, FS_CardinalityType
<1>15. Cardinality(T) = IF Cardinality(I) < HANDS THEN Cardinality(I) ELSE HANDS
  <2>1. CASE I \subseteq T
    <3>1. T = I
      BY <1>7, <2>1
    <3> QED
      BY <1>13, <1>14, <3>1, HandsAssumption
  <2>2. CASE \A h \in Hands : a[h] # 0
    BY <1>12, <1>13, <1>14, <2>2, HandsAssumption
  <2> QED
    BY <1>8, <2>1, <2>2
<1> QED
  BY <1>3, <1>7, <1>15

(* The ids of a frame are those of its message.                            *)
LEMMA KnownIds ==
    ASSUME NEW f \in Seq(FrameHand)
    PROVE  IdsOf(f) = {Known(f).ids[i] : i \in 1 .. Len(Known(f).ids)} \ {0}
<1>1. Len(Known(f).ids) = Len(f)
  BY DEF Known
<1>2. \A i \in 1 .. Len(f) : Known(f).ids[i] = IF f[i].usable THEN f[i].id ELSE 0
  BY DEF Known
<1>3. \A i \in 1 .. Len(f) : f[i].id # 0 /\ f[i].usable \in BOOLEAN
  <2>1. \A i \in 1 .. Len(f) : f[i] \in FrameHand
    OBVIOUS
  <2> QED
    BY <2>1 DEF FrameHand
<1> QED
  BY <1>1, <1>2, <1>3 DEF IdsOf

(* Where the last message of known hands is, as the queue changes.         *)
LEMMA LateFacts ==
    ASSUME queue \in Seq(Messages), queue' \in Seq(Messages)
    PROVE  /\ \A m : queue' = Append(queue, m) /\ m.type # "known" =>
                 /\ \A n \in 1 .. Len(queue) : queue'[n] = queue[n]
                 /\ \A n \in 1 .. Len(queue) + 1 : Late(n)' = Late(n)
                 /\ Len(queue') = Len(queue) + 1 /\ queue'[Len(queue) + 1] = m
                 /\ Late(Len(queue) + 1)
           /\ \A m : queue' = Append(queue, m) /\ m.type = "known" =>
                 /\ \A n \in 1 .. Len(queue) + 1 : ~ Late(n)'
                 /\ Len(queue') = Len(queue) + 1 /\ queue'[Len(queue) + 1] = m
                 /\ \A n \in 1 .. Len(queue) : queue'[n] = queue[n]
           /\ queue' = Tail(queue) /\ queue # <<>> =>
                 /\ Len(queue) \in Nat \ {0} /\ Len(queue') = Len(queue) - 1
                 /\ \A n \in 1 .. Len(queue') : queue'[n] = queue[n + 1]
                 /\ \A n \in Nat \ {0} : Late(n)' = Late(n + 1)
                 /\ Late(1) <=> Head(queue).type # "known" /\ Late(2)
                 /\ Head(queue) = queue[1]
<1>1. ASSUME NEW m, queue' = Append(queue, m)
      PROVE  /\ Len(queue) \in Nat
             /\ \A n \in 1 .. Len(queue) : queue'[n] = queue[n]
             /\ Len(queue') = Len(queue) + 1 /\ queue'[Len(queue) + 1] = m
  BY <1>1
<1>2. ASSUME NEW m, queue' = Append(queue, m), m.type # "known"
      PROVE  /\ \A n \in 1 .. Len(queue) + 1 : Late(n)' = Late(n)
             /\ Late(Len(queue) + 1)
  <2>1. \A n \in 1 .. Len(queue) + 1 : Late(n)' <=> Late(n)
    BY <1>1, <1>2 DEF Late
  <2>2. \A n \in 1 .. Len(queue) + 1 : Late(n)' \in BOOLEAN /\ Late(n) \in BOOLEAN
    BY DEF Late
  <2>3. Late(Len(queue) + 1)
    BY DEF Late
  <2> QED
    BY <2>1, <2>2, <2>3
<1>3. ASSUME NEW m, queue' = Append(queue, m), m.type = "known"
      PROVE  \A n \in 1 .. Len(queue) + 1 : ~ Late(n)'
  BY <1>1, <1>3 DEF Late
<1>4. ASSUME queue' = Tail(queue), queue # <<>>
      PROVE  /\ Len(queue) \in Nat \ {0} /\ Len(queue') = Len(queue) - 1
             /\ \A n \in 1 .. Len(queue') : queue'[n] = queue[n + 1]
             /\ Head(queue) = queue[1]
  BY <1>4
<1>5. ASSUME queue' = Tail(queue), queue # <<>>
      PROVE  /\ \A n \in Nat \ {0} : Late(n)' <=> Late(n + 1)
             /\ Late(1) <=> Head(queue).type # "known" /\ Late(2)
  <2>1. ASSUME NEW n \in Nat \ {0}
        PROVE  Late(n)' <=> Late(n + 1)
    <3>1. ASSUME Late(n + 1), NEW k \in n .. Len(queue')
          PROVE  queue'[k].type # "known"
      BY <1>4, <1>5, <3>1 DEF Late
    <3>2. ASSUME Late(n)', NEW k \in n + 1 .. Len(queue)
          PROVE  queue[k].type # "known"
      <4>1. k - 1 \in n .. Len(queue') /\ queue'[k - 1] = queue[k]
        BY <1>4, <1>5
      <4> QED
        BY <3>2, <4>1 DEF Late
    <3> QED
      BY <3>1, <3>2 DEF Late
  <2>2. Late(1) <=> Head(queue).type # "known" /\ Late(2)
    BY <1>4, <1>5 DEF Late
  <2> QED
    BY <2>1, <2>2
<1>6. \A n : Late(n)' \in BOOLEAN /\ Late(n + 1) \in BOOLEAN
  BY DEF Late
<1> QED
  BY <1>1, <1>2, <1>3, <1>4, <1>5, <1>6

(* The messages of a frame are of one kind each.                           *)
LEMMA MessageKinds ==
    /\ \A f : Known(f).type = "known"
    /\ \A hand : Palm(hand).type = "palm"
    /\ \A m \in Messages : m.type \in {"known", "palm"}
  BY DEF Known, Palm, Messages, KnownMsg, PalmMsg

LEMMA InitFollow ==
    Init => FollowInv
<1> SUFFICES ASSUME Init
             PROVE  FollowInv
  OBVIOUS
<1>1. queue = <<>> /\ frame = <<>> /\ leapId = [h \in Hands |-> 0]
  BY DEF Init
<1>2. Tracked = {} /\ IdsOf(frame) = {}
  BY <1>1 DEF Tracked, IdsOf
<1>3. Exact
  BY <1>2, FS_EmptySet, HandsAssumption DEF Exact
<1> QED
  BY <1>1, <1>3 DEF FollowInv, FrameFollowed, PositionsFollowed

(* A new frame puts its message behind all others.                         *)
LEMMA FollowFrame ==
    ASSUME IInv, FollowInv, OnFrame, IInv'
    PROVE  FollowInv'
<1>1. PICK f \in Frames : frame' = f /\ sending' = 1 /\ queue' = Append(queue, Known(f))
  BY DEF OnFrame
<1>2. queue \in Seq(Messages) /\ queue' \in Seq(Messages)
  BY DEF IInv, TypeOK, Messages
<1>3. /\ Len(queue) \in Nat /\ Len(queue') = Len(queue) + 1
      /\ \A n \in 1 .. Len(queue) + 1 : ~ Late(n)'
      /\ queue'[Len(queue) + 1] = Known(f)
  <2>1. Known(f).type = "known"
    BY MessageKinds
  <2> QED
    BY <1>1, <1>2, <2>1, LateFacts
<1>4. \A n \in 1 .. Len(queue') : Late(n + 1)' => queue'[n] = Known(f)
  <2> SUFFICES ASSUME NEW n \in 1 .. Len(queue'), Late(n + 1)'
               PROVE  queue'[n] = Known(f)
    OBVIOUS
  <2>1. n + 1 \notin 1 .. Len(queue) + 1
    BY <1>3
  <2>2. n = Len(queue) + 1
    BY <1>3, <2>1
  <2> QED
    BY <1>3, <2>2
<1>5. ~ Late(1)' /\ \A n \in 1 .. Len(queue') : ~ Late(n)'
  BY <1>3
<1>6. FrameFollowed'
  BY <1>1, <1>4, <1>5 DEF FrameFollowed
<1>7. PositionsFollowed'
  <2>1. \A i \in 1 .. Len(frame') : ~ (i < sending')
    BY <1>1
  <2> QED
    BY <1>5, <2>1 DEF PositionsFollowed
<1> QED
  BY <1>6, <1>7 DEF FollowInv

(* The listener sends the next position of its frame, or passes over it.   *)
LEMMA FollowPalm ==
    ASSUME IInv, FollowInv, SendPalm, IInv'
    PROVE  FollowInv'
<1>1. /\ sending \in Nat \ {0} /\ sending \in 1 .. Len(frame) /\ sending' = sending + 1
      /\ frame' = frame /\ leapId' = leapId /\ pos' = pos /\ crashed' = crashed /\ ~ crashed
      /\ queue' = IF frame[sending].usable THEN Append(queue, Palm(frame[sending])) ELSE queue
  BY DEF SendPalm, CallbackDone, IInv, TypeOK
<1>2. queue \in Seq(Messages) /\ queue' \in Seq(Messages) /\ Len(queue) \in Nat
  BY DEF IInv, TypeOK, Messages
<1>3. Exact' <=> Exact
  BY <1>1 DEF Exact, Tracked
<1>4. \A i \in 1 .. Len(frame) : i < sending' <=> i < sending \/ i = sending
  BY <1>1
<1>5. CASE ~ frame[sending].usable
  <2>1. queue' = queue
    BY <1>1, <1>5
  <2>2. \A n : Late(n)' <=> Late(n)
    BY <2>1 DEF Late
  <2>3. FrameFollowed'
    BY <1>1, <1>3, <2>1, <2>2 DEF FollowInv, FrameFollowed
  <2>4. PositionsFollowed'
    BY <1>1, <1>4, <1>5, <2>1, <2>2 DEF FollowInv, PositionsFollowed, IdsFit
  <2> QED
    BY <2>3, <2>4 DEF FollowInv
<1>6. CASE frame[sending].usable
  <2> DEFINE m == Palm(frame[sending])
  <2>1. queue' = Append(queue, m) /\ m.type = "palm"
    BY <1>1, <1>6, MessageKinds
  <2>2. /\ \A n \in 1 .. Len(queue) : queue'[n] = queue[n]
        /\ \A n \in 1 .. Len(queue) + 1 : Late(n)' <=> Late(n)
        /\ Len(queue') = Len(queue) + 1 /\ queue'[Len(queue) + 1] = m
        /\ Late(Len(queue) + 1)
    BY <1>2, <2>1, LateFacts
  <2> HIDE DEF m
  <2>3. \A n \in 1 .. Len(queue') : n \in 1 .. Len(queue) \/ n = Len(queue) + 1
    BY <1>2, <2>2
  <2>4. FrameFollowed'
    <3>1. \A n \in 1 .. Len(queue) : n + 1 \in 1 .. Len(queue) + 1 /\ n \in 1 .. Len(queue) + 1
      BY <1>2
    <3>2. Late(1)' <=> Late(1)
      BY <1>2, <2>2
    <3>3. \A n \in 1 .. Len(queue') :
             queue'[n].type = "known" /\ Late(n + 1)' => queue'[n] = Known(frame)
      BY <1>1, <2>1, <2>2, <2>3, <3>1 DEF FollowInv, FrameFollowed
    <3> QED
      BY <1>1, <1>3, <3>2, <3>3 DEF FollowInv, FrameFollowed
  <2>5. PositionsFollowed'
    <3> SUFFICES ASSUME IdsFit
                 PROVE  PositionsFollowed'
      BY DEF PositionsFollowed, IdsFit
    <3>1. /\ \A n \in 1 .. Len(queue) :
                Late(n) => \E i \in 1 .. Len(frame) : frame[i].usable /\ queue[n] = Palm(frame[i])
          /\ \A i \in 1 .. Len(frame) : i < sending /\ frame[i].usable =>
                \/ \E n \in 1 .. Len(queue) : Late(n) /\ queue[n] = Palm(frame[i])
                \/ /\ Late(1)
                   /\ \A h \in Hands : leapId[h] = frame[i].id => pos[h] = frame[i].pos
      BY <1>1 DEF FollowInv, PositionsFollowed
    <3>2. /\ \A n \in 1 .. Len(queue) : n \in 1 .. Len(queue') /\ (Late(n)' <=> Late(n))
          /\ Late(1)' <=> Late(1)
          /\ \A n : n = Len(queue) + 1 => n \in 1 .. Len(queue') /\ Late(n)'
      <4>1. \A n \in 1 .. Len(queue) : n \in 1 .. Len(queue') /\ n \in 1 .. Len(queue) + 1
        BY <1>2, <2>2
      <4>2. 1 \in 1 .. Len(queue) + 1 /\ Len(queue) + 1 \in 1 .. Len(queue) + 1
        BY <1>2
      <4>3. Len(queue) + 1 \in 1 .. Len(queue')
        BY <1>2, <2>2
      <4> QED
        BY <2>2, <4>1, <4>2, <4>3, Zenon
    <3>3. \A n \in 1 .. Len(queue') :
             Late(n)' => \E i \in 1 .. Len(frame) : frame[i].usable /\ queue'[n] = Palm(frame[i])
      <4> SUFFICES ASSUME NEW n \in 1 .. Len(queue'), Late(n)'
                   PROVE  \E i \in 1 .. Len(frame) : frame[i].usable /\ queue'[n] = Palm(frame[i])
        OBVIOUS
      <4>1. CASE n \in 1 .. Len(queue)
        BY <2>2, <3>1, <3>2, <4>1
      <4>2. CASE n = Len(queue) + 1
        BY <1>1, <1>6, <2>2, <4>2 DEF m
      <4> QED
        BY <2>3, <4>1, <4>2
    <3>4. ASSUME NEW i \in 1 .. Len(frame), i < sending', frame[i].usable
          PROVE  \/ \E n \in 1 .. Len(queue') : Late(n)' /\ queue'[n] = Palm(frame[i])
                 \/ /\ Late(1)'
                    /\ \A h \in Hands : leapId[h] = frame[i].id => pos[h] = frame[i].pos
      <4>1. CASE i < sending
        BY <2>2, <3>1, <3>2, <3>4, <4>1
      <4>2. CASE i = sending
        BY <2>2, <3>2, <4>2 DEF m
      <4> QED
        BY <1>4, <3>4, <4>1, <4>2
    <3> QED
      BY <1>1, <3>3, <3>4 DEF PositionsFollowed
  <2> QED
    BY <2>4, <2>5 DEF FollowInv
<1> QED
  BY <1>5, <1>6

(* What is left of the queue once its head has been taken.                 *)
LEMMA TailFacts ==
    ASSUME IInv, IInv', queue # <<>>, queue' = Tail(queue)
    PROVE  /\ Len(queue) \in Nat \ {0} /\ Len(queue') = Len(queue) - 1
           /\ \A n \in 1 .. Len(queue') : queue'[n] = queue[n + 1] /\ n + 1 \in 1 .. Len(queue)
           /\ \A n \in Nat \ {0} : Late(n)' <=> Late(n + 1)
           /\ Late(1) <=> Head(queue).type # "known" /\ Late(2)
           /\ Head(queue) = queue[1] /\ 1 \in 1 .. Len(queue)
           /\ \A n \in 1 .. Len(queue) :
                 n # 1 => n - 1 \in 1 .. Len(queue') /\ queue'[n - 1] = queue[n]
<1>1. queue \in Seq(Messages) /\ queue' \in Seq(Messages)
  BY DEF IInv, TypeOK, Messages
<1>2. /\ Len(queue) \in Nat \ {0} /\ Len(queue') = Len(queue) - 1
      /\ \A n \in 1 .. Len(queue') : queue'[n] = queue[n + 1]
      /\ \A n \in Nat \ {0} : Late(n)' = Late(n + 1)
      /\ Late(1) <=> Head(queue).type # "known" /\ Late(2)
      /\ Head(queue) = queue[1]
  BY <1>1, LateFacts
<1>3. /\ \A n \in 1 .. Len(queue') : n + 1 \in 1 .. Len(queue)
      /\ 1 \in 1 .. Len(queue)
  BY <1>2
<1>4. ASSUME NEW n \in 1 .. Len(queue), n # 1
      PROVE  n - 1 \in 1 .. Len(queue') /\ queue'[n - 1] = queue[n]
  <2>1. n - 1 \in 1 .. Len(queue') /\ (n - 1) + 1 = n
    BY <1>2, <1>4
  <2> QED
    BY <1>2, <2>1
<1>5. /\ \A n \in 1 .. Len(queue') : queue'[n] = queue[n + 1] /\ n + 1 \in 1 .. Len(queue)
      /\ \A n \in Nat \ {0} : Late(n)' <=> Late(n + 1)
  BY <1>2, <1>3
<1> QED
  BY <1>2, <1>3, <1>4, <1>5, Zenon

(* Handling the last frame's message makes the outputs exact; handling an  *)
(* earlier one leaves it in the queue.                                     *)
LEMMA FollowKnown ==
    ASSUME IInv, FollowInv, DequeueKnown, IInv'
    PROVE  FollowInv'
<1>1. /\ queue # <<>> /\ queue' = Tail(queue) /\ Head(queue).type = "known"
      /\ HandleKnown(Head(queue).ids)
      /\ frame' = frame /\ sending' = sending /\ crashed' = crashed /\ ~ crashed
  BY DEF DequeueKnown
<1>2. /\ Len(queue) \in Nat \ {0} /\ Len(queue') = Len(queue) - 1
      /\ \A n \in 1 .. Len(queue') : queue'[n] = queue[n + 1] /\ n + 1 \in 1 .. Len(queue)
      /\ \A n \in Nat \ {0} : Late(n)' <=> Late(n + 1)
      /\ ~ Late(1)
      /\ Head(queue) = queue[1] /\ 1 \in 1 .. Len(queue)
      /\ \A n \in 1 .. Len(queue) :
            n # 1 => n - 1 \in 1 .. Len(queue') /\ queue'[n - 1] = queue[n]
  BY <1>1, TailFacts
<1>3. \A n \in 1 .. Len(queue') :
         queue'[n].type = "known" /\ Late(n + 1)' => queue'[n] = Known(frame)
  <2> SUFFICES ASSUME NEW n \in 1 .. Len(queue'), queue'[n].type = "known", Late(n + 1)'
               PROVE  queue'[n] = Known(frame)
    OBVIOUS
  <2>0. n \in Nat /\ n + 1 \in Nat \ {0}
    OBVIOUS
  <2>1. n + 1 \in Nat \ {0} /\ n + 1 \in 1 .. Len(queue) /\ queue'[n] = queue[n + 1]
    BY <1>2, <2>0, Zenon
  <2>2. Late(n + 1 + 1)
    BY <1>2, <2>1
  <2> QED
    BY <1>1, <2>1, <2>2 DEF FollowInv, FrameFollowed
<1>4. ASSUME Late(1)'
      PROVE  Exact'
  <2>1. Late(1 + 1)
    BY <1>2, <1>4
  <2>2. Head(queue) = Known(frame)
    BY <1>1, <1>2, <2>1 DEF FollowInv, FrameFollowed
  <2> DEFINE ids == Head(queue).ids
             I == IdsOf(frame)
  <2>3. ids \in Seq(Nat) /\ Distinct(ids)
    BY <1>1, HeadFacts DEF IInv
  <2>4. frame \in Seq(FrameHand)
    BY DEF IInv, TypeOK
  <2>5. I = {ids[i] : i \in 1 .. Len(ids)} \ {0}
    BY <2>2, <2>4, KnownIds
  <2>6. HandleKnown(ids) /\ TypeOK /\ SlotsDistinct
    BY <1>1 DEF IInv
  <2> HIDE DEF ids, I
  <2>7. /\ Tracked' \subseteq I
        /\ Cardinality(Tracked') = IF Cardinality(I) < HANDS THEN Cardinality(I) ELSE HANDS
    BY <2>3, <2>5, <2>6, HandledExact
  <2>8. IdsOf(frame)' = I
    BY <1>1 DEF IdsOf, I
  <2> QED
    BY <2>7, <2>8 DEF Exact
<1>5. FrameFollowed'
  BY <1>1, <1>3, <1>4 DEF FrameFollowed
<1>6. PositionsFollowed'
  <2> SUFFICES ASSUME IdsFit
               PROVE  PositionsFollowed'
    BY DEF PositionsFollowed, IdsFit
  <2>1. /\ \A n \in 1 .. Len(queue) :
              Late(n) => \E i \in 1 .. Len(frame) : frame[i].usable /\ queue[n] = Palm(frame[i])
        /\ \A i \in 1 .. Len(frame) : i < sending /\ frame[i].usable =>
              \E n \in 1 .. Len(queue) : Late(n) /\ queue[n] = Palm(frame[i])
    BY <1>1, <1>2 DEF FollowInv, PositionsFollowed
  <2>2. \A n \in 1 .. Len(queue') : n \in Nat \ {0}
    OBVIOUS
  <2>3. \A n \in 1 .. Len(queue') :
           Late(n)' => \E i \in 1 .. Len(frame) : frame[i].usable /\ queue'[n] = Palm(frame[i])
    BY <1>2, <2>1, <2>2
  <2>4. ASSUME NEW i \in 1 .. Len(frame), i < sending, frame[i].usable
        PROVE  \E n \in 1 .. Len(queue') : Late(n)' /\ queue'[n] = Palm(frame[i])
    <3>1. PICK n \in 1 .. Len(queue) : Late(n) /\ queue[n] = Palm(frame[i])
      BY <2>1, <2>4
    <3>2. n # 1
      BY <1>2, <3>1
    <3>3. PICK k \in 1 .. Len(queue') : k = n - 1 /\ queue'[k] = queue[n]
      BY <1>2, <3>2
    <3>4. Late(k)' <=> Late(k + 1)
      BY <1>2
    <3>5. k + 1 = n
      BY <3>3
    <3> QED
      BY <3>1, <3>3, <3>4, <3>5
  <2> QED
    BY <1>1, <2>3, <2>4 DEF PositionsFollowed
<1> QED
  BY <1>5, <1>6 DEF FollowInv

(* A position of the last frame reaches the output of its hand, and none   *)
(* of another hand or frame reaches it after that.                         *)
LEMMA FollowPosition ==
    ASSUME IInv, FollowInv, DequeuePalm, IInv'
    PROVE  FollowInv'
<1>1. /\ queue # <<>> /\ queue' = Tail(queue) /\ Head(queue).type = "palm"
      /\ HandlePalm(Head(queue).arg, Head(queue).pos)
      /\ frame' = frame /\ sending' = sending /\ crashed' = crashed /\ ~ crashed
      /\ leapId' = leapId
  BY DEF DequeuePalm, HandlePalm
<1>2. /\ Len(queue) \in Nat \ {0} /\ Len(queue') = Len(queue) - 1
      /\ \A n \in 1 .. Len(queue') : queue'[n] = queue[n + 1] /\ n + 1 \in 1 .. Len(queue)
      /\ \A n \in Nat \ {0} : Late(n)' <=> Late(n + 1)
      /\ Late(1) <=> Late(2)
      /\ Head(queue) = queue[1] /\ 1 \in 1 .. Len(queue)
      /\ \A n \in 1 .. Len(queue) :
            n # 1 => n - 1 \in 1 .. Len(queue') /\ queue'[n - 1] = queue[n]
  BY <1>1, TailFacts
<1>3. Late(1)' <=> Late(1)
  BY <1>2
<1>4. FrameFollowed'
  <2>1. ASSUME NEW n \in 1 .. Len(queue'), queue'[n].type = "known", Late(n + 1)'
        PROVE  queue'[n] = Known(frame)
    <3>0. n \in Nat /\ n + 1 \in Nat \ {0}
      OBVIOUS
    <3>1. n + 1 \in Nat \ {0} /\ n + 1 \in 1 .. Len(queue) /\ queue'[n] = queue[n + 1]
      BY <1>2, <3>0, Zenon
    <3>2. Late(n + 1 + 1)
      BY <1>2, <2>1, <3>1
    <3> QED
      BY <1>1, <2>1, <3>1, <3>2 DEF FollowInv, FrameFollowed
  <2>2. Late(1)' => Exact'
    <3>1. Exact' <=> Exact
      BY <1>1 DEF Exact, Tracked
    <3> QED
      BY <1>1, <1>3, <3>1 DEF FollowInv, FrameFollowed
  <2> QED
    BY <1>1, <2>1, <2>2 DEF FrameFollowed
<1>5. PositionsFollowed'
  <2> SUFFICES ASSUME IdsFit
               PROVE  PositionsFollowed'
    BY DEF PositionsFollowed, IdsFit
  <2> DEFINE arg == Head(queue).arg
             p == Head(queue).pos
  <2>1. /\ \A n \in 1 .. Len(queue) :
              Late(n) => \E i \in 1 .. Len(frame) : frame[i].usable /\ queue[n] = Palm(frame[i])
        /\ \A i \in 1 .. Len(frame) : i < sending /\ frame[i].usable =>
              \/ \E n \in 1 .. Len(queue) : Late(n) /\ queue[n] = Palm(frame[i])
              \/ /\ Late(1)
                 /\ \A h \in Hands : leapId[h] = frame[i].id => pos[h] = frame[i].pos
    BY <1>1 DEF FollowInv, PositionsFollowed
  <2>2. \A i \in 1 .. Len(frame) :
           /\ frame[i] \in FrameHand /\ frame[i].id # 0
           /\ Palm(frame[i]).arg = frame[i].id /\ Palm(frame[i]).pos = frame[i].pos
           /\ \A k \in 1 .. Len(frame) : frame[i].id = frame[k].id => i = k
    <3> SUFFICES ASSUME NEW i \in 1 .. Len(frame)
                 PROVE  /\ frame[i] \in FrameHand /\ frame[i].id # 0
                        /\ Palm(frame[i]).arg = frame[i].id /\ Palm(frame[i]).pos = frame[i].pos
                        /\ \A k \in 1 .. Len(frame) : frame[i].id = frame[k].id => i = k
      OBVIOUS
    <3>1. frame \in Frames /\ frame \in Seq(FrameHand)
      BY DEF IInv, FrameOK, TypeOK
    <3>2. frame[i] \in FrameHand /\ frame[i].id < IdMod
      BY <3>1 DEF IdsFit
    <3>3. frame[i].id # 0 /\ Palm(frame[i]).pos = frame[i].pos
      BY <3>2 DEF FrameHand, Palm
    <3> QED
      BY <3>1, <3>2, <3>3, PalmShape, FramesAssumption
  <2>3. \A h \in Hands : /\ leapId[h] = arg /\ arg # 0 => pos'[h] = p
                         /\ leapId[h] # arg => pos'[h] = pos[h]
    <3>1. \A g, h \in Hands : leapId[h] = arg /\ arg # 0 /\ g > h => leapId[g] # arg
      <4>1. \A g, h \in Hands : g > h => g # h
        BY HandsAssumption DEF Hands
      <4> QED
        BY <4>1 DEF IInv, SlotsDistinct
    <3>2. \A h \in Hands : pos'[h] = IF Target(arg, h) THEN p ELSE pos[h]
      BY <1>1 DEF HandlePalm
    <3> QED
      BY <3>1, <3>2 DEF Target
  <2> HIDE DEF arg, p
  <2>4. \A n \in 1 .. Len(queue') :
           Late(n)' => \E i \in 1 .. Len(frame) : frame[i].usable /\ queue'[n] = Palm(frame[i])
    <3>1. \A n \in 1 .. Len(queue') : n \in Nat \ {0}
      OBVIOUS
    <3> QED
      BY <1>2, <2>1, <3>1
  <2>5. ASSUME NEW i \in 1 .. Len(frame), i < sending, frame[i].usable
        PROVE  \/ \E n \in 1 .. Len(queue') : Late(n)' /\ queue'[n] = Palm(frame[i])
               \/ /\ Late(1)'
                  /\ \A h \in Hands : leapId[h] = frame[i].id => pos'[h] = frame[i].pos
    <3>1. CASE \E n \in 1 .. Len(queue) : n # 1 /\ Late(n) /\ queue[n] = Palm(frame[i])
      <4>1. PICK n \in 1 .. Len(queue) : n # 1 /\ Late(n) /\ queue[n] = Palm(frame[i])
        BY <3>1
      <4>2. PICK k \in 1 .. Len(queue') : k = n - 1 /\ queue'[k] = queue[n]
        BY <1>2, <4>1
      <4>3. Late(k)' <=> Late(k + 1)
        BY <1>2
      <4>4. k + 1 = n
        BY <4>2
      <4> QED
        BY <4>1, <4>2, <4>3, <4>4
    <3>2. CASE Late(1) /\ queue[1] = Palm(frame[i])
      <4>0. Head(queue) = Palm(frame[i])
        BY <1>2, <3>2
      <4>1. arg = frame[i].id /\ p = frame[i].pos /\ arg # 0
        BY <2>2, <4>0 DEF arg, p
      <4> QED
        BY <1>3, <2>3, <3>2, <4>1
    <3>3. CASE /\ Late(1)
               /\ \A h \in Hands : leapId[h] = frame[i].id => pos[h] = frame[i].pos
      <4>1. PICK k \in 1 .. Len(frame) : queue[1] = Palm(frame[k])
        BY <1>2, <2>1, <3>3
      <4>5. Head(queue) = Palm(frame[k])
        BY <1>2, <4>1
      <4>2. arg = frame[k].id /\ p = frame[k].pos /\ arg # 0
        BY <2>2, <4>5 DEF arg, p
      <4>3. arg = frame[i].id => p = frame[i].pos
        BY <2>2, <4>2
      <4>4. ASSUME NEW h \in Hands, leapId[h] = frame[i].id
            PROVE  pos'[h] = frame[i].pos
        BY <2>3, <3>3, <4>2, <4>3, <4>4
      <4> QED
        BY <1>3, <3>3, <4>4
    <3> QED
      BY <1>2, <2>1, <2>5, <3>1, <3>2, <3>3
  <2> QED
    BY <1>1, <2>4, <2>5 DEF PositionsFollowed
<1> QED
  BY <1>4, <1>5 DEF FollowInv

LEMMA FollowStep ==
    ASSUME IInv, FollowInv, [Next]_vars, IInv'
    PROVE  FollowInv'
<1>1. CASE OnFrame
  BY <1>1, FollowFrame
<1>2. CASE SendPalm
  BY <1>2, FollowPalm
<1>3. CASE DequeueKnown
  BY <1>3, FollowKnown
<1>4. CASE DequeuePalm
  BY <1>4, FollowPosition
<1>5. CASE DequeueNull
  BY <1>5 DEF DequeueNull, FollowInv, FrameFollowed, PositionsFollowed
<1>6. CASE CreateHand \/ Tick \/ UNCHANGED vars
  <2>1. UNCHANGED <<leapId, pos, queue, frame, sending, crashed>>
    BY <1>6 DEF CreateHand, Tick, vars
  <2>2. \A n : Late(n)' <=> Late(n)
    BY <2>1 DEF Late
  <2>3. Exact' <=> Exact
    BY <2>1 DEF Exact, Tracked
  <2> QED
    BY <2>1, <2>2, <2>3 DEF FollowInv, FrameFollowed, PositionsFollowed, IdsFit
<1> QED
  BY <1>1, <1>2, <1>3, <1>4, <1>5, <1>6 DEF Next

(* What is in the queue behind the last frame's message, and what the      *)
(* outputs show once it has been handled, always belongs to that frame.    *)
THEOREM FrameAlwaysFollowed == Spec => []FollowInv
<1>1. Init => FollowInv
  BY InitFollow
<1>2. IInv /\ FollowInv /\ [Next]_vars /\ IInv' => FollowInv'
  BY FollowStep
<1> QED
  BY <1>1, <1>2, Invariance, PTL DEF Spec

(* Once its queue is empty the agent shows hands of the last frame only,   *)
(* and as many of them as it has outputs for (onFrame and both loops of    *)
(* thing_dequeue_fast).                                                    *)
THEOREM TrackingIsExact == Spec => []TrackedExact
<1>1. FollowInv => TrackedExact
  <2> SUFFICES ASSUME FollowInv, Quiet
               PROVE  Exact
    BY DEF TrackedExact, Exact
  <2>1. Late(1) /\ ~ crashed
    BY DEF Late, Quiet
  <2> QED
    BY <2>1 DEF FollowInv, FrameFollowed
<1> QED
  BY <1>1, FrameAlwaysFollowed, PTL

(* ... each at its own position in that frame, as long as ids fit in 24    *)
(* bits: no position of another hand or an earlier frame is left.          *)
THEOREM PositionsAreFresh == Spec => []PositionsFresh
<1>1. IInv /\ FollowInv => PositionsFresh
  <2> SUFFICES ASSUME IInv, FollowInv, Quiet, IdsFit,
                      NEW h \in Hands, NEW i \in 1 .. Len(frame),
                      leapId[h] = frame[i].id, frame[i].usable
               PROVE  pos[h] = frame[i].pos
    BY DEF PositionsFresh
  <2>1. i < sending
    <3>1. sending \in Nat /\ Len(frame) \in Nat /\ sending > Len(frame)
      BY DEF Quiet, CallbackDone, IInv, TypeOK
    <3> QED
      BY <3>1
  <2>2. Len(queue) = 0 /\ ~ crashed
    BY DEF Quiet
  <2>3. 1 .. Len(queue) = {}
    BY <2>2
  <2> QED
    BY <2>1, <2>2, <2>3 DEF FollowInv, PositionsFollowed
<1> QED
  BY <1>1, FrameAlwaysFollowed, Invariance, PTL

-----------------------------------------------------------------------------
(* The second loop, in its closed form and as it is written. *)

(* Who is given which slot: at most one hand each, in the order of both,   *)
(* and a new hand is left out only if every free slot is given away.       *)
LEMMA GivenFacts ==
    ASSUME NEW ids \in Seq(Nat), NEW kept \in [Hands -> Nat],
           NEW new, new = New(ids, kept), NEW free, free = Free(kept)
    PROVE  /\ \A h \in Hands : \A i, k \in Given(new, free, h) : i = k
           /\ \A g, h \in Hands : \A i \in Given(new, free, h) : i \in Given(new, free, g) => g = h
           /\ \A h \in Hands : \A i \in Given(new, free, h) :
                 \A g \in free : g < h => \E k \in Given(new, free, g) : k < i
           /\ \A i \in new : \/ \E h \in free : i \in Given(new, free, h)
                             \/ \A h \in free : \E k \in Given(new, free, h) : k < i
<1>1. new \in SUBSET Nat /\ IsFiniteSet(new)
  <2>1. Len(ids) \in Nat /\ new \subseteq 1 .. Len(ids)
    BY DEF New
  <2>2. IsFiniteSet(1 .. Len(ids))
    BY <2>1, FS_Interval
  <2>3. IsFiniteSet(new)
    BY <2>1, <2>2, FS_Subset
  <2>4. 1 .. Len(ids) \subseteq Nat
    OBVIOUS
  <2> QED
    BY <2>1, <2>3, <2>4
<1>2. free \in SUBSET Nat /\ IsFiniteSet(free) /\ free \subseteq Hands
  <2>1. free \subseteq Hands /\ Hands \subseteq Nat
    BY HandsAssumption DEF Free, Hands
  <2> QED
    BY <2>1, HandsFinite, FS_Subset
<1>3. \A h, i : i \in Given(new, free, h) <=>
                  i \in new /\ h \in free /\ Rank(new, i) = Rank(free, h)
  BY DEF Given, Below, Rank
<1>4. /\ Cardinality(new) \in Nat
      /\ \A i \in new : Rank(new, i) \in 0 .. Cardinality(new) - 1
      /\ \A i, k \in new : i < k => Rank(new, i) < Rank(new, k)
      /\ \A r \in 0 .. Cardinality(new) - 1 : \E i \in new : Rank(new, i) = r
  BY <1>1, Ranked
<1>5. /\ Cardinality(free) \in Nat
      /\ \A h \in free : Rank(free, h) \in 0 .. Cardinality(free) - 1
      /\ \A g, h \in free : g < h => Rank(free, g) < Rank(free, h)
      /\ \A r \in 0 .. Cardinality(free) - 1 : \E h \in free : Rank(free, h) = r
  BY <1>2, Ranked
<1> HIDE <1>1, <1>2
<1>6. ASSUME NEW i \in new, NEW k \in new, ~ (i < k)
      PROVE  i = k \/ Rank(new, k) < Rank(new, i)
  BY <1>1, <1>4, <1>6
<1>7. ASSUME NEW i \in new, NEW h \in free, Rank(free, h) < Rank(new, i)
      PROVE  \E k \in Given(new, free, h) : k < i
  <2>1. Rank(free, h) \in 0 .. Cardinality(new) - 1
    BY <1>4, <1>5, <1>7
  <2>2. PICK k \in new : Rank(new, k) = Rank(free, h)
    BY <1>4, <2>1
  <2>3. ~ (i < k) /\ i # k
    BY <1>4, <1>5, <1>7, <2>2
  <2>4. k < i
    BY <1>1, <2>3
  <2> QED
    BY <1>3, <2>2, <2>4
<1>8. ASSUME NEW h \in Hands, NEW i \in Given(new, free, h), NEW k \in Given(new, free, h)
      PROVE  i = k
  <2>1. i \in new /\ k \in new /\ h \in free /\ Rank(new, i) = Rank(new, k)
    BY <1>3
  <2>2. ~ (i < k) /\ ~ (k < i)
    BY <1>4, <2>1
  <2> QED
    BY <1>1, <2>1, <2>2
<1>9. ASSUME NEW g \in Hands, NEW h \in Hands, NEW i,
             i \in Given(new, free, h), i \in Given(new, free, g)
      PROVE  g = h
  <2>1. g \in free /\ h \in free /\ Rank(free, g) = Rank(free, h)
    BY <1>3, <1>9
  <2>2. ~ (g < h) /\ ~ (h < g)
    BY <1>5, <2>1
  <2> QED
    BY <1>2, <2>1, <2>2
<1>10. ASSUME NEW h \in Hands, NEW i \in Given(new, free, h), NEW g \in free, g < h
       PROVE  \E k \in Given(new, free, g) : k < i
  <2>1. i \in new /\ h \in free /\ Rank(new, i) = Rank(free, h)
    BY <1>3
  <2>2. Rank(free, g) < Rank(new, i)
    BY <1>5, <1>10, <2>1
  <2> QED
    BY <1>7, <2>1, <2>2
<1>11. ASSUME NEW i \in new
       PROVE  \/ \E h \in free : i \in Given(new, free, h)
              \/ \A h \in free : \E k \in Given(new, free, h) : k < i
  <2>1. CASE Rank(new, i) < Cardinality(free)
    <3>1. Rank(new, i) \in 0 .. Cardinality(free) - 1
      BY <1>4, <1>5, <2>1
    <3> QED
      BY <1>3, <1>5, <3>1
  <2>2. CASE ~ (Rank(new, i) < Cardinality(free))
    <3>1. \A h \in free : Rank(free, h) < Rank(new, i)
      BY <1>4, <1>5, <2>2
    <3> QED
      BY <1>7, <3>1
  <2> QED
    BY <2>1, <2>2
<1> QED
  BY <1>8, <1>9, <1>10, <1>11

(* What the loop has done after the first n ids: it has given away the     *)
(* slots that the closed form gives to these, and if it was left, no slot  *)
(* was free.                                                               *)
Accumulators == [slots : [Hands -> Nat], left : BOOLEAN]

Partly(ids, kept, n, acc) ==
    /\ acc \in Accumulators
    /\ acc.left => \A h \in Hands : acc.slots[h] # 0
    /\ \A h \in Hands :
         LET given == Given(New(ids, kept), Free(kept), h)
         IN  /\ \A i \in given : i <= n => acc.slots[h] = ids[i]
             /\ (\A i \in given : n < i) => acc.slots[h] = kept[h]

LEMMA ServedStep ==
    ASSUME NEW ids \in Seq(Nat), NEW kept \in [Hands -> Nat], Distinct(ids),
           NEW n \in Nat, n + 1 \in 1 .. Len(ids), NEW acc, Partly(ids, kept, n, acc)
    PROVE  Partly(ids, kept, n + 1, Served(acc, ids[n + 1]))
<1> DEFINE new == New(ids, kept)
           free == Free(kept)
           given(h) == Given(new, free, h)
           id == ids[n + 1]
           open == {h \in Hands : acc.slots[h] = 0}
           taken == \E h \in Hands : acc.slots[h] = id
           next == Served(acc, id)
<1>1. /\ acc \in Accumulators /\ acc.slots \in [Hands -> Nat] /\ acc.left \in BOOLEAN
      /\ acc.left => open = {}
      /\ \A h \in Hands : \A i \in given(h) : i <= n => acc.slots[h] = ids[i]
      /\ \A h \in Hands : (\A i \in given(h) : n < i) => acc.slots[h] = kept[h]
  BY DEF Partly, Accumulators
<1>2. /\ \A h \in Hands : \A i, k \in given(h) : i = k
      /\ \A g, h \in Hands : \A i \in given(h) : i \in given(g) => g = h
      /\ \A h \in Hands : \A i \in given(h) : \A g \in free : g < h => \E k \in given(g) : k < i
      /\ \A i \in new : \/ \E h \in free : i \in given(h)
                        \/ \A h \in free : \E k \in given(h) : k < i
  BY GivenFacts
<1>3. \A h : \A i \in given(h) : i \in new /\ h \in free
  BY DEF Given
<1>4. /\ \A i \in new : /\ i \in 1 .. Len(ids) /\ i \in Nat /\ ids[i] \in Nat /\ ids[i] # 0
                        /\ \A h \in Hands : kept[h] # ids[i]
      /\ \A i \in 1 .. Len(ids) : i \notin new => ids[i] = 0 \/ \E h \in Hands : kept[h] = ids[i]
  BY DEF New
<1>5. /\ \A h \in free : h \in Hands /\ kept[h] = 0
      /\ \A h \in Hands : h \notin free => kept[h] # 0
  BY DEF Free
<1>6. id \in Nat
  OBVIOUS
<1>7. Served(acc, id) = IF acc.left \/ id = 0 \/ taken
                          THEN acc
                          ELSE IF open = {}
                            THEN [acc EXCEPT !.left = TRUE]
                            ELSE [acc EXCEPT !.slots[CHOOSE h \in open : \A g \in open : h <= g] = id]
  BY DEF Served
<1> HIDE DEF new, free, given, id, open, taken, next
<1>8. \A h \in Hands : acc.slots[h] = kept[h] \/ \E i \in given(h) : i <= n /\ acc.slots[h] = ids[i]
  <2> SUFFICES ASSUME NEW h \in Hands, ~ \E i \in given(h) : i <= n
               PROVE  acc.slots[h] = kept[h]
    BY <1>1
  <2>1. \A i \in given(h) : n < i
    BY <1>3, <1>4
  <2> QED
    BY <1>1, <2>1
(* Nothing changes but that the loop may be left.                          *)
<1>9. ASSUME next.slots = acc.slots, next \in Accumulators,
             next.left => \A h \in Hands : acc.slots[h] # 0,
             \A h \in Hands : n + 1 \notin given(h)
      PROVE  Partly(ids, kept, n + 1, next)
  <2>1. \A h \in Hands : \A i \in given(h) : (i <= n <=> i <= n + 1) /\ (n < i <=> n + 1 < i)
    BY <1>3, <1>4, <1>9
  <2>2. \A h \in Hands : /\ \A i \in given(h) : i <= n + 1 => acc.slots[h] = ids[i]
                         /\ (\A i \in given(h) : n + 1 < i) => acc.slots[h] = kept[h]
    BY <1>1, <2>1
  <2> QED
    BY <1>9, <2>2 DEF Partly, given, new, free
<1>10. CASE n + 1 \notin new
  <2>1. id = 0 \/ taken
    <3> SUFFICES ASSUME id # 0
                 PROVE  taken
      OBVIOUS
    <3>1. PICK h \in Hands : kept[h] = id
      BY <1>4, <1>10 DEF id
    <3>2. h \notin free
      BY <1>5, <3>1
    <3>3. acc.slots[h] = kept[h]
      BY <1>1, <1>3, <3>2
    <3> QED
      BY <3>1, <3>3 DEF taken
  <2>2. next = acc
    BY <1>7, <2>1 DEF next
  <2> QED
    BY <1>1, <1>3, <1>9, <1>10, <2>2 DEF next, open, id
<1>11. CASE n + 1 \in new
  <2>1. id # 0 /\ \A h \in Hands : kept[h] # id
    BY <1>4, <1>11 DEF id
  <2>2. ~ taken
    <3> SUFFICES ASSUME NEW h \in Hands, acc.slots[h] = id
                 PROVE  FALSE
      BY DEF taken
    <3>1. PICK i \in given(h) : i <= n /\ ids[i] = id
      BY <1>8, <2>1
    <3>2. i \in 1 .. Len(ids) /\ ids[i] # 0 /\ i # n + 1
      BY <1>3, <1>4, <3>1
    <3> QED
      BY <3>1, <3>2 DEF Distinct, id
  <2>3. CASE \A h \in free : \E k \in given(h) : k < n + 1
    <3>1. \A h \in Hands : n + 1 \notin given(h)
      BY <1>2, <1>3, <2>3
    <3>2. open = {}
      <4> SUFFICES ASSUME NEW h \in Hands, acc.slots[h] = 0
                   PROVE  FALSE
        BY DEF open
      <4>1. h \in free
        BY <1>4, <1>3, <1>5, <1>8
      <4>2. PICK k \in given(h) : k < n + 1
        BY <2>3, <4>1
      <4>3. k <= n /\ ids[k] # 0
        BY <1>3, <1>4, <4>2
      <4> QED
        BY <1>1, <4>3
    <3>3. /\ next.slots = acc.slots /\ next \in Accumulators
          /\ \A h \in Hands : acc.slots[h] # 0
      <4>1. next = IF acc.left THEN acc ELSE [acc EXCEPT !.left = TRUE]
        BY <1>7, <2>1, <2>2, <3>2 DEF next
      <4> QED
        BY <1>1, <3>2, <4>1 DEF Accumulators, open
    <3> QED
      BY <1>9, <3>1, <3>3 DEF next, id
  <2>4. CASE \E h \in free : n + 1 \in given(h)
    <3>1. PICK h \in free : n + 1 \in given(h)
      BY <2>4
    <3>2. h \in open /\ h \in Hands
      <4>1. \A i \in given(h) : n < i
        BY <1>2, <1>5, <3>1
      <4> QED
        BY <1>1, <1>5, <4>1 DEF open
    <3>3. \A g \in open : h <= g
      <4> SUFFICES ASSUME NEW g \in open, g < h
                   PROVE  FALSE
        BY <3>2, HandsAssumption DEF open, Hands
      <4>1. g \in Hands /\ acc.slots[g] = 0
        BY DEF open
      <4>2. g \in free
        BY <1>3, <1>4, <1>5, <1>8, <4>1
      <4>3. PICK k \in given(g) : k < n + 1
        BY <1>2, <3>1, <3>2, <4>2
      <4>4. k <= n /\ ids[k] # 0
        BY <1>3, <1>4, <4>3
      <4> QED
        BY <1>1, <4>1, <4>4
    <3>4. (CHOOSE x \in open : \A g \in open : x <= g) = h
      <4>1. open \subseteq Nat
        BY HandsAssumption DEF open, Hands
      <4>2. \A x \in open : (\A g \in open : x <= g) => x = h
        BY <3>2, <3>3, <4>1
      <4> QED
        BY <3>2, <3>3, <4>2
    <3>5. next = [acc EXCEPT !.slots[h] = id] /\ ~ acc.left
      BY <1>1, <1>7, <2>1, <2>2, <3>2, <3>4 DEF next
    <3>6. /\ next.slots = [acc.slots EXCEPT ![h] = id]
          /\ next.left = acc.left /\ next \in Accumulators
      BY <1>1, <1>6, <3>2, <3>5 DEF Accumulators
    <3>7. ASSUME NEW g \in Hands
          PROVE  /\ \A i \in given(g) : i <= n + 1 => next.slots[g] = ids[i]
                 /\ (\A i \in given(g) : n + 1 < i) => next.slots[g] = kept[g]
      <4>1. CASE g = h
        <5>1. \A i \in given(g) : i = n + 1
          BY <1>2, <3>1, <3>2, <4>1
        <5>2. next.slots[g] = ids[n + 1]
          BY <1>1, <3>2, <3>6, <4>1 DEF id
        <5>3. n + 1 \in given(g) /\ ~ (n + 1 < n + 1)
          BY <3>1, <4>1
        <5> QED
          BY <5>1, <5>2, <5>3
      <4>2. CASE g # h
        <5>1. next.slots[g] = acc.slots[g] /\ n + 1 \notin given(g)
          BY <1>1, <1>2, <3>1, <3>2, <3>6, <4>2
        <5>2. \A i \in given(g) : (i <= n <=> i <= n + 1) /\ (n < i <=> n + 1 < i)
          BY <1>3, <1>4, <5>1
        <5> QED
          BY <1>1, <5>1, <5>2
      <4> QED
        BY <4>1, <4>2
    <3> QED
      BY <1>1, <3>5, <3>6, <3>7 DEF Partly, given, new, free, next, id
  <2> QED
    BY <1>2, <1>11, <2>3, <2>4
<1> QED
  BY <1>10, <1>11

(* The loop is a function that exists, and it has served the whole message *)
(* when it ends.                                                           *)
LEMMA ServedTyped ==
    ASSUME NEW acc \in Accumulators, NEW id \in Nat
    PROVE  Served(acc, id) \in Accumulators
<1> DEFINE open == {h \in Hands : acc.slots[h] = 0}
           first == CHOOSE h \in open : \A g \in open : h <= g
<1>1. acc.slots \in [Hands -> Nat]
  BY DEF Accumulators
<1>2. \/ Served(acc, id) = acc
      \/ Served(acc, id) = [acc EXCEPT !.left = TRUE]
      \/ Served(acc, id) = [acc EXCEPT !.slots[first] = id]
  BY DEF Served
<1> HIDE DEF first
<1>3. [acc.slots EXCEPT ![first] = id] \in [Hands -> Nat]
  BY <1>1
<1>4. [acc EXCEPT !.slots[first] = id] \in Accumulators
  BY <1>3 DEF Accumulators
<1>5. [acc EXCEPT !.left = TRUE] \in Accumulators
  BY DEF Accumulators
<1> QED
  BY <1>2, <1>4, <1>5

Serves(slots, ids, f) ==
    f = [n \in 0 .. Len(ids) |-> IF n = 0 THEN [slots |-> slots, left |-> FALSE]
                                          ELSE Served(f[n - 1], ids[n])]

LEMMA LoopExists ==
    ASSUME NEW ids \in Seq(Nat), NEW kept \in [Hands -> Nat]
    PROVE  \E f : Serves(kept, ids, f)
<1> DEFINE base == [slots |-> kept, left |-> FALSE]
           m == Len(ids)
           Step == [p \in Accumulators \X Nat |->
                       IF p[2] \in 1 .. m THEN Served(p[1], ids[p[2]]) ELSE p[1]]
<1>1. m \in Nat
  OBVIOUS
<1>2. base \in Accumulators
  BY DEF Accumulators
<1>3. Step \in [Accumulators \X Nat -> Accumulators]
  <2>1. \A a \in Accumulators, i \in 1 .. m : Served(a, ids[i]) \in Accumulators
    BY ServedTyped
  <2> HIDE DEF m
  <2> QED
    BY <2>1
<1>4. \A a \in Accumulators, i \in 1 .. m : Step[<<a, i>>] = Served(a, ids[i])
  BY <1>1
<1> HIDE DEF base, m, Step
<1>5. PICK f \in [0 .. m -> Accumulators] : StepwiseFrom(f, base, Step, m)
  BY <1>1, <1>2, <1>3, Recursion
<1>6. \A i \in 1 .. m : f[i] = Served(f[i - 1], ids[i])
  <2> SUFFICES ASSUME NEW i \in 1 .. m
               PROVE  f[i] = Served(f[i - 1], ids[i])
    OBVIOUS
  <2>1. i - 1 \in 0 .. m
    BY <1>1
  <2>2. f[i - 1] \in Accumulators
    BY <2>1
  <2> QED
    BY <1>4, <1>5, <2>2 DEF StepwiseFrom
<1>7. \A i \in 0 .. m : f[i] = IF i = 0 THEN base ELSE Served(f[i - 1], ids[i])
  <2>1. \A i \in 0 .. m : i = 0 \/ i \in 1 .. m
    BY <1>1
  <2> QED
    BY <1>5, <1>6, <2>1 DEF StepwiseFrom
<1>8. f = [i \in 0 .. m |-> f[i]]
  OBVIOUS
<1>9. f = [i \in 0 .. m |-> IF i = 0 THEN base ELSE Served(f[i - 1], ids[i])]
  BY <1>7, <1>8
<1> QED
  BY <1>9 DEF Serves, base, m

(* The closed form of the second loop is what the loop as written does.    *)
LEMMA LoopIsAssigned ==
    ASSUME NEW ids \in Seq(Nat), NEW kept \in [Hands -> Nat], Distinct(ids)
    PROVE  Loop(kept, ids) = Assigned(ids, kept)
<1> DEFINE after == CHOOSE f : Serves(kept, ids, f)
           base == [slots |-> kept, left |-> FALSE]
           m == Len(ids)
           P == {n \in Nat : n <= m => Partly(ids, kept, n, after[n])}
           new == New(ids, kept)
           given(h) == Given(new, Free(kept), h)
<1>1. m \in Nat
  OBVIOUS
<1>2. Serves(kept, ids, after)
  BY LoopExists
<1>3. Loop(kept, ids) = after[m].slots
  BY DEF Loop, Serves
<1> HIDE DEF after
<1>4. /\ after[0] = base
      /\ \A i \in 1 .. m : after[i] = Served(after[i - 1], ids[i])
  <2> DEFINE next(i) == IF i = 0 THEN base ELSE Served(after[i - 1], ids[i])
  <2>1. after = [i \in 0 .. m |-> next(i)]
    BY <1>2 DEF Serves
  <2> HIDE DEF next, m
  <2>2. \A i \in 0 .. m : after[i] = next(i)
    BY <2>1, Zenon
  <2>3. 0 \in 0 .. m /\ \A i \in 1 .. m : i \in 0 .. m /\ i # 0
    BY <1>1
  <2> QED
    BY <2>2, <2>3 DEF next
<1>5. /\ \A h, i : i \in given(h) => i \in 1 .. m /\ i \in new
      /\ \A h \in Hands : \A i, k \in given(h) : i = k
  <2>1. \A h, i : i \in given(h) => i \in 1 .. m /\ i \in new
    BY DEF Given, New
  <2>2. \A h \in Hands : \A i, k \in given(h) : i = k
    BY GivenFacts
  <2> QED
    BY <2>1, <2>2
<1>6. 0 \in P
  <2>1. base \in Accumulators /\ base.slots = kept /\ base.left = FALSE
    BY DEF Accumulators
  <2>2. \A h \in Hands : \A i \in given(h) : ~ (i <= 0)
    BY <1>1, <1>5
  <2> HIDE DEF base
  <2>3. Partly(ids, kept, 0, base)
    BY <2>1, <2>2 DEF Partly
  <2> QED
    BY <1>4, <2>3
<1>7. ASSUME NEW n \in P
      PROVE  n + 1 \in P
  <2>1. n \in Nat /\ n + 1 \in Nat
    OBVIOUS
  <2> SUFFICES ASSUME n + 1 <= m
               PROVE  Partly(ids, kept, n + 1, after[n + 1])
    BY <2>1
  <2>2. Partly(ids, kept, n, after[n])
    BY <1>1, <2>1
  <2>3. n + 1 \in 1 .. m
    BY <1>1, <2>1
  <2>4. after[n + 1] = Served(after[n], ids[n + 1])
    BY <1>1, <1>4, <2>1, <2>3
  <2> HIDE DEF P
  <2>5. Partly(ids, kept, n + 1, Served(after[n], ids[n + 1]))
    BY <2>1, <2>2, <2>3, ServedStep
  <2> QED
    BY <2>4, <2>5
<1>8. P = Nat
  <2>1. P \in SUBSET Nat
    OBVIOUS
  <2> HIDE DEF P
  <2> QED
    BY <1>6, <1>7, <2>1, Induction
<1>9. Partly(ids, kept, m, after[m])
  <2>1. m \in P
    BY <1>1, <1>8
  <2> QED
    BY <1>1, <2>1
<1> HIDE DEF P, base
<1> DEFINE slots == after[m].slots
<1>10. /\ slots \in [Hands -> Nat]
       /\ \A h \in Hands : /\ \A i \in given(h) : i <= m => slots[h] = ids[i]
                           /\ (\A i \in given(h) : m < i) => slots[h] = kept[h]
  BY <1>9 DEF Partly, Accumulators
<1> HIDE DEF slots, given, new
<1>11. \A h \in Hands : slots[h] = IF given(h) = {} THEN kept[h]
                                   ELSE ids[CHOOSE i \in given(h) : TRUE]
  <2> SUFFICES ASSUME NEW h \in Hands
               PROVE  slots[h] = IF given(h) = {} THEN kept[h]
                                 ELSE ids[CHOOSE i \in given(h) : TRUE]
    OBVIOUS
  <2>1. CASE given(h) = {}
    BY <1>10, <2>1
  <2>2. CASE given(h) # {}
    <3>1. (CHOOSE i \in given(h) : TRUE) \in given(h)
      BY <2>2
    <3>2. \A i \in given(h) : i <= m
      BY <1>1, <1>5
    <3> QED
      BY <1>10, <2>2, <3>1, <3>2
  <2> QED
    BY <2>1, <2>2
<1>12. slots = [h \in Hands |-> IF given(h) = {} THEN kept[h]
                                ELSE ids[CHOOSE i \in given(h) : TRUE]]
  BY <1>10, <1>11
<1>13. slots = Assigned(ids, kept)
  BY <1>12 DEF Assigned, given, new
<1> QED
  BY <1>3, <1>13 DEF slots

(* Whatever the message, the outputs end up with the ids that the second   *)
(* loop of thing_dequeue_fast, as written, gives them.                     *)
THEOREM LoopAlwaysAgrees == Spec => LoopAgrees
<1> DEFINE Agree == DequeueKnown => leapId' = Loop(Kept(Head(queue).ids), Head(queue).ids)
<1>1. IInv => Agree
  <2> SUFFICES ASSUME IInv, DequeueKnown
               PROVE  leapId' = Loop(Kept(Head(queue).ids), Head(queue).ids)
    OBVIOUS
  <2> DEFINE ids == Head(queue).ids
  <2>1. ids \in Seq(Nat) /\ Distinct(ids)
    BY HeadFacts DEF DequeueKnown, IInv
  <2>2. Kept(ids) \in [Hands -> Nat]
    BY KeptType DEF IInv
  <2>3. leapId' = Assigned(ids, Kept(ids))
    BY DEF DequeueKnown, HandleKnown
  <2> QED
    BY <2>1, <2>2, <2>3, LoopIsAssigned
<1>2. QED
  BY <1>1, Invariance, PTL DEF LoopAgrees
=============================================================================

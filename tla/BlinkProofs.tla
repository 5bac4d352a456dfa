---------------------------- MODULE BlinkProofs ----------------------------
(***************************************************************************)
(* Theorems about the blink manager, for any number of blinks, of units    *)
(* and of colours, and any number of units plugged in and unplugged.       *)
(***************************************************************************)
EXTENDS Blink, Ranks, FiniteSetTheorems, TLAPS

Shapes ==
  /\ plugged \in SUBSET Units
  /\ shows \in [Units -> Colours \cup {Dark}]
  /\ serials \in [Blinks -> Units \cup {None}]
  /\ count \in Nat
  /\ created \subseteq Blinks /\ live \subseteq Blinks
  /\ dev \in [Blinks -> Units \cup {None}]
  /\ last \in [Blinks -> Colours \cup {Unset}]
  /\ paint \in Colours \cup {Unset}

(* A refresh goes through the blinks in order. *)
Queue ==
  /\ stage = "open" => Head(todo) \notin live
  /\ todo \in Seq(Blinks)
  /\ Len(todo) <= NBlinks
  /\ \A i \in DOMAIN todo : todo[i] = NBlinks - Len(todo) + i
  /\ stage \in {"release", "open", "read", "write"}
  /\ todo = <<>> => stage = "release"

(* The colour being set is the blink's last one. *)
Setting ==
  \/ pending = NoPending
  \/ /\ pending = [blink |-> pending.blink, colour |-> pending.colour,
                   aimed |-> pending.aimed, unit |-> pending.unit]
     /\ pending.blink \in created
     /\ pending.colour \in Colours
     /\ pending.colour = last[pending.blink]
     /\ pending.aimed \in BOOLEAN
     /\ pending.unit \in Units \cup {None}

(* Good handles are of units that are there. *)
Handles == \A b \in live : /\ dev[b] \in plugged
                           /\ \A a \in live : a # b /\ dev[a] = dev[b] => dev[b] \in shared

(* Blinks that the refresh under way has been through. *)
Renewed(b) ==
  \/ b <= NBlinks - Len(todo)
  \/ b = NBlinks - Len(todo) + 1 /\ stage \in {"read", "write"}

(* The table after an enumeration, and until the next unit comes or goes;  *)
(* and, until one finds fewer, no serial number is in it twice.            *)
Table ==
  /\ ~ touched => /\ count = Cardinality(plugged)
                  /\ \A i \in Blinks : i <= count => serials[i] = Sorted(plugged)[i]
  /\ ~ dropped => \A i \in Blinks :
                    IF i <= count
                      THEN /\ serials[i] # None
                           /\ \A j \in Blinks : j # i => serials[j] # serials[i]
                      ELSE serials[i] = None

(* What the renewed blinks have open. *)
Opened ==
  /\ ~ touched /\ ~ missed =>
       \A b \in Blinks : b <= count /\ Renewed(b) => b \in live /\ dev[b] = serials[b]
  /\ todo # <<>> => \A b \in live : Renewed(b) => dev[b] = serials[b]
  /\ ~ dropped => \A a, b \in live : Renewed(a) /\ Renewed(b) /\ a # b => dev[a] # dev[b]

(* The unit of a blink shows its last colour, or is about to: somebody has *)
(* that colour and will write it through that handle.                      *)
BeingSet(b) == /\ pending # NoPending /\ pending.blink = b
               /\ pending.aimed => pending.unit = dev[b]
BeingRead(b) == todo # <<>> /\ b = Head(todo) /\ stage = "read"
BeingPainted(b) == todo # <<>> /\ b = Head(todo) /\ stage = "write"
Painting ==
  /\ \A b \in Blinks : BeingPainted(b) /\ b \notin raced => paint = last[b]
  /\ \A b \in live : last[b] # Unset /\ b \notin raced /\ dev[b] \notin shared \cup strayed =>
       \/ shows[dev[b]] = last[b]
       \/ BeingSet(b) \/ BeingRead(b) \/ BeingPainted(b)

IInv == Shapes /\ Queue /\ Setting /\ Handles /\ Table /\ Opened /\ Painting

-----------------------------------------------------------------------------
(* Sorting. *)

LEMMA SortedFacts ==
    ASSUME NEW S \in SUBSET Units
    PROVE  /\ Cardinality(S) \in Nat
           /\ DOMAIN Sorted(S) = 1 .. Cardinality(S) /\ Len(Sorted(S)) = Cardinality(S)
           /\ \A i \in 1 .. Cardinality(S) : Sorted(S)[i] \in S
           /\ \A i, j \in 1 .. Cardinality(S) : i # j => Sorted(S)[i] # Sorted(S)[j]
<1> DEFINE n == Cardinality(S)
<1>1. S \in SUBSET Nat /\ IsFiniteSet(S)
  BY UnitsAssumption, FS_Subset
<1>2. n \in Nat /\ \A k \in 0 .. n - 1 : \E u \in S : Rank(S, u) = k
  BY <1>1, Ranked
<1>3. \A i \in 1 .. n : Sorted(S)[i] \in S /\ Rank(S, Sorted(S)[i]) = i - 1
  <2>1. \A i \in 1 .. n : i - 1 \in 0 .. n - 1
    BY <1>2
  <2>2. \A i \in 1 .. n : Sorted(S)[i] = CHOOSE u \in S : Rank(S, u) = i - 1
    BY DEF Sorted, Rank
  <2> HIDE DEF n
  <2> QED
    BY <1>2, <2>1, <2>2
<1>4. DOMAIN Sorted(S) = 1 .. n /\ Len(Sorted(S)) = n
  BY <1>2 DEF Sorted
<1> QED
  BY <1>2, <1>3, <1>4

-----------------------------------------------------------------------------
(* Typing of the table, the initial state, and the queue of a refresh. *)

LEMMA RefilledFacts ==
    ASSUME Shapes
    PROVE  /\ Refilled(Sorted(plugged)) \in [Blinks -> Units \cup {None}]
           /\ \A i \in Blinks : Refilled(Sorted(plugged))[i] =
                IF i <= Cardinality(plugged) THEN Sorted(plugged)[i] ELSE serials[i]
           /\ Cardinality(plugged) \in Nat
<1>1. plugged \in SUBSET Units /\ Blinks \subseteq Nat \ {0}
  BY BlinksAssumption DEF Shapes, Blinks
<1>2. /\ Cardinality(plugged) \in Nat
      /\ Len(Sorted(plugged)) = Cardinality(plugged)
      /\ \A i \in 1 .. Cardinality(plugged) : Sorted(plugged)[i] \in Units
  BY <1>1, SortedFacts
<1>3. \A i \in Blinks : Refilled(Sorted(plugged))[i] =
                IF i <= Cardinality(plugged) THEN Sorted(plugged)[i] ELSE serials[i]
  BY <1>2 DEF Refilled
<1>4. ASSUME NEW i \in Blinks
      PROVE  (IF i <= Cardinality(plugged) THEN Sorted(plugged)[i] ELSE serials[i])
               \in Units \cup {None}
  <2>1. serials[i] \in Units \cup {None}
    BY DEF Shapes
  <2>2. i <= Cardinality(plugged) => i \in 1 .. Cardinality(plugged)
    BY <1>1, <1>2
  <2> QED
    BY <1>2, <2>1, <2>2
<1>5. Refilled(Sorted(plugged)) \in [Blinks -> Units \cup {None}]
  BY <1>2, <1>4 DEF Refilled
<1> QED
  BY <1>2, <1>3, <1>5

LEMMA QueueFacts ==
    ASSUME Queue, todo # <<>>
    PROVE  /\ NBlinks \in Nat \ {0} /\ Len(todo) \in 1 .. NBlinks
           /\ Head(todo) \in Blinks
           /\ Head(todo) = NBlinks - Len(todo) + 1
           /\ Tail(todo) \in Seq(Blinks)
           /\ Len(Tail(todo)) = Len(todo) - 1
           /\ \A i \in DOMAIN Tail(todo) : Tail(todo)[i] = NBlinks - Len(Tail(todo)) + i
           /\ stage = "open" => Head(todo) \notin live
<1>1. todo \in Seq(Blinks) /\ todo # <<>> /\ Len(todo) <= NBlinks /\ NBlinks \in Nat \ {0}
  BY BlinksAssumption DEF Queue
<1> DEFINE B == Blinks
<1>2. todo \in Seq(B)
  BY <1>1
<1> HIDE DEF B
<1>3. /\ Len(todo) \in Nat \ {0} /\ Head(todo) \in B /\ Head(todo) = todo[1]
      /\ DOMAIN todo = 1 .. Len(todo)
      /\ Tail(todo) \in Seq(B) /\ Len(Tail(todo)) = Len(todo) - 1
      /\ DOMAIN Tail(todo) = 1 .. Len(todo) - 1
      /\ \A i \in 1 .. Len(todo) - 1 : Tail(todo)[i] = todo[i + 1]
  BY <1>1, <1>2
<1>4. \A i \in 1 .. Len(todo) : todo[i] = NBlinks - Len(todo) + i
  BY <1>3 DEF Queue
<1>5. ASSUME NEW i \in 1 .. Len(todo) - 1
      PROVE  Tail(todo)[i] = NBlinks - Len(Tail(todo)) + i
  BY <1>1, <1>3, <1>4
<1>6. stage = "open" => Head(todo) \notin live
  BY DEF Queue
<1> QED
  BY <1>1, <1>3, <1>4, <1>5, <1>6 DEF B

LEMMA InitIInv == Init => IInv
<1> SUFFICES ASSUME Init
             PROVE  IInv
  OBVIOUS
<1>1. plugged \in SUBSET Units /\ live = {} /\ created = {} /\ pending = NoPending
  BY DEF Init
<1>2. /\ Cardinality(plugged) \in Nat /\ Len(Sorted(plugged)) = Cardinality(plugged)
      /\ \A i \in 1 .. Cardinality(plugged) : Sorted(plugged)[i] \in plugged
      /\ \A i, j \in 1 .. Cardinality(plugged) : i # j => Sorted(plugged)[i] # Sorted(plugged)[j]
  BY <1>1, SortedFacts
<1>3. /\ count = Cardinality(plugged)
      /\ serials = [i \in Blinks |-> IF i <= count THEN Sorted(plugged)[i] ELSE None]
  BY <1>2 DEF Init
<1>4. \A i \in Blinks : i \in Nat \ {0} /\ (i <= count => i \in 1 .. count)
  BY <1>2, <1>3, BlinksAssumption DEF Blinks
<1>5. Shapes
  <2>1. serials \in [Blinks -> Units \cup {None}]
    BY <1>1, <1>2, <1>3, <1>4
  <2>2. /\ shows \in [Units -> Colours \cup {Dark}]
        /\ dev \in [Blinks -> Units \cup {None}]
        /\ last \in [Blinks -> Colours \cup {Unset}]
        /\ paint \in Colours \cup {Unset}
    BY DEF Init
  <2> QED
    BY <1>1, <1>2, <1>3, <2>1, <2>2 DEF Shapes
<1>6. todo \in Seq(Blinks) /\ Len(todo) = NBlinks /\ \A i \in DOMAIN todo : todo[i] = i
  BY BlinksAssumption DEF Init, Blinks
<1>7. Queue
  BY <1>1, <1>6, BlinksAssumption DEF Queue, Init
<1>8. Setting /\ Handles
  BY <1>1 DEF Setting, Handles
<1>9. Table
  <2>1. \A i \in Blinks : i <= count => serials[i] = Sorted(plugged)[i] /\ serials[i] \in plugged
    BY <1>2, <1>3, <1>4
  <2>2. \A i \in Blinks : ~ (i <= count) => serials[i] = None
    BY <1>3
  <2>3. ASSUME NEW i \in Blinks, i <= count
        PROVE  /\ serials[i] # None
               /\ \A j \in Blinks : j # i => serials[j] # serials[i]
    <3>1. serials[i] # None
      BY <1>1, <2>1, <2>3, UnitsAssumption
    <3> QED
      BY <1>2, <1>3, <1>4, <2>1, <2>2, <2>3, <3>1
  <2> QED
    BY <1>3, <2>1, <2>2, <2>3 DEF Table
<1>10. Opened
  <2>1. \A b \in Blinks : ~ Renewed(b)
    BY <1>4, <1>6, BlinksAssumption DEF Renewed, Init
  <2> QED
    BY <1>1, <2>1 DEF Opened
<1>11. Painting
  BY <1>1 DEF Painting, BeingPainted, Init
<1> QED
  BY <1>5, <1>7, <1>8, <1>9, <1>10, <1>11 DEF IInv
-----------------------------------------------------------------------------
(* The user. *)

LEMMA PlugStep == IInv /\ Plug => IInv'
<1> SUFFICES ASSUME IInv,
                    NEW u \in Units \ plugged,
                    plugged' = plugged \cup {u},
                    shows' = [shows EXCEPT ![u] = Dark],
                    touched' = TRUE,
                    UNCHANGED <<poll, created, handles, last, slow, pending, raced, strayed>>
             PROVE  IInv'
  BY DEF Plug
<1>1. /\ UNCHANGED <<serials, count, missed, dropped>> /\ UNCHANGED <<dev, live, shared>>
      /\ UNCHANGED <<todo, stage, paint>>
      /\ UNCHANGED <<created, last, pending, raced, strayed>>
  BY DEF poll, handles, slow
<1>2. Shapes'
  BY <1>1 DEF IInv, Shapes
<1>3. Queue' /\ Setting'
  BY <1>1 DEF IInv, Queue, Setting
<1>4. Handles'
  BY <1>1 DEF IInv, Handles
<1>5. Table'
  BY <1>1 DEF IInv, Table
<1>6. Opened'
  BY <1>1 DEF IInv, Opened, Renewed
<1>7. Painting'
  <2>1. \A b \in live : dev[b] \in plugged /\ dev[b] \in Units /\ shows'[dev[b]] = shows[dev[b]]
    BY DEF IInv, Handles, Shapes
  <2>2. \A b : /\ BeingSet(b)' <=> BeingSet(b)
               /\ BeingRead(b)' <=> BeingRead(b)
               /\ BeingPainted(b)' <=> BeingPainted(b)
    BY <1>1 DEF BeingSet, BeingRead, BeingPainted
  <2> QED
    BY <1>1, <2>1, <2>2 DEF IInv, Painting
<1> QED
  BY <1>2, <1>3, <1>4, <1>5, <1>6, <1>7 DEF IInv

LEMMA UnplugStep == IInv /\ Unplug => IInv'
<1> SUFFICES ASSUME IInv,
                    NEW u \in plugged,
                    plugged' = plugged \ {u},
                    live' = {b \in live : dev[b] # u},
                    pending' = IF pending.unit = u THEN [pending EXCEPT !.unit = None]
                                 ELSE pending,
                    touched' = TRUE,
                    UNCHANGED <<shows, poll, created, dev, shared, last, slow, raced, strayed>>
             PROVE  IInv'
  BY DEF Unplug
<1>1. /\ UNCHANGED <<serials, count, missed, dropped>> /\ UNCHANGED <<dev, shared>>
      /\ UNCHANGED <<todo, stage, paint>>
      /\ UNCHANGED <<shows, created, last, raced, strayed>>
  BY DEF poll, slow
<1>2. Shapes'
  BY <1>1 DEF IInv, Shapes
<1>3. Queue'
  BY <1>1 DEF IInv, Queue
<1>4. u \in Units /\ u # None
  BY UnitsAssumption DEF IInv, Shapes
<1>5. /\ pending' = NoPending <=> pending = NoPending
      /\ pending'.blink = pending.blink /\ pending'.aimed = pending.aimed
      /\ pending'.colour = pending.colour
      /\ pending'.unit = IF pending.unit = u THEN None ELSE pending.unit
      /\ Setting'
  <2>1. CASE pending = NoPending
    BY <2>1, <1>4 DEF NoPending, Setting
  <2>2. CASE pending # NoPending
    <3>1. /\ pending = [blink |-> pending.blink, colour |-> pending.colour,
                        aimed |-> pending.aimed, unit |-> pending.unit]
          /\ pending.blink \in created /\ pending.colour \in Colours
          /\ pending.colour = last[pending.blink]
          /\ pending.aimed \in BOOLEAN /\ pending.unit \in Units \cup {None}
      BY <2>2 DEF IInv, Setting
    <3>2. /\ pending' = [blink |-> pending.blink, colour |-> pending.colour,
                         aimed |-> pending.aimed,
                         unit |-> IF pending.unit = u THEN None ELSE pending.unit]
      BY <3>1
    <3>3. pending.colour # Unset
      BY <3>1, ColoursAssumption
    <3>4. pending' # NoPending
      BY <3>2, <3>3 DEF NoPending
    <3> HIDE DEF NoPending
    <3>5. /\ pending'.blink = pending.blink /\ pending'.aimed = pending.aimed
          /\ pending'.colour = pending.colour
          /\ pending'.unit = IF pending.unit = u THEN None ELSE pending.unit
      BY <3>2
    <3>6. pending' = [blink |-> pending'.blink, colour |-> pending'.colour,
                      aimed |-> pending'.aimed, unit |-> pending'.unit]
      BY <3>2
    <3>7. Setting'
      BY <1>1, <3>1, <3>5, <3>6 DEF Setting
    <3> QED
      BY <2>2, <3>4, <3>5, <3>7
  <2> QED
    BY <2>1, <2>2
<1>6. Handles'
  BY <1>1 DEF IInv, Handles
<1>7. Table'
  BY <1>1 DEF IInv, Table
<1>8. Opened'
  BY <1>1 DEF IInv, Opened, Renewed
<1>9. Painting'
  <2>1. \A b \in live' : b \in live /\ dev[b] # u
    OBVIOUS
  <2>2. \A b \in live' : BeingSet(b) => BeingSet(b)'
    BY <1>1, <1>5, <2>1 DEF BeingSet
  <2>3. \A b : /\ BeingRead(b)' <=> BeingRead(b)
               /\ BeingPainted(b)' <=> BeingPainted(b)
    BY <1>1 DEF BeingRead, BeingPainted
  <2> QED
    BY <1>1, <2>1, <2>2, <2>3 DEF IInv, Painting
<1> QED
  BY <1>2, <1>3, <1>5, <1>6, <1>7, <1>8, <1>9 DEF IInv

-----------------------------------------------------------------------------
(* The slow thread. *)

LEMMA PollStep == IInv /\ Poll => IInv'
<1> SUFFICES ASSUME IInv, Poll
             PROVE  IInv'
  OBVIOUS
<1>1. /\ todo = <<>> /\ stage = "release"
      /\ touched' = FALSE
      /\ UNCHANGED <<plugged, shows, created, dev, live, shared, last, stage, paint, pending,
                     raced, strayed>>
  BY DEF Poll, usb, handles, IInv, Queue
<1>2. /\ serials' = Refilled(Sorted(plugged))
      /\ count' = Cardinality(plugged)
      /\ todo' = IF Cardinality(plugged) # count THEN [i \in 1 .. NBlinks |-> i] ELSE <<>>
      /\ missed' = (Cardinality(plugged) = count /\ (touched \/ missed))
      /\ dropped' = (dropped \/ Cardinality(plugged) < count)
  BY DEF Poll, Changed
<1>3. /\ serials' \in [Blinks -> Units \cup {None}]
      /\ \A i \in Blinks :
            serials'[i] = IF i <= count' THEN Sorted(plugged)[i] ELSE serials[i]
      /\ count' \in Nat /\ count \in Nat
  BY <1>2, RefilledFacts DEF IInv, Shapes
<1>4. Shapes'
  BY <1>1, <1>3 DEF IInv, Shapes
<1>5. /\ todo' \in Seq(Blinks) /\ Len(todo') <= NBlinks
      /\ \A i \in DOMAIN todo' : todo'[i] = NBlinks - Len(todo') + i
      /\ todo' # <<>> => count' # count /\ Len(todo') = NBlinks
  <2>1. CASE count' = count
    BY <1>2, <2>1, BlinksAssumption
  <2>2. CASE count' # count
    <3>1. todo' = [i \in 1 .. NBlinks |-> i]
      BY <1>2, <2>2
    <3>2. Len(todo') = NBlinks /\ todo' \in Seq(Blinks) /\ DOMAIN todo' = 1 .. NBlinks
      BY <3>1, BlinksAssumption DEF Blinks
    <3> QED
      BY <2>2, <3>1, <3>2, BlinksAssumption
  <2> QED
    BY <2>1, <2>2
<1>6. Queue'
  BY <1>1, <1>5 DEF Queue
<1>7. Setting' /\ Handles'
  BY <1>1 DEF IInv, Setting, Handles
<1>8. Table'
  <2>1. ~ touched' => /\ count' = Cardinality(plugged')
                      /\ \A i \in Blinks : i <= count' => serials'[i] = Sorted(plugged')[i]
    BY <1>1, <1>2, <1>3
  <2>2. ASSUME ~ dropped', NEW i \in Blinks
        PROVE  IF i <= count'
                 THEN /\ serials'[i] # None
                      /\ \A j \in Blinks : j # i => serials'[j] # serials'[i]
                 ELSE serials'[i] = None
    <3>0. ~ dropped /\ ~ (Cardinality(plugged) < count)
      BY <1>2, <2>2, Zenon
    <3>1. ~ dropped /\ count <= count'
      <4>1. count' = Cardinality(plugged)
        BY <1>2
      <4> QED
        BY <1>3, <3>0, <4>1
    <3>2. \A j \in Blinks : ~ (j <= count') => serials'[j] = None
      <4>1. \A j \in Blinks : j \in Nat
        BY BlinksAssumption DEF Blinks
      <4> QED
        BY <1>3, <3>1, <4>1 DEF IInv, Table
    <3>3. \A j \in Blinks : j <= count' => j \in 1 .. count' /\ serials'[j] = Sorted(plugged)[j]
      BY <1>3, BlinksAssumption DEF Blinks
    <3>4. /\ \A j \in 1 .. count' : Sorted(plugged)[j] \in plugged
          /\ \A j, k \in 1 .. count' : j # k => Sorted(plugged)[j] # Sorted(plugged)[k]
          /\ None \notin plugged
      BY <1>2, SortedFacts, UnitsAssumption DEF IInv, Shapes
    <3>5. CASE i <= count'
      <4>1. \A j \in Blinks : j # i => serials'[j] # serials'[i]
        BY <3>2, <3>3, <3>4, <3>5
      <4> QED
        BY <3>3, <3>4, <3>5, <4>1
    <3> QED
      BY <3>2, <3>5
  <2> QED
    BY <2>1, <2>2 DEF Table
<1>9. Opened'
  <2>1. CASE todo' # <<>>
    <3>1. \A b \in Blinks : ~ Renewed(b)'
      BY <1>1, <1>5, <2>1, BlinksAssumption DEF Renewed, Blinks
    <3> QED
      BY <1>4, <3>1 DEF Opened, Shapes
  <2>2. CASE todo' = <<>>
    <3>1. count' = count
      <4> HIDE DEF Blinks
      <4>1. [i \in 1 .. NBlinks |-> i] # <<>>
        BY BlinksAssumption
      <4> QED
        BY <1>2, <2>2, <4>1
    <3>2. \A b : Renewed(b)' <=> Renewed(b)
      BY <1>1, <2>2 DEF Renewed
    <3>3. ~ missed' => ~ touched /\ ~ missed
      BY <1>2, <3>1
    <3>4. ~ missed' => \A b \in Blinks : b <= count => serials'[b] = serials[b]
      BY <1>1, <1>2, <1>3, <3>1, <3>3 DEF IInv, Table
    <3>5. ~ missed' => \A b \in Blinks : b <= count' /\ Renewed(b)' => b \in live' /\ dev'[b] = serials'[b]
      BY <1>1, <3>1, <3>2, <3>3, <3>4 DEF IInv, Opened
    <3>6. ~ dropped' => ~ dropped
      BY <1>2
    <3>7. ~ dropped' => \A a, b \in live' : Renewed(a)' /\ Renewed(b)' /\ a # b => dev'[a] # dev'[b]
      BY <1>1, <3>2, <3>6 DEF IInv, Opened
    <3> QED
      BY <2>2, <3>5, <3>7 DEF Opened
  <2> QED
    BY <2>1, <2>2
<1>10. Painting'
  <2>1. \A b : /\ BeingSet(b)' <=> BeingSet(b)
               /\ ~ BeingRead(b) /\ ~ BeingPainted(b)
               /\ ~ BeingRead(b)' /\ ~ BeingPainted(b)'
    BY <1>1 DEF BeingSet, BeingRead, BeingPainted
  <2> QED
    BY <1>1, <2>1 DEF IInv, Painting
<1> QED
  BY <1>4, <1>6, <1>7, <1>8, <1>9, <1>10 DEF IInv

LEMMA ReleaseStep == IInv /\ Release => IInv'
<1> SUFFICES ASSUME IInv, Release
             PROVE  IInv'
  OBVIOUS
<1>1. /\ todo # <<>> /\ stage = "release" /\ stage' = "open"
      /\ dev' = [dev EXCEPT ![Head(todo)] = None]
      /\ live' = live \ {Head(todo)}
      /\ UNCHANGED <<plugged, shows, serials, count, missed, dropped, created, shared, last,
                     todo, paint, pending, touched, raced, strayed>>
  BY DEF Release, Released, usb, poll
<1>2. Head(todo) \in Blinks /\ Head(todo) = NBlinks - Len(todo) + 1
  BY <1>1, QueueFacts DEF IInv
<1>3. \A b \in Blinks : b # Head(todo) => dev'[b] = dev[b]
  BY <1>1, <1>2 DEF IInv, Shapes
<1>4. \A b \in live' : b \in live /\ b # Head(todo) /\ b \in Blinks /\ dev'[b] = dev[b]
  BY <1>1, <1>3 DEF IInv, Shapes
<1>5. Shapes'
  BY <1>1, <1>2 DEF IInv, Shapes
<1>6. Queue'
  BY <1>1 DEF IInv, Queue
<1>7. Setting'
  BY <1>1 DEF IInv, Setting
<1>8. Handles'
  BY <1>1, <1>4 DEF IInv, Handles
<1>9. Table'
  BY <1>1 DEF IInv, Table
<1>10. \A b \in Blinks : Renewed(b)' => Renewed(b) /\ b # Head(todo)
  BY <1>1, <1>2, QueueFacts DEF IInv, Renewed, Blinks
<1>11. Opened'
  <2>1. ~ touched' /\ ~ missed' =>
          \A b \in Blinks : b <= count' /\ Renewed(b)' => b \in live' /\ dev'[b] = serials'[b]
    BY <1>1, <1>3, <1>10 DEF IInv, Opened
  <2>2. \A b \in live' : Renewed(b)' => dev'[b] = serials'[b]
    BY <1>1, <1>4, <1>10 DEF IInv, Opened
  <2>3. ~ dropped' => \A a, b \in live' : Renewed(a)' /\ Renewed(b)' /\ a # b => dev'[a] # dev'[b]
    BY <1>1, <1>4, <1>10 DEF IInv, Opened
  <2> QED
    BY <2>1, <2>2, <2>3 DEF Opened
<1>12. Painting'
  <2>1. \A b \in live' : BeingSet(b) => BeingSet(b)'
    BY <1>1, <1>4 DEF BeingSet
  <2>2. \A b : ~ BeingRead(b) /\ ~ BeingPainted(b) /\ ~ BeingPainted(b)'
    BY <1>1 DEF BeingRead, BeingPainted
  <2> QED
    BY <1>1, <1>4, <2>1, <2>2 DEF IInv, Painting
<1> QED
  BY <1>5, <1>6, <1>7, <1>8, <1>9, <1>11, <1>12 DEF IInv

(* What Refreshed does to the refresh: the blink at the head is through.   *)
LEMMA RefreshedFacts ==
    ASSUME IInv, todo # <<>>, Refreshed, live' \subseteq live
    PROVE  /\ Queue'
           /\ created' \subseteq Blinks /\ created \subseteq created'
           /\ \A b \in Blinks : Renewed(b)' => Renewed(b) \/ b = Head(todo)
<1>1. /\ NBlinks \in Nat \ {0} /\ Len(todo) \in 1 .. NBlinks
      /\ Head(todo) \in Blinks /\ Head(todo) = NBlinks - Len(todo) + 1
      /\ Tail(todo) \in Seq(Blinks) /\ Len(Tail(todo)) = Len(todo) - 1
      /\ \A i \in DOMAIN Tail(todo) : Tail(todo)[i] = NBlinks - Len(Tail(todo)) + i
  BY QueueFacts DEF IInv
<1>2. todo' = Tail(todo) /\ stage' = "release" /\ created' = created \cup {Head(todo)}
  BY DEF Refreshed
<1>3. Queue'
  BY <1>1, <1>2 DEF Queue
<1>4. created' \subseteq Blinks /\ created \subseteq created'
  BY <1>1, <1>2 DEF IInv, Shapes
<1>5. \A b \in Blinks : Renewed(b)' => Renewed(b) \/ b = Head(todo)
  BY <1>1, <1>2 DEF Renewed, Blinks
<1> QED
  BY <1>3, <1>4, <1>5

LEMMA OpenStep == IInv /\ Open => IInv'
<1> SUFFICES ASSUME IInv, Open
             PROVE  IInv'
  OBVIOUS
<1> DEFINE h == Head(todo)
           u == serials[h]
<1>1. /\ todo # <<>> /\ stage = "open"
      /\ UNCHANGED <<plugged, shows, serials, count, missed, dropped, last, paint, pending,
                     touched, raced, strayed>>
      /\ IF u \in plugged
           THEN /\ dev' = [dev EXCEPT ![h] = u]
                /\ live' = live \cup {h}
                /\ shared' = IF \E a \in live : dev[a] = u THEN shared \cup {u} ELSE shared
                /\ stage' = "read"
                /\ UNCHANGED <<todo, created>>
           ELSE Refreshed /\ UNCHANGED <<dev, live, shared>>
  BY DEF Open, usb, poll, handles
<1>2. /\ h \in Blinks /\ h = NBlinks - Len(todo) + 1 /\ h \notin live
      /\ NBlinks \in Nat \ {0} /\ Len(todo) \in 1 .. NBlinks
  BY <1>1, QueueFacts DEF IInv
<1>3. h \in Nat /\ count \in Nat /\ u \in Units \cup {None}
  BY <1>2 DEF IInv, Shapes, Blinks
<1> HIDE DEF h, u
<1>4. Table'
  BY <1>1 DEF IInv, Table
<1>5. CASE u \in plugged
  <2>1. /\ dev' = [dev EXCEPT ![h] = u] /\ live' = live \cup {h} /\ shared \subseteq shared'
        /\ (\E a \in live : dev[a] = u) => u \in shared'
        /\ stage' = "read" /\ UNCHANGED <<todo, created>>
    BY <1>1, <1>5
  <2>2. /\ dev'[h] = u
        /\ \A b \in live : b \in Blinks /\ b # h /\ dev'[b] = dev[b]
        /\ \A b \in Blinks : b # h => dev'[b] = dev[b]
    BY <1>2, <2>1 DEF IInv, Shapes
  <2>3. Shapes'
    BY <1>1, <1>2, <1>3, <2>1 DEF IInv, Shapes
  <2>4. Queue'
    BY <1>1, <2>1 DEF IInv, Queue
  <2>5. Setting'
    BY <1>1, <2>1 DEF IInv, Setting
  <2>6. Handles'
    <3>1. \A b \in live' : dev'[b] \in plugged
      BY <1>5, <2>1, <2>2 DEF IInv, Handles
    <3>2. \A a, b \in live : a # b /\ dev'[a] = dev'[b] => dev'[b] \in shared'
      BY <2>1, <2>2 DEF IInv, Handles
    <3>3. \A a \in live : dev'[a] = dev'[h] => dev'[h] \in shared' /\ dev'[a] \in shared'
      BY <2>1, <2>2
    <3> QED
      BY <1>1, <2>1, <3>1, <3>2, <3>3 DEF Handles
  <2>7. /\ \A b \in Blinks : Renewed(b)' <=> Renewed(b) \/ b = h
        /\ \A b \in Blinks : Renewed(b) => b # h
    BY <1>1, <1>2, <2>1 DEF Renewed, Blinks
  <2>8. Opened'
    <3>1. ~ touched' /\ ~ missed' =>
            \A b \in Blinks : b <= count' /\ Renewed(b)' => b \in live' /\ dev'[b] = serials'[b]
      <4>1. dev'[h] = serials'[h] /\ h \in live'
        BY <1>1, <2>1, <2>2 DEF u
      <4> QED
        BY <1>1, <2>1, <2>2, <2>7, <4>1 DEF IInv, Opened
    <3>2. \A b \in live' : Renewed(b)' => dev'[b] = serials'[b]
      <4>1. dev'[h] = serials'[h]
        BY <1>1, <2>2 DEF u
      <4>2. \A b \in live : Renewed(b)' => dev'[b] = serials'[b]
        BY <1>1, <2>2, <2>7 DEF IInv, Opened
      <4> QED
        BY <2>1, <4>1, <4>2
    <3>3. ASSUME ~ dropped', NEW a \in live', NEW b \in live',
                 Renewed(a)', Renewed(b)', a # b
          PROVE  dev'[a] # dev'[b]
      <4>1. dev'[a] = serials[a] /\ dev'[b] = serials[b]
        BY <1>1, <3>2, <3>3
      <4>2. a \in Blinks /\ b \in Blinks
        BY <2>3 DEF Shapes
      <4>3. dev'[a] # None /\ dev'[b] # None
        <5>1. dev'[a] \in plugged /\ dev'[b] \in plugged
          BY <1>1, <2>6 DEF Handles
        <5> QED
          BY <5>1, UnitsAssumption DEF IInv, Shapes
      <4>4. serials[a] # None /\ serials[b] # None
        BY <4>1, <4>3
      <4> QED
        BY <1>1, <3>3, <4>1, <4>2, <4>4 DEF IInv, Table
    <3> QED
      BY <1>1, <3>1, <3>2, <3>3 DEF Opened
  <2>9. Painting'
    <3>1. /\ \A b : b = h => BeingRead(b)'
          /\ \A b : ~ BeingPainted(b)'
          /\ \A b : ~ BeingRead(b) /\ ~ BeingPainted(b)
      BY <1>1, <2>1 DEF BeingRead, BeingPainted, h
    <3>2. \A b \in live : BeingSet(b) => BeingSet(b)'
      BY <1>1, <2>2 DEF BeingSet
    <3>3. \A b \in live : last[b] # Unset /\ b \notin raced /\ dev[b] \notin shared' \cup strayed =>
              shows[dev[b]] = last[b] \/ BeingSet(b)
      BY <2>1, <3>1 DEF IInv, Painting
    <3>4. \A b \in live : last[b] # Unset /\ b \notin raced /\ dev'[b] \notin shared' \cup strayed =>
              shows[dev'[b]] = last[b] \/ BeingSet(b)'
      BY <2>2, <3>2, <3>3
    <3>5. \A b \in live' : b = h \/ b \in live
      BY <2>1
    <3>6. UNCHANGED <<shows, last, raced, strayed>>
      BY <1>1
    <3> QED
      BY <3>1, <3>4, <3>5, <3>6 DEF Painting
  <2> QED
    BY <1>4, <2>3, <2>4, <2>5, <2>6, <2>8, <2>9 DEF IInv
<1>6. CASE u \notin plugged
  <2>1. Refreshed /\ UNCHANGED <<dev, live, shared>>
    BY <1>1, <1>6
  <2>2. /\ Queue'
        /\ created' \subseteq Blinks /\ created \subseteq created'
        /\ \A b \in Blinks : Renewed(b)' => Renewed(b) \/ b = h
    BY <1>1, <2>1, RefreshedFacts DEF h
  <2>3. Shapes'
    BY <1>1, <2>1, <2>2 DEF IInv, Shapes
  <2>4. Setting'
    BY <1>1, <2>1, <2>2 DEF IInv, Setting
  <2>5. Handles'
    BY <1>1, <2>1 DEF IInv, Handles
  <2>6. Opened'
    <3>1. ASSUME ~ touched, h <= count
          PROVE  FALSE
      <4>1. u = Sorted(plugged)[h] /\ count = Cardinality(plugged)
        BY <1>2, <3>1 DEF IInv, Table, u
      <4>2. h \in 1 .. Cardinality(plugged)
        BY <1>2, <1>3, <3>1, <4>1 DEF Blinks
      <4>3. \A i \in 1 .. Cardinality(plugged) : Sorted(plugged)[i] \in plugged
        BY SortedFacts DEF IInv, Shapes
      <4> QED
        BY <1>6, <4>1, <4>2, <4>3
    <3>2. \A b \in live : Renewed(b)' => Renewed(b)
      BY <1>2, <2>2 DEF IInv, Shapes
    <3>3. ~ touched /\ ~ missed =>
            \A b \in Blinks : b <= count /\ Renewed(b)' => b \in live /\ dev[b] = serials[b]
      BY <2>2, <3>1 DEF IInv, Opened
    <3>4. \A b \in live : Renewed(b)' => dev[b] = serials[b]
      BY <1>1, <3>2 DEF IInv, Opened
    <3>5. ~ dropped => \A a, b \in live : Renewed(a)' /\ Renewed(b)' /\ a # b => dev[a] # dev[b]
      BY <3>2 DEF IInv, Opened
    <3> QED
      BY <1>1, <2>1, <3>3, <3>4, <3>5 DEF Opened
  <2>7. Painting'
    <3>1. /\ \A b : ~ BeingRead(b) /\ ~ BeingPainted(b)
          /\ \A b : ~ BeingPainted(b)'
      BY <1>1, <2>1 DEF BeingRead, BeingPainted, Refreshed
    <3>2. \A b : BeingSet(b) => BeingSet(b)'
      BY <1>1, <2>1 DEF BeingSet
    <3>3. /\ UNCHANGED <<shows, last, raced, strayed>> /\ UNCHANGED <<dev, live, shared>>
      BY <1>1, <2>1
    <3>4. \A b \in live : last[b] # Unset /\ b \notin raced /\ dev[b] \notin shared \cup strayed =>
              shows[dev[b]] = last[b] \/ BeingSet(b)'
      BY <3>1, <3>2 DEF IInv, Painting
    <3> QED
      BY <3>1, <3>3, <3>4 DEF Painting
  <2> QED
    BY <1>4, <2>2, <2>3, <2>4, <2>5, <2>6, <2>7 DEF IInv
<1> QED
  BY <1>5, <1>6

LEMMA ReadLastStep == IInv /\ ReadLast => IInv'
<1> SUFFICES ASSUME IInv, ReadLast
             PROVE  IInv'
  OBVIOUS
<1> DEFINE h == Head(todo)
<1>1. /\ todo # <<>> /\ stage = "read" /\ stage' = "write"
      /\ paint' = last[h] /\ raced' = raced \ {h}
      /\ UNCHANGED <<plugged, shows, serials, count, missed, dropped, created, dev, live, shared,
                     last, todo, pending, touched, strayed>>
  BY DEF ReadLast, usb, poll, handles
<1>2. h \in Blinks
  BY <1>1, QueueFacts DEF IInv
<1> HIDE DEF h
<1>3. Shapes'
  BY <1>1, <1>2 DEF IInv, Shapes
<1>4. Queue'
  BY <1>1 DEF IInv, Queue
<1>5. Setting' /\ Handles' /\ Table'
  BY <1>1 DEF IInv, Setting, Handles, Table
<1>6. Opened'
  <2>1. \A b : Renewed(b)' <=> Renewed(b)
    BY <1>1 DEF Renewed
  <2> QED
    BY <1>1, <2>1 DEF IInv, Opened
<1>7. Painting'
  <2>1. /\ \A b : BeingPainted(b)' <=> b = h
        /\ \A b : BeingRead(b) => b = h
        /\ \A b : ~ BeingPainted(b)
    BY <1>1 DEF BeingPainted, BeingRead, h
  <2>2. \A b : BeingSet(b) <=> BeingSet(b)'
    BY <1>1 DEF BeingSet
  <2>3. \A b \in Blinks : b # h /\ b \notin raced' => b \notin raced
    BY <1>1
  <2>4. ASSUME NEW b \in live, last[b] # Unset, b \notin raced', b # h,
               dev[b] \notin shared \cup strayed
        PROVE  shows[dev[b]] = last[b] \/ BeingSet(b)
    <3>1. b \notin raced
      BY <2>3, <2>4 DEF IInv, Shapes
    <3> QED
      BY <2>1, <2>4, <3>1 DEF IInv, Painting
  <2>5. \A b \in Blinks : BeingPainted(b)' => paint' = last'[b]
    BY <1>1, <2>1
  <2> QED
    BY <1>1, <2>1, <2>2, <2>4, <2>5 DEF Painting
<1> QED
  BY <1>3, <1>4, <1>5, <1>6, <1>7 DEF IInv

LEMMA WriteLastStep == IInv /\ WriteLast => IInv'
<1> SUFFICES ASSUME IInv, WriteLast
             PROVE  IInv'
  OBVIOUS
<1> DEFINE h == Head(todo)
<1>1. /\ todo # <<>> /\ stage = "write"
      /\ Repainted(h) /\ Refreshed /\ paint' = Unset
      /\ strayed' = strayed \ {dev[b] : b \in live \cap {h}}
      /\ UNCHANGED <<plugged, serials, count, missed, dropped, dev, live, shared,
                     last, pending, touched, raced>>
  BY DEF WriteLast, usb, poll, handles
<1>2. /\ h \in Blinks /\ h = NBlinks - Len(todo) + 1
      /\ Queue'
      /\ created' \subseteq Blinks /\ created \subseteq created'
      /\ stage' = "release" /\ todo' = Tail(todo)
  BY <1>1, QueueFacts, RefreshedFacts DEF IInv, Refreshed
<1> HIDE DEF h
<1>3. PICK colour \in Colours \cup {Unset} :
          /\ shows' = Shown(h, colour)
          /\ colour # Unset
          /\ paint # Unset => colour = paint
  BY <1>1, ColoursAssumption DEF Repainted, IInv, Shapes
<1>4. /\ shows' \in [Units -> Colours \cup {Dark}]
      /\ h \in live => shows'[dev[h]] = colour
      /\ \A u \in Units : u # dev[h] \/ h \notin live => shows'[u] = shows[u]
  <2>1. CASE h \in live
    <3>1. dev[h] \in Units
      BY <2>1 DEF IInv, Handles, Shapes
    <3>2. shows' = [shows EXCEPT ![dev[h]] = colour]
      BY <1>3, <2>1 DEF Shown
    <3> QED
      BY <1>3, <2>1, <3>1, <3>2 DEF IInv, Shapes
  <2>2. CASE h \notin live
    BY <1>3, <2>2 DEF Shown, IInv, Shapes
  <2> QED
    BY <2>1, <2>2
<1>5. Shapes'
  BY <1>1, <1>2, <1>4 DEF IInv, Shapes
<1>6. Setting'
  BY <1>1, <1>2 DEF IInv, Setting
<1>7. Handles' /\ Table'
  BY <1>1 DEF IInv, Handles, Table
<1>8. Opened'
  <2>1. \A b \in Blinks : Renewed(b)' => Renewed(b)
    <3>1. \A b \in Blinks : Renewed(b)' => Renewed(b) \/ b = h
      BY <1>1, RefreshedFacts DEF IInv, h
    <3>2. Renewed(h)
      BY <1>1, <1>2 DEF Renewed
    <3> QED
      BY <3>1, <3>2
  <2>2. live \subseteq Blinks
    BY DEF IInv, Shapes
  <2> QED
    BY <1>1, <2>1, <2>2 DEF IInv, Opened
<1>9. Painting'
  <2>1. \A b : /\ ~ BeingPainted(b)'
               /\ ~ BeingRead(b)
               /\ BeingPainted(b) <=> b = h
    BY <1>1, <1>2 DEF BeingPainted, BeingRead, h
  <2>2. \A b : BeingSet(b) <=> BeingSet(b)'
    BY <1>1 DEF BeingSet
  <2>3. ASSUME NEW b \in live, last[b] # Unset, b \notin raced,
               dev[b] \notin shared \cup strayed'
        PROVE  shows'[dev[b]] = last[b] \/ BeingSet(b)
    <3>1. CASE b = h
      <4>1. paint = last[h]
        BY <1>2, <2>1, <2>3, <3>1 DEF IInv, Painting
      <4> QED
        BY <1>3, <1>4, <2>3, <3>1, <4>1
    <3>2. CASE b # h
      <4>1. h \in live => dev[h] # dev[b]
        BY <2>3, <3>2 DEF IInv, Handles
      <4>2. dev[b] \notin strayed
        BY <1>1, <2>3, <4>1
      <4>3. shows[dev[b]] = last[b] \/ BeingSet(b)
        BY <2>1, <2>3, <3>2, <4>2 DEF IInv, Painting
      <4>4. dev[b] \in Units
        BY <2>3 DEF IInv, Handles, Shapes
      <4> QED
        BY <1>4, <4>1, <4>3, <4>4
    <3> QED
      BY <3>1, <3>2
  <2> QED
    BY <1>1, <2>1, <2>2, <2>3 DEF Painting
<1> QED
  BY <1>2, <1>5, <1>6, <1>7, <1>8, <1>9 DEF IInv

-----------------------------------------------------------------------------
(* The fast thread. *)

(* What the fast thread may be about to write. *)
LEMMA SettingStored ==
    ASSUME NEW b \in created', NEW colour \in Colours,
           pending' = [blink |-> b, colour |-> colour, aimed |-> FALSE, unit |-> None],
           last'[b] = colour
    PROVE  Setting'
<1>1. /\ pending'.blink = b /\ pending'.colour = colour
      /\ pending'.aimed = FALSE /\ pending'.unit = None
  OBVIOUS
<1>2. pending' = [blink |-> pending'.blink, colour |-> pending'.colour,
                  aimed |-> pending'.aimed, unit |-> pending'.unit]
  BY <1>1
<1> QED
  BY <1>1, <1>2 DEF Setting

LEMMA SetColorStep == IInv /\ SetColor => IInv'
<1> SUFFICES ASSUME IInv,
                    NEW b \in created, NEW colour \in Colours,
                    pending = NoPending,
                    last' = [last EXCEPT ![b] = colour],
                    pending' = [NoPending EXCEPT !.blink = b, !.colour = colour],
                    paint' \in {paint} \cup IF Racing(b) THEN Colours ELSE {},
                    raced' = IF Racing(b) THEN raced \cup {b} ELSE raced \ {b},
                    UNCHANGED <<usb, shows, poll, created, handles, todo, stage, touched, strayed>>
             PROVE  IInv'
  BY DEF SetColor
<1>1. UNCHANGED <<plugged, shows, serials, count, missed, dropped, created, dev, live, shared,
                  todo, stage, touched, strayed>>
  BY DEF usb, poll, handles
<1>2. b \in Blinks
  BY DEF IInv, Shapes
<1>3. /\ last'[b] = colour
      /\ \A x \in Blinks : x # b => last'[x] = last[x]
  BY <1>2 DEF IInv, Shapes
<1>4. paint' \in Colours \cup {Unset}
  BY DEF IInv, Shapes
<1>5. Shapes'
  BY <1>1, <1>2, <1>4 DEF IInv, Shapes
<1>6. Queue'
  BY <1>1 DEF IInv, Queue
<1>7. pending' = [blink |-> b, colour |-> colour, aimed |-> FALSE, unit |-> None]
  BY DEF NoPending
<1>8. Setting'
  BY <1>1, <1>3, <1>7, SettingStored
<1>9. Handles' /\ Table'
  BY <1>1 DEF IInv, Handles, Table
<1>10. Opened'
  BY <1>1 DEF IInv, Opened, Renewed
<1>11. Painting'
  <2>1. BeingSet(b)' /\ \A x : ~ BeingSet(x)
    <3>1. colour # Unset
      BY ColoursAssumption
    <3> QED
      BY <1>7, <3>1 DEF BeingSet, NoPending
  <2>2. \A x : /\ BeingRead(x)' <=> BeingRead(x)
               /\ BeingPainted(x)' <=> BeingPainted(x)
    BY <1>1 DEF BeingRead, BeingPainted
  <2>3. \A x \in Blinks : x # b /\ x \notin raced' => x \notin raced
    OBVIOUS
  <2>4. ASSUME NEW x \in Blinks, BeingPainted(x), x \notin raced'
        PROVE  paint' = last'[x]
    <3>1. x # b
      BY <2>4 DEF Racing, BeingPainted
    <3>2. ~ Racing(b)
      BY <2>4, <3>1 DEF Racing, BeingPainted
    <3>3. paint' = paint
      BY <3>2
    <3> QED
      BY <1>3, <2>3, <2>4, <3>1, <3>3 DEF IInv, Painting
  <2>5. ASSUME NEW x \in live, x # b, last[x] # Unset, x \notin raced',
               dev[x] \notin shared \cup strayed
        PROVE  shows[dev[x]] = last[x] \/ BeingRead(x) \/ BeingPainted(x)
    <3>1. x \notin raced
      BY <2>3, <2>5 DEF IInv, Shapes
    <3> QED
      BY <2>1, <2>5, <3>1 DEF IInv, Painting
  <2>6. live \subseteq Blinks
    BY DEF IInv, Shapes
  <2> QED
    BY <1>1, <1>3, <2>1, <2>2, <2>4, <2>5, <2>6 DEF Painting
<1> QED
  BY <1>5, <1>6, <1>8, <1>9, <1>10, <1>11 DEF IInv

LEMMA PendingFacts ==
    ASSUME IInv, pending # NoPending
    PROVE  /\ pending = [blink |-> pending.blink, colour |-> pending.colour,
                         aimed |-> pending.aimed, unit |-> pending.unit]
           /\ pending.blink \in created /\ pending.blink \in Blinks
           /\ pending.colour \in Colours /\ pending.colour = last[pending.blink]
           /\ pending.colour # Unset
           /\ pending.aimed \in BOOLEAN /\ pending.unit \in Units \cup {None}
  BY ColoursAssumption DEF IInv, Setting, Shapes

LEMMA AimColorStep == IInv /\ AimColor => IInv'
<1> SUFFICES ASSUME IInv, AimColor
             PROVE  IInv'
  OBVIOUS
<1> DEFINE b == pending.blink
           u == IF b \in live THEN dev[b] ELSE None
<1>1. /\ pending # NoPending
      /\ pending' = [pending EXCEPT !.aimed = TRUE, !.unit = u]
      /\ UNCHANGED <<plugged, shows, serials, count, missed, dropped, created, dev, live, shared,
                     last, todo, stage, paint, touched, raced, strayed>>
  BY DEF AimColor, usb, poll, handles, slow
<1>2. /\ pending = [blink |-> pending.blink, colour |-> pending.colour,
                    aimed |-> pending.aimed, unit |-> pending.unit]
      /\ b \in created /\ b \in Blinks /\ pending.colour \in Colours
      /\ pending.colour = last[b] /\ pending.colour # Unset
  BY <1>1, PendingFacts
<1>3. u \in Units \cup {None}
  BY <1>2 DEF IInv, Shapes
<1> HIDE DEF u
<1>4. pending' = [blink |-> b, colour |-> pending.colour, aimed |-> TRUE, unit |-> u]
  BY <1>1, <1>2
<1>5. pending' # NoPending
  BY <1>2, <1>4 DEF NoPending
<1>6. /\ pending'.blink = b /\ pending'.colour = pending.colour
      /\ pending'.aimed = TRUE /\ pending'.unit = u
  BY <1>4
<1>7. Setting'
  BY <1>1, <1>2, <1>3, <1>4, <1>6 DEF Setting
<1>8. Shapes' /\ Queue' /\ Handles' /\ Table'
  BY <1>1 DEF IInv, Shapes, Queue, Handles, Table
<1>9. Opened'
  BY <1>1 DEF IInv, Opened, Renewed
<1>10. Painting'
  <2>1. \A x \in live : BeingSet(x) => BeingSet(x)'
    BY <1>1, <1>5, <1>6 DEF BeingSet, u
  <2>2. \A x : /\ BeingRead(x)' <=> BeingRead(x)
               /\ BeingPainted(x)' <=> BeingPainted(x)
    BY <1>1 DEF BeingRead, BeingPainted
  <2> QED
    BY <1>1, <2>1, <2>2 DEF IInv, Painting
<1> QED
  BY <1>7, <1>8, <1>9, <1>10 DEF IInv

LEMMA WriteColorStep == IInv /\ WriteColor => IInv'
<1> SUFFICES ASSUME IInv, WriteColor
             PROVE  IInv'
  OBVIOUS
<1> DEFINE b == pending.blink
           u == pending.unit
           current == b \in live /\ dev[b] = u
<1>1. /\ pending.aimed
      /\ pending' = NoPending
      /\ shows' = IF u = None THEN shows ELSE [shows EXCEPT ![u] = pending.colour]
      /\ strayed' = IF u = None \/ current THEN strayed \ {u} ELSE strayed \cup {u}
      /\ UNCHANGED <<plugged, serials, count, missed, dropped, created, dev, live, shared,
                     last, todo, stage, paint, touched, raced>>
  BY DEF WriteColor, usb, poll, handles, slow
<1>2. pending # NoPending
  BY <1>1 DEF NoPending
<1>3. /\ b \in Blinks /\ pending.colour \in Colours
      /\ pending.colour = last[b] /\ u \in Units \cup {None}
  BY <1>2, PendingFacts
<1> HIDE DEF b, u, current
<1>4. /\ shows' \in [Units -> Colours \cup {Dark}]
      /\ u # None => shows'[u] = pending.colour
      /\ \A x \in Units : x # u => shows'[x] = shows[x]
  <2>1. CASE u = None
    BY <1>1, <2>1 DEF IInv, Shapes
  <2>2. CASE u # None
    BY <1>1, <1>3, <2>2 DEF IInv, Shapes
  <2> QED
    BY <2>1, <2>2
<1>5. Shapes'
  BY <1>1, <1>4 DEF IInv, Shapes
<1>6. Queue' /\ Handles' /\ Table' /\ Setting'
  BY <1>1 DEF IInv, Queue, Handles, Table, Setting
<1>7. Opened'
  BY <1>1 DEF IInv, Opened, Renewed
<1>8. Painting'
  <2>1. \A x : /\ BeingRead(x)' <=> BeingRead(x)
               /\ BeingPainted(x)' <=> BeingPainted(x)
    BY <1>1 DEF BeingRead, BeingPainted
  <2>2. ASSUME NEW x \in live, last[x] # Unset, x \notin raced,
               dev[x] \notin shared \cup strayed'
        PROVE  shows'[dev[x]] = last[x] \/ BeingRead(x) \/ BeingPainted(x)
    <3>1. dev[x] \in Units /\ dev[x] # None
      BY UnitsAssumption DEF IInv, Handles, Shapes
    <3>2. CASE dev[x] = u
      <4>1. current
        BY <1>1, <2>2, <3>1, <3>2
      <4>2. b = x
        BY <2>2, <3>2, <4>1 DEF current, IInv, Handles
      <4> QED
        BY <1>3, <1>4, <3>1, <3>2, <4>2
    <3>3. CASE dev[x] # u
      <4>1. ~ BeingSet(x)
        BY <1>1, <3>3 DEF BeingSet, u
      <4>2. dev[x] \notin strayed
        BY <1>1, <2>2, <3>3
      <4> QED
        BY <1>4, <2>2, <3>1, <3>3, <4>1, <4>2 DEF IInv, Painting
    <3> QED
      BY <3>2, <3>3
  <2> QED
    BY <1>1, <2>1, <2>2 DEF IInv, Painting
<1> QED
  BY <1>5, <1>6, <1>7, <1>8 DEF IInv

LEMMA StutterStep == IInv /\ UNCHANGED vars => IInv'
<1> SUFFICES ASSUME IInv, UNCHANGED vars
             PROVE  IInv'
  OBVIOUS
<1>1. UNCHANGED <<plugged, shows, serials, count, missed, dropped, created, dev, live, shared,
                  last, todo, stage, paint, pending, touched, raced, strayed>>
  BY DEF vars, usb, poll, handles, slow
<1>2. Shapes' /\ Queue' /\ Setting'
  BY <1>1 DEF IInv, Shapes, Queue, Setting
<1>3. Handles' /\ Table'
  BY <1>1 DEF IInv, Handles, Table
<1>4. Opened'
  BY <1>1 DEF IInv, Opened, Renewed
<1>5. Painting'
  BY <1>1 DEF IInv, Painting, BeingSet, BeingRead, BeingPainted
<1> QED
  BY <1>2, <1>3, <1>4, <1>5 DEF IInv

-----------------------------------------------------------------------------
(* Theorems *)

(* In every behaviour of the manager, whatever the two threads interleave  *)
(* and whenever units come and go, the table, the handles and the colours  *)
(* stay related as IInv says.                                              *)
THEOREM Invariance == Spec => []IInv
<1>1. IInv /\ [Next]_vars => IInv'
  BY PlugStep, UnplugStep, PollStep, ReleaseStep, OpenStep, ReadLastStep, WriteLastStep,
     SetColorStep, AimColorStep, WriteColorStep, StutterStep DEF Next
<1> QED
  BY <1>1, InitIInv, PTL DEF Spec

(* Until the next unit comes or goes, the n-th blink has the n-th unit     *)
(* open: thing_timer_slow misses only changes that leave the number as it  *)
(* was.                                                                    *)
THEOREM HandlesStayCurrent == Spec => []HandlesCurrent
<1>1. IInv => HandlesCurrent
  <2> SUFFICES ASSUME IInv, todo = <<>>, ~ touched, ~ missed, NEW b \in Blinks, b <= count
               PROVE  b \in live /\ dev[b] = serials[b]
    BY DEF HandlesCurrent
  <2>1. Renewed(b)
    BY BlinksAssumption DEF Renewed, Blinks
  <2> QED
    BY <2>1 DEF IInv, Opened
<1> QED
  BY <1>1, Invariance, PTL

(* When no refresh is under way, no two blinks have one unit open, as long *)
(* as no enumeration of blink1-lib.cpp has found fewer units than the last.*)
THEOREM UnitsStayApart == Spec => []UnitsApart
<1>1. IInv => UnitsApart
  <2> SUFFICES ASSUME IInv, todo = <<>>, ~ dropped, NEW a \in live, NEW b \in live, a # b
               PROVE  dev[a] # dev[b]
    BY DEF UnitsApart
  <2>1. a \in Blinks /\ b \in Blinks
    BY DEF IInv, Shapes
  <2>2. Renewed(a) /\ Renewed(b)
    BY <2>1, BlinksAssumption DEF Renewed, Blinks
  <2> QED
    BY <2>2 DEF IInv, Opened
<1> QED
  BY <1>1, Invariance, PTL

(* A blink's unit shows the colour that set_color was given last, when     *)
(* neither thread is in the middle of writing, with the three exceptions   *)
(* that ColourShown names and no other.                                    *)
THEOREM ColoursAreShown == Spec => []ColourShown
<1>1. IInv => ColourShown
  BY DEF IInv, Painting, ColourShown, Idle, BeingSet, BeingRead, BeingPainted
<1> QED
  BY <1>1, Invariance, PTL
=============================================================================

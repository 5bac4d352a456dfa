------------------------ MODULE CvCalibrationProofs ------------------------
(***************************************************************************)
(* Theorems about the control voltage calibration, for any number of       *)
(* voices, any resolution, timeout and instrument.                         *)
(***************************************************************************)
EXTENDS CvCalibration, Ranks, SequenceTheorems, TLAPS

(* A voltage on the scale: a fraction of steps, from step 0 to the last.   *)
Scale == {v \in Nat \X (Nat \ {0}) : v[1] <= Resolution * v[2]}

(* A table of frequencies. *)
TableOK(table) ==
    /\ DOMAIN table \in SUBSET Nat /\ IsFiniteSet(DOMAIN table)
    /\ table \in [DOMAIN table -> Steps]

Shapes ==
    /\ requested \in BOOLEAN /\ calibrating \in BOOLEAN /\ waiting \in BOOLEAN
    /\ overlapped \in BOOLEAN
    /\ step \in 0 .. Resolution + 1 /\ age \in Nat /\ sent \in Steps
    /\ running \subseteq Voices
    /\ unread \in [Voices -> Seq(Nat)]
    /\ fresh \in [Voices -> Nat]
    /\ voltage \in [Voices -> Scale]
    /\ gate \in [Voices -> BOOLEAN]
    /\ sounding \in [Voices -> Steps \cup {Silent}]

(* What arrived since the last buffer is at the end of what is unread. *)
Backlog == \A v \in Voices : fresh[v] <= Len(unread[v])

(* The phases of a calibration. *)
Phases ==
    /\ calibrating => requested
    /\ waiting => calibrating /\ sent = step
    /\ ~ calibrating => step = 0

(* The table after the first n steps of a sweep.                           *)
Sweep(n) ==
    /\ Len(samples) = n
    /\ \A i \in 1 .. n : samples[i].volt = i - 1
    /\ DOMAIN data = {samples[i].frequency : i \in 1 .. n}
    /\ \A i \in 1 .. n : data[samples[i].frequency] <= i - 1
    /\ \A f \in DOMAIN data : \E i \in 1 .. n : samples[i].frequency = f /\ data[f] = i - 1

Sweeps ==
    /\ TableOK(data)
    /\ samples \in Seq([frequency : Nat, volt : Steps])
    /\ calibrating => Sweep(step)
    /\ ~ calibrating /\ data # Empty => Sweep(Resolution + 1)

Gates ==
    /\ \A v \in Voices : gate[v] => v \in running
    /\ ~ overlapped => \A v, w \in running : v = w
    /\ \A v \in Voices : gate[v] /\ ~ overlapped => waiting

IInv == Shapes /\ Backlog /\ Phases /\ Sweeps /\ Gates

-----------------------------------------------------------------------------
(* Arithmetic *)

LEMMA ProductOrder ==
    ASSUME NEW a \in Nat, NEW b \in Nat, NEW c \in Nat, a <= b
    PROVE  a * c \in Nat /\ b * c \in Nat /\ a * c <= b * c
<1>1. b - a \in Nat /\ (b - a) * c \in Nat /\ (b - a) * c = b * c - a * c
  OBVIOUS
<1>2. a * c \in Nat /\ b * c \in Nat
  OBVIOUS
<1> QED
  BY <1>1, <1>2

(* A number between two, in parts of their distance. *)
LEMMA Between ==
    ASSUME NEW v0 \in Steps, NEW v1 \in Steps,
           NEW f0 \in Nat, NEW f \in Nat, NEW f1 \in Nat, f0 <= f, f < f1
    PROVE  /\ v0 * (f1 - f0) + (v1 - v0) * (f - f0) \in Nat
           /\ v0 * (f1 - f0) + (v1 - v0) * (f - f0) <= Resolution * (f1 - f0)
           /\ Within(<<v0 * (f1 - f0) + (v1 - v0) * (f - f0), f1 - f0>>, v0, v1)
<1> DEFINE a == f - f0
           b == f1 - f
<1>1. a \in Nat /\ b \in Nat /\ f1 - f0 = a + b /\ f - f0 = a
  OBVIOUS
<1>2. /\ v0 \in Nat /\ v1 \in Nat /\ Resolution \in Nat
      /\ v0 <= Resolution /\ v1 <= Resolution
  BY ResolutionAssumption DEF Steps
<1> HIDE DEF a, b
<1>3. v0 * (a + b) + (v1 - v0) * a = v0 * b + v1 * a
  <2>1. v0 * (a + b) = v0 * a + v0 * b
    BY <1>1, <1>2
  <2>2. (v1 - v0) * a = v1 * a - v0 * a
    BY <1>1, <1>2
  <2>3. v0 * a \in Int /\ v0 * b \in Int /\ v1 * a \in Int
    BY <1>1, <1>2
  <2> QED
    BY <2>1, <2>2, <2>3
<1>4. Resolution * (a + b) = Resolution * a + Resolution * b
  BY <1>1, <1>2
<1>5. v0 * b \in Nat /\ Resolution * b \in Nat /\ v0 * b <= Resolution * b
  BY <1>1, <1>2, ProductOrder
<1>6. v1 * a \in Nat /\ Resolution * a \in Nat /\ v1 * a <= Resolution * a
  BY <1>1, <1>2, ProductOrder
<1>7. v0 * b + v1 * a \in Nat /\ v0 * b + v1 * a <= Resolution * a + Resolution * b
  BY <1>5, <1>6
<1>8. /\ v0 * a \in Nat /\ v1 * b \in Nat
      /\ v0 * (a + b) = v0 * a + v0 * b
      /\ v1 * (a + b) = v1 * a + v1 * b
      /\ v0 <= v1 => v0 * a <= v1 * a /\ v0 * b <= v1 * b
      /\ v1 <= v0 => v1 * a <= v0 * a /\ v1 * b <= v0 * b
  BY <1>1, <1>2, ProductOrder
<1>9. Within(<<v0 * b + v1 * a, a + b>>, v0, v1)
  <2> DEFINE p == v0 * a
             q == v0 * b
             r == v1 * a
             s == v1 * b
             m == v0 * (a + b)
             k == v1 * (a + b)
  <2>1. /\ p \in Nat /\ q \in Nat /\ r \in Nat /\ s \in Nat
        /\ m = p + q /\ k = r + s
        /\ v0 <= v1 => p <= r /\ q <= s
        /\ v1 <= v0 => r <= p /\ s <= q
    BY <1>5, <1>6, <1>8
  <2> HIDE DEF p, q, r, s, m, k
  <2>2. (m <= q + r /\ q + r <= k) \/ (k <= q + r /\ q + r <= m)
    BY <1>2, <2>1
  <2>3. a + b > 0
    BY <1>1 DEF a, b
  <2> QED
    BY <2>2, <2>3 DEF Within, q, r, m, k
<1> QED
  BY <1>1, <1>3, <1>4, <1>7, <1>9

(* The step that a voltage on the scale has reached. *)
LEMMA Reached ==
    ASSUME NEW v \in Scale
    PROVE  v[1] \div v[2] \in Steps
<1>1. v[1] \in Nat /\ v[2] \in Nat \ {0} /\ v[1] <= Resolution * v[2]
  BY DEF Scale
<1> DEFINE n == v[1]
           d == v[2]
           q == n \div d
<1>2. q \in Nat /\ d * q <= n
  BY <1>1
<1> HIDE DEF n, d, q
<1>3. n \in Nat /\ d \in Nat \ {0} /\ n <= Resolution * d /\ Resolution \in Nat
  BY <1>1, ResolutionAssumption DEF n, d
<1>4. q <= Resolution
  <2> SUFFICES ASSUME Resolution + 1 <= q
               PROVE  FALSE
    BY <1>2, <1>3
  <2>1. (Resolution + 1) * d <= q * d
    BY <1>2, <1>3, ProductOrder
  <2>2. (Resolution + 1) * d = Resolution * d + d /\ q * d = d * q
    BY <1>2, <1>3
  <2>3. Resolution * d \in Int /\ d * q \in Int
    BY <1>2, <1>3
  <2> QED
    BY <1>2, <1>3, <2>1, <2>2, <2>3
<1> QED
  BY <1>2, <1>4 DEF Steps, q, n, d

LEMMA MinFacts ==
    ASSUME NEW S \in SUBSET Nat, S # {}
    PROVE  Min(S) \in S /\ \A y \in S : Min(S) <= y
<1>1. \E x \in S : \A y \in S : x =< y
  BY Least
<1> QED
  BY <1>1 DEF Min

LEMMA MaxFacts ==
    ASSUME NEW S \in SUBSET Nat, IsFiniteSet(S), S # {}
    PROVE  Max(S) \in S /\ \A y \in S : y <= Max(S)
<1>1. \E x \in S : \A y \in S : x >= y
  <2>1. PICK x \in S : \A y \in S : y <= x
    BY Greatest
  <2> QED
    BY <2>1
<1>2. Max(S) \in S /\ \A y \in S : Max(S) >= y
  BY <1>1 DEF Max
<1> QED
  BY <1>2

(* What get_voltage makes of a table: always a voltage on the scale, at a  *)
(* measured frequency the one it was measured at, between two of them a    *)
(* voltage between theirs, and the lowest one if there is none above.      *)
LEMMA LookupFacts ==
    ASSUME NEW table, TableOK(table), NEW f \in Nat
    PROVE  /\ Lookup(table, f) \in Scale
           /\ f # 0 /\ f \in DOMAIN table /\ (\E x \in DOMAIN table : x > f) =>
                Within(Lookup(table, f), table[f], table[f])
           /\ \A g, h \in Nat : g < f /\ f < h /\ Neighbours(table, g, h) =>
                Within(Lookup(table, f), Points(table)[g], table[h])
           /\ f = 0 \/ (\A x \in DOMAIN table : x <= f) => Lookup(table, f) = Low
<1> DEFINE above == {x \in DOMAIN table : x > f}
           below == {x \in DOMAIN table : x <= f}
           f1 == Min(above)
           f0 == IF below = {} THEN 0 ELSE Max(below)
           v0 == IF below = {} THEN 0 ELSE table[f0]
           n == v0 * (f1 - f0) + (table[f1] - v0) * (f - f0)
<1>0. Resolution \in Nat /\ Steps \subseteq Nat /\ 0 \in Steps
  BY ResolutionAssumption DEF Steps
<1>1. Low \in Scale
  BY <1>0 DEF Low, Volt, Scale
<1>2. CASE f = 0 \/ above = {}
  <2>1. Lookup(table, f) = Low
    BY <1>2 DEF Lookup
  <2>2. ASSUME NEW g \in Nat, NEW h \in Nat, g < f, f < h, Neighbours(table, g, h)
        PROVE  FALSE
    BY <1>2, <2>2 DEF Neighbours
  <2>3. ~ (f # 0 /\ \E x \in DOMAIN table : x > f)
    BY <1>2
  <2> HIDE DEF above
  <2> QED
    BY <1>1, <2>1, <2>2, <2>3
<1>3. CASE ~ (f = 0 \/ above = {})
  <2>1. Lookup(table, f) = <<n, f1 - f0>>
    BY <1>3 DEF Lookup
  <2>2. f1 \in DOMAIN table /\ f1 \in Nat /\ f < f1
    <3>1. above \in SUBSET Nat
      BY DEF TableOK
    <3>2. f1 \in above
      BY <1>3, <3>1, MinFacts
    <3> QED
      BY <3>1, <3>2
  <2>3. f0 \in Nat /\ f0 <= f /\ v0 \in Steps /\ (below # {} => f0 \in below /\ \A x \in below : x <= f0)
    <3>1. CASE below = {}
      BY <1>0, <3>1
    <3>2. CASE below # {}
      <4>1. below \in SUBSET Nat /\ IsFiniteSet(below)
        BY FS_Subset DEF TableOK
      <4>2. f0 \in below /\ \A x \in below : x <= f0
        BY <3>2, <4>1, MaxFacts
      <4>3. v0 = table[f0] /\ f0 \in DOMAIN table /\ f0 \in Nat /\ f0 <= f
        BY <3>2, <4>1, <4>2
      <4> QED
        BY <4>2, <4>3 DEF TableOK
    <3> QED
      BY <3>1, <3>2
  <2>4. table[f1] \in Steps
    BY <2>2 DEF TableOK
  <2>10. \A x \in DOMAIN table : x > f => f1 <= x
    <3>1. above \in SUBSET Nat
      BY DEF TableOK
    <3> QED
      BY <1>3, <3>1, MinFacts
  <2>5. f \in DOMAIN table => f0 = f /\ v0 = table[f]
    <3> SUFFICES ASSUME f \in DOMAIN table
                 PROVE  f0 = f /\ v0 = table[f]
      OBVIOUS
    <3>1. f \in below
      OBVIOUS
    <3>2. f <= f0
      BY <2>3, <3>1
    <3>3. f0 = f
      BY <2>3, <3>2
    <3> QED
      BY <3>1, <3>3
  <2> HIDE DEF f1, f0, v0, above, below
  <2>6. n \in Nat /\ n <= Resolution * (f1 - f0) /\ Within(<<n, f1 - f0>>, v0, table[f1])
    BY <2>2, <2>3, <2>4, Between
  <2>7. f1 - f0 \in Nat \ {0}
    BY <2>2, <2>3
  <2>8. f \in DOMAIN table => n = table[f] * (f1 - f0)
    <3> SUFFICES ASSUME f \in DOMAIN table
                 PROVE  n = table[f] * (f1 - f0)
      OBVIOUS
    <3>1. f - f0 = 0 /\ v0 = table[f]
      BY <2>5
    <3>2. table[f1] - v0 \in Int /\ v0 * (f1 - f0) \in Int
      <4>1. v0 \in Nat /\ table[f1] \in Nat
        BY <1>0, <2>3, <2>4
      <4> QED
        BY <2>7, <4>1
    <3>3. (table[f1] - v0) * 0 = 0
      BY <3>2
    <3> QED
      BY <3>1, <3>2, <3>3
  <2>9. ASSUME NEW g \in Nat, NEW h \in Nat, g < f, f < h, Neighbours(table, g, h)
        PROVE  f1 = h /\ v0 = Points(table)[g]
    <3>1. h \in DOMAIN table /\ g \in DOMAIN table \cup {0}
          /\ \A x \in DOMAIN table : x <= g \/ h <= x
      BY <2>9 DEF Neighbours, Points
    <3>2. f1 <= h /\ h <= f1
      BY <2>2, <2>9, <2>10, <3>1
    <3>3. CASE below = {}
      <4>1. g \notin DOMAIN table
        BY <2>9, <3>3 DEF below
      <4> QED
        BY <2>2, <3>1, <3>2, <3>3, <4>1 DEF Points, v0
    <3>4. CASE below # {}
      <4>1. f0 \in DOMAIN table /\ f0 <= f /\ f0 \in Nat /\ (g \in DOMAIN table => g <= f0)
        BY <2>3, <2>9, <3>4 DEF below
      <4>2. f0 <= g
        BY <2>9, <3>1, <4>1
      <4>3. f0 = g
        BY <2>9, <3>1, <4>1, <4>2
      <4> QED
        BY <2>2, <2>9, <3>2, <3>4, <4>1, <4>3 DEF Points, v0
    <3> QED
      BY <3>3, <3>4
  <2>11. Lookup(table, f) \in Scale
    BY <2>1, <2>6, <2>7 DEF Scale
  <2>12. f \in DOMAIN table => Within(Lookup(table, f), table[f], table[f])
    BY <2>1, <2>6, <2>7, <2>8 DEF Within
  <2>13. ASSUME NEW g \in Nat, NEW h \in Nat, g < f, f < h, Neighbours(table, g, h)
         PROVE  Within(Lookup(table, f), Points(table)[g], table[h])
    BY <2>1, <2>6, <2>9, <2>13
  <2>14. ~ (f = 0 \/ \A x \in DOMAIN table : x <= f)
    BY <1>3, <2>2
  <2> HIDE DEF n
  <2> QED
    BY <2>11, <2>12, <2>13, <2>14
<1> QED
  BY <1>2, <1>3

-----------------------------------------------------------------------------
(* Invariance *)

LEMMA StepsFacts ==
    /\ Resolution \in Nat \ {0} /\ Steps \subseteq Nat /\ 0 \in Steps
    /\ \A s \in Steps : s <= Resolution /\ Volt(s) \in Scale
    /\ Low \in Scale
<1>1. Resolution \in Nat \ {0} /\ Steps \subseteq Nat /\ 0 \in Steps
  BY ResolutionAssumption DEF Steps
<1>2. \A s \in Steps : s <= Resolution
  BY <1>1 DEF Steps
<1>3. \A s \in Steps : Volt(s) \in Scale
  BY <1>1, <1>2 DEF Volt, Scale
<1> QED
  BY <1>1, <1>2, <1>3 DEF Low

LEMMA EmptyFacts == TableOK(Empty) /\ DOMAIN Empty = {}
  BY FS_EmptySet DEF TableOK, Empty

LEMMA InitIInv == Init => IInv
<1> SUFFICES ASSUME Init
             PROVE  IInv
  OBVIOUS
<1>1. Shapes
  <2>1. /\ requested = FALSE /\ calibrating = FALSE /\ waiting = FALSE /\ overlapped = FALSE
        /\ step = 0 /\ age = 0 /\ sent = 0 /\ running = {}
        /\ unread = [v \in Voices |-> <<>>] /\ fresh = [v \in Voices |-> 0]
        /\ voltage = [v \in Voices |-> Low] /\ gate = [v \in Voices |-> FALSE]
        /\ sounding = [v \in Voices |-> Silent]
    BY DEF Init
  <2>2. unread \in [Voices -> Seq(Nat)]
    BY <2>1
  <2>3. 0 \in 0 .. Resolution + 1
    BY StepsFacts
  <2>4. gate \in [Voices -> BOOLEAN]
    BY <2>1
  <2> QED
    BY <2>1, <2>2, <2>3, <2>4, StepsFacts DEF Shapes
<1>2. Backlog /\ Phases /\ Gates
  BY DEF Init, Backlog, Phases, Gates
<1>3. Sweeps
  BY EmptyFacts DEF Init, Sweeps
<1> QED
  BY <1>1, <1>2, <1>3 DEF IInv

(* What a step must leave alone for each part of the invariant.            *)
LEMMA SweepsUntouched ==
    ASSUME Sweeps, UNCHANGED <<data, samples, calibrating, step>>
    PROVE  Sweeps'
  BY DEF Sweeps, Sweep

LEMMA PhasesUntouched ==
    ASSUME Phases, UNCHANGED <<calibrating, step, sent, waiting>>, requested => requested'
    PROVE  Phases'
  BY DEF Phases

LEMMA CalibrateStep == IInv /\ Calibrate => IInv'
<1> SUFFICES ASSUME IInv, Calibrate
             PROVE  IInv'
  OBVIOUS
<1>1. /\ requested' = TRUE
      /\ UNCHANGED <<calibrating, step, age, sent, waiting, data, samples, running, unread, fresh,
                     voltage, gate, sounding, overlapped>>
  BY DEF Calibrate, inputs, outputs
<1>2. Shapes' /\ Backlog' /\ Gates'
  BY <1>1 DEF IInv, Shapes, Backlog, Gates
<1> QED
  BY <1>1, <1>2, SweepsUntouched, PhasesUntouched DEF IInv

LEMMA TickStep == IInv /\ Tick => IInv'
<1> SUFFICES ASSUME IInv, Tick
             PROVE  IInv'
  OBVIOUS
<1>1. /\ age' = age + 1
      /\ UNCHANGED <<requested, calibrating, step, sent, waiting, data, samples, running, unread,
                     fresh, voltage, gate, sounding, overlapped>>
  BY DEF Tick, inputs, outputs, environment
<1>2. Shapes' /\ Backlog' /\ Gates'
  BY <1>1 DEF IInv, Shapes, Backlog, Gates
<1> QED
  BY <1>1, <1>2, SweepsUntouched, PhasesUntouched DEF IInv

LEMMA FollowStep == ASSUME NEW v \in Voices
                    PROVE  IInv /\ Follow(v) => IInv'
<1> SUFFICES ASSUME IInv, Follow(v)
             PROVE  IInv'
  OBVIOUS
<1>1. /\ sounding' = [sounding EXCEPT ![v] = IF gate[v] THEN voltage[v][1] \div voltage[v][2]
                                               ELSE Silent]
      /\ UNCHANGED <<requested, calibrating, step, age, sent, waiting, data, samples, running,
                     unread, fresh, voltage, gate, overlapped>>
  BY DEF Follow, calibrator, inputs, outputs
<1>2. Shapes'
  <2>1. voltage[v] \in Scale
    BY DEF IInv, Shapes
  <2>2. voltage[v][1] \div voltage[v][2] \in Steps
    BY <2>1, Reached
  <2>3. sounding' \in [Voices -> Steps \cup {Silent}]
    BY <1>1, <2>2 DEF IInv, Shapes
  <2> QED
    BY <1>1, <2>3 DEF IInv, Shapes
<1>3. Backlog' /\ Gates'
  BY <1>1 DEF IInv, Backlog, Gates
<1> QED
  BY <1>1, <1>2, <1>3, SweepsUntouched, PhasesUntouched DEF IInv

LEMMA ReportStep == ASSUME NEW v \in Voices
                    PROVE  IInv /\ Report(v) => IInv'
<1> SUFFICES ASSUME IInv, Report(v)
             PROVE  IInv'
  OBVIOUS
<1>1. /\ unread' = [unread EXCEPT ![v] = Append(unread[v], Frequency(v))]
      /\ fresh' = [fresh EXCEPT ![v] = fresh[v] + 1]
      /\ UNCHANGED <<requested, calibrating, step, age, sent, waiting, data, samples, running,
                     voltage, gate, sounding, overlapped>>
  BY DEF Report, calibrator, outputs, environment
<1>2. unread[v] \in Seq(Nat) /\ fresh[v] \in Nat /\ fresh[v] <= Len(unread[v])
  BY DEF IInv, Shapes, Backlog
<1>3. Frequency(v) \in Nat
  BY ToneAssumption DEF Frequency, IInv, Shapes
<1>4. /\ Append(unread[v], Frequency(v)) \in Seq(Nat)
      /\ Len(Append(unread[v], Frequency(v))) = Len(unread[v]) + 1
  BY <1>2, <1>3
<1>5. Shapes'
  <2>1. unread' \in [Voices -> Seq(Nat)] /\ fresh' \in [Voices -> Nat]
    BY <1>1, <1>2, <1>4 DEF IInv, Shapes
  <2> QED
    BY <1>1, <2>1 DEF IInv, Shapes
<1>6. Backlog'
  BY <1>1, <1>2, <1>4 DEF IInv, Shapes, Backlog
<1>7. Gates'
  BY <1>1 DEF IInv, Gates
<1> QED
  BY <1>1, <1>5, <1>6, <1>7, SweepsUntouched, PhasesUntouched DEF IInv

LEMMA StartVoiceStep == ASSUME NEW v \in Voices
                        PROVE  IInv /\ StartVoice(v) => IInv'
<1> SUFFICES ASSUME IInv, StartVoice(v)
             PROVE  IInv'
  OBVIOUS
<1>1. /\ v \notin running /\ running' = running \cup {v}
      /\ unread' = [unread EXCEPT ![v] = <<>>]
      /\ fresh' = [fresh EXCEPT ![v] = 0]
      /\ voltage' = [voltage EXCEPT ![v] = Low]
      /\ gate' = [gate EXCEPT ![v] = FALSE]
      /\ UNCHANGED <<requested, calibrating, step, age, sent, waiting, data, samples, sounding>>
  BY DEF StartVoice, calibrator, environment
<1>2. /\ overlapped' \in BOOLEAN
      /\ ~ overlapped' => ~ overlapped /\ running = {}
  BY DEF StartVoice
<1>3. Shapes'
  <2>1. <<>> \in Seq(Nat) /\ 0 \in Nat
    OBVIOUS
  <2>2. unread' \in [Voices -> Seq(Nat)] /\ fresh' \in [Voices -> Nat]
    BY <1>1, <2>1 DEF IInv, Shapes
  <2>3. voltage' \in [Voices -> Scale] /\ running' \subseteq Voices
    BY <1>1, StepsFacts DEF IInv, Shapes
  <2>4. gate' \in [Voices -> BOOLEAN]
    BY <1>1 DEF IInv, Shapes
  <2> QED
    BY <1>1, <1>2, <2>2, <2>3, <2>4 DEF IInv, Shapes
<1>4. Backlog'
  <2>1. Len(<<>>) = 0
    OBVIOUS
  <2> QED
    BY <1>1, <2>1 DEF IInv, Shapes, Backlog
<1>5. Gates'
  <2>1. \A w \in Voices : gate'[w] => gate[w] /\ w \in running
    BY <1>1 DEF IInv, Shapes, Gates
  <2> QED
    BY <1>1, <1>2, <2>1 DEF IInv, Gates
<1> QED
  BY <1>1, <1>3, <1>4, <1>5, SweepsUntouched, PhasesUntouched DEF IInv

LEMMA EndVoiceStep == ASSUME NEW v \in Voices
                      PROVE  IInv /\ EndVoice(v) => IInv'
<1> SUFFICES ASSUME IInv, EndVoice(v)
             PROVE  IInv'
  OBVIOUS
<1>1. /\ running' = running \ {v}
      /\ gate' = [gate EXCEPT ![v] = FALSE]
      /\ UNCHANGED <<requested, calibrating, step, age, sent, waiting, data, samples, unread,
                     fresh, voltage, sounding, overlapped>>
  BY DEF EndVoice, calibrator, inputs, environment
<1>2. gate' \in [Voices -> BOOLEAN]
  BY <1>1 DEF IInv, Shapes
<1>3. Shapes'
  BY <1>1, <1>2 DEF IInv, Shapes
<1>4. Backlog'
  BY <1>1 DEF IInv, Backlog
<1>5. Gates'
  <2>1. \A w \in Voices : gate'[w] => gate[w] /\ w \in running'
    BY <1>1 DEF IInv, Shapes, Gates
  <2> QED
    BY <1>1, <2>1 DEF IInv, Gates
<1> QED
  BY <1>1, <1>3, <1>4, <1>5, SweepsUntouched, PhasesUntouched DEF IInv

-----------------------------------------------------------------------------
(* One buffer of a voice *)

(* The voice reads what is unread, or all but some of the oldest.          *)
LEMMA InputRead ==
    ASSUME IInv, NEW v \in Voices, NEW rest \in Seq(Nat),
           unread' = [unread EXCEPT ![v] = rest], fresh' = [fresh EXCEPT ![v] = 0]
    PROVE  unread' \in [Voices -> Seq(Nat)] /\ fresh' \in [Voices -> Nat] /\ Backlog'
<1>1. unread' \in [Voices -> Seq(Nat)] /\ fresh' \in [Voices -> Nat]
  BY DEF IInv, Shapes
<1>2. Len(rest) \in Nat
  OBVIOUS
<1>3. Backlog'
  BY <1>2 DEF IInv, Shapes, Backlog
<1> QED
  BY <1>1, <1>3

LEMMA PlayedFacts ==
    ASSUME IInv, NEW v \in Voices, NEW table, TableOK(table), NEW otherwise \in Scale,
           Played(v, table, otherwise)
    PROVE  /\ voltage' \in [Voices -> Scale]
           /\ unread' \in [Voices -> Seq(Nat)] /\ fresh' \in [Voices -> Nat] /\ Backlog'
<1>1. unread[v] \in Seq(Nat)
  BY DEF IInv, Shapes
<1>2. unread[v] # <<>> => unread[v][Len(unread[v])] \in Nat
  BY <1>1
<1>3. (IF unread[v] = <<>> THEN otherwise ELSE Lookup(table, unread[v][Len(unread[v])])) \in Scale
  BY <1>2, LookupFacts
<1>4. voltage' \in [Voices -> Scale]
  BY <1>3 DEF Played, IInv, Shapes
<1>5. <<>> \in Seq(Nat)
  OBVIOUS
<1>6. unread' \in [Voices -> Seq(Nat)] /\ fresh' \in [Voices -> Nat] /\ Backlog'
  BY <1>5, InputRead DEF Played
<1> QED
  BY <1>4, <1>6

LEMMA SilenceFacts ==
    ASSUME IInv, NEW v \in Voices, NEW input \in Seq(Nat), NEW since \in Nat,
           step \in Steps, Silence(v, input, since)
    PROVE  /\ unread' \in [Voices -> Seq(Nat)] /\ fresh' \in [Voices -> Nat] /\ Backlog'
           /\ waiting' \in BOOLEAN /\ sent' \in Steps /\ age' \in Nat
           /\ waiting' => sent' = step
<1> DEFINE rest == IF input = <<>> THEN input ELSE Tail(input)
           heard == input # <<>> /\ Head(input) = 0
<1>1. rest \in Seq(Nat)
  OBVIOUS
<1>2. /\ unread' = [unread EXCEPT ![v] = rest] /\ fresh' = [fresh EXCEPT ![v] = 0]
      /\ waiting' = heard
      /\ sent' = IF heard THEN step ELSE sent
      /\ age' = IF heard THEN 0 ELSE since
  BY DEF Silence
<1> HIDE DEF rest
<1>3. unread' \in [Voices -> Seq(Nat)] /\ fresh' \in [Voices -> Nat] /\ Backlog'
  BY <1>1, <1>2, InputRead
<1>4. heard \in BOOLEAN
  OBVIOUS
<1> HIDE DEF heard
<1>5. waiting' \in BOOLEAN
  BY <1>2, <1>4
<1>6. sent' \in Steps /\ age' \in Nat
  BY <1>2 DEF IInv, Shapes
<1>7. waiting' => sent' = step
  BY <1>2
<1> QED
  BY <1>3, <1>5, <1>6, <1>7

(* A voice moves its own gate only, and opens it only to await a tone.     *)
LEMMA GatesStep ==
    ASSUME IInv, NEW v \in running, NEW g \in BOOLEAN,
           gate' = [gate EXCEPT ![v] = g], g => waiting',
           UNCHANGED <<running, overlapped>>
    PROVE  gate' \in [Voices -> BOOLEAN] /\ Gates'
<1>1. v \in Voices
  BY DEF IInv, Shapes
<1>2. gate' \in [Voices -> BOOLEAN]
  BY DEF IInv, Shapes
<1>3. gate'[v] = g /\ \A w \in Voices : w # v => gate'[w] = gate[w]
  BY <1>1 DEF IInv, Shapes
<1>4. \A w \in Voices : w # v /\ gate'[w] => overlapped
  BY <1>3 DEF IInv, Gates
<1> QED
  BY <1>2, <1>3, <1>4 DEF IInv, Gates

LEMMA PlayStep == ASSUME NEW v \in running
                  PROVE  IInv /\ Play(v) => IInv'
<1> SUFFICES ASSUME IInv, Play(v)
             PROVE  IInv'
  OBVIOUS
<1>1. /\ Played(v, data, voltage[v])
      /\ UNCHANGED <<requested, calibrating, step, age, sent, waiting, data, samples, running,
                     gate, sounding, overlapped>>
  BY DEF Play, calibrator, environment
<1>2. v \in Voices /\ TableOK(data) /\ voltage[v] \in Scale
  BY DEF IInv, Shapes, Sweeps
<1>3. /\ voltage' \in [Voices -> Scale]
      /\ unread' \in [Voices -> Seq(Nat)] /\ fresh' \in [Voices -> Nat] /\ Backlog'
  BY <1>1, <1>2, PlayedFacts
<1>4. Shapes' /\ Gates'
  BY <1>1, <1>3 DEF IInv, Shapes, Gates
<1> QED
  BY <1>1, <1>3, <1>4, SweepsUntouched, PhasesUntouched DEF IInv

LEMMA BeginStep == ASSUME NEW v \in running
                   PROVE  IInv /\ Begin(v) => IInv'
<1> SUFFICES ASSUME IInv, Begin(v)
             PROVE  IInv'
  OBVIOUS
<1> DEFINE input == SubSeq(unread[v], Len(unread[v]) - fresh[v] + 1, Len(unread[v]))
<1>1. /\ requested /\ ~ calibrating
      /\ calibrating' = TRUE /\ data' = Empty /\ samples' = <<>>
      /\ Silence(v, input, 0)
      /\ voltage' = [voltage EXCEPT ![v] = IF waiting' THEN Volt(step) ELSE Low]
      /\ gate' = [gate EXCEPT ![v] = waiting']
      /\ UNCHANGED <<requested, step, running, sounding, overlapped>>
  BY DEF Begin, environment
<1>2. v \in Voices /\ step = 0 /\ step \in Steps
  BY <1>1, StepsFacts DEF IInv, Shapes, Phases
<1>3. input \in Seq(Nat)
  <2>1. unread[v] \in Seq(Nat) /\ fresh[v] \in Nat /\ fresh[v] <= Len(unread[v])
    BY <1>2 DEF IInv, Shapes, Backlog
  <2>2. Len(unread[v]) - fresh[v] + 1 \in 1 .. Len(unread[v]) + 1
    BY <2>1
  <2>3. \A i \in 1 .. Len(unread[v]) : unread[v][i] \in Nat
    BY <2>1
  <2> QED
    BY <2>1, <2>2, <2>3, SubSeqProperties
<1> HIDE DEF input
<1>4. /\ unread' \in [Voices -> Seq(Nat)] /\ fresh' \in [Voices -> Nat] /\ Backlog'
      /\ waiting' \in BOOLEAN /\ sent' \in Steps /\ age' \in Nat
      /\ waiting' => sent' = step
  BY <1>1, <1>2, <1>3, SilenceFacts
<1>5. gate' \in [Voices -> BOOLEAN] /\ Gates'
  BY <1>1, <1>4, GatesStep
<1>6. Shapes'
  <2>1. voltage' \in [Voices -> Scale]
    BY <1>1, <1>2, StepsFacts DEF IInv, Shapes
  <2> QED
    BY <1>1, <1>4, <1>5, <2>1 DEF IInv, Shapes
<1>7. Phases'
  BY <1>1, <1>4 DEF Phases
<1>8. Sweeps'
  <2>1. samples' \in Seq([frequency : Nat, volt : Steps]) /\ Len(samples') = 0
    BY <1>1
  <2>2. step' = 0
    BY <1>1, <1>2
  <2>3. Sweep(step)'
    BY <1>1, <2>1, <2>2, EmptyFacts DEF Sweep
  <2> QED
    BY <1>1, <2>1, <2>3, EmptyFacts DEF Sweeps
<1> QED
  BY <1>4, <1>5, <1>6, <1>7, <1>8 DEF IInv

LEMMA StoppedFacts ==
    ASSUME IInv, NEW v \in running, Stopped(v), UNCHANGED <<running, overlapped>>
    PROVE  /\ requested' = FALSE /\ calibrating' = FALSE /\ waiting' = FALSE
           /\ step' = 0 /\ age' = 0 /\ sent' = 0
           /\ gate' \in [Voices -> BOOLEAN] /\ Gates' /\ Phases'
<1>1. /\ requested' = FALSE /\ calibrating' = FALSE /\ waiting' = FALSE
      /\ step' = 0 /\ age' = 0 /\ sent' = 0
      /\ gate' = [gate EXCEPT ![v] = FALSE]
  BY DEF Stopped
<1>2. gate' \in [Voices -> BOOLEAN] /\ Gates'
  BY <1>1, GatesStep
<1>3. Phases'
  BY <1>1 DEF Phases
<1> QED
  BY <1>1, <1>2, <1>3

LEMMA FinishStep == ASSUME NEW v \in running
                    PROVE  IInv /\ Finish(v) => IInv'
<1> SUFFICES ASSUME IInv, Finish(v)
             PROVE  IInv'
  OBVIOUS
<1>1. /\ calibrating /\ step > Resolution
      /\ Stopped(v) /\ Played(v, data, Low)
      /\ UNCHANGED <<data, samples, running, sounding, overlapped>>
  BY DEF Finish, environment
<1>2. /\ requested' = FALSE /\ calibrating' = FALSE /\ waiting' = FALSE
      /\ step' = 0 /\ age' = 0 /\ sent' = 0
      /\ gate' \in [Voices -> BOOLEAN] /\ Gates' /\ Phases'
  BY <1>1, StoppedFacts
<1>3. /\ voltage' \in [Voices -> Scale]
      /\ unread' \in [Voices -> Seq(Nat)] /\ fresh' \in [Voices -> Nat] /\ Backlog'
  BY <1>1, PlayedFacts, StepsFacts DEF IInv, Shapes, Sweeps
<1>4. Shapes'
  <2>1. 0 \in 0 .. Resolution + 1
    BY StepsFacts
  <2> QED
    BY <1>1, <1>2, <1>3, <2>1, StepsFacts DEF IInv, Shapes
<1>5. Sweeps'
  <2>1. step = Resolution + 1
    BY <1>1, StepsFacts DEF IInv, Shapes
  <2>2. Sweep(Resolution + 1)'
    BY <1>1, <2>1 DEF IInv, Sweeps, Sweep
  <2> QED
    BY <1>1, <1>2, <2>2 DEF IInv, Sweeps
<1> QED
  BY <1>2, <1>3, <1>4, <1>5 DEF IInv

LEMMA TimeOutStep == ASSUME NEW v \in running
                     PROVE  IInv /\ TimeOut(v) => IInv'
<1> SUFFICES ASSUME IInv, TimeOut(v)
             PROVE  IInv'
  OBVIOUS
<1>1. /\ data' = Empty
      /\ Stopped(v) /\ Played(v, Empty, Low)
      /\ UNCHANGED <<samples, running, sounding, overlapped>>
  BY DEF TimeOut, environment, Discarded
<1>2. /\ requested' = FALSE /\ calibrating' = FALSE /\ waiting' = FALSE
      /\ step' = 0 /\ age' = 0 /\ sent' = 0
      /\ gate' \in [Voices -> BOOLEAN] /\ Gates' /\ Phases'
  BY <1>1, StoppedFacts
<1>3. /\ voltage' \in [Voices -> Scale]
      /\ unread' \in [Voices -> Seq(Nat)] /\ fresh' \in [Voices -> Nat] /\ Backlog'
  BY <1>1, PlayedFacts, StepsFacts, EmptyFacts DEF IInv, Shapes
<1>4. Shapes'
  <2>1. 0 \in 0 .. Resolution + 1
    BY StepsFacts
  <2> QED
    BY <1>1, <1>2, <1>3, <2>1, StepsFacts DEF IInv, Shapes
<1>5. Sweeps'
  BY <1>1, <1>2, EmptyFacts DEF IInv, Sweeps
<1> QED
  BY <1>2, <1>3, <1>4, <1>5 DEF IInv

LEMMA AwaitSilenceStep == ASSUME NEW v \in running
                          PROVE  IInv /\ AwaitSilence(v) => IInv'
<1> SUFFICES ASSUME IInv, AwaitSilence(v)
             PROVE  IInv'
  OBVIOUS
<1>1. /\ calibrating /\ step <= Resolution /\ ~ waiting
      /\ Silence(v, unread[v], age)
      /\ voltage' = IF waiting' THEN [voltage EXCEPT ![v] = Volt(step)] ELSE voltage
      /\ gate' = IF waiting' THEN [gate EXCEPT ![v] = TRUE] ELSE gate
      /\ UNCHANGED <<requested, calibrating, step, data, samples, running, sounding, overlapped>>
  BY DEF AwaitSilence, environment
<1>2. v \in Voices /\ step \in Steps /\ unread[v] \in Seq(Nat) /\ age \in Nat
  BY <1>1, StepsFacts DEF IInv, Shapes, Steps
<1>3. /\ unread' \in [Voices -> Seq(Nat)] /\ fresh' \in [Voices -> Nat] /\ Backlog'
      /\ waiting' \in BOOLEAN /\ sent' \in Steps /\ age' \in Nat
      /\ waiting' => sent' = step
  BY <1>1, <1>2, SilenceFacts
<1>4. gate' \in [Voices -> BOOLEAN] /\ Gates'
  <2>1. CASE waiting'
    BY <1>1, <2>1, GatesStep
  <2>2. CASE ~ waiting'
    BY <1>1, <2>2 DEF IInv, Shapes, Gates
  <2> QED
    BY <2>1, <2>2
<1>5. Shapes'
  <2>1. voltage' \in [Voices -> Scale]
    BY <1>1, <1>2, StepsFacts DEF IInv, Shapes
  <2> QED
    BY <1>1, <1>3, <1>4, <2>1 DEF IInv, Shapes
<1>6. Phases'
  BY <1>1, <1>3 DEF IInv, Phases
<1> QED
  BY <1>1, <1>3, <1>4, <1>5, <1>6, SweepsUntouched DEF IInv

LEMMA AwaitToneStep == ASSUME NEW v \in running
                       PROVE  IInv /\ AwaitTone(v) => IInv'
<1> SUFFICES ASSUME IInv, AwaitTone(v)
             PROVE  IInv'
  OBVIOUS
<1> DEFINE f == Head(unread[v])
           R == [frequency : Nat, volt : Steps]
           sample == [frequency |-> f, volt |-> sent]
<1>1. /\ calibrating /\ step <= Resolution /\ waiting /\ unread[v] # <<>>
      /\ data' = [x \in DOMAIN data \cup {f} |-> IF x \in DOMAIN data THEN data[x] ELSE sent]
      /\ samples' = Append(samples, sample)
      /\ unread' = [unread EXCEPT ![v] = Tail(unread[v])]
      /\ fresh' = [fresh EXCEPT ![v] = 0]
      /\ gate' = [gate EXCEPT ![v] = FALSE]
      /\ waiting' = FALSE /\ step' = step + 1 /\ age' = 0
      /\ UNCHANGED <<requested, calibrating, sent, voltage, running, sounding, overlapped>>
  BY DEF AwaitTone, environment
<1>2. /\ v \in Voices /\ unread[v] \in Seq(Nat)
      /\ step \in Nat /\ sent = step /\ sent \in Steps /\ requested
  BY <1>1, StepsFacts DEF IInv, Shapes, Phases
<1>3. f \in Nat /\ Tail(unread[v]) \in Seq(Nat)
  BY <1>1, <1>2
<1> HIDE DEF f
<1>4. unread' \in [Voices -> Seq(Nat)] /\ fresh' \in [Voices -> Nat] /\ Backlog'
  BY <1>1, <1>2, <1>3, InputRead
<1>5. gate' \in [Voices -> BOOLEAN] /\ Gates'
  BY <1>1, GatesStep
<1>6. Shapes'
  <2>1. step' \in 0 .. Resolution + 1
    BY <1>1, <1>2, StepsFacts
  <2> QED
    BY <1>1, <1>4, <1>5, <2>1 DEF IInv, Shapes
<1>7. Phases'
  BY <1>1, <1>2 DEF Phases
<1>8. /\ sample \in R /\ sample.frequency = f /\ sample.volt = step
  BY <1>2, <1>3
<1> HIDE DEF sample
<1>9. TableOK(data)'
  <2>1. IsFiniteSet(DOMAIN data \cup {f})
    BY FS_AddElement DEF IInv, Sweeps, TableOK
  <2>2. DOMAIN data' = DOMAIN data \cup {f}
    BY <1>1
  <2>3. DOMAIN data' \in SUBSET Nat
    BY <1>3, <2>2 DEF IInv, Sweeps, TableOK
  <2>4. data' \in [DOMAIN data' -> Steps]
    BY <1>1, <1>2 DEF IInv, Sweeps, TableOK
  <2> QED
    BY <2>1, <2>2, <2>3, <2>4 DEF TableOK
<1>10. /\ samples \in Seq(R) /\ Len(samples) = step
       /\ samples' \in Seq(R) /\ Len(samples') = step + 1
       /\ samples'[step + 1] = sample
       /\ \A i \in 1 .. step : samples'[i] = samples[i]
  <2>1. samples \in Seq(R) /\ Len(samples) = step
    BY <1>1 DEF IInv, Sweeps, Sweep
  <2> HIDE DEF R
  <2> QED
    BY <1>1, <1>2, <1>8, <2>1
<1>11. Sweep(step)'
  <2> DEFINE D == DOMAIN data
  <2>0. /\ 1 .. step + 1 = 1 .. step \cup {step + 1}
        /\ step + 1 \notin 1 .. step /\ \A i \in 1 .. step : i \in Nat
    BY <1>2
  <2>1. /\ \A i \in 1 .. step : samples[i].volt = i - 1
        /\ D = {samples[i].frequency : i \in 1 .. step}
        /\ \A i \in 1 .. step : data[samples[i].frequency] <= i - 1
        /\ \A x \in D : \E i \in 1 .. step : samples[i].frequency = x /\ data[x] = i - 1
    BY <1>1 DEF IInv, Sweeps, Sweep
  <2>2. /\ DOMAIN data' = D \cup {f}
        /\ \A x \in D : data'[x] = data[x]
        /\ f \notin D => data'[f] = step
        /\ f \in D => data'[f] <= step
    <3>1. DOMAIN data' = D \cup {f}
      BY <1>1
    <3>2. \A x \in D : data'[x] = data[x]
      BY <1>1
    <3>3. f \notin D => data'[f] = step
      BY <1>1, <1>2
    <3>4. f \in D => data'[f] <= step
      <4> SUFFICES ASSUME f \in D
                   PROVE  data[f] <= step
        BY <3>2
      <4>1. PICK i \in 1 .. step : data[f] = i - 1
        BY <2>1
      <4> QED
        BY <1>2, <4>1
    <3> QED
      BY <3>1, <3>2, <3>3, <3>4
  <2> HIDE DEF D
  <2>3. \A i \in 1 .. step + 1 : samples'[i].volt = i - 1
    BY <1>2, <1>8, <1>10, <2>0, <2>1
  <2>4. DOMAIN data' = {samples'[i].frequency : i \in 1 .. step + 1}
    <3>1. \A i \in 1 .. step : samples'[i].frequency = samples[i].frequency
      BY <1>10
    <3>2. samples'[step + 1].frequency = f
      BY <1>8, <1>10
    <3> QED
      BY <2>0, <2>1, <2>2, <3>1, <3>2
  <2>5. \A i \in 1 .. step + 1 : data'[samples'[i].frequency] <= i - 1
    <3>1. ASSUME NEW i \in 1 .. step
          PROVE  data'[samples'[i].frequency] <= i - 1
      <4>1. samples[i].frequency \in D
        BY <2>1
      <4> QED
        BY <1>10, <2>1, <2>2, <4>1
    <3>2. data'[samples'[step + 1].frequency] <= step
      BY <1>2, <1>8, <1>10, <2>2
    <3> QED
      BY <1>2, <2>0, <3>1, <3>2
  <2>6. ASSUME NEW x \in DOMAIN data'
        PROVE  \E i \in 1 .. step + 1 : samples'[i].frequency = x /\ data'[x] = i - 1
    <3>1. CASE x \in D
      <4>1. PICK i \in 1 .. step : samples[i].frequency = x /\ data[x] = i - 1
        BY <2>1, <3>1
      <4> QED
        BY <1>10, <2>0, <2>2, <3>1, <4>1
    <3>2. CASE x \notin D
      <4>1. x = f /\ data'[x] = step
        BY <2>2, <2>6, <3>2
      <4>2. samples'[step + 1].frequency = x /\ data'[x] = (step + 1) - 1
        BY <1>2, <1>8, <1>10, <4>1
      <4>3. step + 1 \in 1 .. step + 1
        BY <1>2
      <4> QED
        BY <4>2, <4>3
    <3> QED
      BY <3>1, <3>2
  <2>7. Len(samples') = step + 1
    BY <1>10
  <2>8. step' = step + 1
    BY <1>1
  <2> QED
    BY <2>3, <2>4, <2>5, <2>6, <2>7, <2>8 DEF Sweep
<1>12. Sweeps'
  BY <1>1, <1>9, <1>10, <1>11 DEF Sweeps
<1> QED
  BY <1>4, <1>5, <1>6, <1>7, <1>12 DEF IInv

LEMMA StutterStep == IInv /\ UNCHANGED vars => IInv'
<1> SUFFICES ASSUME IInv, UNCHANGED vars
             PROVE  IInv'
  OBVIOUS
<1>1. UNCHANGED <<requested, calibrating, step, age, sent, waiting, data, samples, running, unread,
                  fresh, voltage, gate, sounding, overlapped>>
  BY DEF vars, calibrator, inputs, outputs, environment
<1>2. Shapes' /\ Backlog' /\ Gates'
  BY <1>1 DEF IInv, Shapes, Backlog, Gates
<1> QED
  BY <1>1, <1>2, SweepsUntouched, PhasesUntouched DEF IInv

-----------------------------------------------------------------------------
(* Theorems *)

(* However the voices' buffers, the user, the clock and the instrument     *)
(* interleave, the calibrator's phase, its table and the gates stay        *)
(* related as IInv says.                                                   *)
THEOREM Invariance == Spec => []IInv
<1>1. IInv /\ [Next]_vars => IInv'
  <2> SUFFICES ASSUME IInv, [Next]_vars
               PROVE  IInv'
    OBVIOUS
  <2>1. CASE Calibrate \/ Tick
    BY <2>1, CalibrateStep, TickStep
  <2>2. ASSUME NEW v \in Voices, Follow(v) \/ Report(v) \/ StartVoice(v) \/ EndVoice(v)
        PROVE  IInv'
    BY <2>2, FollowStep, ReportStep, StartVoiceStep, EndVoiceStep
  <2>3. ASSUME NEW v \in Voices, Buffer(v)
        PROVE  IInv'
    <3>1. v \in running
      BY <2>3 DEF Buffer
    <3> QED
      BY <2>3, <3>1, PlayStep, BeginStep, FinishStep, TimeOutStep, AwaitSilenceStep,
         AwaitToneStep DEF Buffer
  <2>4. CASE UNCHANGED vars
    BY <2>4, StutterStep
  <2> QED
    BY <2>1, <2>2, <2>3, <2>4 DEF Next
<1> QED
  BY <1>1, InitIInv, PTL DEF Spec

(* When no calibration runs, calibration_data_ is empty or one whole sweep *)
(* of the voltages in order, the first measurement of a frequency winning. *)
THEOREM ResultsAreWhole == Spec => []ResultWhole
<1>1. IInv => ResultWhole
  <2> SUFFICES ASSUME IInv, ~ calibrating, data # Empty
               PROVE  /\ [i \in 1 .. Len(samples) |-> samples[i].volt] =
                           [i \in 1 .. Resolution + 1 |-> i - 1]
                      /\ DOMAIN data = {samples[i].frequency : i \in 1 .. Len(samples)}
                      /\ \A f \in DOMAIN data :
                           data[f] = Min({samples[i].volt : i \in {k \in 1 .. Len(samples) :
                                                                     samples[k].frequency = f}})
    BY DEF ResultWhole
  <2> DEFINE n == Resolution + 1
  <2>1. /\ Len(samples) = n
        /\ \A i \in 1 .. n : samples[i].volt = i - 1
        /\ DOMAIN data = {samples[i].frequency : i \in 1 .. n}
        /\ \A i \in 1 .. n : data[samples[i].frequency] <= i - 1
        /\ \A f \in DOMAIN data : \E i \in 1 .. n : samples[i].frequency = f /\ data[f] = i - 1
    BY DEF IInv, Sweeps, Sweep
  <2>2. n \in Nat
    BY StepsFacts
  <2> HIDE DEF n
  <2>3. ASSUME NEW f \in DOMAIN data
        PROVE  data[f] = Min({samples[i].volt : i \in {k \in 1 .. n : samples[k].frequency = f}})
    <3> DEFINE V == {samples[i].volt : i \in {k \in 1 .. n : samples[k].frequency = f}}
    <3>1. V \in SUBSET Nat
      BY <2>1, <2>2
    <3>2. data[f] \in V
      <4>1. PICK i \in 1 .. n : samples[i].frequency = f /\ data[f] = i - 1
        BY <2>1
      <4>2. samples[i].volt = data[f]
        BY <2>1, <4>1
      <4> QED
        BY <4>1, <4>2
    <3>3. \A y \in V : data[f] <= y
      BY <2>1
    <3>4. Min(V) \in V /\ \A y \in V : Min(V) <= y
      BY <3>1, <3>2, MinFacts
    <3> HIDE DEF V
    <3>5. data[f] \in Nat /\ Min(V) \in Nat /\ data[f] <= Min(V) /\ Min(V) <= data[f]
      BY <3>1, <3>2, <3>3, <3>4
    <3>6. data[f] = Min(V)
      BY <3>5
    <3> QED
      BY <3>6 DEF V
  <2>4. [i \in 1 .. Len(samples) |-> samples[i].volt] = [i \in 1 .. n |-> i - 1]
    BY <2>1
  <2> QED
    BY <2>1, <2>3, <2>4 DEF n
<1> QED
  BY <1>1, Invariance, PTL

(* get_voltage gives a measured frequency, except for the highest, its     *)
(* voltage back, puts one between two neighbours between their voltages,   *)
(* and falls to the lowest voltage from the highest frequency on.          *)
THEOREM LookupsAreExact == Spec => []LookupExact
<1>1. IInv => LookupExact
  <2> SUFFICES ASSUME IInv, ~ calibrating, NEW f \in 0 .. Max({0} \cup DOMAIN data) + 1
               PROVE  LET v == Lookup(data, f)
                      IN  /\ f # 0 /\ f \in DOMAIN data /\ f # Max(DOMAIN data)
                               => Within(v, data[f], data[f])
                          /\ \A g, h \in DOMAIN Points(data) :
                                g < f /\ f < h /\ Neighbours(data, g, h)
                                    => Within(v, Points(data)[g], data[h])
                          /\ f = 0 \/ (\A x \in DOMAIN data : x <= f) => v = Low
    BY DEF LookupExact
  <2>1. TableOK(data) /\ f \in Nat
    BY DEF IInv, Sweeps
  <2>2. DOMAIN data \in SUBSET Nat /\ IsFiniteSet(DOMAIN data)
    BY <2>1 DEF TableOK
  <2>3. ASSUME f \in DOMAIN data, f # Max(DOMAIN data)
        PROVE  \E x \in DOMAIN data : x > f
    <3>1. Max(DOMAIN data) \in DOMAIN data /\ f <= Max(DOMAIN data)
      BY <2>2, <2>3, MaxFacts
    <3> QED
      BY <2>2, <2>3, <3>1
  <2>4. DOMAIN Points(data) \subseteq Nat
    BY <2>2 DEF Points
  <2> HIDE DEF Lookup
  <2> QED
    BY <2>1, <2>3, <2>4, LookupFacts
<1> QED
  BY <1>1, Invariance, PTL

(* While the voices run one at a time, a gate is open only while the tone  *)
(* of its voice is awaited.                                                *)
THEOREM GatesAreClosed == Spec => []GateClosed
<1>1. IInv => GateClosed
  BY DEF IInv, Gates, Phases, GateClosed
<1> QED
  BY <1>1, Invariance, PTL
=============================================================================

--------------------------- MODULE CvCalibration ---------------------------
(***************************************************************************)
(* The control voltage calibration agent, src/cv_calibration/              *)
(* cv_calibration.cpp, in a loop with the instrument it measures.          *)
(*                                                                         *)
(* A calibration sends out one voltage after the other, opens a gate, and  *)
(* stores the frequency that comes back.  All of it happens on the fast    *)
(* thread, one buffer of one voice (cv_calibration_func_t) at a time, but  *)
(* the voices share the calibrator, and what the instrument plays follows  *)
(* the agent's outputs only after a while.                                 *)
(***************************************************************************)
EXTENDS Integers, Sequences, FiniteSets, Functions, FiniteSetsExt

CONSTANTS
    Voices,        \* the cfilterfuncs
    Resolution,    \* CALIBRATION_RESOLUTION (100): the steps are 0 .. Resolution
    Timeout,       \* CALIBRATION_TIMEOUT, in ticks
    Tone,          \* the instrument: the frequency of the voltage of each step
    MaxRequests,   \* bound: how often the user asks for a calibration
    MaxBacklog     \* bound: frequencies a voice has not read yet

Steps == 0 .. Resolution

ASSUME ResolutionAssumption == Resolution \in Nat \ {0} /\ Timeout \in Nat
ASSUME ToneAssumption == Tone \in [Steps -> Nat \ {0}]

VARIABLES
    requested,     \* calibrate_
    calibrating,   \* calibrating_
    step,          \* calibration_step_
    age,           \* to - last_timestamp_, up to Timeout + 1
    sent,          \* last_voltage_: the step whose voltage was sent last
    waiting,       \* waiting_: for the frequency of the voltage sent last
    data,          \* calibration_data_: frequency to voltage
    running,       \* the voices between cfilterfunc_start and _end
    unread,        \* per voice: input frequencies it has not read
    fresh,         \* per voice: how many of them arrived since its last buffer
    voltage,       \* per voice: the voltage output
    gate,          \* per voice: the calibration output
    sounding,      \* per voice: what the instrument plays, or Silent
    requests,      \* how often the user asked
    samples,       \* history: the measurements since the calibration began
    overlapped     \* history: two voices have run at the same time

calibrator == <<requested, calibrating, step, age, sent, waiting, data, samples>>
outputs == <<voltage, gate>>
inputs == <<unread, fresh>>
environment == <<sounding, requests>>
vars == <<calibrator, running, inputs, outputs, environment, overlapped>>

Silent == Resolution + 1

(* A voltage is a fraction of steps; -1.0f is the voltage of step 0. *)
Volt(s) == <<s, 1>>
Low == Volt(0)

Empty == [f \in {} |-> f]

Init ==
    /\ requested = FALSE /\ calibrating = FALSE /\ waiting = FALSE
    /\ step = 0 /\ age = 0 /\ sent = 0
    /\ data = Empty
    /\ running = {}
    /\ unread = [v \in Voices |-> <<>>]
    /\ fresh = [v \in Voices |-> 0]
    /\ voltage = [v \in Voices |-> Low]
    /\ gate = [v \in Voices |-> FALSE]
    /\ sounding = [v \in Voices |-> Silent]
    /\ requests = 0
    /\ samples = <<>>
    /\ overlapped = FALSE

-----------------------------------------------------------------------------
(* The user, the clock and the instrument.                                 *)

(* calibrate(): toggle_calibration(true), through tsd_fastcall. *)
Calibrate ==
    /\ requests < MaxRequests
    /\ requests' = requests + 1
    /\ requested' = TRUE
    /\ UNCHANGED <<calibrating, step, age, sent, waiting, data, samples,
                   running, inputs, outputs, sounding, overlapped>>

Tick ==
    /\ age <= Timeout
    /\ age' = age + 1
    /\ UNCHANGED <<requested, calibrating, step, sent, waiting, data, samples,
                   running, inputs, outputs, environment, overlapped>>

(* The instrument plays the step that the voltage has reached. *)
Follow(v) ==
    /\ sounding' = [sounding EXCEPT ![v] = IF gate[v] THEN voltage[v][1] \div voltage[v][2] ELSE Silent]
    /\ sounding' # sounding
    /\ UNCHANGED <<calibrator, running, inputs, outputs, requests, overlapped>>

Frequency(v) == IF sounding[v] = Silent THEN 0 ELSE Tone[sounding[v]]

Report(v) ==
    /\ v \in running
    /\ Len(unread[v]) < MaxBacklog
    /\ unread' = [unread EXCEPT ![v] = Append(@, Frequency(v))]
    /\ fresh' = [fresh EXCEPT ![v] = @ + 1]
    /\ UNCHANGED <<calibrator, running, outputs, environment, overlapped>>

-----------------------------------------------------------------------------
(* cfilterfunc_start and cfilterfunc_end. *)

StartVoice(v) ==
    /\ v \notin running
    /\ running' = running \cup {v}
    /\ unread' = [unread EXCEPT ![v] = <<>>]
    /\ fresh' = [fresh EXCEPT ![v] = 0]
    /\ voltage' = [voltage EXCEPT ![v] = Low]
    /\ gate' = [gate EXCEPT ![v] = FALSE]
    /\ overlapped' = (overlapped \/ running # {})
    /\ UNCHANGED <<calibrator, environment>>

(* The outputs of an ended voice are gone, and its gate with them. *)
EndVoice(v) ==
    /\ v \in running
    /\ running' = running \ {v}
    /\ gate' = [gate EXCEPT ![v] = FALSE]
    /\ UNCHANGED <<calibrator, inputs, voltage, environment, overlapped>>

-----------------------------------------------------------------------------
(* get_voltage: interpolation between the calibrated frequencies around f, *)
(* the lowest voltage when there is none above.                            *)

LookupFlat(table, f) ==                                 \* mutant of Lookup
    LET above == {x \in DOMAIN table : x > f}
    IN  IF f = 0 \/ above = {} THEN Low ELSE Volt(table[Min(above)])

Lookup(table, f) ==
    LET above == {x \in DOMAIN table : x > f}
        below == {x \in DOMAIN table : x <= f}
        f1 == Min(above)
        f0 == IF below = {} THEN 0 ELSE Max(below)
        v0 == IF below = {} THEN 0 ELSE table[f0]
    IN  IF f = 0 \/ above = {} THEN Low
        ELSE <<v0 * (f1 - f0) + (table[f1] - v0) * (f - f0), f1 - f0>>

(* cfilterfunc_process after a recalibrate that returned false: all unread *)
(* frequencies are consumed and the latest is turned into a voltage.       *)
Played(v, table, otherwise) ==
    /\ voltage' = [voltage EXCEPT ![v] = IF unread[v] = <<>> THEN otherwise
                                         ELSE Lookup(table, unread[v][Len(unread[v])])]
    /\ unread' = [unread EXCEPT ![v] = <<>>]
    /\ fresh' = [fresh EXCEPT ![v] = 0]

(* Mutant of Stopped: the gate is left as it is. *)
StoppedOpen(v) ==
    /\ requested' = FALSE /\ calibrating' = FALSE /\ waiting' = FALSE
    /\ step' = 0 /\ age' = 0 /\ sent' = 0
    /\ UNCHANGED gate

(* stop_calibration *)
Stopped(v) ==
    /\ requested' = FALSE /\ calibrating' = FALSE /\ waiting' = FALSE
    /\ step' = 0 /\ age' = 0 /\ sent' = 0
    /\ gate' = [gate EXCEPT ![v] = FALSE]

-----------------------------------------------------------------------------
(* One buffer of a running voice: recalibrate, by its cases.  (The branch  *)
(* that cleans up after a calibration that was turned off is never taken:  *)
(* nothing turns calibrate_ off but stop_calibration, which resets step.)  *)

Play(v) ==
    /\ ~ requested
    /\ Played(v, data, voltage[v])
    /\ UNCHANGED <<calibrator, running, gate, environment, overlapped>>

(* The first phase: a zero frequency makes it send the next voltage and    *)
(* open the gate.  The frequency is the first of input, if there is one.   *)
Silence(v, input, since) ==
    LET heard == input # <<>> /\ Head(input) = 0
    IN  /\ unread' = [unread EXCEPT ![v] = IF input = <<>> THEN input ELSE Tail(input)]
        /\ fresh' = [fresh EXCEPT ![v] = 0]
        /\ waiting' = heard
        /\ sent' = IF heard THEN step ELSE sent
        /\ age' = IF heard THEN 0 ELSE since

Begin(v) ==
    /\ requested /\ ~ calibrating
    /\ calibrating' = TRUE
    /\ data' = Empty
    /\ samples' = <<>>
    /\ Silence(v, SubSeq(unread[v], Len(unread[v]) - fresh[v] + 1, Len(unread[v])), 0)
    /\ voltage' = [voltage EXCEPT ![v] = IF waiting' THEN Volt(step) ELSE Low]
    /\ gate' = [gate EXCEPT ![v] = waiting']
    /\ UNCHANGED <<requested, step, running, environment, overlapped>>

Finish(v) ==
    /\ calibrating
    /\ step > Resolution
    /\ Stopped(v)
    /\ Played(v, data, Low)
    /\ UNCHANGED <<data, samples, running, environment, overlapped>>

(* Mutant of Discarded: a calibration that timed out keeps its data. *)
DiscardedNot == data

Discarded == Empty

(* Mutant of Overdue: there is no timeout in the first phase. *)
OverdueWaiting == age > Timeout /\ waiting

Overdue == age > Timeout

TimeOut(v) ==
    /\ calibrating
    /\ step <= Resolution
    /\ Overdue
    /\ data' = Discarded
    /\ Stopped(v)
    /\ Played(v, data', Low)
    /\ UNCHANGED <<samples, running, environment, overlapped>>

AwaitSilence(v) ==
    /\ calibrating /\ step <= Resolution /\ ~ Overdue
    /\ ~ waiting
    /\ Silence(v, unread[v], age)
    /\ voltage' = IF waiting' THEN [voltage EXCEPT ![v] = Volt(step)] ELSE voltage
    /\ gate' = IF waiting' THEN [gate EXCEPT ![v] = TRUE] ELSE gate
    /\ UNCHANGED <<requested, calibrating, step, data, samples, running, environment, overlapped>>

(* The second phase: the next frequency, whatever it is, is stored as that *)
(* of the voltage sent; a frequency that is already there stays.           *)
AwaitTone(v) ==
    /\ calibrating /\ step <= Resolution /\ ~ Overdue
    /\ waiting
    /\ unread[v] # <<>>
    /\ LET f == Head(unread[v])
       IN  /\ data' = [x \in DOMAIN data \cup {f} |-> IF x \in DOMAIN data THEN data[x] ELSE sent]
           /\ samples' = Append(samples, [frequency |-> f, volt |-> sent])
    /\ unread' = [unread EXCEPT ![v] = Tail(@)]
    /\ fresh' = [fresh EXCEPT ![v] = 0]
    /\ gate' = [gate EXCEPT ![v] = FALSE]
    /\ waiting' = FALSE
    /\ step' = step + 1
    /\ age' = 0
    /\ UNCHANGED <<requested, calibrating, sent, voltage, running, environment, overlapped>>

Buffer(v) ==
    /\ v \in running
    /\ \/ Play(v)
       \/ Begin(v)
       \/ Finish(v)
       \/ TimeOut(v)
       \/ AwaitSilence(v)
       \/ AwaitTone(v)

Next ==
    \/ Calibrate
    \/ Tick
    \/ \E v \in Voices : Follow(v) \/ Report(v) \/ StartVoice(v) \/ EndVoice(v) \/ Buffer(v)

(* The clock runs, and a running voice is given its buffers.  Nothing is   *)
(* assumed of the user or of the instrument.                               *)
Fairness == WF_vars(Tick) /\ \A v \in Voices : WF_vars(Buffer(v))

Spec == Init /\ [][Next]_vars

FairSpec == Spec /\ Fairness

-----------------------------------------------------------------------------
(* Properties                                                              *)

(* The table that lookups use is whole: it is empty, or it holds one full  *)
(* sweep of the voltages in order, the first measurement of a frequency    *)
(* winning.  Neither a timeout nor a second request nor a voice that ends  *)
(* halfway leaves part of a sweep or a mixture of two.                     *)
ResultWhole ==
    ~ calibrating /\ data # Empty =>
        /\ [i \in 1 .. Len(samples) |-> samples[i].volt] = [i \in 1 .. Resolution + 1 |-> i - 1]
        /\ DOMAIN data = {samples[i].frequency : i \in 1 .. Len(samples)}
        /\ \A f \in DOMAIN data :
              data[f] = Min({samples[i].volt : i \in {k \in 1 .. Len(samples) :
                                                        samples[k].frequency = f}})

(* A voltage that lies between those of two steps, either of them included. *)
Within(v, s, z) ==
    /\ v[2] > 0
    /\ \/ s * v[2] <= v[1] /\ v[1] <= z * v[2]
       \/ z * v[2] <= v[1] /\ v[1] <= s * v[2]

(* What a table says of the frequencies that it has no voltage for: the    *)
(* silence below the lowest stands for the lowest voltage.                 *)
Points(table) == [f \in DOMAIN table \cup {0} |-> IF f \in DOMAIN table THEN table[f] ELSE 0]

Neighbours(table, g, h) ==
    /\ g \in DOMAIN Points(table) /\ h \in DOMAIN table
    /\ \A x \in DOMAIN table : x <= g \/ h <= x

(* get_voltage, on whatever a calibration measured, in whatever order the  *)
(* frequencies fell: a measured frequency, other than the highest, gives   *)
(* back the voltage it was measured at; one between two neighbours gives a *)
(* voltage between theirs; and silence, the highest frequency and anything *)
(* above it give the lowest voltage.                                       *)
LookupExact ==
    ~ calibrating =>
        \A f \in 0 .. Max({0} \cup DOMAIN data) + 1 :
            LET v == Lookup(data, f)
            IN  /\ f # 0 /\ f \in DOMAIN data /\ f # Max(DOMAIN data) => Within(v, data[f], data[f])
                /\ \A g, h \in DOMAIN Points(data) :
                      g < f /\ f < h /\ Neighbours(data, g, h)
                          => Within(v, Points(data)[g], data[h])
                /\ f = 0 \/ (\A x \in DOMAIN data : x <= f) => v = Low

(* As long as the voices run one at a time, a gate is open only while the  *)
(* frequency of its voice is awaited: no way of ending a calibration, nor  *)
(* the end of a voice in the middle of one, leaves the instrument sounding.*)
(* (Voices that overlap share the calibrator, and one of them may end the  *)
(* step or the calibration of another, whose gate then stays open.)        *)
GateClosed ==
    \A v \in Voices : gate[v] /\ ~ overlapped => calibrating /\ waiting

(* A calibration ends, finished or timed out, whatever the instrument      *)
(* does, as long as some voice keeps being processed.                      *)
CalibrationEnds ==
    \A v \in Voices : calibrating ~> (~ calibrating \/ v \notin running)

(* cv_calibration.cpp:130-133, "the second calibration phase waits for the *)
(* frequency to arrive that corresponds to the voltage that was sent out": *)
(* each voltage is stored with the frequency it makes the instrument play. *)
SamplesCorrespond ==
    \A i \in 1 .. Len(samples) : samples[i].frequency = Tone[samples[i].volt]
=============================================================================

# EigenD-Contrib, in TLA+

EigenD-Contrib is a set of agents for EigenD, the software of the Eigenharp: each directory of
`src/` is one agent (a C++ or Objective-C++ core and a Python `*_plg.py` that declares its
atoms), plus the build tools in `src/tools`. The agents do not call each other; what they share is
EigenD's `piw` library, which is not in the repository, and with it a way of working:

* the **fast thread** runs the audio and event processing: cfilter functions (`cfilterfunc_start`,
  `_process` once per buffer, `_end`), `thing_dequeue_fast`, and what is passed to `tsd_fastcall`;
* the **slow thread** runs Python, constructors, and `thing_timer_slow`;
* some agents are called by **a library's thread** (the Leap SDK's listener, libCube's callback),
  which hands messages to the fast thread with `enqueue_fast`;
* what an agent puts out are **events** of its event data sources, opened with `source_start`,
  closed with `source_end`, with values added in between, all stamped with a time.

The models are about this: what the threads of one agent do to each other, and what the agent
remembers of a device that changes behind its back. The agents are built with SCons, which the
repository carries along (`tools/packages/SCons`); its engine is a concurrent program of its own, with a
memory that outlives it, and has two models.

## Inventory

| Component | State | Operations | What is hard |
|---|---|---|---|
| **leap** (`leap/eleap.cpp`) | two `hand_t`: `leap_id_`, a wire with its own clock `time_` and position | `onFrame` (listener thread) enqueues known hands and palm positions; `thing_dequeue_fast` assigns outputs; `create_hand` (slow) | two kinds of messages interleaved with everything else; ids come back; several starts and stops in one tick; frames before the outputs exist |
| **audiocubes** (`audiocubes/audiocubes.cpp`) | per cube its last colour and four sensor outputs; the last topology | `libraryCallback` (library thread) paints, reads, enqueues; `thing_dequeue_fast`; cfilter sets colours; `create_audiocube` (slow) | white paint against new colours against refresh; cubes before they are created; topology tables in flux |
| **blink** (`blink/blink.cpp`, table in `blink1-lib.cpp`) | 16 blinks: device handle, last colour, scheduled colours and timers; the number of units | `thing_timer_slow` enumerates and refreshes; cfilter sets colours; `show_colour` schedules them | two threads on `dev_` and `last_*_` with no lock; units that come and go between polls; stale serial numbers |
| **cv_calibration** | calibrator: phase, step, last voltage and time, the map; per voice two outputs | `calibrate`; `recalibrate` and `get_voltage` in each buffer of each voice | a loop through an instrument that lags; timeout at any step; voices share one calibrator |
| **frequency_detector** | per voice: window, crossings, sign; shared threshold and buffer count | `cfilterfunc_process`, `set_threshold`, `set_buffer_count` | parameters change within a window; equality test on a counter |
| **vu_meter** | segment table in a flipflop, clip hold; per voice the time the hold ends | `set_parameters` (slow), `cfilterfunc_process` | table and hold exchanged separately; hold and expiry edges |
| **tabulator** (`tabulator_plg.py`) | session files, chord queues and staves of each course, last key time | start, stop, toggle, key, controller, page width, chord timeout | a key that fails halfway; stop and start in any order |
| **sysin_events** (`sysin_events.mm`) | mouse buttons of the input, held keys of the voices, registry of keypress inputs | cfilter functions, `create_/destroy_` keypress, parameters | button state shared by voices; press and release in one buffer; keys left down |
| **noise** (`noise/synth_noise.cpp`) | volume, cut-off, a one-pole filter | `cfilterfunc_process` | floats; array lengths |
| **alpha_text_scroller.py** | none | sends drawing commands | pure I/O |
| **pip** (`tools/pip_cmd`) | the class table of a binding specification | parse, process (imports, inheritance), expand | inheritance on a graph |
| **build tools** (`tools/*.py`) | SCons environments | declarations of targets | configuration only |
| **SCons, build engine** (`Taskmaster.py`, `Job.py`, parts of `Node`, `Executor`, `Main.py`) | of each node its state, reference count, waiting parents; the stack of candidates; tasks in two queues and with the workers | `next_task`, `prepare`, `execute` (worker threads), `executed`, `failed`, `postprocess`, `stop` (signal handler), `cleanup` | waiting by counting; side effects shared by actions; children found only by scanning what was built; failures in the middle; signals at any moment |
| **SCons, record and cache** (`SConsign.py`, `dblite.py`, `CacheDir.py`, parts of `Node/FS.py`) | signatures and times of files, in a file and in memory; files in the cache directory | `get_csig`, `changed`, `visited`, `built`, `store_info`, `merge`, `write`, `sync`; cache push and retrieve | signature and time recorded at different moments; builds cut short, killed at any step; the record replaced in two steps |

Third-party and vendored: `tools/packages` (SCons, of which the two parts above are modelled), `blink/hidapi`,
`blink/blink1-lib.*`,
`noise/Stk|Filter|OnePole`, `tools/pip_cmd/yacc.py|lex.py`.

What makes each modelled component correct:

* **leap** – the outputs show hands of the last frame, as many as there are outputs, each at its own
  position; no hand has two outputs or changes output while it stays; an output that has no hand is
  closed and at rest; every output's event is well formed.
* **audiocubes** – a cube shows the colour it was last given and its outputs the readings it last
  had, whatever the threads do; a settled table is taken over exactly; a table in flux invents
  nothing; whoever listens to its keys knows the links that have lasted.
* **blink** – the n-th blink has the n-th unit; a unit shows its blink's colour; units are not
  shared; a unit that stays plugged in gets opened.
* **cv_calibration** – the table in use is one whole sweep or nothing; a lookup inverts what was
  measured, but for the highest frequency, and keeps between neighbours; a gate does not stay open; a
  calibration ends.
* **SCons, build engine** – no action runs before its children are made; no two actions write a side
  effect together; a node waits for exactly what it counts; nothing that is needed is lost; no node is
  built twice; every build ends.
* **SCons, record and cache** – a build that runs to its end leaves what a build from nothing would,
  whatever was edited, reverted or cut short before, as long as the record and the cache were true when it
  began; they stay true, but for signatures nobody asked for; a kill costs only what was in the making.
* **tabulator** – the tablature is what was played: every key on its course, in the column of its
  chord, once; no printed stave of several columns is as wide as the widest page that was set during the
  session (one column may be wider than any page).

## Modules

| Module | Of | Code |
|---|---|---|
| `EventSource` | what an agent owes to a `piw::event_data_source_real_t`: starts and ends alternate, values in between, stamps increase. The abstract specification `Leap` and `CubeTopology` implement | external, from its use in `eleap.cpp` and `audiocubes.cpp` |
| `Leap` | the Leap agent | `leap/eleap.cpp` |
| `AudioCubes` | colours and sensors | `audiocubes/audiocubes.cpp` 102-164, 182-263, 271-354, 388-414, 571-581 |
| `CubeTopology` | the topology output | `audiocubes/audiocubes.cpp` 36-65, 416-569 |
| `CvCalibration` | calibrator, voices, instrument | `cv_calibration/cv_calibration.cpp` |
| `Blink` | the blinks' units and colours | `blink/blink.cpp`, `blink/blink1-lib.cpp` 59-84, 112-128 |
| `Taskmaster` | the walk over the dependency graph, as operations on the nodes and the stack | `SCons/Taskmaster.py`, parts of `Node/__init__.py`, `Executor.py`, `Script/Main.py` |
| `Jobs` | the main thread, the workers, their queues and the signal: composes `Taskmaster` into builds | `SCons/Job.py` |
| `Sconsign` | signatures, the record, the cache, and builds over time | `SCons/SConsign.py`, `dblite.py`, `CacheDir.py`, parts of `Node/FS.py` and `Node/__init__.py` |
| `Tabulator` | sessions, chords and staves | `tabulator/tabulator_plg.py` |
| `LeapProofs`, `AudioCubesProofs`, `CvCalibrationProofs`, `BlinkProofs`, `JobsProofs`, `SconsignProofs`, `TabulatorProofs` | theorems about the module each is named for; `AudioCubesProofs` also has those about `CubeTopology` | |
| `Ranks` | lemmas about finite sets of natural numbers (rank, least and greatest element, induction), for the proofs | |
| `MC*` | one per module with a run: the small instances | |

### Leap

`leapId[h]`, `wire[h].time` and `pos[h]` are `leap_id_`, `time_` and `cur_x_, cur_y_, cur_z_`;
`wire[h].since` and `.until` remember the stamps of the last start and end, so that a step shows how
the event changed. `OnFrame` and `SendPalm` are `onFrame`, split at each `enqueue_fast` since the fast
thread runs in between. `DequeueKnown` is one call of the handler: `Kept` its first loop, `Assigned`
its second in closed form ("the n-th new id gets the n-th free slot"), which property `LoopAgrees`
compares with the loop as written (`Loop`, with its body `Served`). `Rewired` is the sequence of `stop` and
`start` that one wire
gets. `DequeuePalm` moves the wire of the last slot whose id matches; a slot with no hand has the id 0
and is a match for a message with the argument 0. `Palm` keeps the part of the id that survives the
shift into 32 bits (`IdMod`, 2^24 in the code). Assumed: ids are positive and differ within a frame
(Leap SDK); the queue is first in first out; the message of known hands is always an array, also for
a frame without hands.

### AudioCubes

`PaintWhite` and `EnqueueAdded` are the two halves of the callback for an added cube. `DequeueAdded`
restarts the wires with zeros (`Startup`) and repaints (`Refreshed`); `DequeueSensor` decodes cube and
face from the byte `Encoded` made. `Process` is the cfilter's `process` with `set_color`: any non-empty
subset of the channels has a new value, and -1 in another channel makes `set_color` ignore all of it
(`Settable`). Process is one step: both the stores and the write happen on the fast thread, which alone
reads `last_*_`, and the library's paint interferes only through the write. `shown` belongs to the
cubes; `CubeSetColor` on a cube that is gone does nothing, and a new cube's sensors read zero.

### CubeTopology

One table is one step, `Pass` being the loop over its links and `AddLink` its body; the loop is a recursive
function on the number of links handled (`Looped`), which is a form that can be proved about. Faces are the
numbers `10 * cube + face` that the keys carry. `heard` is what a listener knows that remembers the
last key of each face, `lasting` the faces that have had a link ever since the topology was empty. `known` is
`topology_ != 0`. The specification is called `TopologySpec`, with
`TopologyInit` and `TopologyNext`, because `AudioCubesProofs` extends both modules of this agent. Assumed: a link
joins two different cubes.

### CvCalibration

`Buffer(v)` is `cfilterfunc_process` of one voice, in six cases that follow the branches of
`recalibrate`. Voltages are counted in steps of the sweep and looked-up ones are fractions of steps,
`<<numerator, denominator>>`, so that arithmetic is exact; `-1.0f` is step 0. `unread` is what
`cfilterenv_nextsig` has not returned yet; `fresh` says how much of it arrived in the current buffer,
which is where `cfilterenv_reset(IN_FREQUENCY, from)` jumps to when a calibration begins.
`cfilterenv_latest` consumes everything.
Assumed of `piw`: the outputs of a voice that has ended are gone, so that its gate counts as closed; `cfilterfunc_end`
(293-296) itself puts out nothing. The instrument (external) plays the voltage's `Tone` while the
gate is open, is silent otherwise, and reaches what it is told after any number of steps (`Follow`); the
frequency input reports what it hears at any moment. `age` is the time since `last_timestamp_`.
The branch at lines 158-165 is left out: it needs `calibrate_` false and `calibration_step_` positive,
and the only assignment of false is in `stop_calibration`, which zeroes the step.

### Blink

The slow thread is `todo` (blinks still to refresh), `stage` and `paint`: `Release`, `Open`,
`ReadLast` and `WriteLast` are `refresh_dev`, split wherever the fast thread can see a difference.
The fast thread's `set_color` is
`SetColor` (compare and store), `AimColor` (read `dev_`) and `WriteColor` (write through what was read).
A load of the three channels that overlaps their stores may see some of each; such a load
began before the store was complete, so the model orders it first, and `SetColor`, coming between that
load and its write (`Racing`), may turn the colour that the slow thread holds into any other.
`serials` is `blink1_cached_serials`, overwritten from the front by each enumeration. `live` are the
blinks whose handle works; a handle dies with its unit and does not revive. Opening a unit that is
already open succeeds, as hidapi does on the platforms where the agent opens its devices anew without
closing them. Assumed (`FitTable`): no
more units are plugged in than the table has places (16); `blink1_enumerateByVidPid` (66-76) does not look, and
would write behind its arrays.
Painting a blink that was never set converts -1 to an unsigned byte, undefined in C++:
the unit may then show any colour (`Repainted`).

### Taskmaster and Jobs

`state`, `waitingParents`, `waitingSE`, `refCount` are the nodes' fields, `candidates` and `topLeft` the
taskmaster's `candidates` and `top_targets_left`. Each pass of the loop in `_find_next_ready_node` is two
steps, since the signal handler and the workers run in between: a candidate is popped (`SkipHandled`,
`Consider`), then its children are looked at (`SkipChildFailed`, `WaitForChildren`,
`WaitForSideEffects`, `NextTask`). `WillNotBuild` is the whole traversal of `will_not_build`, whose result
`Above` is stated as the least set that is closed under it. `make_ready` decides freely whether a node with a
builder is out of date (the decision itself is `Sconsign`'s),
or raises (`Raised`, for nodes that a graph calls `unready`): then no target is marked, a task is made all the
same, and the error is raised when
it is prepared (Taskmaster.py 382-383, 917-928). Preparing may also fail because a child does not exist, of those
that scanning has found included (`Missing`; Executor.py 389-397, Node/__init__.py 351-359), or because old
files cannot be removed (FS.py
2731-2747). `visited()` is taken to raise before any of several targets has been marked as up to date.
Scanning is abstracted to what the walk depends on: `kids` are known from the start, `late` only once the
nodes of `generated` have been made, and `implicit` remembers what a node's last scan found until
`built()` of something it waited for clears it. `postprocess` puts back what it released in the order of a
Python set: any order (`SetToSeqs`).

Assumed of a graph: there are finitely many nodes; somebody asks for something; a node is one of the
targets of its own action, which all of them name, and the only one if it has no builder; the targets of an
action have their children in common, since `get_all_children` collects those of all (Executor.py, 252-268),
and with them what scanning may find later and whether determining them fails; a generated file that a scan
reads is a child; and a side effect has no builder and has the targets it is a side effect of among its
children, which is what `SideEffect()` makes of it (Environment.py, 2040-2054).

In `Jobs` the main thread's `pc` follows `Parallel.start` (`Serial.start` with one job); `filling` tells the
inner loop that hands out tasks from the one that collects results. A worker's task is taken, its targets
looked for in the cache one by one (`Retrieve`: each is marked as executed by the worker itself), and
built. `Signal` stops the taskmaster between any two steps and lets workers answer failures. Its two statements
are one step: the handler runs in the main thread, which alone looks at what `stop()` sets, and the workers
look at the
flag alone.

`WaitForChildren` reads the children's states and notes the node with them in one step, while a worker may mark a
child from the cache in between (Taskmaster.py 801 and 861). The main thread is the only one that notes or
counts, and the child's task is postprocessed by it later, whichever came first. A variant with two steps
was checked once on all the graphs of run `build`: every property holds of it, too.

Conceded, each because the property is violated without it:

* `ChildrenFirst` and `NeverTakenBack` exempt what is above a node that is in the cache while another target
  of the same action is not (`OnHalfCached`). `Task.execute` marks such a node executed, then the action builds
  all the targets. A parent that is a candidate twice may find it executed in between, while it is still
  among those waiting for it: when the action then fails, all that waits for it is marked as failed, also a
  parent whose own task is out, and is marked as executed when that task returns.
* `ChildrenFirst` and `NothingLost` exempt children that a node has overlooked (`Overlooked`), which happens in two
  ways. A worker may take a generated file from the cache after the main thread has scanned what needs it
  (Taskmaster.py:773) and before
  the main thread looks at the file's state (800): the file is done, nobody waits for it, so nobody scans
  again, and the node is made with what was found without the file. Or, under `-i`, a generated file cannot be
  made ready: its task forgets who waits for it, but it may become a candidate again and be made, and
  who scanned without it is not told.
* `NothingLost` exempts, under `-i` only, nodes that could not be made ready (`Abandoned`). The failed task is
  handled by `executed()`, which skips targets that are not executing; they stay pending, and nobody puts them
  on the stack again. If somebody waits for such a node, `cleanup` reports it, as an "Internal Error: no cycle found";
  a target of the command line, or several above which nobody waits, is lost without a word.
* `BuildEnds` exempts, under `-i` only, graphs in which such a node has side effects (`Respun`): see the end
  of Findings.
* `SideEffectsApart` exempts three kinds of side effects (`Spoiled`). Those of a node whose children cannot be
  determined: Taskmaster.py:790 returns such a node before the side effects of anything are looked at, and the
  `postprocess` of its failed task resets them all (443), also one that another action is writing. Those of a
  node with no builder, whose task `postprocess` treats alike. And those that somebody asks for: such a side
  effect is a candidate itself and waits for all who make it, and if one of them fails under `-k` it is marked as
  failed while another is making it; a third then no longer sees that it is being made, and joins in.
  So what the property promises is for side effects as they are meant, that nobody has as a child or target.

`NothingLost` exempts furthermore builds that were stopped, what has a failure below it,
and what needs itself. Of a node that hangs above a cycle only those children count as needed that it had when
it was last scanned (`Needs`): one that only a scan of a generated file would find is not looked at, since the
node is not scanned again before all it waits for is done, which never happens. The graphs of run `build` have no
node that depends on a side effect, and no side effect as a target of the command line: run
`build_side` shows what happens then. Not exempted, but worth knowing: `cleanup` may report nodes as not
built that are on no cycle, when a failure below a diamond leaves its other side pending.

### Sconsign

A signature stands for the content it digests: `Text(v)` for a source, `Output(a, from)` for what an action
makes of its children's contents. `entries` is the record as the build read it, `ninfo` what the build
knows of each file, `seen` whether and how the file was visited. Files are looked at in any order with
children first (that the engine keeps this order is `Jobs`' `ChildrenFirst`). Between builds the user edits
and reverts sources and actions, removes targets, and lets time pass. A build may end, fail, be
interrupted between two files, or be killed between any two steps; the record is replaced in two
(`UnlinkRecord`, `RenameRecord`). A copy from the cache keeps the time of the file that was pushed.
`Needed`, what a build looks at, is the least set that has the targets of the command line and the children
of each of its files.

`trusted` remembers that the record and the cache were true when the build began. `BuiltRight` and
`RecordKept` ask for it, because one known case makes the record untrue (run `store_csig`); the record is
also untrue after a kill, of what was being made (`KillIsLocal`): such a target does not have the
recorded content, and may count as up to date if its children are as recorded. That a record is true has two
parts: whoever bears the recorded time has the recorded signature (`StampTrue`), and a target was made from
what is recorded (`RecipeTrue`). `RecordKept` exempts from the first the signatures that nobody asked for
(`Unasked`), and exempts nothing from the second. Even a build that runs to its end has one, of a target of
the command line that is up to date, and `merge` then keeps the recorded one under the new time: the
signature of a target that a killed build left in part, recorded by a later build, outlives the target's
removal and its return from the cache. Five ticks are too few for this, six show it.

Assumed: no file needs itself, two changes of a file never bear the same time, nobody edits during a build, an
action that fails
leaves no target behind, builds stop at the first failure, and files are compared by content (the default).

### Tabulator

A stave is a sequence of columns (`render`), a printed page a sequence of staves (`html`); the code keeps a
text for each course and pads them to the same width, which is the width of the column here. `raw` is the
session's XML file. A key whose course does not exist is written to `raw`, ends the chord before it if it
comes late, and then fails in `append` (line 158): nothing else changes. A course 0 is Python's index -1, the
last course. `courses`, `widest` and the timeout in `raw` are for the properties only.

`TablatureIsPlayed` compares the two files of a session. It asks for a placing, a bijection between the keys that
have a course (`Played`) and the places of the tablature that have a key (`Places`: column, course, and which of
the sorted keys there), such that the tablature has each key at its place, on its course. It also says where columns
begin: of two keys with a course, one after the other, the second is in a later column if it came late, or if
a key between them did that has no course (`Apart`), and in the same column otherwise. Late is measured with
the timeout
of that moment, since the setting may change within a chord.

### Null dereferences

Two sequences dereference a null pointer: a Leap message handled before all hands are created
(eleap.cpp:185), and a first topology table in which a face appears twice (audiocubes.cpp:505). Both
are modelled as actions (`DequeueNull`) that set `crashed`, after which the model stops. They are the
reason why `crashed` occurs in the guards; no property hides behind it, since the properties are
evaluated in crashed states too, except `TrackedExact` and `PositionsFresh`, which speak of an agent
that has drained its queue.

## Runs

All runs use the specification as it is; every bound is a guard of an environment action (frames,
events, requests, tables, clock, queue length), named in the module, so nothing the code does is cut
off. `CHECK_DEADLOCK FALSE` everywhere: when the environment has used up its events and the queues
are empty, the system rests (and after a crash it stops).

| Run | Instance | Shows |
|---|---|---|
| `leap` | 2 outputs, 3 hands in any order and number per frame, one of which may show too few fingers; 3 frames, 3 queued messages, clock 0..1 | `SlotsDistinct`, `WireTracksSlot`, `IdleAtOrigin`, `TrackedExact`, `PositionsFresh`, `HandsStay`, `LoopAgrees`, `WireContract` (refinement of `EventSource`), `HandReleased` (liveness) |
| `cubes` | 2 cubes, one of which is created, 2 faces, 2 channels of 2 levels, 6 events | `ColourShown`, `ReadingsShown`, `OutputsStarted`, `ColourEventuallyShown` (liveness) |
| `topology` | 4 faces on 3 cubes, all sequences of 3 tables of up to 3 links, clock 0..2 | `SettledExact`, `LinksHaveOrigin`, `FluxKeepsPrevious`, `LastingHeard`, `EventPerTable` (refinement of `EventSource`) |
| `cv` | 2 voices, a sweep of 2 voltages, 2 requests, timeout after 1 tick | `ResultWhole`, `LookupExact`, `GateClosed`, `CalibrationEnds` (liveness) |
| `blink` | 2 blinks, 2 units, 2 colours, 3 plug events | `ColourShown`, `HandlesCurrent`, `UnitsApart`, `UnitEventuallyOpen` (liveness) |
| `build` | 5 nodes: all graphs over three nodes and a source in which two have up to two children and one up to one, cycles included, and graphs made for shared actions, side effects, generated, cached, missing, broken and unready files, what only a scan finds missing, a generated file that is tried twice, a cached file that is asked for before what is scanned for it, a cycle above or among what a scan finds, a node that is a child twice, and a node with a side effect whose children cannot be determined; 1 and 2 jobs, 3 failure modes, a signal at any step | `TypeOK`, `JobsCounted`, `ChildrenFirst`, `SideEffectsApart`, `WaitCounts`, `NothingLost`, `NeverTakenBack`, `BuildEnds` (liveness) |
| `store` | 2 sources, 2 targets one of which is made of the other, 2 contents, 2 texts of each action, clock 1..6, `max_drift` 1 | `BuiltRight`, `RecordKept`, `CacheKept`, `KillIsLocal` |
| `tabulator` | 2 courses, keys on them, beyond them and on none, 3 keys in a session, 2 timeouts, 2 page widths, clock 0..2 | `TablatureIsPlayed`, `PageFits` |
| `topology_sent`, `cv_tone`, `build_side`, `store_csig` | as above; `cv_tone` has one voice and three voltages, `build_side` a graph in which 1 needs 2 and 2's log | each refutes one comment of the source, see Findings |

Why the bounds are enough:

* `leap`: three hands for two outputs is the smallest number that leaves one out; three frames let a
  hand leave, another take its output, and the first come back; a queue of three lets a frame overtake
  the palm positions of the one before; the clock may stay behind the wire or run ahead of it.
* `topology`: three cubes are needed for a face that is a lower and a higher end; three tables for a
  topology to be learned, put in flux, and settled; three links for a face that comes back twice.
* `cubes`: six events let a created cube be added, removed, added again and report readings around
  it; the cube numbers 1 and 15 use both halves of the encoded byte.
* `cv`: two voltages make a sweep with a first and a last step, and the timeout of one tick strikes in
  each phase of each; two requests let a second sweep meet what the first left behind; two voices,
  starting and ending at any time, meet in every combination. `LookupExact` checks every frequency up
  to one above the highest, against every table that the run reaches: measured, between two, below, beyond.
* `blink`: with two units, three events let a unit be swapped, dropped and replugged between any two
  steps of a refresh; each exception below is reached within them.

* `build`: three nodes and a source have every cycle, diamond and chain of waiting that two parents of a
  child can make (480 thousand states, one to two minutes); two workers suffice for an order that one job
  never has. All graphs over four nodes, and
  three workers, show nothing more (checked once, too long for a regular run).
* `store`: every build and every edit takes a tick. Starting at 1, five ticks are a build, an edit, a wait
  beyond `max_drift` and a second build, or three builds with two edits between; two targets in a chain let
  the upper one see the lower one rebuilt, retrieved, or gone.
  Removing the comparison of times from `get_max_drift_csig`, for example, is found within these bounds.
* `tabulator`: three keys are two chords and a key between them that fails; the widths 5 and 7 hold two columns
  of one key, or one of two keys, or neither.

What the properties of `blink` concede is part of the result, and each concession is necessary (the
property without it is violated): `ColourShown` exempts a colour that was set between a refresh's load
and its write, because `set_color` returns early when asked for the same colour again and so the older
colour stays; units that two blinks had open; and units written last through a handle that the fast
thread loaded before a refresh gave the unit to another blink. `HandlesCurrent` exempts changes that leave the
number of units as it was (`missed`). `UnitsApart` speaks of the time between refreshes, since a refresh opens
a unit for its new blink before the old one lets go of it, and ends with the first enumeration that finds
fewer units, whose stale serial numbers stay behind. `GateClosed` of `cv` exempts voices that overlap, since
one can end the calibration of the other.

### Fairness

Only what a thread does by itself is fair, each under weak fairness: a callback that has begun
finishes; the fast thread drains its queue; the slow timer rearms itself and its refresh goes on; a
running voice gets its buffers and the clock advances. The controller, the cubes, the USB bus, the user
and the instrument are never assumed to do anything. In `Jobs` the main thread and each worker are weakly
fair: a thread that can go on does, and an action that a worker runs comes to an end; signals are not.
`HandReleased` therefore asks only about hands
that the last frame does not have, `CalibrationEnds` only about voices that keep running, and
`UnitEventuallyOpen` only about units that stay plugged in.

## Findings

* `topology_sent`: audiocubes.cpp:519 announces "each entry that's new compared to the previous
  topology", but line 533 skips every face that had no link before (unless there was no topology at
  all). A listener never learns of a second pair of cubes being joined.
* `cv_tone`: cv_calibration.cpp:130-133 "waits for the frequency to arrive that corresponds to the
  voltage that was sent out", but line 137 takes the next unread one, for example a zero of the silence
  before.
* `build_side`: Taskmaster.py:857-860 counts what a node waits for "so we can be put back on the list for
  re-evaluation when they've all finished". A side effect that is also a child never finishes: while a
  worker makes it, it is `executing`, so the candidate that stands for it is skipped; when the worker is done,
  it is reset to `no_state`, its waiting parents are not counted down, and nobody puts it on the stack
  again. Its parent is not built and nothing is reported. With one job this does not happen.
* `store_csig`: FS.py:2650 `visited` gives a changed source its new time, but its new signature is computed
  only when a target asks for it. If the build ends in between, `merge` (SConsign.py:166) records the old
  signature with the new time, and once the file is older than `max_drift` (two days by default),
  `get_max_drift_csig` takes it for the truth: `get_csig` no longer returns "the digested signature of its
  content" (FS.py:2834), and targets made of the old content count as up to date.

Not refuted by a run, but read in the code on the way: audiocubes.cpp:462-464 wants all entries of a face
removed that comes up twice, while the code erases by end, so a face in the middle of a chain, once a higher
and once a lower end, keeps the link that was entered first. `FluxKeepsPrevious` states what does hold.

Nor by a run, since the stack of candidates may then grow without bound, but by TLC with the stack cut off: a build
with `-i -j2` may never end. A node that has once waited for a side effect of its own stays in that side effect's
`waiting_s_e`, which nothing clears (Taskmaster.py 446-448 and 878). If `make_ready` raises for this node, it stays
pending, and the `postprocess` of its failed task finds it waiting and puts it back on the stack
of candidates; there `make_ready` raises again, and so on. Without side effects such a node is lost instead, as
said above under Taskmaster and Jobs.

## Proofs

TLAPS proves the safety properties below for every value of the constants that satisfies the modules'
assumptions (any numbers of outputs, cubes, blinks, voices, nodes, workers or files, any frames, tables or
graphs, any bounds). Each proof module has one inductive invariant, `IInv`, its lemmas name it step by step
(one lemma per action), and a theorem (`Invariance`, or `SessionIsKept` of `TabulatorProofs`) says that it
holds always; each was first checked by TLC on the runs'
instances. Where the argument needs induction over data, it goes through `Ranks`: the library's induction
theorems take an operator as a parameter, which the installed provers cannot instantiate, so
induction is stated there for sets of natural numbers (a set that has 0 and with each number the next has
them all; a non-empty set has a least element), and finite sets are ordered by how many elements lie below.

### LeapProofs

`SlotsDistinct`, `WireTracksSlot`, `IdleAtOrigin`, `HandsStay`, `TrackedExact`, `PositionsFresh`, `LoopAgrees` and
`WireContract` (the refinement of `EventSource`). `IInv` adds to the first three what is in
the queue: a message of known hands names no hand twice (`Distinct`), and a palm message has a
non-zero id when ids fit 24 bits. Without the first the second loop might hand out two outputs;
without the second a position might reach an idle output. `AssignedFacts` carries the weight: from a
kept assignment with distinct ids, the closed form of the second loop gives distinct ids, keeps what
was kept, and fills free slots only; it rests on `BelowMono`, that counting what lies below is
strictly monotone. `WireTracksSlot` includes that no start or end is stamped ahead of the wire's
clock, which is what makes a later start later than the last end. `IdsFit` is an assumption of
`WiresObeyContract` and a premise of `IdleAtOrigin` and `PositionsFresh`: an id that is a multiple of 2^24
would move idle outputs.

For the two properties of an agent that has drained its queue, `FollowInv` says what holds while it is not
empty: the last message of known hands is that of the last frame, or there is none and the outputs are
exact (`FrameFollowed`); behind it come positions of that frame only, and each hand's position is the
one of the frame, or its message is still to come (`PositionsFollowed`). That all outputs are given when there
are enough hands (`AllGiven`) is a counting argument: the n-th free slot and the n-th new hand have the same rank.

`LoopAgrees`, that the closed form of the second loop is right, is an induction over the ids of a message
(`ServedStep`): after n of them the slots are those that the closed form gives to the first n, and if the loop
was left, no slot was free. `GivenFacts` says what the induction needs of the ranks: when a new hand is
served, all free slots before its
own have been given away, or all free slots if it gets none.

### AudioCubesProofs

`ColourShown`, `OutputsStarted` and `ReadingsShown`. `IInv` adds that only created cubes were ever given a colour
(otherwise a cube created late could have a colour that nobody painted) and that `inTime` cubes are
created and attached. The argument is that whoever paints a cube white also has a message under way
(`BeingAdded`) whose handling repaints it, and that the queue loses messages at its head only.
`ReadingsShown` follows from `ReadingsFollowed`: a sensor's reading is what the last message about it says, an
addition saying zero, and its output when no message is about it. It rests on `EncodedFacts`: the byte
that carries cube and face is decoded to the same two.

Of the topology all five properties: `SettledExact`, `LinksHaveOrigin`, `FluxKeepsPrevious`, `LastingHeard`, and
`EventPerTable`, the refinement of `EventSource`. The invariant (`TopologyInv`, `TopologyInvariance`) is little: the
topology is a partial function
on the faces, the source is closed between tables, a settled table is the topology, and what has lasted was
heard (`HeardFacts`: a link of such a face either changes, and is sent, or is the one heard before). The weight is in
`LoopResult`, an induction over the loop: after n links (`Looping`) the faces seen are the ends of these links;
each link of the new topology is one of the n whose ends no other of them shares, or one that was
known before; and if the table is settled, the new topology has these n links and no other.

### CvCalibrationProofs

`ResultWhole`, `LookupExact` and `GateClosed`. `IInv` has the place of the sweep (`Phases`: a calibration that
waits has sent the voltage of its step), what was measured so far (`Sweeps`: while calibrating, the samples are
those of the steps done, in order, and the table has exactly their frequencies; afterwards a whole
sweep, or nothing), and who may have a gate open (`Gates`: only a running voice, and without an overlap only
while waiting). `LookupsAreExact` is about the two neighbours of a frequency in the table, whose existence
is `Ranks`' greatest and least element; that the interpolated voltage lies between theirs is `Between`.

### BlinkProofs

`HandlesCurrent`, `UnitsApart` and `ColourShown`. `IInv`: the refresh goes through the blinks in order and what
is left of it is the end of that order (`Queue`); a colour being set is the blink's last one
(`Setting`); a good handle is of a unit that is there (`Handles`); since the last change the table is
the sorted units, and without a drop it has no unit twice (`Table`); the blinks that the refresh has been
through have open what the table says (`Opened`); and a unit that does not show its blink's colour is about to,
since one of the two threads has that colour and will write it through that handle (`Painting`). The last is the
race itself: its exceptions are those of `ColourShown`, and the proof needs no other.

### JobsProofs

* `JobsCounted`: the job count of `Parallel.start` is the number of tasks queued, out and answered, and never
  above the number of jobs.
* `WaitCounts`, in graphs in which nothing needs a side effect (`EffectsUnneeded`; the others are those of the
  finding `build_side`): a node's reference count is the number of nodes it waits for. The run's graphs satisfy
  the hypothesis.
* `TypeOK`, under the same hypothesis, because of the bounds of the reference counts.
* `SideEffectsApart`, in every graph. `EffectInv` has two parts. `OutInv` follows every task through the places
  where it can be, a slot of the queues, a worker, or the main thread: no two places have a side effect in
  common, and one that was handed out has its side effects marked as executing until its results are handled, or
  the build was stopped (after `stop` nothing is handed out any more). That nobody else touches these marks is
  because of `WalkPublic`: a side effect that nobody asks for is never on the stack, is never examined and
  waits for nothing, so no failure reaches it and no task has it as a target.

`IInv` is the invariant of the first two, with the types of what the taskmaster and the pool keep.

* `NeverTakenBack` and `ChildrenFirst`, in graphs that are `Orderly`: nobody needs a side effect, and the cache
  has all targets of an action or none. In these the exception `OnHalfCached` never applies (they are all but
  four of the graphs that run `build` has); what is overlooked (`Overlooked`) stays an exception. `Ordered`
  has what orders a build:
  - `FlightInv`: the tasks that are out or being handled have targets of their own, each executing, up to date,
    or taken from the cache, the last only if the task can no longer fail;
  - `MateInv`: targets of one action leave the waiting states together; if one fails alone, then because of a
    child that the others have too;
  - `WaitInv`: a node waits for its children only, is pending or failed meanwhile, and is not kept waiting
    for a child that is done, except until that child's task is postprocessed;
  - `ScanInv` and `ReadyInv`: what was found by a scan stays found, and the node that is examined is pending,
    with its children, and waits for none but these.

  None of the five holds alone. That a failure reaches no task that is out (`FailReach`) needs `WaitInv`; that
  who waits is pending needs `MateInv` when its task is made for another target, and `ReadyInv`, since that
  task is made only when nothing is waited for, but what a worker has just taken from the cache; and that the
  mates of the examined node have no task needs `MateInv` and `FlightInv`.

  `ChildrenFirst` adds `Complete`: the children of a task to be executed are there and nobody makes them
  (`KidsInv`), which is so when the task is made, because of `LateInv`: what a scan would find now is among
  the children that are examined. That in turn is because of `RescanInv`: who scanned before a generated file
  was there waits for it, and `built()` of that file makes it scan again, unless it slips through (`Slips`,
  see Taskmaster and Jobs). After a stop this may fail, and
  need not hold, as nothing is considered any more.

* `NothingLost`, in graphs that are `Orderly` and have no side effect as a target of the command line (all but
  the same four of run `build`'s). Since a build that has lost something just ends, the invariant behind it
  (`Lossless`) says at every
  step why each node that is not done yet will be got back to. It has two halves:
  - `Past`, which holds also after a stop: what is made has all its children (`MadeInv`); and of any nodes
    that hang there is one, the one considered last, whose waiting
    for another of them was noted in `pending_children` (`CycleInv`). That is the argument why a cycle is reported:
    going round it, the last node considered meets a child that is pending already.
  - `Forth`, until the build is stopped: targets of the command line, children of what has been looked at and
    whatever is waited for have been looked at or are on the stack (`TopsInv`, `VisitInv`, `WaitedInv`); what is
    pending is on the stack, or under examination, or counted by a child it waits for, or waits for a side effect
    that a task still out will release, or has a failed child, or `make_ready` has just raised for it and its task is
    to fail (`Trying`), or, under `-i`, has raised before (`Unmade`; `PendInv`); what is executing has a task
    (`BusyInv`); and the main thread ends only when stack and pool are empty (`EndInv`).

  When the build has ended, stack and pool are empty, so what hangs waits for what hangs or has failed
  (`EndHung`); nodes each of which waits for another of them are finitely many, so one is below itself
  (`CycleExists`). An unmade node is the third way out, which the property names (`Abandoned`): who came to
  wait for it
  since found it pending, which `pending_children` has noted. That a task whose `make_ready` raised has
  nothing but pending targets until it fails is `RaisedInv`, of `Ordered`, and that their children were looked at
  all the same is why `VisitInv` goes by `Touched`. The delicate step is `postprocess`: a node that waits for
  a side effect is put back when the
  task that held it is done only if its count is 0; if it is not, the node waits for a child as well, and
  the count, being exact (`WaitCounts`), puts it back later.

  The property as first stated was wrong, and the proof attempt showed it: it wanted the late children of a node
  that hangs above a cycle to be done as well (see `Needs` above). Two graphs that would have shown it were
  added to run `build`.

### SconsignProofs

`BuiltRight`, `RecordKept`, `CacheKept` and `KillIsLocal`. `BuildInv` holds of every build, true record or not:
files bear times of the past, no two files of one name bear the same time and differ
(`OneFilePerTime`), what a build has read is older than the build (`RecordTimes`), and what it has settled
stays as it is and has settled children (`Progress`). `TrueInv` holds of a build whose record and cache were
true when it began: every signature it knows is the content's, every target it settled is what its
action makes of its children's contents, and both the record it reads and the one it writes are true, with the
exceptions of the properties. `BuildsAreRight` is then an induction over the files, by the acyclicity of
`Kids`: of the settled files that differ from what a build from nothing makes, one would have no such child.
That `Clean`, a recursive function on the files, satisfies its equation at all is `CleanObeys`, by the same means.

### TabulatorProofs

`TablatureIsPlayed` and `PageFits`. `IInv` says: columns are sorted and as wide as their widest text and a
dash, and the
queue has a list for each course of the session (`Typed`, `Running`); the time the tabulator
remembers is that of the last key that has a course (`Timed`); the columns printed or rendered, with one column more
that has the queue as it is, unsorted (`Draft`), have a placing of the keys played so far (`Told`), and the last key
is in that one unless a key without a course was late after it (`Current`); and the stave being written fits
the widest page too (`Fits`). `PageFits` is a part of
it; `TablatureIsPlayed` follows, since rendering the queue sorts it and so moves its keys within their columns only
(`Reordered`). `KeyStep` is the case with content: whether the key is late or not and whether its course
exists or not are
four different changes of the placing (`Grown` for a key that is added to the queue, `Beyond` for one that has no
course, `Late` for a queue that is rendered first).

Three facts about data had to be proved first, each by `Ranks`' induction on numbers. Every sequence of keys
can be sorted
(`Ordering`), or else `Sorted`, a CHOOSE, would mean nothing. The width of a stave with one more column is the sum
(`Widths`). And `FlattenSeq` of the community modules, a recursive function chosen on the indexes of its argument,
appends a stave's columns when a stave is appended (`Flattened`).

### Only model-checked

* All liveness (`HandReleased`, `ColourEventuallyShown`, `CalibrationEnds`, `UnitEventuallyOpen`, `BuildEnds`):
  fairness and ENABLED are outside TLAPS.
* `ChildrenFirst`, `NeverTakenBack` and `NothingLost` in graphs that are not `Orderly`:
  with half an action's targets in the cache, a node may be executed while it waits, or fail while it is out.

## Not modelled

* Teardown: the destructors, removal of listeners and callbacks.
* Suppression of unchanged coordinates in `add_palm_position` (the abstract position is all three).
* Loops over wires that share one state (the four sensor wires start together).
* Blink's scheduled colours: applied while a timer runs; nothing restores the earlier colour when it ends.
* Frequency detector and VU meter: one thread each, float computations. Delicate are a buffer count lowered
  within a window (frequency_detector.cpp:114 ends a window on equality), and a clip that does not prolong a
  hold (vu_meter.cpp:156).
* System input events: their order is decided by the operating system's queue and by `piw`. Delicate are the
  button flags that voices share (sysin_events.mm:589), and a press and a release within one buffer (596).
* pip: text processing; `process_inheritance` (process.py:54-97) does not guard against cyclic base classes.
* Of SCons: everything that prepares a build (environments, substitution, tools, options), `SConf`, the
  interactive mode, repositories, variant directories, per-directory records, time-stamp deciders,
  `--cache-force`, `--implicit-cache`, `--max-drift=0`. These thousands of lines are tables, text and
  configuration, evaluated in sequence before the engine starts; they have no states to check.
* Noise, text scroller, build tools: floats, I/O and configuration. Third-party code.
* The Python atoms: declarations, apart from the order in which they create the native objects.

## Plan

Done: 1. `Leap` with `EventSource`. 2. `AudioCubes` and `CubeTopology`. 3. `CvCalibration`. 4. `Blink`.
5. Proofs of `Leap` and `AudioCubes`. 6. `Taskmaster` and `Jobs`. 7. `Sconsign`. 8. `Tabulator`.
9. Proofs of `Sconsign`. 10. Of `Jobs`: jobs and waiters counted, side effects apart. 11. Proofs of
`CubeTopology`, `CvCalibration` and `Blink`; the last safety properties of `Leap` and `AudioCubes`.
12. Proofs of the order of a build: `ChildrenFirst` and `NeverTakenBack`.
13. `NothingLost`: that whatever is not done is on the stack, is waited for, or has a task.
14. Proofs of `Tabulator`: `TablatureIsPlayed` and `PageFits`.
15. Of `Leap`: `LoopAgrees`.

Every safety invariant and action property that a passing run checks now has a theorem, some under the hypotheses
named above (`IdsFit`, `EffectsUnneeded`, `Orderly`). What remains open is the
order of a build in graphs that are not `Orderly`, and liveness, which stays with TLC.

Running a check: `tlc -config MCLeap.cfg MCLeap`; a proof: `tlapm LeapProofs.tla`.

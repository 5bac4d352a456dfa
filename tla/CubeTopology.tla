---------------------------- MODULE CubeTopology ----------------------------
(***************************************************************************)
(* The topology output of the AudioCubes agent: the part of thing_dequeue_ *)
(* fast of src/audiocubes/audiocubes.cpp that handles a topology table.    *)
(*                                                                         *)
(* A table lists links between two faces of cubes.  Every link is oriented *)
(* from the lower cube to the higher one and the agent keeps, per face, at *)
(* most one link.  While cubes are being moved a table can mention a face  *)
(* twice ("the topology is in flux"); the agent then falls back on what it *)
(* knew of that face.  The tables arrive one at a time on the fast thread. *)
(***************************************************************************)
EXTENDS Integers, Sequences, Functions

CONSTANTS
    CubeFaces,  \* the faces, as numbers: 10 * cube + face
    Tables,     \* the tables CubeTopology() can return: sequences of <<b1, b2>>
    MaxTables,  \* bound: tables handled
    MaxNow      \* bound: the clock of the fast thread

Cube(f) == f \div 10

(* A link joins faces of two cubes (libCube). *)
ASSUME CubeFacesAssumption == CubeFaces \subseteq Nat
ASSUME TablesAssumption ==
    /\ Tables \subseteq Seq(CubeFaces \X CubeFaces)
    /\ \A t \in Tables : \A i \in 1 .. Len(t) : Cube(t[i][1]) # Cube(t[i][2])
ASSUME TablesBound == MaxTables \in Nat /\ MaxNow \in Nat

VARIABLES
    known,      \* topology_ is not null: a table has been handled
    topology,   \* *topology_, a function on the faces that have a link
    source,     \* the agent's event source: time_, last start and last end
    now,        \* piw::tsd_time()
    crashed,    \* topology_ has been dereferenced while null
    tables,     \* how many tables have been handled
    table,      \* history: the table handled last
    heard,      \* history: per face, the link of the last key sent for it
    lasting     \* history: the faces with a link ever since there was none at all

topologyVars == <<known, topology, source, now, crashed, tables, table, heard, lasting>>

Contract == INSTANCE EventSource WITH Sources <- {1}, src <- <<source>>

NoLinks == [f \in {} |-> f]

TopologyInit ==
    /\ known = FALSE
    /\ topology = NoLinks
    /\ source = [time |-> 0, since |-> 0, until |-> 0]
    /\ now = 0
    /\ crashed = FALSE
    /\ tables = 0
    /\ table = <<>>
    /\ heard = NoLinks
    /\ lasting = {}

-----------------------------------------------------------------------------
(* One pass over the table.  The accumulator holds existing_cubefaces,     *)
(* new_topology, and whether topology_ was searched although it is null.   *)

Oriented(link) ==
    IF Cube(link[1]) < Cube(link[2]) THEN [from |-> link[1], to |-> link[2]]
                                     ELSE [from |-> link[2], to |-> link[1]]

(* A face that comes back loses the links that start, or that end, there. *)
Cleared(links, seen, e) ==
    {f \in DOMAIN links : /\ e.from \in seen => f # e.from
                          /\ e.to \in seen => links[f] # e.to}

(* The one link, and the links of both, those of f first.                  *)
Only(e) == [x \in {e.from} |-> e.to]
Joined(f, g) == [x \in DOMAIN f \cup DOMAIN g |-> IF x \in DOMAIN f THEN f[x] ELSE g[x]]

(* Mutants of Recalled: the link of a face in flux is taken from the table; *)
(* the face at the other end is looked up.                                  *)
RecalledFromTable(e) == Only(e)
RecalledOther(e) == [f \in IF e.to \in DOMAIN topology THEN {e.from} ELSE {} |-> topology[e.to]]

(* The links that topology_ has for a face. *)
Recalled(e) == Restrict(topology, {e.from} \cap DOMAIN topology)

AddLink(acc, link) ==
    LET e == Oriented(link)
        exists == e.from \in acc.seen \/ e.to \in acc.seen
        rest == Restrict(acc.links, Cleared(acc.links, acc.seen, e))
    IN  [seen  |-> acc.seen \cup {e.from, e.to},
         links |-> Joined(rest, IF exists THEN Recalled(e) ELSE Only(e)),
         null  |-> acc.null \/ (exists /\ ~ known)]

(* The loop: what has been accumulated after the first n links.            *)
Looped(t, links) ==
    LET after[n \in 0 .. Len(t)] ==
            IF n = 0 THEN [seen |-> {}, links |-> links, null |-> FALSE]
                     ELSE AddLink(after[n - 1], t[n])
    IN  after[Len(t)]

(* Mutant of Pass: the new topology starts as a copy of the old one. *)
PassOnto(t) == Looped(t, topology)

Pass(t) == Looped(t, NoLinks)

(* Mutant of Announced: the new links of faces that had none are sent.     *)
AnnouncedFound(links) == Restrict(links, DOMAIN links \ DOMAIN topology)

(* The keys that are sent: all links when nothing was known, otherwise the *)
(* links of the faces that had another one.                                *)
Announced(links) ==
    IF topology = NoLinks
      THEN links
      ELSE Restrict(links, {f \in DOMAIN links \cap DOMAIN topology :
                                links[f] # topology[f]})

(* Mutant of Stamp: the clock alone, which two tables may share. *)
StampClock == now

(* time_ = max(time_ + 1, tsd_time()) *)
Stamp == IF source.time + 1 > now THEN source.time + 1 ELSE now

Dequeue ==
    \E t \in Tables :
        /\ ~ crashed
        /\ tables < MaxTables
        /\ ~ Pass(t).null
        /\ topology' = Pass(t).links
        /\ heard' = Joined(Announced(topology'), heard)
        /\ lasting' = DOMAIN topology' \cap (IF topology = NoLinks THEN CubeFaces ELSE lasting)
        /\ source' = [time |-> Stamp + 1, since |-> Stamp, until |-> Stamp + 1]
        /\ known' = TRUE
        /\ table' = t
        /\ tables' = tables + 1
        /\ UNCHANGED <<now, crashed>>

DequeueNull ==
    \E t \in Tables :
        /\ ~ crashed
        /\ tables < MaxTables
        /\ Pass(t).null
        /\ crashed' = TRUE
        /\ UNCHANGED <<known, topology, source, now, tables, table, heard, lasting>>

Tick ==
    /\ ~ crashed
    /\ now < MaxNow
    /\ now' = now + 1
    /\ UNCHANGED <<known, topology, source, crashed, tables, table, heard, lasting>>

TopologyNext == Dequeue \/ DequeueNull \/ Tick

TopologySpec == TopologyInit /\ [][TopologyNext]_topologyVars

-----------------------------------------------------------------------------
(* Properties                                                              *)

LinksOf(t) == {Oriented(t[i]) : i \in 1 .. Len(t)}

Graph(f) == {[from |-> x, to |-> f[x]] : x \in DOMAIN f}

(* A table is settled when it mentions no face twice. *)
Settled(t) ==
    \A i, k \in 1 .. Len(t) : i # k => {t[i][1], t[i][2]} \cap {t[k][1], t[k][2]} = {}

(* The face is at the same end of several links of the table. *)
RepeatedFrom(t, f) == \E i, k \in 1 .. Len(t) : i # k /\ Oriented(t[i]).from = f
                                                     /\ Oriented(t[k]).from = f
RepeatedTo(t, f) == \E i, k \in 1 .. Len(t) : i # k /\ Oriented(t[i]).to = f
                                                   /\ Oriented(t[k]).to = f

(* Whatever flux came before, one settled table is enough: the topology is *)
(* then that table's links, all of them and no other.                      *)
SettledExact ==
    known /\ Settled(table) => Graph(topology) = LinksOf(table)

(* The agent invents no link: each is in the table, or was known before.   *)
LinksHaveOrigin ==
    [][Graph(topology') \subseteq LinksOf(table') \cup Graph(topology)]_topologyVars

(* A face that is at the same end of several links of a table keeps, if    *)
(* anything, a link it had: the table's guesses about it are not believed. *)
FluxKeepsPrevious ==
    [][\A e \in Graph(topology') :
          RepeatedFrom(table', e.from) \/ RepeatedTo(table', e.to)
              => e \in Graph(topology)]_topologyVars

(* A listener that remembers the last key of each face is right about the  *)
(* faces that have had a link ever since there was none at all: through    *)
(* any flux, whether its link stayed, changed, or fell back on the one it  *)
(* had.  (A face that comes to the others, or back, is not sent: see       *)
(* NewEntriesSent.)                                                        *)
LastingHeard ==
    \A f \in lasting : /\ f \in DOMAIN topology
                       /\ f \in DOMAIN heard
                       /\ heard[f] = topology[f]

(* Each table is one event of the source, opened and closed in order and   *)
(* later than the one before.                                              *)
EventPerTable == Contract!Spec

(* audiocubes.cpp:519, "send out topology key events for each entry that's *)
(* new compared to the previous topology": a listener that remembers the   *)
(* last key of each face knows every link of the topology.                 *)
NewEntriesSent == \A f \in DOMAIN topology : f \in DOMAIN heard /\ heard[f] = topology[f]
=============================================================================

--------------------------- MODULE SconsignProofs ---------------------------
(***************************************************************************)
(* Theorems about what SCons remembers between builds, for any files and   *)
(* children, any contents, and any number of edits and builds.             *)
(***************************************************************************)
EXTENDS Sconsign, FiniteSetTheorems, TLAPS

Busy == {"execute", "copy", "build"}      \* a target is being made
Reading == {"walk", "write"} \cup Busy    \* entries is the record as read
Saving == {"unlink", "rename"}               \* entries is the new record

Settled(f) == seen[f] \in {"visited", "made"}
Contents(t) == [i \in DOMAIN Kids[t] |-> disk[Kids[t][i]].content]
Copies(f) == {disk[f]} \cup {e.file : e \in {e \in cache : e.sig.path = f}}

-----------------------------------------------------------------------------
(* The invariant of every build, whether its record is true or not. *)

IsEntry(r) == r = [csig |-> r.csig, stamp |-> r.stamp, act |-> r.act, from |-> r.from]
IsInfo(r) == r = [csig |-> r.csig, stamp |-> r.stamp]
Shapes ==
  /\ now \in Nat \ {0}
  /\ disk = [f \in Files |-> disk[f]]
  /\ action \in [Targets -> Versions]
  /\ db = [f \in Files |-> db[f]] /\ \A f \in Files : IsEntry(db[f])
  /\ entries = [f \in Files |-> entries[f]] /\ \A f \in Files : IsEntry(entries[f])
  /\ ninfo = [f \in Files |-> ninfo[f]]
  /\ \A f \in Files : IsInfo(ninfo[f])
  /\ seen \in [Files -> {"no", "visited", "made", "failed"}]
  /\ pc \in {"off"} \cup Reading \cup Saving
  /\ tops \subseteq Files
  /\ complete \in BOOLEAN /\ trusted \in BOOLEAN

(* Files bear times of the past, and only what is not there has none. *)
FileTimes ==
  /\ \A f \in Files : /\ disk[f].mtime \in 0..now
                      /\ disk[f].content = Absent <=> disk[f].mtime = 0
                      /\ f \in Sources => disk[f].content # Absent
  /\ \A e \in cache : /\ e.sig.path \in Targets
                      /\ e.file.mtime \in 1..now
                      /\ e.file.content # Absent

(* So do signatures; the ones that a build has read are older than it is. *)
Stamped(r, bound) == \A f \in Files : r[f].csig # Absent => r[f].stamp \in 1..bound
RecordTimes ==
  /\ Stamped(db, now) /\ Stamped(entries, now)
  /\ pc \in Reading => entries = db /\ Stamped(db, now - 1)

(* No two files of one name bear the same time and differ: what this build *)
(* has made is the only thing of its time.                                 *)
OneFilePerTime ==
  /\ \A f \in Files : \A x, y \in Copies(f) : x.mtime = y.mtime => x.content = y.content
  /\ pc # "off" => \A e \in cache : e.file.mtime = now => seen[e.sig.path] = "made"

(* Children come first, and what a build has settled stays as it is. *)
Progress ==
  /\ pc = "off" => \A f \in Files : seen[f] = "no"
  /\ \A f \in Files : seen[f] = "failed" => pc \in {"write"} \cup Saving
  /\ \A f \in Files : Settled(f) => /\ ninfo[f].stamp = disk[f].mtime
                                    /\ disk[f].content # Absent
                                    /\ \A k \in ToSet(Kids[f]) : Settled(k)
  /\ \A f \in Files : seen[f] = "made" => ninfo[f].csig # Absent
  /\ \A f \in Files : ~Settled(f) => ninfo[f].csig = Absent
  /\ pc \in Busy => /\ cur \in Targets /\ seen[cur] = "no"
                       /\ \A k \in ToSet(Kids[cur]) : Settled(k)
  /\ complete => pc \in {"write"} \cup Saving /\ \A f \in tops : Settled(f)
  /\ trusted => pc # "off"

BuildInv == Shapes /\ FileTimes /\ RecordTimes /\ OneFilePerTime /\ Progress

(* The invariant of a build that began with a true record and cache: it is *)
(* told the truth, and tells it.                                           *)
TrueInv ==
  trusted =>
    /\ CacheTrue
    /\ pc # "rename" => \A f \in Files :
         /\ StampTrue(db, f)
         /\ seen[f] # "made" /\ ~Making(f) => RecipeTrue(db, f)
    /\ pc \in Reading => \A f \in Files : ninfo[f].csig \in {Absent, disk[f].content}
    /\ \A t \in Targets : Settled(t) => disk[t].content = Output(action[t], Contents(t))
    /\ pc \in Saving => \A f \in Files : /\ RecipeTrue(entries, f)
                                         /\ ~Unasked(f) => StampTrue(entries, f)

IInv == BuildInv /\ TrueInv

-----------------------------------------------------------------------------
(* What a source holds, and what an action or a copy leaves, is something. *)
LEMMA Contentful ==
    /\ \A v \in Versions : Text(v) # Absent
    /\ \A v \in Versions : \A c : Output(v, c) # Absent
    /\ Partial # Absent
<1>1. Versions \subseteq Nat \ {0}
  BY SconsignAssumption
<1>2. \A v, c : Output(v, c).act = v /\ Text(v).act = v
  BY DEF Output, Text
<1> QED
  BY <1>1, <1>2 DEF Absent, Partial

LEMMA KidsAreFiles ==
    ASSUME NEW f \in Files
    PROVE  /\ ToSet(Kids[f]) \subseteq Files
           /\ f \in Targets <=> f \notin Sources
           /\ \A i \in DOMAIN Kids[f] : Kids[f][i] \in ToSet(Kids[f])
  BY SconsignAssumption DEF ToSet, Targets

LEMMA InitIInv ==
    ASSUME Init
    PROVE  IInv
<1>1. (CHOOSE v \in Versions : TRUE) \in Versions
  BY SconsignAssumption
<1>2. Text(CHOOSE v \in Versions : TRUE) # Absent
  BY <1>1, Contentful
<1>3. Shapes
  <2>1. /\ now \in Nat \ {0} /\ action \in [Targets -> Versions]
        /\ seen \in [Files -> {"no", "visited", "made", "failed"}]
        /\ pc = "off" /\ tops = {} /\ complete = FALSE /\ trusted = FALSE
    BY <1>1 DEF Init
  <2>2. disk = [f \in Files |-> disk[f]]
    BY DEF Init
  <2>3. NoEntries = [f \in Files |-> NoEntries[f]] /\ \A f \in Files : IsEntry(NoEntries[f])
    BY DEF NoEntries, NoEntry, IsEntry
  <2>4. /\ ninfo = [f \in Files |-> ninfo[f]]
        /\ \A f \in Files : IsInfo(ninfo[f])
    BY DEF Init, Unknown, IsInfo
  <2>5. db = NoEntries /\ entries = NoEntries
    BY DEF Init
  <2> QED
    BY <2>1, <2>2, <2>3, <2>4, <2>5 DEF Shapes
<1>4. FileTimes
  BY <1>2 DEF Init, FileTimes
<1>5. RecordTimes
  BY DEF Init, RecordTimes, Stamped, NoEntries, NoEntry, Reading, Busy
<1>6. OneFilePerTime
  BY DEF Init, OneFilePerTime, Copies
<1>7. Progress
  BY DEF Init, Progress, Settled, Busy, Unknown
<1>8. TrueInv
  BY DEF Init, TrueInv
<1> QED
  BY <1>3, <1>4, <1>5, <1>6, <1>7, <1>8 DEF IInv, BuildInv

-----------------------------------------------------------------------------
(* Between builds. *)

LEMMA EditStep ==
    ASSUME IInv, NEW s \in Sources, Edit(s)
    PROVE  IInv'
<1> USE DEF IInv, BuildInv
<1>1. PICK v \in Versions : disk' = [disk EXCEPT ![s] = [content |-> Text(v), mtime |-> now']]
  BY DEF Edit
<1>2. /\ now' = now + 1 /\ now \in Nat \ {0} /\ s \in Files /\ s \notin Targets
      /\ Text(v) # Absent
      /\ pc = "off" /\ ~trusted /\ ~complete
      /\ UNCHANGED <<action, db, cache, pc, session>>
  BY Contentful DEF Edit, Shapes, Sources, Targets, Progress, Saving
<1>3. \A f \in Files : disk'[f] = IF f = s THEN [content |-> Text(v), mtime |-> now'] ELSE disk[f]
  BY <1>1 DEF Shapes
<1>4. Shapes'
  <2>1. disk' = [f \in Files |-> disk'[f]]
    BY <1>1 DEF Shapes
  <2> QED
    BY <1>2, <2>1 DEF Shapes, session, IsEntry, IsInfo
<1>5. FileTimes'
  BY <1>2, <1>3 DEF FileTimes
<1>6. RecordTimes'
  BY <1>2 DEF RecordTimes, Stamped, session, Reading, Busy
<1>7. OneFilePerTime'
  <2>1. \A f \in Files : Copies(f)' = IF f = s THEN {disk'[s]} ELSE Copies(f)
    BY <1>2, <1>3 DEF Copies, FileTimes
  <2> QED
    BY <1>2, <2>1 DEF OneFilePerTime
<1>8. Progress' /\ TrueInv'
  BY <1>2 DEF Progress, Settled, session, TrueInv, Busy, Saving
<1> QED
  BY <1>4, <1>5, <1>6, <1>7, <1>8

LEMMA EditActionStep ==
    ASSUME IInv, NEW t \in Targets, EditAction(t) 
    PROVE  IInv'
<1> USE DEF IInv, BuildInv
<1>1. /\ now' = now + 1 /\ now \in Nat \ {0}
      /\ pc = "off" /\ ~trusted /\ ~complete
      /\ action' \in [Targets -> Versions]
      /\ UNCHANGED <<disk, db, cache, pc, session>>
  BY DEF EditAction, Shapes, Progress, Saving
<1>2. Shapes'
  BY <1>1 DEF Shapes, session, IsEntry, IsInfo
<1>3. FileTimes' /\ RecordTimes' /\ OneFilePerTime'
  BY <1>1 DEF FileTimes, RecordTimes, Stamped, OneFilePerTime, Copies, session, Reading, Busy
<1>4. Progress' /\ TrueInv'
  BY <1>1 DEF Progress, Settled, session, TrueInv, Busy, Saving
<1> QED
  BY <1>2, <1>3, <1>4

LEMMA RemoveTargetStep ==
    ASSUME IInv, NEW t \in Targets, RemoveTarget(t)
    PROVE  IInv'
<1> USE DEF IInv, BuildInv
<1>1. /\ pc = "off" /\ ~trusted /\ ~complete /\ t \in Files /\ t \notin Sources
      /\ UNCHANGED <<now, action, db, cache, pc, session>>
      /\ disk' = [disk EXCEPT ![t] = [content |-> Absent, mtime |-> 0]]
  BY DEF RemoveTarget, Shapes, Progress, Saving, Targets
<1>2. \A f \in Files : disk'[f] = IF f = t THEN [content |-> Absent, mtime |-> 0] ELSE disk[f]
  BY <1>1 DEF Shapes
<1>3. Shapes'
  BY <1>1, <1>2 DEF Shapes, session, IsEntry, IsInfo
<1>4. FileTimes' /\ RecordTimes'
  BY <1>1, <1>2 DEF FileTimes, RecordTimes, Stamped, session, Reading, Busy, Shapes
<1>5. OneFilePerTime'
  <2>1. \A f \in Files : Copies(f)' \subseteq Copies(f) \cup {[content |-> Absent, mtime |-> 0]}
    BY <1>1, <1>2 DEF Copies
  <2>2. \A f \in Files : \A x \in Copies(f) : x.mtime = 0 => x.content = Absent
    BY DEF Copies, FileTimes
  <2> QED
    BY <1>1, <2>1, <2>2 DEF OneFilePerTime
<1>6. Progress' /\ TrueInv'
  BY <1>1 DEF Progress, Settled, session, TrueInv, Busy, Saving
<1> QED
  BY <1>3, <1>4, <1>5, <1>6

LEMMA WaitStep ==
    ASSUME IInv, Wait
    PROVE  IInv'
<1> USE DEF IInv, BuildInv
<1>1. /\ now' = now + 1 /\ now \in Nat \ {0}
      /\ pc = "off" /\ ~trusted /\ ~complete
      /\ UNCHANGED <<disk, action, db, cache, pc, session>>
  BY DEF Wait, Shapes, Progress, Saving
<1>2. Shapes'
  BY <1>1 DEF Shapes, session, IsEntry, IsInfo
<1>3. FileTimes' /\ RecordTimes' /\ OneFilePerTime'
  BY <1>1 DEF FileTimes, RecordTimes, Stamped, OneFilePerTime, Copies, session, Reading, Busy
<1>4. Progress' /\ TrueInv'
  BY <1>1 DEF Progress, Settled, session, TrueInv, Busy, Saving
<1> QED
  BY <1>2, <1>3, <1>4

-----------------------------------------------------------------------------
(* A build begins, and looks at files. *)

LEMMA StartStep ==
    ASSUME IInv, Start
    PROVE  IInv'
<1> USE DEF IInv, BuildInv
<1>1. /\ now' = now + 1 /\ now \in Nat \ {0}
      /\ pc = "off" /\ pc' = "walk" /\ ~complete
      /\ entries' = db
      /\ tops' \subseteq Files
      /\ trusted' = (RecordTrue(db) /\ CacheTrue)
      /\ UNCHANGED <<disk, action, db, cache, ninfo, seen, cur, complete>>
  BY SconsignAssumption DEF Start, Shapes, Progress, Saving
<1>2. \A f \in Files : seen[f] = "no" /\ ninfo[f].csig = Absent
  BY <1>1 DEF Progress, Settled
<1>3. Shapes'
  BY <1>1 DEF Shapes, IsEntry, IsInfo, Reading
<1>4. FileTimes' /\ RecordTimes' /\ OneFilePerTime'
  BY <1>1 DEF FileTimes, RecordTimes, Stamped, OneFilePerTime, Copies
<1>5. Progress'
  BY <1>1, <1>2 DEF Progress, Settled, Busy, Saving
<1>6. TrueInv'
  <2>1. trusted' => /\ CacheTrue'
                    /\ \A f \in Files : StampTrue(db, f)' /\ RecipeTrue(db, f)'
    BY <1>1 DEF RecordTrue, StampTrue, RecipeTrue, CacheTrue
  <2> QED
    BY <1>1, <1>2, <2>1 DEF TrueInv, Settled, Saving, Targets
<1> QED
  BY <1>3, <1>4, <1>5, <1>6

(* A build that is told the truth computes or believes signatures that are *)
(* the files' own.                                                         *)
LEMMA CsigTrue ==
    ASSUME IInv, trusted, pc \in Reading, NEW f \in Files
    PROVE  Csig(f) = disk[f].content
<1>1. entries = db
  BY DEF IInv, BuildInv, RecordTimes
<1>2. StampTrue(db, f) /\ ninfo[f].csig \in {Absent, disk[f].content}
  BY DEF IInv, TrueInv, Reading, Busy
<1>3. Drifted(f) => entries[f].csig = disk[f].content
  BY <1>1, <1>2 DEF Drifted, StampTrue
<1> QED
  BY <1>2, <1>3 DEF Csig

LEMMA SigsTrue ==
    ASSUME IInv, trusted, pc \in Reading, NEW t \in Files
    PROVE  Sigs(t) = Contents(t)
  BY CsigTrue, KidsAreFiles DEF Sigs, Contents

(* Asking for the children's signatures. *)
LEMMA AskedFacts ==
    ASSUME IInv, pc \in Reading, NEW t \in Files, \A k \in ToSet(Kids[t]) : Settled(k)
    PROVE  /\ Asked(t) = [f \in Files |-> Asked(t)[f]]
           /\ \A f \in Files :
                /\ IsInfo(Asked(t)[f]) /\ Asked(t)[f].stamp = ninfo[f].stamp
                /\ ninfo[f].csig # Absent => Asked(t)[f].csig # Absent
                /\ ~Settled(f) => Asked(t)[f].csig = Absent
                /\ trusted => Asked(t)[f].csig \in {Absent, disk[f].content}
<1>1. Asked(t) = [f \in Files |-> Asked(t)[f]]
  BY DEF Asked
<1>2. ASSUME NEW f \in Files
      PROVE  /\ IsInfo(Asked(t)[f]) /\ Asked(t)[f].stamp = ninfo[f].stamp
             /\ Asked(t)[f].csig = IF f \in ToSet(Kids[t]) THEN Csig(f) ELSE ninfo[f].csig
  BY <1>2 DEF Asked, IInv, BuildInv, Shapes, IsInfo
<1>3. ASSUME NEW f \in Files
      PROVE  /\ ninfo[f].csig # Absent => Csig(f) = ninfo[f].csig
             /\ trusted => Csig(f) = disk[f].content
             /\ ~Settled(f) => ninfo[f].csig = Absent
             /\ trusted => ninfo[f].csig \in {Absent, disk[f].content}
  BY <1>3, CsigTrue DEF Csig, IInv, BuildInv, Progress, TrueInv
<1> QED
  BY <1>1, <1>2, <1>3

(* What the steps that only look, and change nothing but what the build    *)
(* knows, leave of the invariant.                                          *)
LEMMA LookingStep ==
    ASSUME IInv, NEW f \in Files, Ready(f), 
           f \in Sources \/ UpToDate(f),
           ninfo' = [g \in Files |-> ninfo'[g]],
           \A g \in Files : /\ IsInfo(ninfo'[g])
                            /\ g # f => ninfo'[g].stamp = ninfo[g].stamp
                            /\ ninfo[g].csig # Absent => ninfo'[g].csig # Absent
                            /\ g # f /\ ~Settled(g) => ninfo'[g].csig = Absent
                            /\ trusted => ninfo'[g].csig \in {Absent, disk[g].content},
           ninfo'[f].stamp = disk[f].mtime,
           seen' = [seen EXCEPT ![f] = "visited"],
           UNCHANGED <<world, db, cache, pc, tops, entries, cur, complete, trusted>>
    PROVE  IInv'
<1> USE DEF IInv, BuildInv
<1>1. /\ pc = "walk" /\ pc \in Reading /\ seen[f] = "no" /\ ~complete
      /\ \A k \in ToSet(Kids[f]) : Settled(k)
      /\ \A g \in Files : seen'[g] = IF g = f THEN "visited" ELSE seen[g]
      /\ UNCHANGED <<now, disk, action, db, cache, pc, tops, entries, cur, complete, trusted>>
  <2>1. pc = "walk" /\ \A g \in Files : seen[g] \in {"no", "visited", "made"}
    BY DEF Ready, Progress, Saving, Shapes
  <2> QED
    BY <2>1, KidsAreFiles DEF Ready, Reading, Shapes, world, Progress, Saving, Settled
<1>2. Shapes'
  BY <1>1 DEF Shapes, IsEntry, IsInfo
<1>3. FileTimes' /\ RecordTimes'
  BY <1>1 DEF FileTimes, RecordTimes, Stamped
<1>4. OneFilePerTime'
  BY <1>1 DEF OneFilePerTime, Copies, FileTimes, Targets
<1>5. disk[f].content # Absent
  BY DEF UpToDate, FileTimes
<1>6. \A g \in Files : Settled(g)' <=> Settled(g) \/ g = f
  BY <1>1 DEF Settled
<1>7. Progress'
  BY <1>1, <1>5, <1>6, KidsAreFiles DEF Progress, Busy, Saving
<1>8. TrueInv'
  <2> SUFFICES ASSUME trusted
               PROVE  TrueInv'
    BY <1>1 DEF TrueInv
  <2>1. f \in Targets => disk[f].content = Output(action[f], Contents(f))
    <3>1. f \in Targets => /\ entries[f].from = Contents(f) /\ entries[f].act = action[f]
                           /\ entries = db /\ RecipeTrue(db, f)
      BY <1>1, SigsTrue DEF UpToDate, RecordTimes, TrueInv, Targets, Making
    <3>2. f \in Targets => action[f] # 0
      BY SconsignAssumption DEF Shapes
    <3> QED
      BY <1>5, <3>1, <3>2 DEF RecipeTrue
  <2>2. \A t \in Targets : Settled(t)' => disk[t].content = Output(action[t], Contents(t))
    BY <1>1, <1>6, <2>1 DEF TrueInv, Targets
  <2>3. \A t \in Targets : Contents(t)' = Contents(t)
    BY <1>1 DEF Contents
  <2>4. CacheTrue' /\ \A g \in Files : StampTrue(db, g)'
    BY <1>1 DEF TrueInv, CacheTrue, StampTrue
  <2>5. \A g \in Files : seen'[g] # "made" /\ ~Making(g)' => RecipeTrue(db, g)'
    BY <1>1 DEF TrueInv, RecipeTrue, Making
  <2> QED
    BY <1>1, <2>2, <2>3, <2>4, <2>5 DEF TrueInv, Saving
<1> QED
  BY <1>2, <1>3, <1>4, <1>7, <1>8

LEMMA VisitedFacts ==
    ASSUME IInv, pc \in Reading, NEW f \in Files, seen[f] = "no"
    PROVE  /\ Visited(f).stamp = disk[f].mtime
           /\ trusted => Visited(f).csig \in {Absent, disk[f].content}
<1>1. entries = db /\ ninfo[f].csig = Absent
  BY DEF IInv, BuildInv, RecordTimes, Progress, Settled
<1>2. trusted => StampTrue(db, f)
  BY DEF IInv, TrueInv, Reading, Busy
<1> QED
  BY <1>1, <1>2 DEF Visited, Drifted, StampTrue

LEMMA VisitSourceStep ==
    ASSUME IInv, NEW s \in Sources, VisitSource(s)
    PROVE  IInv'
<1> USE DEF IInv, BuildInv
<1>1. /\ s \in Files /\ Ready(s) /\ pc \in Reading /\ seen[s] = "no"
      /\ ninfo' = [ninfo EXCEPT ![s] = Visited(s)]
      /\ seen' = [seen EXCEPT ![s] = "visited"]
      /\ UNCHANGED <<world, db, cache, pc, tops, entries, cur, complete, trusted>>
  BY DEF VisitSource, Ready, Sources, Reading
<1>2. \A g \in Files : ninfo'[g] = IF g = s THEN Visited(s) ELSE ninfo[g]
  BY <1>1 DEF Shapes
<1>3. ninfo[s].csig = Absent
  BY <1>1 DEF Progress, Settled
<1>4. IsInfo(Visited(s))
  BY DEF Visited, IsInfo
<1>5. ninfo' = [g \in Files |-> ninfo'[g]]
  BY <1>1 DEF Shapes
<1>6. \A g \in Files : /\ IsInfo(ninfo'[g])
                       /\ g # s => ninfo'[g].stamp = ninfo[g].stamp
                       /\ ninfo[g].csig # Absent => ninfo'[g].csig # Absent
                       /\ g # s /\ ~Settled(g) => ninfo'[g].csig = Absent
                       /\ trusted => ninfo'[g].csig \in {Absent, disk[g].content}
  BY <1>1, <1>2, <1>3, <1>4, VisitedFacts DEF Shapes, Progress, TrueInv
<1>7. ninfo'[s].stamp = disk[s].mtime
  BY <1>1, <1>2, VisitedFacts
<1> QED
  BY <1>1, <1>5, <1>6, <1>7, LookingStep

LEMMA VisitTargetStep ==
    ASSUME IInv, NEW t \in Targets, VisitTarget(t)
    PROVE  IInv'
<1> USE DEF IInv, BuildInv
<1>1. /\ t \in Files /\ Ready(t) /\ pc \in Reading /\ seen[t] = "no" /\ UpToDate(t)
      /\ ninfo' = [Asked(t) EXCEPT ![t] = Visited(t)]
      /\ seen' = [seen EXCEPT ![t] = "visited"]
      /\ UNCHANGED <<world, db, cache, pc, tops, entries, cur, complete, trusted>>
  BY DEF VisitTarget, Ready, Targets, Reading
<1>2. \A k \in ToSet(Kids[t]) : Settled(k)
  BY <1>1, KidsAreFiles DEF Ready, Progress, Settled, Saving, Shapes
<1>3. \A g \in Files : ninfo'[g] = IF g = t THEN Visited(t) ELSE Asked(t)[g]
  BY <1>1, <1>2, AskedFacts
<1>4. ninfo[t].csig = Absent
  BY <1>1 DEF Progress, Settled
<1>5. IsInfo(Visited(t))
  BY DEF Visited, IsInfo
<1>6. ninfo' = [g \in Files |-> ninfo'[g]]
  BY <1>1, <1>2, AskedFacts
<1>7. \A g \in Files : /\ IsInfo(ninfo'[g])
                       /\ g # t => ninfo'[g].stamp = ninfo[g].stamp
                       /\ ninfo[g].csig # Absent => ninfo'[g].csig # Absent
                       /\ g # t /\ ~Settled(g) => ninfo'[g].csig = Absent
                       /\ trusted => ninfo'[g].csig \in {Absent, disk[g].content}
  <2>1. \A g \in Files : /\ IsInfo(Asked(t)[g]) /\ Asked(t)[g].stamp = ninfo[g].stamp
                         /\ ninfo[g].csig # Absent => Asked(t)[g].csig # Absent
                         /\ ~Settled(g) => Asked(t)[g].csig = Absent
                         /\ trusted => Asked(t)[g].csig \in {Absent, disk[g].content}
    BY <1>1, <1>2, AskedFacts
  <2>2. trusted => Visited(t).csig \in {Absent, disk[t].content}
    BY <1>1, VisitedFacts
  <2> TAKE g \in Files
  <2>3. CASE g = t
    BY <1>3, <1>4, <1>5, <2>2, <2>3
  <2>4. CASE g # t
    <3>1. ninfo'[g] = Asked(t)[g]
      BY <1>3, <2>4
    <3>2. Asked(t)[g].stamp = ninfo[g].stamp
      BY <2>1
    <3> QED
      BY <2>1, <2>4, <3>1, <3>2
  <2> QED
    BY <2>3, <2>4
<1>8. ninfo'[t].stamp = disk[t].mtime
  BY <1>1, <1>3, VisitedFacts
<1> QED
  BY <1>1, <1>6, <1>7, <1>8, LookingStep

-----------------------------------------------------------------------------
(* A target is made. *)

LEMMA PrepareStep ==
    ASSUME IInv, NEW t \in Targets, Prepare(t)
    PROVE  IInv'
<1> USE DEF IInv, BuildInv
<1>1. /\ t \in Files /\ t \notin Sources /\ pc = "walk" /\ pc \in Reading /\ seen[t] = "no"
      /\ ~complete /\ pc' = "execute" /\ cur' = t
      /\ ninfo' = Asked(t)
      /\ disk' = [disk EXCEPT ![t] = [content |-> Absent, mtime |-> 0]]
      /\ UNCHANGED <<now, action, db, cache, tops, entries, seen, complete, trusted>>
  BY DEF Prepare, Ready, Targets, Reading, Progress, Saving
<1>2. \A k \in ToSet(Kids[t]) : Settled(k)
  BY <1>1, KidsAreFiles DEF Prepare, Ready, Progress, Settled, Saving, Shapes
<1>3. \A f \in Files : disk'[f] = IF f = t THEN [content |-> Absent, mtime |-> 0] ELSE disk[f]
  BY <1>1 DEF Shapes
<1>3a. \A f \in Files :
          /\ IsInfo(ninfo'[f]) /\ ninfo'[f].stamp = ninfo[f].stamp
          /\ ninfo[f].csig # Absent => ninfo'[f].csig # Absent
          /\ ~Settled(f) => ninfo'[f].csig = Absent
          /\ trusted => ninfo'[f].csig \in {Absent, disk[f].content}
  BY <1>1, <1>2, AskedFacts
<1>4. Shapes'
  <2>1. disk' = [f \in Files |-> disk'[f]]
    BY <1>1, <1>3 DEF Shapes
  <2>2. ninfo' = [f \in Files |-> ninfo'[f]] /\ \A f \in Files : IsInfo(ninfo'[f])
    BY <1>1, <1>2, AskedFacts
  <2> QED
    BY <1>1, <2>1, <2>2 DEF Shapes, IsEntry, Reading, Busy
<1>5. FileTimes' /\ RecordTimes'
  BY <1>1, <1>3 DEF FileTimes, RecordTimes, Stamped, Shapes, Reading, Busy
<1>6. OneFilePerTime'
  <2>1. \A f \in Files : Copies(f)' \subseteq Copies(f) \cup {[content |-> Absent, mtime |-> 0]}
    BY <1>1, <1>3 DEF Copies
  <2>2. \A f \in Files : \A x \in Copies(f) : x.mtime = 0 => x.content = Absent
    BY DEF Copies, FileTimes
  <2> QED
    BY <1>1, <2>1, <2>2 DEF OneFilePerTime
<1>7. \A f \in Files : Settled(f)' <=> Settled(f)
  BY <1>1 DEF Settled
<1>8. Progress'
  <2>1. \A f \in Files : Settled(f) => disk'[f] = disk[f]
    BY <1>1, <1>3 DEF Settled
  <2>2. \A k \in ToSet(Kids[t]) : k \in Files
    BY <1>1, KidsAreFiles
  <2>3. \A f \in Files : Settled(f)' => /\ ninfo'[f].stamp = disk'[f].mtime
                                        /\ disk'[f].content # Absent
                                        /\ \A k \in ToSet(Kids[f]) : Settled(k)'
    BY <1>1, <1>7, <1>3a, <2>1, KidsAreFiles DEF Progress
  <2>4. \A f \in Files : /\ seen'[f] = "made" => ninfo'[f].csig # Absent
                         /\ ~Settled(f)' => ninfo'[f].csig = Absent
                         /\ seen'[f] # "failed"
    BY <1>1, <1>7, <1>3a DEF Progress, Saving
  <2> QED
    BY <1>1, <1>2, <1>7, <2>2, <2>3, <2>4 DEF Progress, Busy, Saving
<1>9. TrueInv'
  <2> SUFFICES ASSUME trusted
               PROVE  TrueInv'
    BY <1>1 DEF TrueInv
  <2>1. \A f \in Files : Settled(f) => f # t /\ disk'[f] = disk[f]
    BY <1>1, <1>3 DEF Settled
  <2>2. \A u \in Targets : Settled(u) => Contents(u)' = Contents(u)
    BY <2>1, KidsAreFiles DEF Contents, Progress, Targets
  <2>3. \A u \in Targets : Settled(u)' => disk'[u].content = Output(action'[u], Contents(u)')
    BY <1>1, <1>7, <2>1, <2>2 DEF TrueInv, Targets
  <2>4. CacheTrue' /\ \A f \in Files : StampTrue(db, f)'
    <3>1. CacheTrue'
      BY <1>1 DEF TrueInv, CacheTrue
    <3>2. ASSUME NEW f \in Files
          PROVE  StampTrue(db, f)'
      <4>1. StampTrue(db, f)
        BY <1>1 DEF TrueInv
      <4>2. db[f].csig # Absent => db[f].stamp # 0
        BY DEF RecordTimes, Stamped, Shapes
      <4> QED
        BY <1>1, <1>3, <4>1, <4>2 DEF StampTrue
    <3> QED
      BY <3>1, <3>2
  <2>5. \A f \in Files : seen'[f] # "made" /\ ~Making(f)' => RecipeTrue(db, f)'
    BY <1>1, <1>3 DEF TrueInv, RecipeTrue, Making
  <2>6. \A f \in Files : ninfo'[f].csig \in {Absent, disk'[f].content}
    <3>1. ninfo'[t].csig = Absent
      BY <1>1, <1>2, AskedFacts DEF Settled
    <3> TAKE f \in Files
    <3>2. ninfo'[f].csig \in {Absent, disk[f].content}
      BY <1>3a
    <3>3. f # t => disk'[f] = disk[f]
      BY <1>3
    <3> QED
      BY <3>1, <3>2, <3>3
  <2> QED
    BY <1>1, <2>3, <2>4, <2>5, <2>6 DEF TrueInv, Saving
<1> QED
  BY <1>4, <1>5, <1>6, <1>8, <1>9

LEMMA ExecuteStep ==
    ASSUME IInv, Execute
    PROVE  IInv'
<1> USE DEF IInv, BuildInv
<1>1. /\ pc = "execute" /\ pc \in Reading /\ pc' \in {"copy", "build"} /\ pc' \in Reading
      /\ cur \in Targets /\ cur \in Files /\ cur \notin Sources /\ seen[cur] = "no"
      /\ now \in Nat \ {0} /\ ~complete
      /\ disk' = [disk EXCEPT ![cur] = [content |-> Partial, mtime |-> now]]
      /\ UNCHANGED <<now, action, db, cache, tops, entries, ninfo, seen, cur, complete, trusted>>
  BY DEF Execute, Targets, Reading, Busy, Progress, Saving, Shapes, session
<1>2. \A f \in Files : disk'[f] = IF f = cur THEN [content |-> Partial, mtime |-> now] ELSE disk[f]
  BY <1>1 DEF Shapes
<1>3. Shapes'
  BY <1>1, <1>2 DEF Shapes, IsEntry, IsInfo
<1>4. FileTimes' /\ RecordTimes'
  BY <1>1, <1>2, Contentful DEF FileTimes, RecordTimes, Stamped
<1>5. OneFilePerTime'
  <2>1. \A e \in cache : e.sig.path = cur => e.file.mtime # now
    BY <1>1 DEF OneFilePerTime
  <2>2. \A f \in Files : f # cur => Copies(f)' = Copies(f)
    BY <1>1, <1>2 DEF Copies
  <2>3. \A x \in Copies(cur)' : \/ x = [content |-> Partial, mtime |-> now]
                                \/ x \in Copies(cur) /\ x.mtime # now
    BY <1>1, <1>2, <2>1 DEF Copies
  <2> QED
    BY <1>1, <2>2, <2>3 DEF OneFilePerTime
<1>6. Progress'
  <2>1. \A f \in Files : Settled(f) => disk'[f] = disk[f]
    BY <1>1, <1>2 DEF Settled
  <2>2. \A f \in Files : Settled(f)' <=> Settled(f)
    BY <1>1 DEF Settled
  <2> QED
    BY <1>1, <2>1, <2>2, KidsAreFiles DEF Progress, Busy, Saving
<1>7. TrueInv'
  <2> SUFFICES ASSUME trusted
               PROVE  TrueInv'
    BY <1>1 DEF TrueInv
  <2>1. \A f \in Files : Settled(f) => f # cur /\ disk'[f] = disk[f]
    BY <1>1, <1>2 DEF Settled
  <2>2. \A t \in Targets : Settled(t)' => disk'[t].content = Output(action'[t], Contents(t)')
    <3>1. \A t \in Targets : Settled(t) => Contents(t)' = Contents(t)
      BY <2>1, KidsAreFiles DEF Contents, Progress, Targets
    <3> QED
      BY <1>1, <2>1, <3>1 DEF TrueInv, Targets, Settled
  <2>3. CacheTrue'
    BY <1>1 DEF TrueInv, CacheTrue
  <2>4. ASSUME NEW f \in Files
        PROVE  StampTrue(db, f)'
    <3>1. StampTrue(db, f)
      BY <1>1 DEF TrueInv
    <3>2. db[f].csig # Absent => db[f].stamp # now
      BY <1>1 DEF RecordTimes, Stamped
    <3> QED
      BY <1>1, <1>2, <3>1, <3>2 DEF StampTrue
  <2>5. \A f \in Files : seen'[f] # "made" /\ ~Making(f)' => RecipeTrue(db, f)'
    BY <1>1, <1>2 DEF TrueInv, RecipeTrue, Making
  <2>6. \A f \in Files : ninfo'[f].csig \in {Absent, disk'[f].content}
    BY <1>1, <1>2 DEF TrueInv, Progress, Settled
  <2> QED
    BY <1>1, <2>2, <2>3, <2>4, <2>5, <2>6 DEF TrueInv, Saving
<1> QED
  BY <1>3, <1>4, <1>5, <1>6, <1>7

(* What built() and visited() leave, wherever the file is from: it is in   *)
(* the cache already, or is the only thing of its time.                    *)
LEMMA MadeStep ==
    ASSUME IInv, pc \in {"copy", "build"}, NEW file, Made(file),
           file.mtime \in 1..now, file.content # Absent,
           trusted => file.content = Output(action[cur], Contents(cur)),
           (\E e \in cache : e.sig.path = cur /\ e.file = file) \/ file.mtime = now,
           cache \subseteq cache',
           \A e \in cache' : e \in cache \/ e = [sig |-> CacheSig(cur), file |-> file]
    PROVE  IInv'
<1> USE DEF IInv, BuildInv
<1>1. /\ pc \in Busy /\ pc \in Reading /\ pc' = "walk" /\ pc' \in Reading
      /\ cur \in Targets /\ cur \in Files /\ cur \notin Sources /\ seen[cur] = "no"
      /\ now \in Nat \ {0} /\ ~complete
      /\ \A k \in ToSet(Kids[cur]) : Settled(k)
      /\ disk' = [disk EXCEPT ![cur] = file]
      /\ ninfo' = [ninfo EXCEPT ![cur] = Updated(cur, file)]
      /\ seen' = [seen EXCEPT ![cur] = "made"]
      /\ UNCHANGED <<now, action, db, tops, entries, cur, complete, trusted>>
  BY DEF Made, Targets, Reading, Busy, Progress, Saving, Shapes
<1>2. \A f \in Files : disk'[f] = IF f = cur THEN file ELSE disk[f]
  BY <1>1 DEF Shapes
<1>3. \A f \in Files : ninfo'[f] = IF f = cur THEN Updated(cur, file) ELSE ninfo[f]
  BY <1>1 DEF Shapes
<1>4. \A f \in Files : seen'[f] = IF f = cur THEN "made" ELSE seen[f]
  BY <1>1 DEF Shapes
<1>5. \A e \in cache' : e \in cache \/ /\ e.sig.path = cur /\ e.sig.act = action[cur]
                                       /\ e.sig.from = Sigs(cur) /\ e.file = file
  BY DEF CacheSig
<1>6. entries = db /\ \A f \in Files : db[f].csig # Absent => db[f].stamp \in 1..now - 1
  BY <1>1 DEF RecordTimes, Stamped
<1>7. \A f \in Files : Settled(f) => f # cur /\ disk'[f] = disk[f]
  BY <1>1, <1>2 DEF Settled
<1>8. \A f \in Files : Settled(f)' <=> Settled(f) \/ f = cur
  BY <1>4 DEF Settled
<1>9. Shapes'
  <2>1. disk' = [f \in Files |-> disk'[f]]
    BY <1>1 DEF Shapes
  <2>2. ninfo' = [f \in Files |-> ninfo'[f]]
    BY <1>1 DEF Shapes
  <2>3. \A f \in Files : IsInfo(ninfo'[f])
    BY <1>3 DEF Shapes, IsInfo, Updated
  <2>4. seen' \in [Files -> {"no", "visited", "made", "failed"}]
    BY <1>1 DEF Shapes
  <2> QED
    BY <1>1, <2>1, <2>2, <2>3, <2>4 DEF Shapes, IsEntry
<1>10. FileTimes'
  BY <1>1, <1>2, <1>5 DEF FileTimes
<1>11. RecordTimes'
  BY <1>1 DEF RecordTimes, Stamped
<1>12. OneFilePerTime'
  <2>1. \A e \in cache : e.sig.path = cur => e.file.mtime # now
    BY <1>1 DEF OneFilePerTime
  <2>2. \A f \in Files : f # cur => Copies(f)' \subseteq Copies(f)
    BY <1>1, <1>2, <1>5 DEF Copies
  <2>3. \A x \in Copies(cur)' : x = file \/ \E e \in cache : e.sig.path = cur /\ e.file = x
    BY <1>2, <1>1, <1>5 DEF Copies
  <2>4. \A x, y \in Copies(cur)' : x.mtime = y.mtime => x.content = y.content
    <3>1. \A e, d \in cache : e.sig.path = cur /\ d.sig.path = cur /\ e.file.mtime = d.file.mtime
                                => e.file.content = d.file.content
      BY <1>1 DEF OneFilePerTime, Copies
    <3> QED
      BY <2>1, <2>3, <3>1
  <2>5. \A e \in cache' : e.file.mtime = now => seen'[e.sig.path] = "made"
    BY <1>1, <1>4, <1>5 DEF OneFilePerTime, FileTimes, Targets
  <2> QED
    BY <1>1, <2>2, <2>4, <2>5 DEF OneFilePerTime
<1>13. Updated(cur, file).csig # Absent /\ Updated(cur, file).stamp = file.mtime
  BY DEF Updated
<1>14. Progress'
  <2>1. \A f \in Files : Settled(f)' => /\ ninfo'[f].stamp = disk'[f].mtime
                                        /\ disk'[f].content # Absent
    BY <1>2, <1>3, <1>7, <1>8, <1>13 DEF Progress
  <2>2. \A f \in Files : Settled(f)' => \A k \in ToSet(Kids[f]) : Settled(k)'
    BY <1>1, <1>8, KidsAreFiles DEF Progress
  <2>3. \A f \in Files : /\ seen'[f] = "made" => ninfo'[f].csig # Absent
                         /\ ~Settled(f)' => ninfo'[f].csig = Absent
                         /\ seen'[f] # "failed"
    BY <1>1, <1>3, <1>4, <1>8, <1>13 DEF Progress, Saving, Busy
  <2> QED
    BY <1>1, <2>1, <2>2, <2>3 DEF Progress, Busy, Saving
<1>15. TrueInv'
  <2> SUFFICES ASSUME trusted
               PROVE  TrueInv'
    BY <1>1 DEF TrueInv
  <2>1. CacheTrue'
    BY <1>1, <1>5, SigsTrue DEF TrueInv, CacheTrue
  <2>2. \A f \in Files : Settled(f) => Contents(f)' = Contents(f)
    BY <1>7, KidsAreFiles DEF Contents, Progress
  <2>3. Contents(cur)' = Contents(cur)
    BY <1>1, <1>7, KidsAreFiles DEF Contents
  <2>4. \A t \in Targets : Settled(t)' => disk'[t].content = Output(action'[t], Contents(t)')
    <3> TAKE t \in Targets
    <3>1. CASE t = cur
      BY <1>1, <1>2, <2>3, <3>1
    <3>2. CASE t # cur
      BY <1>1, <1>7, <1>8, <2>2, <3>2 DEF TrueInv, Targets
    <3> QED
      BY <3>1, <3>2
  <2>5. StampTrue(db, cur)
    BY <1>1 DEF TrueInv, Reading, Busy
  <2>6. db[cur].csig # Absent /\ db[cur].stamp = file.mtime => db[cur].csig = file.content
    BY <1>1, <1>6, <2>5 DEF StampTrue
  <2>7. ASSUME NEW f \in Files
        PROVE  StampTrue(db, f)'
    <3>1. StampTrue(db, f)
      BY <1>1 DEF TrueInv, Reading, Busy
    <3>2. CASE f = cur
      BY <1>1, <1>2, <1>5, <2>6, <3>1, <3>2 DEF StampTrue
    <3>3. CASE f # cur
      BY <1>1, <1>2, <1>5, <3>1, <3>3 DEF StampTrue
    <3> QED
      BY <3>2, <3>3
  <2>8. \A f \in Files : seen'[f] # "made" /\ ~Making(f)' => RecipeTrue(db, f)'
    BY <1>1, <1>2, <1>4 DEF TrueInv, RecipeTrue, Making, Reading, Busy
  <2>9. Updated(cur, file).csig = file.content
    BY <1>6, <2>6 DEF Updated
  <2>10. \A f \in Files : ninfo'[f].csig \in {Absent, disk'[f].content}
    BY <1>1, <1>2, <1>3, <2>9 DEF TrueInv
  <2> QED
    BY <1>1, <2>1, <2>4, <2>7, <2>8, <2>10 DEF TrueInv, Saving
<1> QED
  BY <1>9, <1>10, <1>11, <1>12, <1>14, <1>15

LEMMA CopiedStep ==
    ASSUME IInv, Copied
    PROVE  IInv'
<1> USE DEF IInv, BuildInv
<1>1. PICK e \in Cached(cur) : Made(e.file)
  BY DEF Copied
<1>2. /\ e \in cache /\ e.sig.path = cur /\ e.sig.act = action[cur] /\ e.sig.from = Sigs(cur)
      /\ pc = "copy" /\ cur \in Files /\ cache' = cache
  BY DEF Copied, Cached, CacheSig, Progress, Busy, Targets
<1>3. e.file.mtime \in 1..now /\ e.file.content # Absent
  BY <1>2 DEF FileTimes
<1>4. trusted => e.file.content = Output(action[cur], Contents(cur))
  BY <1>2, SigsTrue DEF TrueInv, CacheTrue, Reading, Busy
<1> QED
  BY <1>1, <1>2, <1>3, <1>4, MadeStep

LEMMA BuiltStep ==
    ASSUME IInv, Built
    PROVE  IInv'
<1> USE DEF IInv, BuildInv
<1> DEFINE file == [content |-> Output(action[cur], Contents(cur)), mtime |-> now]
<1>1. /\ pc = "build" /\ Made(file)
      /\ \/ cache' = cache
         \/ cache' = cache \cup {[sig |-> CacheSig(cur), file |-> file]}
  BY DEF Built, Contents
<1>2. cur \in Targets /\ now \in Nat \ {0}
  BY <1>1 DEF Progress, Busy, Shapes
<1>3. file.mtime \in 1..now /\ file.content # Absent
  BY <1>2, Contentful DEF Shapes
<1>4. file.content = Output(action[cur], Contents(cur)) /\ file.mtime = now
  OBVIOUS
<1> HIDE DEF file
<1> QED
  BY <1>1, <1>3, <1>4, MadeStep

LEMMA FailedStep ==
    ASSUME IInv, Failed
    PROVE  IInv'
<1> USE DEF IInv, BuildInv
<1>1. /\ pc = "build" /\ pc \in Reading /\ pc' = "write" /\ pc' \in Reading
      /\ cur \in Targets /\ cur \in Files /\ cur \notin Sources /\ seen[cur] = "no"
      /\ ~complete
      /\ disk' = [disk EXCEPT ![cur] = [content |-> Absent, mtime |-> 0]]
      /\ seen' = [seen EXCEPT ![cur] = "failed"]
      /\ UNCHANGED <<now, action, db, cache, tops, entries, ninfo, cur, complete, trusted>>
  BY DEF Failed, Targets, Reading, Busy, Progress, Saving
<1>2. \A f \in Files : disk'[f] = IF f = cur THEN [content |-> Absent, mtime |-> 0] ELSE disk[f]
  BY <1>1 DEF Shapes
<1>3. \A f \in Files : seen'[f] = IF f = cur THEN "failed" ELSE seen[f]
  BY <1>1 DEF Shapes
<1>4. \A f \in Files : Settled(f) => f # cur /\ disk'[f] = disk[f]
  BY <1>1, <1>2 DEF Settled
<1>5. \A f \in Files : Settled(f)' <=> Settled(f)
  BY <1>1, <1>3 DEF Settled
<1>6. Shapes'
  <2>1. disk' = [f \in Files |-> disk'[f]]
    BY <1>1 DEF Shapes
  <2>2. seen' \in [Files -> {"no", "visited", "made", "failed"}]
    BY <1>1 DEF Shapes
  <2> QED
    BY <1>1, <2>1, <2>2 DEF Shapes, IsEntry, IsInfo
<1>7. FileTimes' /\ RecordTimes'
  BY <1>1, <1>2 DEF FileTimes, RecordTimes, Stamped, Shapes
<1>8. OneFilePerTime'
  <2>1. \A f \in Files : Copies(f)' \subseteq Copies(f) \cup {[content |-> Absent, mtime |-> 0]}
    BY <1>1, <1>2 DEF Copies
  <2>2. \A f \in Files : \A x \in Copies(f) : x.mtime = 0 => x.content = Absent
    BY DEF Copies, FileTimes
  <2>3. \A e \in cache : e.file.mtime = now => seen'[e.sig.path] = "made"
    BY <1>1, <1>3 DEF OneFilePerTime, FileTimes, Targets
  <2> QED
    BY <1>1, <2>1, <2>2, <2>3 DEF OneFilePerTime
<1>9. Progress'
  <2>1. \A f \in Files : Settled(f)' => /\ ninfo'[f].stamp = disk'[f].mtime
                                        /\ disk'[f].content # Absent
                                        /\ \A k \in ToSet(Kids[f]) : Settled(k)'
    BY <1>1, <1>4, <1>5, KidsAreFiles DEF Progress
  <2>2. \A f \in Files : /\ seen'[f] = "made" => ninfo'[f].csig # Absent
                         /\ ~Settled(f)' => ninfo'[f].csig = Absent
    BY <1>1, <1>3, <1>5 DEF Progress
  <2> QED
    BY <1>1, <2>1, <2>2 DEF Progress, Busy, Saving
<1>10. TrueInv'
  <2> SUFFICES ASSUME trusted
               PROVE  TrueInv'
    BY <1>1 DEF TrueInv
  <2>1. CacheTrue'
    BY <1>1 DEF TrueInv, CacheTrue
  <2>2. \A t \in Targets : Settled(t)' => disk'[t].content = Output(action'[t], Contents(t)')
    <3>1. \A t \in Targets : Settled(t) => Contents(t)' = Contents(t)
      BY <1>4, KidsAreFiles DEF Contents, Progress, Targets
    <3> QED
      BY <1>1, <1>4, <1>5, <3>1 DEF TrueInv, Targets
  <2>3. ASSUME NEW f \in Files
        PROVE  StampTrue(db, f)'
    <3>1. StampTrue(db, f)
      BY <1>1 DEF TrueInv
    <3>2. db[f].csig # Absent => db[f].stamp # 0
      BY DEF RecordTimes, Stamped, Shapes
    <3> QED
      BY <1>1, <1>2, <3>1, <3>2 DEF StampTrue
  <2>4. \A f \in Files : seen'[f] # "made" => RecipeTrue(db, f)'
    BY <1>1, <1>2, <1>3 DEF TrueInv, RecipeTrue, Making
  <2>5. \A f \in Files : ninfo'[f].csig \in {Absent, disk'[f].content}
    BY <1>1, <1>2 DEF TrueInv, Progress, Settled
  <2> QED
    BY <1>1, <2>1, <2>2, <2>3, <2>4, <2>5 DEF TrueInv, Saving
<1> QED
  BY <1>6, <1>7, <1>8, <1>9, <1>10

-----------------------------------------------------------------------------
(* The build ends, and its record is saved. *)

LEMMA EndStep ==
    ASSUME IInv, Interrupt \/ Finish
    PROVE  IInv'
<1> USE DEF IInv, BuildInv
<1>1. /\ pc = "walk" /\ pc \in Reading /\ pc' = "write" /\ pc' \in Reading /\ ~complete
      /\ UNCHANGED <<now, disk, action, db, cache, tops, entries, ninfo, seen, cur, trusted>>
      /\ complete' \in BOOLEAN
      /\ complete' => \A f \in tops : seen[f] # "no"
  <2>1. pc = "walk" /\ pc' = "write" /\ ~complete
    BY DEF Interrupt, Finish, Progress, Saving
  <2>2. CASE Interrupt
    BY <2>1, <2>2 DEF Interrupt, session, world, Reading, Shapes
  <2>3. CASE Finish
    <3>1. UNCHANGED <<now, disk, action, db, cache, tops, entries, ninfo, seen, cur, trusted>>
      BY <2>3 DEF Finish, world
    <3>2. complete' = TRUE /\ \A f \in tops : seen[f] # "no"
      BY <2>3 DEF Finish
    <3>3. complete' \in BOOLEAN
      BY <3>2
    <3> QED
      BY <2>1, <3>1, <3>2, <3>3 DEF Reading
  <2> QED
    BY <2>2, <2>3
<1>2. \A f \in tops : f \in Files /\ (seen[f] # "no" => Settled(f))
  BY <1>1 DEF Shapes, Progress, Saving, Settled
<1>3. Shapes'
  BY <1>1 DEF Shapes, IsEntry, IsInfo
<1>4. FileTimes' /\ RecordTimes' /\ OneFilePerTime'
  BY <1>1 DEF FileTimes, RecordTimes, Stamped, OneFilePerTime, Copies
<1>5. Progress'
  BY <1>1, <1>2 DEF Progress, Settled, Busy, Saving
<1>6. TrueInv'
  <2>1. \A f \in Files : ~Making(f) /\ ~Making(f)'
    BY <1>1 DEF Making
  <2>2. \A f \in Files : /\ StampTrue(db, f) => StampTrue(db, f)'
                         /\ RecipeTrue(db, f) => RecipeTrue(db, f)'
                         /\ Contents(f)' = Contents(f)
                         /\ Settled(f)' <=> Settled(f)
    BY <1>1 DEF StampTrue, RecipeTrue, Contents, Settled
  <2>3. CacheTrue => CacheTrue'
    BY <1>1 DEF CacheTrue
  <2> QED
    BY <1>1, <2>1, <2>2, <2>3 DEF TrueInv, Saving, Targets
<1> QED
  BY <1>3, <1>4, <1>5, <1>6

LEMMA MergedFacts ==
    ASSUME IInv, pc = "write", NEW f \in Files
    PROVE  /\ IsEntry(Merged(f))
           /\ ~Settled(f) => Merged(f) = entries[f]
           /\ Settled(f) => /\ Merged(f).stamp = disk[f].mtime
                            /\ ninfo[f].csig # Absent => Merged(f).csig = ninfo[f].csig
                            /\ f \in Targets => /\ Merged(f).act = action[f]
                                                /\ Merged(f).from = Sigs(f)
<1> USE DEF IInv, BuildInv
<1>1. IsEntry(entries[f])
  BY DEF Shapes
<1>2. Settled(f) => ninfo[f].stamp = disk[f].mtime
  BY DEF Progress
<1>3. f \in Targets <=> f \notin Sources
  BY KidsAreFiles
<1> QED
  BY <1>1, <1>2, <1>3 DEF Merged, Settled, IsEntry

LEMMA WriteStep ==
    ASSUME IInv, Write
    PROVE  IInv'
<1> USE DEF IInv, BuildInv
<1>1. /\ pc = "write" /\ pc \in Reading /\ pc' = "unlink" /\ pc' \in Saving /\ pc' \notin Reading
      /\ entries' = [f \in Files |-> Merged(f)]
      /\ UNCHANGED <<now, disk, action, db, cache, tops, ninfo, seen, cur, complete, trusted>>
  BY DEF Write, Reading, Saving, Busy, world
<1>2. \A f \in Files : entries'[f] = Merged(f)
  BY <1>1
<1>3. Shapes'
  <2>1. \A f \in Files : IsEntry(entries'[f])
    BY <1>1, <1>2, MergedFacts
  <2>2. entries' = [f \in Files |-> entries'[f]]
    BY <1>1
  <2>3. \A f \in Files : IsEntry(db'[f]) /\ IsInfo(ninfo'[f])
    BY <1>1 DEF Shapes, IsEntry, IsInfo
  <2> QED
    BY <1>1, <2>1, <2>2, <2>3 DEF Shapes
<1>4. FileTimes' /\ OneFilePerTime'
  BY <1>1 DEF FileTimes, OneFilePerTime, Copies
<1>5. RecordTimes'
  <2> SUFFICES ASSUME NEW f \in Files, Merged(f).csig # Absent
               PROVE  Merged(f).stamp \in 1..now
    BY <1>1, <1>2 DEF RecordTimes, Stamped
  <2>1. Settled(f) => disk[f].mtime \in 1..now
    BY DEF Progress, FileTimes, Shapes
  <2> QED
    BY <1>1, <2>1, MergedFacts DEF RecordTimes, Stamped
<1>6. Progress'
  BY <1>1 DEF Progress, Settled, Busy, Saving
<1>7. TrueInv'
  <2> SUFFICES ASSUME trusted
               PROVE  TrueInv'
    BY <1>1 DEF TrueInv
  <2>1. \A f \in Files : /\ StampTrue(db, f) /\ StampTrue(db, f)'
                         /\ seen[f] # "made" => RecipeTrue(db, f) /\ RecipeTrue(db, f)'
                         /\ Contents(f)' = Contents(f)
                         /\ Settled(f)' <=> Settled(f)
                         /\ Unasked(f)' <=> Unasked(f)
    BY <1>1 DEF TrueInv, Making, StampTrue, RecipeTrue, Contents, Settled, Unasked
  <2>2. CacheTrue'
    BY <1>1 DEF CacheTrue, TrueInv
  <2>3. entries = db
    BY <1>1 DEF RecordTimes
  <2>4. ASSUME NEW f \in Files
        PROVE  RecipeTrue(entries, f)'
    <3>1. CASE Settled(f)
      <4>1. f \in Targets => /\ entries'[f].act = action[f] /\ entries'[f].from = Contents(f)
                             /\ disk[f].content = Output(action[f], Contents(f))
        BY <1>1, <1>2, <3>1, MergedFacts, SigsTrue DEF TrueInv
      <4> QED
        BY <1>1, <4>1 DEF RecipeTrue
    <3>2. CASE ~Settled(f)
      <4>1. entries'[f] = db[f] /\ RecipeTrue(db, f)
        BY <1>1, <1>2, <2>1, <2>3, <3>2, MergedFacts DEF Settled
      <4> QED
        BY <1>1, <4>1 DEF RecipeTrue
    <3> QED
      BY <3>1, <3>2
  <2>5. ASSUME NEW f \in Files, ~Unasked(f)
        PROVE  StampTrue(entries, f)'
    <3>1. CASE Settled(f)
      <4>1. ninfo[f].csig # Absent
        BY <2>5, <3>1 DEF Progress, Unasked, Settled
      <4>2. entries'[f].csig = disk[f].content /\ entries'[f].stamp = disk[f].mtime
        BY <1>1, <1>2, <3>1, <4>1, MergedFacts DEF TrueInv
      <4>3. \A file \in Copies(f) : file.mtime = disk[f].mtime => file.content = disk[f].content
        BY DEF OneFilePerTime, Copies
      <4> QED
        BY <1>1, <4>2, <4>3 DEF StampTrue, Copies
    <3>2. CASE ~Settled(f)
      <4>1. entries'[f] = db[f] /\ StampTrue(db, f)
        BY <1>1, <1>2, <2>1, <2>3, <3>2, MergedFacts
      <4> QED
        BY <1>1, <4>1 DEF StampTrue
    <3> QED
      BY <3>1, <3>2
  <2> QED
    BY <1>1, <2>1, <2>2, <2>4, <2>5 DEF TrueInv, Targets
<1> QED
  BY <1>3, <1>4, <1>5, <1>6, <1>7

LEMMA UnlinkRecordStep ==
    ASSUME IInv, UnlinkRecord
    PROVE  IInv'
<1> USE DEF IInv, BuildInv
<1>1. /\ pc = "unlink" /\ pc \in Saving /\ pc' = "rename" /\ pc' \in Saving
      /\ pc' \notin Reading /\ pc' \notin Busy /\ pc \notin Busy
      /\ db' = NoEntries
      /\ UNCHANGED <<now, disk, action, cache, tops, entries, ninfo, seen, cur, complete, trusted>>
  BY DEF UnlinkRecord, Reading, Saving, Busy, world, session
<1>2. /\ db' = [f \in Files |-> db'[f]]
      /\ \A f \in Files : IsEntry(db'[f]) /\ db'[f].csig = Absent
  BY <1>1 DEF NoEntries, NoEntry, IsEntry
<1>3. Shapes'
  <2>1. \A f \in Files : IsEntry(entries'[f]) /\ IsInfo(ninfo'[f])
    BY <1>1 DEF Shapes, IsEntry, IsInfo
  <2> QED
    BY <1>1, <1>2, <2>1 DEF Shapes
<1>4. FileTimes' /\ OneFilePerTime'
  BY <1>1 DEF FileTimes, OneFilePerTime, Copies
<1>5. RecordTimes'
  BY <1>1, <1>2 DEF RecordTimes, Stamped
<1>6. Progress'
  BY <1>1 DEF Progress, Settled
<1>7. TrueInv'
  <2>1. \A f \in Files : /\ RecipeTrue(entries, f)' <=> RecipeTrue(entries, f)
                         /\ StampTrue(entries, f)' <=> StampTrue(entries, f)
                         /\ Unasked(f)' <=> Unasked(f)
                         /\ Settled(f)' <=> Settled(f)
                         /\ Contents(f)' = Contents(f)
    BY <1>1 DEF RecipeTrue, StampTrue, Unasked, Settled, Contents
  <2>2. CacheTrue' <=> CacheTrue
    BY <1>1 DEF CacheTrue
  <2> QED
    BY <1>1, <2>1, <2>2 DEF TrueInv, Targets
<1> QED
  BY <1>3, <1>4, <1>5, <1>6, <1>7

(* The process ends, with the record that is there. *)
LEMMA ExitStep ==
    ASSUME IInv, Exit, UNCHANGED <<world, cache>>, db' \in {db, entries}
    PROVE  IInv'
<1> USE DEF IInv, BuildInv
<1>1. /\ pc' = "off" /\ tops' = {} /\ entries' = NoEntries
      /\ complete' = FALSE /\ trusted' = FALSE
      /\ \A f \in Files : seen'[f] = "no" /\ ninfo'[f].csig = Absent
      /\ UNCHANGED <<now, disk, action, cache>>
  BY DEF Exit, Unknown, world
<1>2. Shapes'
  <2>1. db' = [f \in Files |-> db'[f]] /\ \A f \in Files : IsEntry(db'[f])
    BY DEF Shapes
  <2>2. entries' = [f \in Files |-> entries'[f]] /\ \A f \in Files : IsEntry(entries'[f])
    BY <1>1 DEF NoEntries, NoEntry, IsEntry
  <2>3. ninfo' = [f \in Files |-> ninfo'[f]] /\ \A f \in Files : IsInfo(ninfo'[f])
    BY DEF Exit, Unknown, IsInfo
  <2>4. seen' \in [Files -> {"no", "visited", "made", "failed"}]
    BY DEF Exit
  <2> QED
    BY <1>1, <2>1, <2>2, <2>3, <2>4 DEF Shapes
<1>3. FileTimes'
  BY <1>1 DEF FileTimes
<1>4. OneFilePerTime'
  BY <1>1 DEF OneFilePerTime, Copies
<1>5. RecordTimes'
  BY <1>1 DEF RecordTimes, Stamped, NoEntries, NoEntry, Reading, Busy
<1>6. Progress' /\ TrueInv'
  BY <1>1 DEF Progress, Settled, Busy, Saving, TrueInv
<1> QED
  BY <1>2, <1>3, <1>4, <1>5, <1>6

-----------------------------------------------------------------------------
(* The invariant of Spec that what follows is proved from. *)
THEOREM Invariance == Spec => []IInv
<1>1. Init => IInv
  BY InitIInv
<1>2. IInv /\ [Next]_vars => IInv'
  <2> SUFFICES ASSUME IInv, [Next]_vars
               PROVE  IInv'
    OBVIOUS
  <2>1. CASE \E s \in Sources : Edit(s) \/ VisitSource(s)
    BY <2>1, EditStep, VisitSourceStep
  <2>2. CASE \E t \in Targets : EditAction(t) \/ RemoveTarget(t) \/ VisitTarget(t) \/ Prepare(t)
    BY <2>2, EditActionStep, RemoveTargetStep, VisitTargetStep, PrepareStep
  <2>3. CASE Wait \/ Start
    BY <2>3, WaitStep, StartStep
  <2>4. CASE Execute \/ Copied \/ Built \/ Failed
    BY <2>4, ExecuteStep, CopiedStep, BuiltStep, FailedStep
  <2>5. CASE Interrupt \/ Finish \/ Write \/ UnlinkRecord
    BY <2>5, EndStep, WriteStep, UnlinkRecordStep
  <2>6. CASE RenameRecord \/ Kill
    BY <2>6, ExitStep DEF RenameRecord, Kill
  <2>7. CASE UNCHANGED vars
    <3>1. UNCHANGED <<now, disk, action, db, cache, pc, tops, entries, ninfo, seen, cur, complete, trusted>>
      BY <2>7 DEF vars, world
    <3>2. BuildInv'
      BY <3>1 DEF IInv, BuildInv, Shapes, IsEntry, IsInfo, FileTimes, RecordTimes, Stamped,
                  OneFilePerTime, Copies, Progress, Settled
    <3>3. \A f \in Files : /\ RecipeTrue(entries, f)' <=> RecipeTrue(entries, f)
                           /\ StampTrue(entries, f)' <=> StampTrue(entries, f)
                           /\ RecipeTrue(db, f)' <=> RecipeTrue(db, f)
                           /\ StampTrue(db, f)' <=> StampTrue(db, f)
                           /\ Unasked(f)' <=> Unasked(f)
                           /\ Settled(f)' <=> Settled(f)
                           /\ Making(f)' <=> Making(f)
                           /\ Contents(f)' = Contents(f)
      BY <3>1 DEF RecipeTrue, StampTrue, Unasked, Settled, Making, Contents
    <3>4. CacheTrue' <=> CacheTrue
      BY <3>1 DEF CacheTrue
    <3>5. TrueInv'
      BY <3>1, <3>3, <3>4 DEF IInv, TrueInv, Targets
    <3> QED
      BY <3>2, <3>5 DEF IInv
  <2> QED
    BY <2>1, <2>2, <2>3, <2>4, <2>5, <2>6, <2>7 DEF Next
<1> QED
  BY <1>1, <1>2, PTL DEF Spec

(* The record that a build saves is true of every file that is there,      *)
(* whether it was reached, was up to date, was made or failed, if the one  *)
(* that was read was: merge(), get_stored_info, Node/FS.py.                *)
THEOREM RecordStaysTrue == Spec => RecordKept
<1>1. IInv /\ [Next]_vars =>
        [pc = "rename" /\ db' = entries /\ trusted =>
           \A f \in Files : /\ RecipeTrue(entries, f)
                            /\ ~Unasked(f) => StampTrue(entries, f)]_<<pc, db>>
  BY DEF IInv, TrueInv, Saving
<1> QED
  BY <1>1, Invariance, PTL DEF Spec, RecordKept

(* What a build pushes to the cache is what its name says, although the    *)
(* name is made of signatures, some believed and not computed, and the     *)
(* content of the files (CacheDir.py, get_cachedir_bsig).                  *)
THEOREM CacheStaysTrue == Spec => CacheKept
<1>1. ASSUME IInv, [Next]_vars, trusted, NEW e \in cache' \ cache
      PROVE  e.file.content = Output(e.sig.act, e.sig.from)
  <2>1. Built
    BY <1>1 DEF Next, vars, world, Edit, VisitSource, EditAction, RemoveTarget, VisitTarget,
      Prepare, Wait, Start, Execute, Copied, Failed, Interrupt, Finish, Write, UnlinkRecord,
      RenameRecord, Kill
  <2>2. e = [sig |-> CacheSig(cur),
             file |-> [content |-> Output(action[cur], Contents(cur)), mtime |-> now]]
    BY <1>1, <2>1 DEF Built, Contents
  <2>3. Sigs(cur) = Contents(cur)
    BY <1>1, <2>1, SigsTrue DEF Built, IInv, BuildInv, Progress, Busy, Reading, Targets
  <2> QED
    BY <2>2, <2>3 DEF CacheSig
<1>2. IInv /\ [Next]_vars =>
        [trusted => \A e \in cache' \ cache : e.file.content = Output(e.sig.act, e.sig.from)]_cache
  BY <1>1
<1> QED
  BY <1>2, Invariance, PTL DEF Spec, CacheKept

(* A build that is killed leaves the signatures of the record true, and    *)
(* its recipes too but for what the build had made or was making; when the *)
(* record is being replaced, nothing is left that could be false           *)
(* (dblite.py, sync).                                                      *)
THEOREM KillStaysLocal == Spec => KillIsLocal
<1>1. IInv /\ [Next]_vars =>
        [pc # "off" /\ pc' = "off" /\ pc # "rename" /\ trusted =>
           \A f \in Files : /\ seen[f] # "made" /\ ~Making(f) => RecipeTrue(db, f)
                            /\ StampTrue(db, f)]_<<pc, db>>
  BY DEF IInv, TrueInv
<1> QED
  BY <1>1, Invariance, PTL DEF Spec, KillIsLocal

-----------------------------------------------------------------------------
(* Clean is defined by recursion on the children.  It is what it says,     *)
(* since no file is made of itself: of the functions that obey its         *)
(* equation on some files and on all that they are made of, any two agree, *)
(* and a largest one knows every file.                                     *)

Obeys(f, g) ==
  g[f] = IF f \in Sources THEN disk[f].content
         ELSE Output(action[f], [i \in DOMAIN Kids[f] |-> g[Kids[f][i]]])
Partly(g) ==
  /\ g = [f \in DOMAIN g |-> g[f]]
  /\ DOMAIN g \subseteq Files
  /\ \A f \in DOMAIN g : ToSet(Kids[f]) \subseteq DOMAIN g /\ Obeys(f, g)

LEMMA SomeFirst ==
    ASSUME NEW S \in SUBSET Files, S # {}
    PROVE  \E f \in S : \A k \in ToSet(Kids[f]) : k \notin S
  BY SconsignAssumption

LEMMA ObeysAgree ==
    ASSUME NEW f \in Files, NEW g, NEW h, \A k \in ToSet(Kids[f]) : g[k] = h[k],
           Obeys(f, g), Obeys(f, h)
    PROVE  g[f] = h[f]
<1>1. [i \in DOMAIN Kids[f] |-> g[Kids[f][i]]] = [i \in DOMAIN Kids[f] |-> h[Kids[f][i]]]
  BY KidsAreFiles
<1> QED
  BY <1>1 DEF Obeys

LEMMA ObeysToo ==
    ASSUME NEW f \in Files, NEW g, NEW h, \A k \in ToSet(Kids[f]) : g[k] = h[k],
           Obeys(f, g), g[f] = h[f]
    PROVE  Obeys(f, h)
<1>1. [i \in DOMAIN Kids[f] |-> g[Kids[f][i]]] = [i \in DOMAIN Kids[f] |-> h[Kids[f][i]]]
  BY KidsAreFiles
<1> QED
  BY <1>1 DEF Obeys

LEMMA PartlyAgree ==
    ASSUME NEW g, Partly(g), NEW h, Partly(h), NEW f \in DOMAIN g \cap DOMAIN h
    PROVE  g[f] = h[f]
<1> DEFINE S == {x \in DOMAIN g \cap DOMAIN h : g[x] # h[x]}
<1>1. S \in SUBSET Files
  BY DEF Partly
<1>2. ASSUME NEW x \in S, \A k \in ToSet(Kids[x]) : k \notin S
      PROVE  FALSE
  <2>1. \A k \in ToSet(Kids[x]) : g[k] = h[k]
    BY <1>2 DEF Partly
  <2>2. Obeys(x, g) /\ Obeys(x, h) /\ x \in Files
    BY DEF Partly
  <2> QED
    BY <2>1, <2>2, ObeysAgree
<1> QED
  BY <1>1, <1>2, SomeFirst

LEMMA CleanObeys ==
    /\ Clean = [f \in Files |-> Clean[f]]
    /\ \A f \in Files : Obeys(f, Clean)
<1> DEFINE known == {f \in Files : \E g : Partly(g) /\ f \in DOMAIN g}
           of(f) == CHOOSE g : Partly(g) /\ f \in DOMAIN g
           most == [f \in known |-> of(f)[f]]
<1>1. ASSUME NEW f \in known
      PROVE  Partly(of(f)) /\ f \in DOMAIN of(f)
  OBVIOUS
<1>2. ASSUME NEW g, Partly(g)
      PROVE  \A f \in DOMAIN g : f \in known /\ most[f] = g[f]
  <2> TAKE f \in DOMAIN g
  <2>1. f \in known
    BY <1>2 DEF Partly
  <2>2. of(f)[f] = g[f]
    BY <1>1, <1>2, <2>1, PartlyAgree
  <2> QED
    BY <2>1, <2>2
<1>3. Partly(most)
  <2>1. ASSUME NEW f \in known
        PROVE  ToSet(Kids[f]) \subseteq known /\ Obeys(f, most)
    <3>1. Partly(of(f)) /\ f \in DOMAIN of(f)
      BY <1>1
    <3>2. \A k \in ToSet(Kids[f]) : k \in DOMAIN of(f)
      BY <3>1 DEF Partly
    <3> HIDE DEF of, most
    <3>3. \A k \in ToSet(Kids[f]) : k \in known /\ most[k] = of(f)[k]
      BY <1>2, <3>1, <3>2
    <3>4. most[f] = of(f)[f] /\ Obeys(f, of(f))
      BY <1>2, <3>1 DEF Partly
    <3>5. Obeys(f, most)
      BY <3>3, <3>4, ObeysToo
    <3> QED
      BY <3>3, <3>5
  <2>2. DOMAIN most = known /\ most = [f \in DOMAIN most |-> most[f]]
    OBVIOUS
  <2> HIDE DEF most
  <2> QED
    BY <2>1, <2>2 DEF Partly
<1>4. DOMAIN most = known
  OBVIOUS
<1> HIDE DEF most
<1>5. ASSUME NEW f \in Files \ known, \A k \in ToSet(Kids[f]) : k \in known
      PROVE  FALSE
  <2> DEFINE value == IF f \in Sources THEN disk[f].content
                      ELSE Output(action[f], [i \in DOMAIN Kids[f] |-> most[Kids[f][i]]])
             more == [x \in known \cup {f} |-> IF x = f THEN value ELSE most[x]]
  <2>1. \A x \in known : x # f /\ more[x] = most[x]
    OBVIOUS
  <2>2. more[f] = value /\ DOMAIN more = known \cup {f} /\ more = [x \in DOMAIN more |-> more[x]]
    OBVIOUS
  <2> HIDE DEF more
  <2>3. \A x \in known : ToSet(Kids[x]) \subseteq known /\ Obeys(x, most)
    BY <1>3, <1>4 DEF Partly
  <2>4. ASSUME NEW x \in known
        PROVE  Obeys(x, more)
    BY <2>1, <2>3, ObeysToo
  <2>5. Obeys(f, more)
    <3>1. [i \in DOMAIN Kids[f] |-> most[Kids[f][i]]] = [i \in DOMAIN Kids[f] |-> more[Kids[f][i]]]
      BY <1>5, <2>1, KidsAreFiles
    <3> QED
      BY <2>2, <3>1 DEF Obeys
  <2>6. Partly(more)
    BY <1>5, <2>2, <2>3, <2>4, <2>5 DEF Partly
  <2>7. f \in known
    BY <2>2, <2>6
  <2> QED
    BY <2>7
<1>6. known = Files
  <2>1. known \subseteq Files
    OBVIOUS
  <2> HIDE DEF known
  <2>2. ASSUME NEW f \in Files \ known
        PROVE  \E k \in ToSet(Kids[f]) : k \in Files \ known
    BY <1>5, <2>2, KidsAreFiles
  <2> QED
    BY <2>1, <2>2, SomeFirst
<1>7. most = [f \in Files |->
               IF f \in Sources THEN disk[f].content
               ELSE Output(action[f], [i \in DOMAIN Kids[f] |-> most[Kids[f][i]]])]
  <2> HIDE DEF known
  <2>1. most = [f \in Files |-> most[f]]
    BY <1>3, <1>4, <1>6 DEF Partly
  <2>2. \A f \in Files : most[f] = IF f \in Sources THEN disk[f].content
                                  ELSE Output(action[f], [i \in DOMAIN Kids[f] |-> most[Kids[f][i]]])
    BY <1>3, <1>4, <1>6 DEF Partly, Obeys
  <2> QED
    BY <2>1, <2>2
<1>8. Clean = [f \in Files |->
                IF f \in Sources THEN disk[f].content
                ELSE Output(action[f], [i \in DOMAIN Kids[f] |-> Clean[Kids[f][i]]])]
  BY <1>7 DEF Clean
<1> QED
  BY <1>8 DEF Obeys

(* A build that runs to its end leaves what a build from nothing would     *)
(* make: what is settled is what its action makes of what its children     *)
(* are, and all that is needed is settled (Taskmaster.py, is_up_to_date,   *)
(* SConsign.py).                                                           *)
THEOREM BuildsAreRight == Spec => []BuiltRight
<1>1. ASSUME IInv, pc = "write", complete, trusted
      PROVE  \A f \in Needed : disk[f].content = Clean[f]
  <2> DEFINE S == {f \in Files : Settled(f)}
             wrong == {f \in S : disk[f].content # Clean[f]}
  <2>1. tops \subseteq S /\ \A f \in S : ToSet(Kids[f]) \subseteq S
    BY <1>1, KidsAreFiles DEF IInv, BuildInv, Progress, Shapes
  <2>2. Needed \subseteq S
    BY <2>1 DEF Needed
  <2>3. ASSUME NEW f \in wrong, \A k \in ToSet(Kids[f]) : k \notin wrong
        PROVE  FALSE
    <3>1. \A k \in ToSet(Kids[f]) : disk[k].content = Clean[k]
      BY <2>1, <2>3
    <3>2. Contents(f) = [i \in DOMAIN Kids[f] |-> Clean[Kids[f][i]]]
      BY <3>1, KidsAreFiles DEF Contents
    <3>3. f \in Targets => disk[f].content = Output(action[f], Contents(f))
      BY <1>1 DEF IInv, TrueInv
    <3>4. Obeys(f, Clean)
      BY CleanObeys
    <3> QED
      BY <2>3, <3>2, <3>3, <3>4, KidsAreFiles DEF Obeys
  <2>4. wrong = {}
    BY <2>3, SomeFirst
  <2> QED
    BY <2>2, <2>4
<1>2. IInv => BuiltRight
  BY <1>1 DEF BuiltRight
<1> QED
  BY <1>2, Invariance, PTL
=============================================================================

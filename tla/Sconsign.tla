------------------------------ MODULE Sconsign ------------------------------
(***************************************************************************)
(* What SCons remembers between builds.  A build compares, for every       *)
(* target, the signatures of its children and of its action with the ones  *)
(* recorded when the target was last seen (Node/__init__.py changed); the  *)
(* record is a file, written once when the build ends (SConsign.py,        *)
(* dblite.py).  A derived file may also come from a cache directory, under *)
(* a name made of the same signatures (CacheDir.py).                       *)
(*                                                                         *)
(* A signature stands for what it digests.  Between builds the user edits  *)
(* sources and actions, and removes targets; a build may fail, be          *)
(* interrupted, or be killed at any step.                                  *)
(*                                                                         *)
(* No two changes of a file bear the same time: edits and builds happen at *)
(* times of their own, and nobody edits while a build runs.  Files are     *)
(* compared by content (the default, Decider('MD5')).                      *)
(***************************************************************************)
EXTENDS Integers, Sequences, FiniteSets, SequencesExt

CONSTANTS
  Files, Kids,   \* the files, and the children of each, none for a source
  Tops,          \* the sets of targets that may be asked for
  Versions,      \* the contents of a source, and the texts of an action
  MaxDrift,      \* a file that is older keeps its recorded signature; -1: none does
  MaxTime        \* bound of the clock

(* No file is made of itself: some file of every set has no child in it.   *)
(* (A build of a graph that has a cycle is reported, in Jobs.)             *)
ASSUME SconsignAssumption ==
  /\ Kids \in [Files -> Seq(Files)]
  /\ \A S \in SUBSET Files : S # {} => \E f \in S : ToSet(Kids[f]) \cap S = {}
  /\ Tops \subseteq SUBSET Files
  /\ Versions \subseteq Nat \ {0} /\ Versions # {}
  /\ MaxDrift \in Int \ {0}
  /\ MaxTime \in Nat

Sources == {f \in Files : Kids[f] = <<>>}
Targets == Files \ Sources

(* What is in a file: a source's version, or what an action has made of    *)
(* the children's contents.                                                *)
Text(v) == [act |-> v, from |-> <<>>]
Output(a, contents) == [act |-> a, from |-> contents]
Absent == Text(0)
Partial == Text(-1)      \* copied or built in part

VARIABLES
  now, disk, action,     \* the clock, the files, and the texts of the actions
  db, cache,             \* the record's file, and the cache directory
  pc, tops, entries,     \* a build: what was asked for, and the record as read
  ninfo, seen,           \* what it knows of each file, and how it left it
  cur, complete, trusted

world == <<now, disk, action>>
vars == <<world, db, cache, pc, tops, entries, ninfo, seen, cur, complete, trusted>>

Unknown == [csig |-> Absent, stamp |-> 0]
NoEntry == [csig |-> Absent, stamp |-> 0, act |-> 0, from |-> <<>>]
NoEntries == [f \in Files |-> NoEntry]

-----------------------------------------------------------------------------
(* Mutant of Drifted: the recorded time is not compared. *)
DriftedAnyway(f) ==
  /\ MaxDrift > 0
  /\ now - disk[f].mtime > MaxDrift
  /\ entries[f].csig # Absent

(* get_max_drift_csig: the recorded signature of a file that has not been  *)
(* modified for long, nor since it was recorded.                           *)
Drifted(f) ==
  /\ MaxDrift > 0
  /\ now - disk[f].mtime > MaxDrift
  /\ entries[f].csig # Absent
  /\ entries[f].stamp = disk[f].mtime

(* get_csig, of a file that this build knows or does not know yet. *)
Csig(f) == IF ninfo[f].csig # Absent THEN ninfo[f].csig
           ELSE IF Drifted(f) THEN entries[f].csig
           ELSE disk[f].content
Sigs(t) == [i \in DOMAIN Kids[t] |-> Csig(Kids[t][i])]

(* What a build knows of a file that it visits.  The signature is computed *)
(* when somebody asks for it, which may be never.                          *)
Visited(f) == [csig |-> IF Drifted(f) THEN entries[f].csig ELSE ninfo[f].csig,
               stamp |-> disk[f].mtime]

(* A file that has just been made: update() asks for its signature. *)
Updated(f, file) ==
  [csig |-> IF MaxDrift > 0 /\ now - file.mtime > MaxDrift /\ entries[f].csig # Absent
                 /\ entries[f].stamp = file.mtime
            THEN entries[f].csig ELSE file.content,
   stamp |-> file.mtime]

(* The children that asking whether t has changed asks for their signature. *)
Asked(t) == [f \in Files |-> IF f \in ToSet(Kids[t]) THEN [ninfo[f] EXCEPT !.csig = Csig(f)]
                             ELSE ninfo[f]]

(* is_up_to_date *)
UpToDate(t) ==
  /\ disk[t].content # Absent
  /\ entries[t].from = Sigs(t)
  /\ entries[t].act = action[t]

(* Mutant of CacheSig: the children's signatures are the recorded ones. *)
CacheSigRecorded(t) == [path |-> t, act |-> action[t], from |-> entries[t].from]

(* get_cachedir_bsig *)
CacheSig(t) == [path |-> t, act |-> action[t], from |-> Sigs(t)]
Cached(t) == {e \in cache : e.sig = CacheSig(t)}

-----------------------------------------------------------------------------
(* What a record says is true if every file, in place or in the cache,     *)
(* that bears the recorded time has the recorded signature, and a target   *)
(* that exists was made from what is recorded.                             *)
StampTrue(r, f) ==
  \A file \in {disk[f]} \cup {e.file : e \in {e \in cache : e.sig.path = f}} :
    r[f].csig # Absent /\ r[f].stamp = file.mtime => r[f].csig = file.content
RecipeTrue(r, f) ==
  f \in Targets /\ r[f].act # 0 /\ disk[f].content # Absent
    => disk[f].content = Output(r[f].act, r[f].from)
RecordTrue(r) == \A f \in Files : StampTrue(r, f) /\ RecipeTrue(r, f)
CacheTrue == \A e \in cache : e.file.content = Output(e.sig.act, e.sig.from)

-----------------------------------------------------------------------------
Init ==
  /\ now = 1
  /\ disk = [f \in Files |-> IF f \in Sources THEN [content |-> Text(CHOOSE v \in Versions : TRUE), mtime |-> 1]
                             ELSE [content |-> Absent, mtime |-> 0]]
  /\ action = [t \in Targets |-> CHOOSE v \in Versions : TRUE]
  /\ db = NoEntries
  /\ cache = {}
  /\ pc = "off"
  /\ tops = {}
  /\ entries = NoEntries
  /\ ninfo = [f \in Files |-> Unknown]
  /\ seen = [f \in Files |-> "no"]
  /\ cur = CHOOSE f \in Files : TRUE
  /\ complete = FALSE
  /\ trusted = FALSE

(* The process ends and forgets. *)
Exit ==
  /\ pc' = "off"
  /\ tops' = {}
  /\ entries' = NoEntries
  /\ ninfo' = [f \in Files |-> Unknown]
  /\ seen' = [f \in Files |-> "no"]
  /\ cur' = CHOOSE f \in Files : TRUE
  /\ complete' = FALSE
  /\ trusted' = FALSE

session == <<tops, entries, ninfo, seen, cur, complete, trusted>>

(* Between builds.  The build to come gets a new time, too. *)
Edit(s) ==
  /\ pc = "off" /\ now < MaxTime
  /\ now' = now + 1
  /\ \E v \in Versions : disk' = [disk EXCEPT ![s] = [content |-> Text(v), mtime |-> now']]
  /\ UNCHANGED <<action, db, cache, pc, session>>

EditAction(t) ==
  /\ pc = "off" /\ now < MaxTime
  /\ now' = now + 1
  /\ \E v \in Versions \ {action[t]} : action' = [action EXCEPT ![t] = v]
  /\ UNCHANGED <<disk, db, cache, pc, session>>

RemoveTarget(t) ==
  /\ pc = "off"
  /\ disk[t].content # Absent
  /\ disk' = [disk EXCEPT ![t] = [content |-> Absent, mtime |-> 0]]
  /\ UNCHANGED <<now, action, db, cache, pc, session>>

Wait ==
  /\ pc = "off" /\ now < MaxTime
  /\ now' = now + 1
  /\ UNCHANGED <<disk, action, db, cache, pc, session>>

(* A build begins: dblite.open reads the record, or makes an empty one. *)
Start ==
  /\ pc = "off" /\ now < MaxTime
  /\ now' = now + 1
  /\ tops' \in Tops
  /\ entries' = db
  /\ trusted' = (RecordTrue(db) /\ CacheTrue)
  /\ pc' = "walk"
  /\ UNCHANGED <<disk, action, db, cache, ninfo, seen, cur, complete>>

-----------------------------------------------------------------------------
(* What was asked for and all that it is made of: the least set that has   *)
(* the one, and of each of its files the children.                         *)
Needed ==
  LET Closed(S) == tops \subseteq S /\ \A f \in S : ToSet(Kids[f]) \subseteq S
  IN  {f \in Files : \A S \in SUBSET Files : Closed(S) => f \in S}

(* Files are looked at in any order in which children come first. *)
Ready(f) == /\ pc = "walk"
            /\ f \in Needed
            /\ seen[f] = "no"
            /\ \A k \in ToSet(Kids[f]) : seen[k] # "no"

(* Mutant of VisitSource: the record is written through. *)
VisitSourceThrough(s) ==
  /\ Ready(s)
  /\ ninfo' = [ninfo EXCEPT ![s] = Visited(s)]
  /\ seen' = [seen EXCEPT ![s] = "visited"]
  /\ db' = [db EXCEPT ![s].stamp = disk[s].mtime]
  /\ UNCHANGED <<world, cache, pc, tops, entries, cur, complete, trusted>>

VisitSource(s) ==
  /\ Ready(s)
  /\ ninfo' = [ninfo EXCEPT ![s] = Visited(s)]
  /\ seen' = [seen EXCEPT ![s] = "visited"]
  /\ UNCHANGED <<world, db, cache, pc, tops, entries, cur, complete, trusted>>

VisitTarget(t) ==
  /\ Ready(t)
  /\ UpToDate(t)
  /\ ninfo' = [Asked(t) EXCEPT ![t] = Visited(t)]
  /\ seen' = [seen EXCEPT ![t] = "visited"]
  /\ UNCHANGED <<world, db, cache, pc, tops, entries, cur, complete, trusted>>

(* prepare() removes the target. *)
Prepare(t) ==
  /\ Ready(t)
  /\ ~UpToDate(t)
  /\ ninfo' = Asked(t)
  /\ disk' = [disk EXCEPT ![t] = [content |-> Absent, mtime |-> 0]]
  /\ cur' = t
  /\ pc' = "execute"
  /\ UNCHANGED <<now, action, db, cache, tops, entries, seen, complete, trusted>>

(* The cache is asked first; it is there, or the action is run. *)
Execute ==
  /\ pc = "execute"
  /\ disk' = [disk EXCEPT ![cur] = [content |-> Partial, mtime |-> now]]
  /\ pc' = IF Cached(cur) # {} THEN "copy" ELSE "build"
  /\ UNCHANGED <<now, action, db, cache, session>>

(* built() and visited() of the file that is there now. *)
Made(file) ==
  /\ disk' = [disk EXCEPT ![cur] = file]
  /\ ninfo' = [ninfo EXCEPT ![cur] = Updated(cur, file)]
  /\ seen' = [seen EXCEPT ![cur] = "made"]
  /\ pc' = "walk"
  /\ UNCHANGED <<now, action, db, tops, entries, cur, complete, trusted>>

(* The copy keeps the time of the file that was pushed. *)
Copied ==
  /\ pc = "copy"
  /\ \E e \in Cached(cur) : Made(e.file)
  /\ UNCHANGED cache

Built ==
  /\ pc = "build"
  /\ LET made == Output(action[cur], [i \in DOMAIN Kids[cur] |-> disk[Kids[cur][i]].content])
         file == [content |-> made, mtime |-> now]
     IN  /\ Made(file)
         /\ cache' = IF Cached(cur) # {} THEN cache
                     ELSE cache \cup {[sig |-> CacheSig(cur), file |-> file]}

(* An action that fails leaves nothing.  The build stops. *)
Failed ==
  /\ pc = "build"
  /\ disk' = [disk EXCEPT ![cur] = [content |-> Absent, mtime |-> 0]]
  /\ seen' = [seen EXCEPT ![cur] = "failed"]
  /\ pc' = "write"
  /\ UNCHANGED <<now, action, db, cache, tops, entries, ninfo, cur, complete, trusted>>

Interrupt ==
  /\ pc = "walk"
  /\ pc' = "write"
  /\ UNCHANGED <<world, db, cache, session>>

Finish ==
  /\ pc = "walk"
  /\ \A f \in tops : seen[f] # "no"
  /\ complete' = TRUE
  /\ pc' = "write"
  /\ UNCHANGED <<world, db, cache, tops, entries, ninfo, seen, cur, trusted>>

-----------------------------------------------------------------------------
(* Mutant of Merged: a target that failed, or was not reached, is recorded. *)
MergedAll(f) ==
  LET known == [csig |-> IF ninfo[f].csig # Absent THEN ninfo[f].csig ELSE entries[f].csig,
                stamp |-> ninfo[f].stamp]
  IN  IF f \in Sources
      THEN [entries[f] EXCEPT !.csig = known.csig, !.stamp = known.stamp]
      ELSE [csig |-> known.csig, stamp |-> known.stamp, act |-> action[f], from |-> Sigs(f)]

(* merge(): what is known of a file that was visited is written over what  *)
(* was recorded; what is not known stays as it was recorded.               *)
Merged(f) ==
  LET known == [csig |-> IF ninfo[f].csig # Absent THEN ninfo[f].csig ELSE entries[f].csig,
                stamp |-> ninfo[f].stamp]
  IN  IF seen[f] \notin {"visited", "made"} THEN entries[f]
      ELSE IF f \in Sources
      THEN [entries[f] EXCEPT !.csig = known.csig, !.stamp = known.stamp]
      ELSE [csig |-> known.csig, stamp |-> known.stamp, act |-> action[f], from |-> Sigs(f)]

Write ==
  /\ pc = "write"
  /\ entries' = [f \in Files |-> Merged(f)]
  /\ pc' = "unlink"
  /\ UNCHANGED <<world, db, cache, tops, ninfo, seen, cur, complete, trusted>>

(* sync(): the new record is in another file; the old one goes, then the   *)
(* new one gets its name.                                                  *)
UnlinkRecord ==
  /\ pc = "unlink"
  /\ db' = NoEntries
  /\ pc' = "rename"
  /\ UNCHANGED <<world, cache, session>>

RenameRecord ==
  /\ pc = "rename"
  /\ db' = entries
  /\ Exit
  /\ UNCHANGED <<world, cache>>

Kill ==
  /\ pc # "off"
  /\ Exit
  /\ UNCHANGED <<world, db, cache>>

Next ==
  \/ \E s \in Sources : Edit(s) \/ VisitSource(s)
  \/ \E t \in Targets : EditAction(t) \/ RemoveTarget(t) \/ VisitTarget(t) \/ Prepare(t)
  \/ Wait \/ Start \/ Execute \/ Copied \/ Built \/ Failed \/ Interrupt \/ Finish
  \/ Write \/ UnlinkRecord \/ RenameRecord \/ Kill

Spec == Init /\ [][Next]_vars

-----------------------------------------------------------------------------
(* What a build from nothing would make. *)
Clean[f \in Files] ==
  IF f \in Sources THEN disk[f].content
  ELSE Output(action[f], [i \in DOMAIN Kids[f] |-> Clean[Kids[f][i]]])

(* A build that runs to its end leaves, of all that was asked for, what a  *)
(* build from nothing would make, whatever was edited, reverted, removed,  *)
(* cut short or lost before, if the record and the cache that it began     *)
(* with were true.                                                         *)
BuiltRight ==
  pc = "write" /\ complete /\ trusted => \A f \in Needed : disk[f].content = Clean[f]

(* A file that was visited and whose signature nobody asked for. *)
Unasked(f) == seen[f] = "visited" /\ ninfo[f].csig = Absent

(* The record stays true, however the build ended, unless it was killed;   *)
(* but for the signatures that nobody asked for: merge gives the recorded  *)
(* one the time of the file that is there now.                             *)
RecordKept ==
  [][pc = "rename" /\ db' = entries /\ trusted =>
       \A f \in Files : /\ RecipeTrue(entries, f)
                        /\ ~Unasked(f) => StampTrue(entries, f)]_<<pc, db>>

(* What is pushed is what its name in the cache says. *)
CacheKept ==
  [][trusted => \A e \in cache' \ cache : e.file.content = Output(e.sig.act, e.sig.from)]_cache

Making(f) == f = cur /\ pc \in {"execute", "copy", "build"}

(* A kill costs the record's truth only for what this build had made or    *)
(* was making; its signatures stay true.                                   *)
KillIsLocal ==
  [][pc # "off" /\ pc' = "off" /\ pc # "rename" /\ trusted =>
       \A f \in Files : /\ seen[f] # "made" /\ ~Making(f) => RecipeTrue(db, f)
                        /\ StampTrue(db, f)]_<<pc, db>>

(* "Generate a node's content signature, the digested signature of its     *)
(* content."                                                               *)
CsigDigestsContent ==
  pc = "walk" => \A f \in Files : ninfo[f].csig # Absent => ninfo[f].csig = disk[f].content
=============================================================================

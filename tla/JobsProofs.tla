----------------------------- MODULE JobsProofs -----------------------------
(***************************************************************************)
(* Theorems about SCons builds, for any graphs, any number of workers and  *)
(* of jobs, and any order of what the threads do.                          *)
(***************************************************************************)
EXTENDS Jobs, Ranks, FiniteSetTheorems, TLAPS

Tasks == [targets : Seq(Nodes), node : Nodes, top : BOOLEAN, broken : BOOLEAN]

-----------------------------------------------------------------------------
(* What the taskmaster keeps.  Nobody ever waits for a side effect of a    *)
(* graph in which none is a child.                                         *)

EffectsUnneeded ==
  \A n, s \in Nodes : SideEffect(s) =>
    s \notin ToSet(graph.kids[n]) /\ s \notin ToSet(graph.late[n])

WaitersOf(p) == {n \in Nodes : p \in waitingParents[n]}

WalkShapes ==
  /\ graph \in Graphs
  /\ waitingParents \in [Nodes -> SUBSET Nodes]
  /\ refCount \in [Nodes -> Int]
  /\ currentTop \in Nodes
  /\ ready.node \in Nodes /\ ready.kids \in Seq(Nodes)
  /\ task \in Tasks
Waits ==
  EffectsUnneeded =>
    /\ WaitCounts
    /\ \A s \in Nodes : SideEffect(s) => waitingParents[s] = {} /\ s \notin ToSet(ready.kids)
WalkInv == WalkShapes /\ Waits

(* What the pool of threads has. *)

PoolShapes ==
  /\ num \in Nat
  /\ jobs \in Nat
  /\ requests \in Seq(Tasks)
  /\ results \in Seq([task : Tasks, ok : BOOLEAN])
  /\ working \in [Workers -> {Idle} \cup [stage : {"retrieving", "building"}, task : Tasks,
                                           done : Nat]]
Room == pc \in {"examine", "prepare", "execute"} => jobs < num
PoolInv == PoolShapes /\ JobsCounted /\ Room

StateShape == state \in [Nodes -> NoState .. Failed]

IInv == WalkInv /\ PoolInv /\ StateShape

-----------------------------------------------------------------------------
LEMMA GraphFacts ==
    ASSUME NEW g \in Graphs
    PROVE  /\ \A n \in Nodes : /\ g.kids[n] \in Seq(Nodes)
                               /\ g.late[n] \in Seq(Nodes)
                               /\ g.targets[n] \in Seq(Nodes)
                               /\ g.effects[n] \in Seq(Nodes)
           /\ g.tops \in Seq(Nodes) /\ Head(g.tops) \in Nodes
<1>1. g \in GraphOver(Nodes) /\ g.tops # <<>>
  BY GraphAssumption
<1>2. /\ g.kids \in [Nodes -> Seq(Nodes)] /\ g.late \in [Nodes -> Seq(Nodes)]
      /\ g.targets \in [Nodes -> Seq(Nodes)] /\ g.effects \in [Nodes -> Seq(Nodes)]
      /\ g.tops \in Seq(Nodes)
  BY <1>1 DEF GraphOver
<1> QED
  BY <1>1, <1>2

LEMMA TaskOfType ==
    ASSUME graph \in Graphs, NEW n \in Nodes
    PROVE  TaskOf(n) \in Tasks
  BY GraphFacts DEF TaskOf, Tasks

LEMMA Elements ==
    ASSUME NEW S, NEW s \in Seq(S)
    PROVE  ToSet(s) \subseteq S
  BY DEF ToSet

LEMMA ConcatElements ==
    ASSUME NEW S, NEW s \in Seq(S), NEW t \in Seq(S)
    PROVE  ToSet(s \o t) = ToSet(s) \cup ToSet(t)
<1>1. ToSet(s \o t) \subseteq ToSet(s) \cup ToSet(t)
  BY DEF ToSet
<1>2. \A i \in DOMAIN s : i \in DOMAIN (s \o t) /\ (s \o t)[i] = s[i]
  OBVIOUS
<1>3. \A i \in DOMAIN t : Len(s) + i \in DOMAIN (s \o t) /\ (s \o t)[Len(s) + i] = t[i]
  OBVIOUS
<1> QED
  BY <1>1, <1>2, <1>3 DEF ToSet

LEMMA InitIInv ==
    ASSUME Init
    PROVE  IInv
<1> USE DEF Init, TMInit
<1>1. graph \in Graphs /\ Head(graph.tops) \in Nodes
  BY GraphFacts
<1>2. WalkShapes
  BY <1>1, TaskOfType DEF WalkShapes, None
<1>3. Waits
  <2>1. \A p \in Nodes : {n \in Nodes : p \in waitingParents[n]} = {} /\ refCount[p] = 0
    OBVIOUS
  <2>2. WaitCounts
    BY <2>1, FS_EmptySet DEF WaitCounts
  <2>3. ToSet(ready.kids) = {}
    BY DEF None, ToSet
  <2> QED
    BY <2>2, <2>3 DEF Waits
<1>4. PoolShapes
  BY JobAssumption, FS_CardinalityType DEF PoolShapes
<1>5. JobsCounted /\ Room
  <2>1. Workings = {}
    BY DEF Workings, Idle
  <2> QED
    BY <1>4, <2>1, FS_EmptySet, JobAssumption DEF JobsCounted, Room, PoolShapes
<1>6. StateShape
  BY DEF StateShape, NoState, Failed
<1> QED
  BY <1>2, <1>3, <1>4, <1>5, <1>6 DEF IInv, WalkInv, PoolInv

-----------------------------------------------------------------------------
(* The steps of the taskmaster. *)

(* Most steps change nothing of what is waited for. *)
LEMMA WaitsUntouched ==
    ASSUME WalkInv, UNCHANGED <<graph, waitingParents, refCount, ready>>,
           currentTop' \in Nodes, task' \in Tasks
    PROVE  WalkInv'
<1> USE DEF WalkInv
<1>1. WalkShapes'
  BY DEF WalkShapes
<1>2. Waits'
  BY DEF Waits, EffectsUnneeded, SideEffect, WaitCounts
<1> QED
  BY <1>1, <1>2

LEMMA SkipHandledStep ==
    ASSUME WalkInv, NEW n \in Nodes, SkipHandled(n)
    PROVE  WalkInv'
  BY WaitsUntouched DEF SkipHandled, FindNextCandidate, nodeVars, WalkInv, WalkShapes

LEMMA ConsiderStep ==
    ASSUME WalkInv, NEW n \in Nodes, Consider(n)
    PROVE  WalkInv'
<1> USE DEF WalkInv
<1>1. /\ ready' = [node |-> n, kids |-> Children(n, implicit'[n])]
      /\ UNCHANGED <<graph, waitingParents, refCount, task>>
      /\ currentTop' \in Nodes
  BY DEF Consider, FindNextCandidate, WalkShapes
<1>2. graph.kids[n] \in Seq(Nodes) /\ graph.late[n] \in Seq(Nodes)
  BY GraphFacts DEF WalkShapes
<1>3. ready'.kids \in Seq(Nodes)
  BY <1>1, <1>2 DEF Children
<1>4. ToSet(ready'.kids) \subseteq ToSet(graph.kids[n]) \cup ToSet(graph.late[n])
  <2> DEFINE found == IF implicit'[n] = "all" THEN graph.late[n] ELSE <<>>
  <2>1. ready'.kids = graph.kids[n] \o found
    BY <1>1 DEF Children
  <2>3. found \in Seq(Nodes)
    BY <1>2
  <2>2. ToSet(found) \subseteq ToSet(graph.late[n])
    BY DEF ToSet
  <2> HIDE DEF found
  <2> QED
    BY <1>2, <2>1, <2>2, <2>3, ConcatElements
<1>5. WalkShapes'
  BY <1>1, <1>3 DEF WalkShapes
<1>6. Waits'
  <2> SUFFICES ASSUME EffectsUnneeded
               PROVE  Waits'
    BY <1>1 DEF Waits, EffectsUnneeded, SideEffect
  <2>1. \A s \in Nodes : SideEffect(s) => waitingParents'[s] = {} /\ s \notin ToSet(ready'.kids)
    BY <1>1, <1>4 DEF Waits, EffectsUnneeded
  <2>2. \A s \in Nodes : SideEffect(s)' <=> SideEffect(s)
    BY <1>1 DEF SideEffect
  <2>3. WaitCounts'
    BY <1>1 DEF Waits, WaitCounts
  <2> QED
    BY <2>1, <2>2, <2>3 DEF Waits
<1> QED
  BY <1>5, <1>6

(* Whoever is visited forgets who waits for it, and each of these counts   *)
(* down by as many as it waited for among the visited.                     *)
LEMMA WillNotBuildStep ==
    ASSUME WalkInv, NEW nodes, NEW newState, WillNotBuild(nodes, newState),
           UNCHANGED <<graph, ready>>, currentTop' \in Nodes, task' \in Tasks
    PROVE  WalkInv'
<1> USE DEF WalkInv
<1> DEFINE visited == Above(nodes)
<1>1. /\ waitingParents' = [n \in Nodes |-> IF n \in visited THEN {} ELSE waitingParents[n]]
      /\ refCount' = [p \in Nodes |-> refCount[p]
                        - Cardinality({n \in visited : p \in waitingParents[n]})]
  BY DEF WillNotBuild
<1>2. visited \subseteq Nodes
  BY DEF Above
<1> HIDE DEF visited
<1>3. ASSUME NEW p \in Nodes
      PROVE  /\ Cardinality({n \in visited : p \in waitingParents[n]}) \in Nat
             /\ refCount[p] = Cardinality(WaitersOf(p)) => refCount'[p] = Cardinality(WaitersOf(p)')
  <2> DEFINE gone == {n \in visited : p \in waitingParents[n]}
  <2>1. IsFiniteSet(WaitersOf(p)) /\ IsFiniteSet(gone)
    BY <1>2, FS_Subset, GraphAssumption DEF WaitersOf
  <2>2. WaitersOf(p)' = WaitersOf(p) \ gone /\ WaitersOf(p) \cap gone = gone
    BY <1>1, <1>2 DEF WaitersOf, WalkShapes
  <2>3. Cardinality(WaitersOf(p)') = Cardinality(WaitersOf(p)) - Cardinality(gone)
    BY <2>1, <2>2, FS_Difference
  <2>4. refCount'[p] = refCount[p] - Cardinality(gone)
    BY <1>1
  <2> QED
    BY <2>1, <2>3, <2>4, FS_CardinalityType
<1>4. WalkShapes'
  <2>1. waitingParents' \in [Nodes -> SUBSET Nodes]
    BY <1>1 DEF WalkShapes
  <2>2. refCount' \in [Nodes -> Int]
    BY <1>1, <1>3 DEF WalkShapes
  <2> QED
    BY <2>1, <2>2 DEF WalkShapes
<1>5. Waits'
  <2> SUFFICES ASSUME EffectsUnneeded
               PROVE  Waits'
    BY DEF Waits, EffectsUnneeded, SideEffect
  <2>1. WaitCounts'
    BY <1>3 DEF Waits, WaitCounts, WaitersOf
  <2>2. \A s \in Nodes : SideEffect(s) => waitingParents'[s] = {} /\ s \notin ToSet(ready.kids)
    BY <1>1 DEF Waits
  <2>3. \A s \in Nodes : SideEffect(s)' <=> SideEffect(s)
    BY DEF SideEffect
  <2> QED
    BY <2>1, <2>2, <2>3 DEF Waits
<1> QED
  BY <1>4, <1>5

LEMMA NoCandidateStep ==
    ASSUME WalkInv, NoCandidate
    PROVE  WalkInv'
  BY WillNotBuildStep DEF NoCandidate, WalkInv, WalkShapes

(* Who waits for its children is put once into the waiting parents of each *)
(* and counts those it was not in.                                         *)
LEMMA WaitForChildrenStep ==
    ASSUME WalkInv, WaitForChildren
    PROVE  WalkInv'
<1> USE DEF WalkInv
<1> DEFINE r == ready.node
           new == {k \in NotReady : r \notin waitingParents[k]}
<1>1. /\ waitingParents' = [n \in Nodes |-> IF n \in NotReady THEN waitingParents[n] \cup {r}
                                            ELSE waitingParents[n]]
      /\ refCount' = [refCount EXCEPT ![r] = @ + Cardinality(new)]
      /\ UNCHANGED <<graph, ready, currentTop, task>>
  BY DEF WaitForChildren
<1>2. NotReady \subseteq Nodes /\ NotReady \subseteq ToSet(ready.kids)
  BY Elements DEF NotReady, KidsIn, WalkShapes
<1>3. r \in Nodes
  BY DEF WalkShapes
<1>4. IsFiniteSet(new) /\ Cardinality(new) \in Nat
  BY <1>2, FS_Subset, FS_CardinalityType, GraphAssumption
<1> HIDE DEF r
<1>5. ASSUME NEW p \in Nodes
      PROVE  refCount[p] = Cardinality(WaitersOf(p)) => refCount'[p] = Cardinality(WaitersOf(p)')
  <2>1. CASE p = r
    <3>1. WaitersOf(p)' = WaitersOf(p) \cup new /\ WaitersOf(p) \cap new = {}
      BY <1>1, <1>2, <2>1 DEF WaitersOf, WalkShapes
    <3>2. IsFiniteSet(WaitersOf(p))
      BY FS_Subset, GraphAssumption DEF WaitersOf
    <3> HIDE DEF new
    <3>3. Cardinality(WaitersOf(p) \cup new)
            = Cardinality(WaitersOf(p)) + Cardinality(new) - Cardinality(WaitersOf(p) \cap new)
      BY <1>4, <3>2, FS_Union
    <3>4. Cardinality(WaitersOf(p)') = Cardinality(WaitersOf(p)) + Cardinality(new)
      <4>1. Cardinality(WaitersOf(p)) \in Nat /\ Cardinality(WaitersOf(p) \cap new) = 0
        BY <3>1, <3>2, FS_EmptySet, FS_CardinalityType
      <4> QED
        BY <1>4, <3>1, <3>3, <4>1
    <3> QED
      BY <1>1, <2>1, <3>4 DEF WalkShapes
  <2>2. CASE p # r
    <3>1. WaitersOf(p)' = WaitersOf(p)
      BY <1>1, <1>2, <2>2 DEF WaitersOf, WalkShapes
    <3> QED
      BY <1>1, <2>2, <3>1 DEF WalkShapes
  <2> QED
    BY <2>1, <2>2
<1>6. WalkShapes'
  BY <1>1, <1>3, <1>4 DEF WalkShapes
<1>7. Waits'
  <2> SUFFICES ASSUME EffectsUnneeded
               PROVE  Waits'
    BY <1>1 DEF Waits, EffectsUnneeded, SideEffect
  <2>1. WaitCounts'
    BY <1>5 DEF Waits, WaitCounts, WaitersOf
  <2>2. \A s \in Nodes : SideEffect(s) => waitingParents'[s] = {} /\ s \notin ToSet(ready.kids)
    BY <1>1, <1>2 DEF Waits
  <2>3. \A s \in Nodes : SideEffect(s)' <=> SideEffect(s)
    BY <1>1 DEF SideEffect
  <2> QED
    BY <1>1, <2>1, <2>2, <2>3 DEF Waits
<1> QED
  BY <1>6, <1>7

LEMMA ExamineStep ==
    ASSUME WalkInv, Examine
    PROVE  WalkInv'
<1>1. CASE WaitForChildren
  BY <1>1, WaitForChildrenStep
<1>2. CASE SkipChildFailed \/ WaitForSideEffects
  BY <1>2, WaitsUntouched DEF SkipChildFailed, WaitForSideEffects, WalkInv, WalkShapes, walkVars
<1> QED
  BY <1>1, <1>2 DEF Examine

(* A task is made of a node that is made ready, or with an error recorded. *)
LEMMA NextTaskFacts ==
    ASSUME NextTask
    PROVE  /\ \E broken \in BOOLEAN :
                /\ task' = [TaskOf(ready.node) EXCEPT !.broken = broken]
                /\ MakeReady \/ (Raised /\ broken)
           /\ \/ ready.node \in graph.broken
              \/ KidsIn({Failed}) = {} /\ NotReady = {} /\ BusyEffects = {}
           /\ UNCHANGED <<graph, mode, waitingParents, waitingSE, refCount, implicit, walkVars, ready>>
<1>1. PICK broken \in BOOLEAN : broken <=> ready.node \in graph.broken
  OBVIOUS
<1>2. /\ broken \/ KidsIn({Failed}) \cup NotReady \cup BusyEffects = {}
      /\ \/ MakeReady /\ task' = [TaskOf(ready.node) EXCEPT !.broken = broken]
         \/ Raised /\ task' = [TaskOf(ready.node) EXCEPT !.broken = TRUE]
      /\ UNCHANGED <<graph, mode, waitingParents, waitingSE, refCount, implicit, walkVars, ready>>
  BY <1>1, Zenon DEF NextTask
<1> QED
  BY <1>1, <1>2

LEMMA NextTaskStep ==
    ASSUME WalkInv, NextTask
    PROVE  WalkInv'
<1>1. PICK broken \in BOOLEAN : task' = [TaskOf(ready.node) EXCEPT !.broken = broken]
  BY NextTaskFacts
<1>2. UNCHANGED <<graph, waitingParents, refCount, currentTop, ready>>
  BY NextTaskFacts DEF walkVars
<1>3. task' \in Tasks
  BY <1>1, <1>2, TaskOfType DEF Tasks, WalkInv, WalkShapes
<1> QED
  BY <1>2, <1>3, WaitsUntouched DEF WalkInv, WalkShapes

LEMMA ExecutedStep ==
    ASSUME WalkInv, ExecutedWithCallbacks
    PROVE  WalkInv'
  BY WaitsUntouched DEF ExecutedWithCallbacks, WalkInv, WalkShapes, walkVars

LEMMA DoFailedStep ==
    ASSUME WalkInv, DoFailed
    PROVE  WalkInv'
<1>1. CASE ExecutedWithCallbacks
  BY <1>1, ExecutedStep
<1>2. CASE FailContinue /\ (task' = task \/ task' = [task EXCEPT !.targets = <<currentTop>>, !.top = TRUE])
  <2>1. currentTop' = currentTop /\ currentTop \in Nodes /\ UNCHANGED <<graph, ready>>
    BY <1>2 DEF FailContinue, WalkInv, WalkShapes
  <2>2. task \in Tasks
    BY DEF WalkInv, WalkShapes
  <2>3. task' \in Tasks
    <3>1. <<currentTop>> \in Seq(Nodes)
      BY <2>1
    <3>2. [task EXCEPT !.targets = <<currentTop>>, !.top = TRUE] \in Tasks
      BY <2>2, <3>1 DEF Tasks
    <3> QED
      BY <1>2, <2>2, <3>2
  <2> QED
    BY <1>2, <2>1, <2>3, WillNotBuildStep DEF FailContinue
<1> QED
  BY <1>1, <1>2 DEF DoFailed

(* Whoever waited for a finished target counts down for it, once. *)
LEMMA PostprocessStep ==
    ASSUME WalkInv, Postprocess
    PROVE  WalkInv'
<1> USE DEF WalkInv
<1> DEFINE targets == ToSet(task.targets)
           effects == {s \in Effects(task.targets) : state[s] = Executing}
           counted(p) == {n \in targets \cup effects : p \in waitingParents[n]}
<1>1. /\ refCount' = [p \in Nodes |-> refCount[p] - Cardinality(counted(p))]
      /\ waitingParents' = [n \in Nodes |-> IF n \in targets THEN {} ELSE waitingParents[n]]
      /\ UNCHANGED <<graph, currentTop, ready, task>>
  BY DEF Postprocess
<1>2. targets \subseteq Nodes /\ effects \subseteq Nodes /\ \A s \in effects : SideEffect(s)
  <2>1. task.targets \in Seq(Nodes)
    BY DEF WalkShapes, Tasks
  <2>2. \A t \in Nodes : ToSet(graph.effects[t]) \subseteq Nodes
    BY GraphFacts, Elements DEF WalkShapes
  <2> QED
    BY <2>1, <2>2, Elements DEF Effects, SideEffect
<1>3. ASSUME NEW p \in Nodes
      PROVE  IsFiniteSet(counted(p)) /\ Cardinality(counted(p)) \in Nat
  BY <1>2, FS_Subset, FS_CardinalityType, GraphAssumption
<1> HIDE DEF targets, effects
<1>4. ASSUME NEW p \in Nodes, EffectsUnneeded
      PROVE  refCount'[p] = Cardinality(WaitersOf(p)')
  <2>1. refCount[p] = Cardinality(WaitersOf(p)) /\ IsFiniteSet(WaitersOf(p))
    BY <1>4, FS_Subset, GraphAssumption DEF Waits, WaitCounts, WaitersOf
  <2>2. \A n \in effects : p \notin waitingParents[n]
    BY <1>2, <1>4 DEF Waits
  <2>3. WaitersOf(p)' = WaitersOf(p) \ counted(p) /\ WaitersOf(p) \cap counted(p) = counted(p)
    BY <1>1, <1>2, <2>2 DEF WaitersOf, WalkShapes
  <2> HIDE DEF counted
  <2>4. Cardinality(WaitersOf(p)') = Cardinality(WaitersOf(p)) - Cardinality(counted(p))
    BY <2>1, <2>3, FS_Difference
  <2> QED
    BY <1>1, <2>1, <2>4
<1>5. WalkShapes'
  <2>1. waitingParents' \in [Nodes -> SUBSET Nodes]
    BY <1>1 DEF WalkShapes
  <2> HIDE DEF counted
  <2>2. refCount' \in [Nodes -> Int]
    BY <1>1, <1>3 DEF WalkShapes
  <2> QED
    BY <1>1, <2>1, <2>2 DEF WalkShapes
<1>6. Waits'
  <2> SUFFICES ASSUME EffectsUnneeded
               PROVE  Waits'
    BY <1>1 DEF Waits, EffectsUnneeded, SideEffect
  <2>1. WaitCounts'
    BY <1>4 DEF WaitCounts, WaitersOf
  <2>2. \A s \in Nodes : SideEffect(s) => waitingParents'[s] = {} /\ s \notin ToSet(ready.kids)
    BY <1>1 DEF Waits
  <2>3. \A s \in Nodes : SideEffect(s)' <=> SideEffect(s)
    BY <1>1 DEF SideEffect
  <2> QED
    BY <1>1, <2>1, <2>2, <2>3 DEF Waits
<1> QED
  BY <1>5, <1>6

LEMMA RetrievedStep ==
    ASSUME WalkInv, NEW targets, Retrieved(targets)
    PROVE  WalkInv'
  BY WaitsUntouched DEF Retrieved, WalkInv, WalkShapes, walkVars

LEMMA StopStep ==
    ASSUME WalkInv, Stop
    PROVE  WalkInv'
  BY WaitsUntouched DEF Stop, WalkInv, WalkShapes, nodeVars

-----------------------------------------------------------------------------
(* The steps of the threads. *)

LEMMA PoolUntouched ==
    ASSUME PoolInv, UNCHANGED <<num, jobs, poolVars>>, Room'
    PROVE  PoolInv'
  BY DEF PoolInv, PoolShapes, JobsCounted, Workings, poolVars

LEMMA WorkingsFinite ==
    /\ IsFiniteSet(Workings) /\ Cardinality(Workings) \in Nat
    /\ Workings \subseteq Workers
  BY JobAssumption, FS_Subset, FS_CardinalityType DEF Workings

LEMMA DispatchStep ==
    ASSUME WalkInv, PoolInv, Dispatch
    PROVE  PoolInv'
<1> USE DEF PoolInv
<1>1. /\ requests' = Append(requests, task) /\ jobs' = jobs + 1 /\ task \in Tasks
      /\ jobs < num /\ pc' \in {"next", "get"}
      /\ UNCHANGED <<num, results, working>>
  BY DEF Dispatch, Room, WalkInv, WalkShapes
<1>2. PoolShapes'
  BY <1>1 DEF PoolShapes
<1>3. JobsCounted'
  <2>1. Workings' = Workings
    BY <1>1 DEF Workings
  <2>2. Len(requests') = Len(requests) + 1 /\ Len(requests) \in Nat /\ Len(results) \in Nat
    BY <1>1 DEF PoolShapes
  <2> QED
    BY <1>1, <2>1, <2>2, WorkingsFinite DEF JobsCounted, PoolShapes
<1>4. Room'
  BY <1>1 DEF Room
<1> QED
  BY <1>2, <1>3, <1>4

LEMMA GetStep ==
    ASSUME PoolInv, Get
    PROVE  PoolInv' /\ task' \in Tasks
<1> USE DEF PoolInv
<1>1. /\ results # <<>> /\ results' = Tail(results) /\ jobs' = jobs - 1
      /\ task' = Head(results).task /\ pc' \in {"executed", "failed"}
      /\ UNCHANGED <<num, requests, working>>
  BY DEF Get
<1>2. /\ Head(results) \in [task : Tasks, ok : BOOLEAN]
      /\ results' \in Seq([task : Tasks, ok : BOOLEAN])
      /\ Len(results') = Len(results) - 1 /\ Len(results) \in Nat \ {0} /\ Len(requests) \in Nat
  <2> DEFINE R == [task : Tasks, ok : BOOLEAN]
  <2>1. results \in Seq(R) /\ results # <<>> /\ requests \in Seq(Tasks)
    BY <1>1 DEF PoolShapes
  <2> HIDE DEF R
  <2>2. Head(results) \in R /\ Tail(results) \in Seq(R) /\ Len(Tail(results)) = Len(results) - 1
        /\ Len(results) \in Nat \ {0}
    BY <2>1
  <2> QED
    BY <1>1, <2>1, <2>2 DEF R
<1>3. Workings' = Workings
  BY <1>1 DEF Workings
<1>4. JobsCounted' /\ jobs' \in Nat
  BY <1>1, <1>2, <1>3, WorkingsFinite DEF JobsCounted, PoolShapes
<1>5. PoolShapes'
  BY <1>1, <1>2, <1>4 DEF PoolShapes
<1> QED
  BY <1>1, <1>2, <1>4, <1>5 DEF Room

(* A job that a worker has answered is a result and not with the worker. *)
LEMMA AnsweredStep ==
    ASSUME PoolInv, NEW w \in Workers, NEW ok \in BOOLEAN, Answered(w, ok),
           working[w].stage \in {"retrieving", "building"},
           UNCHANGED <<num, pc, jobs, requests>>
    PROVE  PoolInv'
<1> USE DEF PoolInv
<1>1. /\ results' = Append(results, [task |-> working[w].task, ok |-> ok])
      /\ working' = [working EXCEPT ![w] = Idle]
  BY DEF Answered
<1>2. working[w].task \in Tasks
  BY DEF PoolShapes, Idle
<1>3. PoolShapes'
  <2>1. results' \in Seq([task : Tasks, ok : BOOLEAN])
    BY <1>1, <1>2 DEF PoolShapes
  <2>2. working' \in [Workers -> {Idle} \cup [stage : {"retrieving", "building"}, task : Tasks,
                                              done : Nat]]
    BY <1>1 DEF PoolShapes
  <2> QED
    BY <2>1, <2>2 DEF PoolShapes
<1>4. JobsCounted'
  <2>1. Workings' = Workings \ {w} /\ w \in Workings
    BY <1>1 DEF Workings, Idle, PoolShapes
  <2>2. Cardinality(Workings') = Cardinality(Workings) - 1
    BY <2>1, WorkingsFinite, FS_RemoveElement
  <2>3. Len(results') = Len(results) + 1 /\ Len(results) \in Nat /\ Len(requests) \in Nat
    BY <1>1, <1>2 DEF PoolShapes
  <2> QED
    BY <2>2, <2>3, WorkingsFinite DEF JobsCounted, PoolShapes
<1> QED
  BY <1>3, <1>4 DEF Room

LEMMA TakeStep ==
    ASSUME PoolInv, NEW w \in Workers, Take(w)
    PROVE  PoolInv'
<1> USE DEF PoolInv
<1>1. /\ working[w] = Idle /\ requests # <<>> /\ requests' = Tail(requests)
      /\ UNCHANGED <<num, pc, jobs>>
  BY DEF Take
<1>2. /\ Head(requests) \in Tasks /\ requests' \in Seq(Tasks)
      /\ Len(requests') = Len(requests) - 1 /\ Len(requests) \in Nat /\ Len(results) \in Nat
  BY <1>1 DEF PoolShapes
<1>3. CASE interrupted
  <2>1. results' = Append(results, [task |-> Head(requests), ok |-> FALSE]) /\ working' = working
    BY <1>3 DEF Take
  <2>2. results' \in Seq([task : Tasks, ok : BOOLEAN]) /\ Len(results') = Len(results) + 1
    BY <1>2, <2>1 DEF PoolShapes
  <2>3. PoolShapes'
    BY <1>1, <1>2, <2>1, <2>2 DEF PoolShapes
  <2>4. Workings' = Workings
    BY <2>1 DEF Workings
  <2>5. JobsCounted'
    BY <1>1, <1>2, <2>2, <2>4, WorkingsFinite DEF JobsCounted, PoolShapes
  <2> QED
    BY <1>1, <2>3, <2>5 DEF Room
<1>4. CASE ~interrupted
  <2> DEFINE new == [stage |-> "retrieving", task |-> Head(requests), done |-> 0]
  <2>1. working' = [working EXCEPT ![w] = new] /\ results' = results
    BY <1>4 DEF Take
  <2>2. new \in [stage : {"retrieving", "building"}, task : Tasks, done : Nat] /\ new.stage # "idle"
    BY <1>2
  <2> HIDE DEF new
  <2>3. PoolShapes'
    BY <1>1, <1>2, <2>1, <2>2 DEF PoolShapes
  <2>4. Workings' = Workings \cup {w} /\ w \notin Workings
    BY <1>1, <2>1, <2>2 DEF Workings, Idle, PoolShapes
  <2>5. Cardinality(Workings') = Cardinality(Workings) + 1
    BY <2>4, WorkingsFinite, FS_AddElement
  <2>6. JobsCounted'
    BY <1>1, <1>2, <2>1, <2>5, WorkingsFinite DEF JobsCounted, PoolShapes
  <2> QED
    BY <1>1, <2>3, <2>6 DEF Room
<1> QED
  BY <1>3, <1>4

LEMMA RetrieveStep ==
    ASSUME WalkInv, PoolInv, NEW w \in Workers, Retrieve(w)
    PROVE  WalkInv' /\ PoolInv'
<1> DEFINE targets == working[w].task.targets
           k == working[w].done + 1
<1>1. /\ working[w].stage = "retrieving"
      /\ UNCHANGED <<num, pc, jobs, requests>>
  BY DEF Retrieve
<1>2. CASE Answered(w, TRUE) /\ UNCHANGED tmVars
  <2>1. PoolInv'
    BY <1>1, <1>2, AnsweredStep
  <2> QED
    BY <1>2, <2>1, WaitsUntouched DEF tmVars, nodeVars, walkVars, WalkInv, WalkShapes
<1>3. CASE \/ Retrieved({targets[k]}) /\ working' = [working EXCEPT ![w].done = k] /\ results' = results
           \/ working' = [working EXCEPT ![w].stage = "building"] /\ UNCHANGED <<tmVars, results>>
  <2>1. WalkInv'
    BY <1>3, RetrievedStep, WaitsUntouched DEF tmVars, nodeVars, walkVars, WalkInv, WalkShapes
  <2>2. working[w] \in [stage : {"retrieving", "building"}, task : Tasks, done : Nat]
    BY <1>1 DEF PoolInv, PoolShapes, Idle
  <2>3. PICK new \in [stage : {"retrieving", "building"}, task : Tasks, done : Nat] :
          working' = [working EXCEPT ![w] = new]
    BY <1>3, <2>2
  <2>4. PoolShapes' /\ Workings' = Workings
    BY <1>1, <1>3, <2>3 DEF PoolInv, PoolShapes, Workings, Idle
  <2>5. JobsCounted' /\ Room'
    BY <1>1, <1>3, <2>4 DEF PoolInv, JobsCounted, Room
  <2> QED
    BY <2>1, <2>4, <2>5 DEF PoolInv
<1> QED
  BY <1>2, <1>3 DEF Retrieve

LEMMA StateStep ==
    ASSUME StateShape, [Next]_vars
    PROVE  StateShape'
<1> USE DEF StateShape, NoState, Pending, Executing, UpToDate, Executed, Failed
<1>1. CASE Pick
  BY <1>1 DEF Pick, SkipHandled, Consider, nodeVars
<1>2. CASE NoTask
  BY <1>2 DEF NoTask, NoCandidate, WillNotBuild
<1>3. CASE ExamineNode
  <2>1. CASE Examine
    BY <2>1 DEF Examine, SkipChildFailed, WaitForChildren, WaitForSideEffects
  <2>2. CASE NextTask
    <3>1. CASE MakeReady
      <4>1. PICK outOfDate \in BOOLEAN :
              state' = [n \in Nodes |->
                         IF n \in ToSet(graph.targets[ready.node])
                           THEN IF outOfDate THEN Executing ELSE UpToDate
                         ELSE IF outOfDate /\ n \in Effects(graph.targets[ready.node])
                              THEN Executing ELSE state[n]]
        BY <3>1 DEF MakeReady
      <4> QED
        BY <4>1
    <3>2. CASE Raised
      BY <3>2 DEF Raised
    <3> QED
      BY <2>2, <3>1, <3>2, NextTaskFacts
  <2> QED
    BY <1>3, <2>1, <2>2 DEF ExamineNode
<1>4. ASSUME ExecutedWithCallbacks \/ FailContinue
      PROVE  StateShape'
  BY <1>4 DEF ExecutedWithCallbacks, FailContinue, WillNotBuild
<1>5. CASE HandleExecuted \/ HandleFailed
  BY <1>4, <1>5 DEF HandleExecuted, HandleFailed, DoFailed
<1>6. CASE PostprocessTask
  BY <1>6 DEF PostprocessTask, Postprocess
<1>7. ASSUME NEW targets, Retrieved(targets)
      PROVE  StateShape'
  BY <1>7 DEF Retrieved
<1>8. CASE SerialExecute
  BY <1>7, <1>8 DEF SerialExecute
<1>9. ASSUME NEW w \in Workers, Work(w)
      PROVE  StateShape'
  BY <1>7, <1>9 DEF Work, Take, Retrieve, Built, tmVars, nodeVars
<1>10. CASE Prepare \/ Dispatch \/ Get \/ Cleanup \/ Signal \/ UNCHANGED vars
  BY <1>10 DEF Prepare, Dispatch, Get, Cleanup, Signal, Stop, vars, tmVars, nodeVars
<1> QED
  BY <1>1, <1>2, <1>3, <1>5, <1>6, <1>8, <1>9, <1>10 DEF Next, Main

-----------------------------------------------------------------------------
(* The invariant of Spec that what follows is proved from. *)
THEOREM Invariance == Spec => []IInv
<1>1. Init => IInv
  BY InitIInv
<1>2. IInv /\ [Next]_vars => IInv'
  <2> SUFFICES ASSUME IInv, [Next]_vars
               PROVE  IInv'
    OBVIOUS
  <2>0. StateShape'
    BY StateStep DEF IInv
  <2> USE <2>0 DEF IInv
  <2>1. CASE Pick
    <3>1. WalkInv'
      BY <2>1, SkipHandledStep, ConsiderStep DEF Pick
    <3>2. PoolInv'
      BY <2>1, PoolUntouched DEF Pick, Room
    <3> QED
      BY <3>1, <3>2
  <2>2. CASE NoTask
    BY <2>2, NoCandidateStep, PoolUntouched DEF NoTask, Room
  <2>3. CASE ExamineNode
    <3>1. WalkInv'
      BY <2>3, ExamineStep, NextTaskStep DEF ExamineNode
    <3>2. PoolInv'
      BY <2>3, PoolUntouched DEF ExamineNode, PoolInv, Room
    <3> QED
      BY <3>1, <3>2
  <2>4. CASE Prepare
    <3>1. WalkInv'
      BY <2>4, WaitsUntouched DEF Prepare, tmVars, nodeVars, walkVars, WalkInv, WalkShapes
    <3>2. PoolInv'
      BY <2>4, PoolUntouched DEF Prepare, PoolInv, Room
    <3> QED
      BY <3>1, <3>2
  <2>5. CASE Dispatch
    <3>1. WalkInv'
      BY <2>5, WaitsUntouched DEF Dispatch, tmVars, nodeVars, walkVars, WalkInv, WalkShapes
    <3> QED
      BY <2>5, <3>1, DispatchStep
  <2>6. CASE SerialExecute
    <3>1. WalkInv'
      BY <2>6, RetrievedStep DEF SerialExecute
    <3>2. PoolInv'
      BY <2>6, PoolUntouched DEF SerialExecute, PoolInv, Room
    <3> QED
      BY <3>1, <3>2
  <2>7. CASE Get
    <3>1. PoolInv' /\ task' \in Tasks
      BY <2>7, GetStep
    <3>2. WalkInv'
      BY <2>7, <3>1, WaitsUntouched DEF Get, nodeVars, walkVars, WalkInv, WalkShapes
    <3> QED
      BY <3>1, <3>2
  <2>8. CASE HandleExecuted \/ HandleFailed
    <3>1. WalkInv'
      BY <2>8, DoFailedStep, ExecutedStep DEF HandleExecuted, HandleFailed
    <3>2. PoolInv'
      BY <2>8, PoolUntouched DEF HandleExecuted, HandleFailed, PoolInv, Room
    <3> QED
      BY <3>1, <3>2
  <2>9. CASE PostprocessTask
    <3>1. WalkInv'
      BY <2>9, PostprocessStep DEF PostprocessTask
    <3>2. PoolInv'
      BY <2>9, PoolUntouched DEF PostprocessTask, PoolInv, Room
    <3> QED
      BY <3>1, <3>2
  <2>10. CASE Cleanup
    BY <2>10, PoolUntouched, WaitsUntouched DEF Cleanup, tmVars, nodeVars, walkVars, WalkInv,
       WalkShapes, PoolInv, Room
  <2>11. CASE Signal
    <3>1. WalkInv'
      BY <2>11, StopStep DEF Signal
    <3>2. PoolInv'
      BY <2>11, PoolUntouched DEF Signal, PoolInv, Room
    <3> QED
      BY <3>1, <3>2
  <2>12. ASSUME NEW w \in Workers, Work(w)
         PROVE  IInv'
    <3>1. CASE Take(w)
      <4>1. WalkInv'
        BY <3>1, WaitsUntouched DEF Take, tmVars, nodeVars, walkVars, WalkInv, WalkShapes
      <4> QED
        BY <3>1, <4>1, TakeStep
    <3>2. CASE Retrieve(w)
      BY <3>2, RetrieveStep
    <3>3. CASE Built(w)
      <4>1. WalkInv'
        BY <3>3, WaitsUntouched DEF Built, tmVars, nodeVars, walkVars, WalkInv, WalkShapes
      <4> QED
        BY <3>3, <4>1, AnsweredStep DEF Built
    <3> QED
      BY <2>12, <3>1, <3>2, <3>3 DEF Work
  <2>13. CASE UNCHANGED vars
    BY <2>13, WaitsUntouched, PoolUntouched DEF vars, tmVars, jobVars, poolVars, nodeVars,
       walkVars, WalkInv, WalkShapes, PoolInv, Room
  <2> QED
    BY <2>1, <2>2, <2>3, <2>4, <2>5, <2>6, <2>7, <2>8, <2>9, <2>10, <2>11, <2>12, <2>13 DEF Next, Main
<1> QED
  BY <1>1, <1>2, PTL DEF Spec

(* Every job that is counted is out exactly once, and never more of them   *)
(* than were allowed, whatever the workers and signals do (Job.py,         *)
(* Parallel.start).                                                        *)
THEOREM JobsAlwaysCounted == Spec => []JobsCounted
  BY Invariance, PTL DEF IInv, PoolInv

(* Reference counts are the numbers of nodes that are waited for, in every *)
(* graph in which no side effect is a child: none is counted twice, and    *)
(* none counted down twice by a failure and by postprocess                 *)
(* (Taskmaster.py).                                                        *)
THEOREM WaitsAlwaysCounted == Spec => [](EffectsUnneeded => WaitCounts)
<1>1. IInv => (EffectsUnneeded => WaitCounts)
  BY DEF IInv, WalkInv, Waits
<1> QED
  BY <1>1, Invariance, PTL

-----------------------------------------------------------------------------
(* Side effects.  A task keeps its side effects "executing" from when it   *)
(* was made until its results are handled, wherever it is: a request, with *)
(* a worker, a result, or with the main thread.  Once the build has been   *)
(* stopped, and no node is being examined, no task is made any more.       *)

(* The side effects that the property speaks of; nobody asks for them.     *)
Private(s) == SideEffect(s) /\ s \notin Spoiled
Public == {n \in Nodes : ~ Private(n)}

Request(i) == <<"request", i>>
Result(i) == <<"result", i>>
Worker(w) == <<"worker", w>>
MainThread == <<"main", 0>>

Handling ==
  \/ pc \in {"prepare", "execute", "executed", "failed"}
  \/ pc = "postprocess" /\ ~ stopped
Places ==
  {Request(i) : i \in DOMAIN requests} \cup {Result(i) : i \in DOMAIN results}
    \cup {Worker(w) : w \in Workings} \cup {p \in {MainThread} : Handling}
TaskAt(p) ==
  CASE p[1] = "request" -> requests[p[2]]
    [] p[1] = "result" -> results[p[2]].task
    [] p[1] = "worker" -> working[p[2]].task
    [] p[1] = "main" -> task
EffectsAt(p) == Effects(TaskAt(p).targets) \ Spoiled
TargetsAt(p) == ToSet(TaskAt(p).targets)

Late == stopped /\ pc # "examine"
Bound(p) ==
  p = MainThread => pc = "execute" \/ (pc = "prepare" /\ NeedsExecute /\ ~ task.broken)

Apart == \A p, q \in Places : p # q => EffectsAt(p) \cap EffectsAt(q) = {}
Held ==
  \A p \in Places : Bound(p) => Late \/ \A s \in EffectsAt(p) : state[s] = Executing
Shaped ==
  \A p \in Places : TaskAt(p).targets = graph.targets[TaskAt(p).node] /\ TaskAt(p).node \in Public
OutInv == Apart /\ Held /\ Shaped

(* Who is on the stack or waits, and what is examined, is public.          *)
WalkPublic ==
  /\ candidates \in Seq(Public) /\ topLeft \in Seq(Public)
  /\ waitingParents \in [Nodes -> SUBSET Public]
  /\ waitingSE \in [Nodes -> SUBSET Public]
  /\ ready.kids \in Seq(Public)
  /\ pc = "examine" => ready.node \in Public

EffectInv == OutInv /\ WalkPublic

(* A step that lets every side effect that is being made be, but for S. *)
LetsBe(S) ==
  \A s \in Nodes : Private(s) /\ s \notin S /\ state[s] = Executing =>
    state'[s] = Executing

(* What depends on the graph only. *)
LEMMA SameGraph ==
    ASSUME graph' = graph
    PROVE  /\ Public' = Public /\ Spoiled' = Spoiled
           /\ \A targets : Effects(targets)' = Effects(targets)
           /\ \A s : (Private(s)' <=> Private(s)) /\ (SideEffect(s)' <=> SideEffect(s))
<1>1. \A targets : Effects(targets)' = Effects(targets)
  BY DEF Effects
<1>2. Spoiled' = Spoiled
  BY <1>1 DEF Spoiled, Wanted
<1>3. \A s : (Private(s)' <=> Private(s)) /\ (SideEffect(s)' <=> SideEffect(s))
  BY <1>2 DEF Private, SideEffect
<1> QED
  BY <1>1, <1>2, <1>3 DEF Public

LEMMA PlacesDiffer ==
    /\ \A i, j : /\ Request(i) # Result(j) /\ Request(i) # Worker(j) /\ Result(i) # Worker(j)
                 /\ (Request(i) = Request(j) => i = j)
                 /\ (Result(i) = Result(j) => i = j)
                 /\ (Worker(i) = Worker(j) => i = j)
    /\ \A i : Request(i) # MainThread /\ Result(i) # MainThread /\ Worker(i) # MainThread
  BY DEF Request, Result, Worker, MainThread

LEMMA PlaceFacts ==
    /\ \A i : /\ TaskAt(Request(i)) = requests[i] /\ TaskAt(Request(i))' = requests'[i]
              /\ TaskAt(Result(i)) = results[i].task /\ TaskAt(Result(i))' = results'[i].task
              /\ TaskAt(Worker(i)) = working[i].task /\ TaskAt(Worker(i))' = working'[i].task
    /\ TaskAt(MainThread) = task /\ TaskAt(MainThread)' = task'
  BY DEF Request, Result, Worker, MainThread, TaskAt

LEMMA TasksAtPlaces ==
    ASSUME IInv, NEW p \in Places
    PROVE  TaskAt(p) \in Tasks
<1>1. CASE \E i \in DOMAIN requests : p = Request(i)
  BY <1>1, PlaceFacts, PlacesDiffer DEF IInv, PoolInv, PoolShapes
<1>2. CASE \E i \in DOMAIN results : p = Result(i)
  <2>1. PICK i \in DOMAIN results : p = Result(i)
    BY <1>2
  <2>2. results[i] \in [task : Tasks, ok : BOOLEAN]
    <3> DEFINE R == [task : Tasks, ok : BOOLEAN]
    <3>1. results \in Seq(R)
      BY DEF IInv, PoolInv, PoolShapes
    <3> HIDE DEF R
    <3>2. results[i] \in R
      BY <3>1
    <3> QED
      BY <3>2 DEF R
  <2> QED
    BY <2>1, <2>2, PlaceFacts, PlacesDiffer
<1>3. CASE \E w \in Workings : p = Worker(w)
  <2>1. PICK w \in Workings : p = Worker(w)
    BY <1>3
  <2>2. working[w] \in [stage : {"retrieving", "building"}, task : Tasks, done : Nat]
    BY DEF Workings, Idle, IInv, PoolInv, PoolShapes
  <2> QED
    BY <2>1, <2>2, PlaceFacts, PlacesDiffer
<1>4. CASE p = MainThread
  BY <1>4, PlaceFacts, PlacesDiffer DEF IInv, WalkInv, WalkShapes
<1> QED
  BY <1>1, <1>2, <1>3, <1>4 DEF Places

LEMMA EffectsAreSideEffects ==
    ASSUME IInv, NEW t \in Tasks
    PROVE  \A s \in Effects(t.targets) : s \in Nodes /\ SideEffect(s)
<1>1. ToSet(t.targets) \subseteq Nodes
  BY Elements DEF Tasks
<1>2. \A n \in Nodes : ToSet(graph.effects[n]) \subseteq Nodes
  BY GraphFacts, Elements DEF IInv, WalkInv, WalkShapes
<1> QED
  BY <1>1, <1>2 DEF Effects, SideEffect

LEMMA EffectsArePrivate ==
    ASSUME IInv, NEW p \in Places
    PROVE  \A s \in EffectsAt(p) : s \in Nodes /\ Private(s)
  BY TasksAtPlaces, EffectsAreSideEffects DEF EffectsAt, Private

(* The tasks whose action may still fail. *)
MayFail(p) ==
  \/ p[1] = "request"
  \/ p[1] = "worker" /\ working[p[2]].stage = "building"
  \/ p[1] = "result" /\ ~ results[p[2]].ok
  \/ p = MainThread /\ pc \in {"prepare", "execute", "failed"}

(* The main thread has a task that make_ready has left as it was, and for  *)
(* which it raised an error.                                               *)
Raising ==
  pc \in {"prepare", "failed"} /\ task.broken /\ \A t \in ToSet(task.targets) : state[t] <= Pending

(* A step in which tasks go from place to place; m is where they were. *)
Moving(m) ==
  /\ \A p \in Places' :
       /\ m[p] \in Places
       /\ TaskAt(p)' = TaskAt(m[p])
       /\ Bound(p)' => Bound(m[p])
       /\ MayFail(p)' => MayFail(m[p])
       /\ p = MainThread /\ pc' = "postprocess" <=> m[p] = MainThread /\ pc = "postprocess"
       /\ m[p] = MainThread /\ Raising => p = MainThread /\ Raising'
  /\ \A p, q \in Places' : m[p] = m[q] => p = q
  /\ \A q \in Places : \E p \in Places' : m[p] = q

LEMMA FailFacts ==
    /\ \A i : /\ MayFail(Request(i))
              /\ MayFail(Result(i)) <=> ~ results[i].ok
              /\ MayFail(Result(i))' <=> ~ results'[i].ok
              /\ MayFail(Worker(i)) <=> working[i].stage = "building"
              /\ MayFail(Worker(i))' <=> working'[i].stage = "building"
    /\ MayFail(MainThread) <=> pc \in {"prepare", "execute", "failed"}
    /\ MayFail(MainThread)' <=> pc' \in {"prepare", "execute", "failed"}
  BY DEF Request, Result, Worker, MainThread, MayFail

(* Tasks that go from place to place keep their side effects. *)
LEMMA Moved ==
    ASSUME OutInv, graph' = graph, NEW m,
           \A p \in Places' : /\ m[p] \in Places
                              /\ TaskAt(p)' = TaskAt(m[p])
                              /\ Bound(p)' => Bound(m[p]),
           \A p, q \in Places' : m[p] = m[q] => p = q,
           Late => Late',
           \A p \in Places' : Bound(p)' /\ ~ Late' =>
             \A s \in EffectsAt(m[p]) : state[s] = Executing => state'[s] = Executing
    PROVE  OutInv'
<1>1. \A p \in Places' : EffectsAt(p)' = EffectsAt(m[p])
  BY SameGraph DEF EffectsAt
<1>2. Apart'
  BY <1>1 DEF OutInv, Apart
<1>3. Held'
  <2> SUFFICES ASSUME NEW p \in Places', Bound(p)'
               PROVE  Late' \/ \A s \in EffectsAt(p)' : state'[s] = Executing
    BY DEF Held
  <2>1. Late \/ \A s \in EffectsAt(m[p]) : state[s] = Executing
    BY DEF OutInv, Held
  <2> QED
    BY <1>1, <2>1
<1>4. Shaped'
  <2>1. Public' = Public
    BY SameGraph
  <2> QED
    BY <2>1 DEF OutInv, Shaped
<1> QED
  BY <1>2, <1>3, <1>4 DEF OutInv

(* The tasks stay where they are, but for the main thread's, which it may  *)
(* be done with.                                                           *)
LEMMA Stay ==
    ASSUME IInv, OutInv, UNCHANGED <<graph, requests, results>>, Workings' = Workings,
           \A w \in Workings : working'[w].task = working[w].task,
           Handling' => Handling /\ task' = task,
           Bound(MainThread)' => Bound(MainThread) \/ ~ Handling',
           Late => Late',
           NEW S,
           Late' \/ LetsBe(S),
           \A p \in Places : p \in Places' /\ Bound(p)' /\ ~ Late' => EffectsAt(p) \cap S = {}
    PROVE  OutInv'
<1> DEFINE m == [p \in Places' |-> p]
<1>1. \A p \in Places' : p \in Places
  BY DEF Places
<1>2. \A p \in Places' : TaskAt(p)' = TaskAt(p)
  BY PlaceFacts, PlacesDiffer DEF Places
<1>3. \A p \in Places' : Bound(p)' => Bound(p)
  <2>1. MainThread \in Places' => Handling'
    BY PlaceFacts, PlacesDiffer DEF Places
  <2>2. \A p : p # MainThread => Bound(p)
    BY DEF Bound
  <2> QED
    BY <2>1, <2>2
<1>4. ASSUME NEW p \in Places', Bound(p)', ~ Late', NEW s \in EffectsAt(p), state[s] = Executing
      PROVE  state'[s] = Executing
  <2>1. s \in Nodes /\ Private(s)
    BY <1>1, <1>4, EffectsArePrivate
  <2> QED
    BY <1>1, <1>4, <2>1 DEF LetsBe
<1>5. \A p \in Places' : m[p] = p
  OBVIOUS
<1> HIDE DEF m
<1>6. \A p \in Places' : /\ m[p] \in Places
                         /\ TaskAt(p)' = TaskAt(m[p])
                         /\ Bound(p)' => Bound(m[p])
  BY <1>1, <1>2, <1>3, <1>5
<1>7. \A p, q \in Places' : m[p] = m[q] => p = q
  BY <1>5
<1>8. \A p \in Places' : Bound(p)' /\ ~ Late' =>
        \A s \in EffectsAt(m[p]) : state[s] = Executing => state'[s] = Executing
  BY <1>4, <1>5
<1> QED
  BY <1>6, <1>7, <1>8, Moved

LEMMA DispatchMoves ==
    ASSUME IInv, Dispatch
    PROVE  \E m : Moving(m)
<1>0. PICK n : n = Len(requests) + 1
  OBVIOUS
<1> DEFINE m == [p \in Places' |-> IF p = Request(n) THEN MainThread ELSE p]
<1>1. /\ requests' = Append(requests, task) /\ pc = "execute" /\ pc' \in {"next", "get"}
      /\ UNCHANGED <<graph, results, working, state, task, stopped>>
      /\ requests \in Seq(Tasks)
  BY DEF Dispatch, tmVars, nodeVars, walkVars, IInv, PoolInv, PoolShapes
<1>2. /\ DOMAIN requests' = DOMAIN requests \cup {n} /\ n \notin DOMAIN requests
      /\ requests'[n] = task /\ \A i \in DOMAIN requests : requests'[i] = requests[i]
  BY <1>0, <1>1
<1>3. Workings' = Workings
  BY <1>1 DEF Workings
<1>4. MainThread \notin Places' /\ MainThread \in Places /\ Bound(MainThread)
  BY <1>1, PlaceFacts, PlacesDiffer DEF Places, Handling, Bound
<1>5. Places' = (Places \ {MainThread}) \cup {Request(n)} /\ Request(n) \notin Places
  <2>1. Request(n) \notin Places
    BY <1>2, PlaceFacts, PlacesDiffer DEF Places
  <2>2. ASSUME NEW p \in Places', p # Request(n)
        PROVE  p \in Places \ {MainThread}
    BY <1>1, <1>2, <1>3, <1>4, <2>2, PlaceFacts, PlacesDiffer DEF Places
  <2>3. ASSUME NEW p \in Places, p # MainThread
        PROVE  p \in Places'
    BY <1>1, <1>2, <1>3, <2>3, PlaceFacts, PlacesDiffer DEF Places
  <2>4. Request(n) \in Places'
    BY <1>2 DEF Places
  <2> QED
    BY <2>1, <2>2, <2>3, <2>4, <1>4
<1>6. \A p \in Places' : TaskAt(p)' = TaskAt(m[p]) /\ m[p] \in Places
  <2>1. TaskAt(Request(n))' = TaskAt(MainThread)
    BY <1>2, PlaceFacts, PlacesDiffer
  <2>2. \A p \in Places \ {MainThread} : TaskAt(p)' = TaskAt(p)
    BY <1>1, <1>2, PlaceFacts, PlacesDiffer DEF Places
  <2> QED
    BY <1>4, <1>5, <2>1, <2>2
<1>7. \A p, q \in Places' : m[p] = m[q] => p = q
  BY <1>4
<1>8. \A p \in Places' : Bound(m[p])
  BY <1>4 DEF Bound
<1>9. \A p \in Places' : MayFail(p)' => MayFail(m[p])
  <2>1. MayFail(MainThread)
    BY <1>1, FailFacts
  <2>2. \A p : p # MainThread => (MayFail(p)' <=> MayFail(p))
    BY <1>1 DEF MayFail
  <2> QED
    BY <1>4, <2>1, <2>2
<1>10. \A q \in Places : \E p \in Places' : m[p] = q
  BY <1>4, <1>5
<1> HIDE DEF m
<1>11. Moving(m)
  <2>1. ~ Raising
    BY <1>1 DEF Raising
  <2> QED
    BY <1>1, <1>4, <1>6, <1>7, <1>8, <1>9, <1>10, <2>1 DEF Moving
<1> QED
  BY <1>11

LEMMA GetMoves ==
    ASSUME IInv, Get
    PROVE  \E m : Moving(m)
<1> DEFINE m == [p \in Places' |-> IF p = MainThread THEN Result(1)
                                   ELSE IF \E i \in DOMAIN results' : p = Result(i)
                                   THEN Result(p[2] + 1) ELSE p]
<1>1. /\ results # <<>> /\ results' = Tail(results) /\ task' = Head(results).task
      /\ pc = "get" /\ pc' \in {"executed", "failed"}
      /\ UNCHANGED <<graph, requests, working, state, stopped>>
      /\ results \in Seq([task : Tasks, ok : BOOLEAN])
  BY DEF Get, nodeVars, walkVars, IInv, PoolInv, PoolShapes
<1>2. /\ 1 \in DOMAIN results /\ task' = results[1].task
      /\ \A i \in DOMAIN results' : i + 1 \in DOMAIN results /\ results'[i] = results[i + 1]
      /\ \A i \in DOMAIN results' : i \in Nat \ {0}
  <2> DEFINE R == [task : Tasks, ok : BOOLEAN]
  <2>1. results \in Seq(R)
    BY <1>1
  <2> HIDE DEF R
  <2>2. Head(results) = results[1] /\ Len(results') = Len(results) - 1 /\ Len(results) \in Nat \ {0}
        /\ DOMAIN results = 1 .. Len(results) /\ DOMAIN results' = 1 .. Len(results')
        /\ \A i \in 1 .. Len(results') : results'[i] = results[i + 1]
    BY <1>1, <2>1
  <2> QED
    BY <1>1, <2>2
<1>3. Workings' = Workings
  BY <1>1 DEF Workings
<1>4. /\ m[MainThread] = Result(1) /\ MainThread \in Places'
      /\ \A i \in DOMAIN results' : Result(i) \in Places' /\ m[Result(i)] = Result(i + 1)
      /\ \A i \in DOMAIN requests : Request(i) \in Places' /\ m[Request(i)] = Request(i)
      /\ \A w \in Workings : Worker(w) \in Places' /\ m[Worker(w)] = Worker(w)
  <2>1. MainThread \in Places' /\ \A i \in DOMAIN results' : Result(i) \in Places'
    BY <1>1 DEF Places, Handling
  <2>2. /\ \A i \in DOMAIN requests : Request(i) \in Places'
        /\ \A w \in Workings : Worker(w) \in Places'
    BY <1>1, <1>3 DEF Places
  <2>3. \A i : Result(i)[2] = i
    BY DEF Result
  <2> QED
    BY <2>1, <2>2, <2>3, PlaceFacts, PlacesDiffer
<1> HIDE DEF m
<1>5. \A p \in Places' : \/ p = MainThread \/ \E i \in DOMAIN results' : p = Result(i)
                         \/ \E i \in DOMAIN requests : p = Request(i)
                         \/ \E w \in Workings : p = Worker(w)
  BY <1>1, <1>3 DEF Places
<1>6. \A p \in Places' : TaskAt(p)' = TaskAt(m[p]) /\ m[p] \in Places
  <2>1. TaskAt(MainThread)' = TaskAt(Result(1)) /\ Result(1) \in Places
    BY <1>2, PlaceFacts, PlacesDiffer DEF Places
  <2>2. \A i \in DOMAIN results' : TaskAt(Result(i))' = TaskAt(Result(i + 1)) /\ Result(i + 1) \in Places
    BY <1>2, PlaceFacts, PlacesDiffer DEF Places
  <2>3. \A i \in DOMAIN requests : TaskAt(Request(i))' = TaskAt(Request(i)) /\ Request(i) \in Places
    BY <1>1, PlaceFacts, PlacesDiffer DEF Places
  <2>4. \A w \in Workings : TaskAt(Worker(w))' = TaskAt(Worker(w)) /\ Worker(w) \in Places
    BY <1>1, PlaceFacts, PlacesDiffer DEF Places
  <2> QED
    BY <1>4, <1>5, <2>1, <2>2, <2>3, <2>4
<1>7. \A p, q \in Places' : m[p] = m[q] => p = q
  <2>1. \A i, j \in DOMAIN results' : i + 1 # 1 /\ (i + 1 = j + 1 => i = j)
    BY <1>2
  <2>2. \A i, j \in DOMAIN results' :
           m[Result(i)] # m[MainThread] /\ (m[Result(i)] = m[Result(j)] => i = j)
    BY <1>4, <2>1, PlacesDiffer
  <2>3. \A i, j \in DOMAIN requests :
           m[Request(i)] # m[MainThread] /\ (m[Request(i)] = m[Request(j)] => i = j)
    BY <1>4, PlacesDiffer
  <2>4. \A v, w \in Workings :
           m[Worker(w)] # m[MainThread] /\ (m[Worker(v)] = m[Worker(w)] => v = w)
    <3>1. \A w \in Workings : m[Worker(w)] = Worker(w)
      BY <1>4
    <3> QED
      BY <1>4, <3>1, PlacesDiffer
  <2>5. /\ \A i \in DOMAIN results', j \in DOMAIN requests : m[Result(i)] # m[Request(j)]
        /\ \A i \in DOMAIN results', w \in Workings : m[Result(i)] # m[Worker(w)]
        /\ \A j \in DOMAIN requests, w \in Workings : m[Request(j)] # m[Worker(w)]
    <3>1. \A i \in DOMAIN results' : m[Result(i)] = Result(i + 1)
      BY <1>4
    <3>2. \A i \in DOMAIN requests : m[Request(i)] = Request(i)
      BY <1>4
    <3>3. \A w \in Workings : m[Worker(w)] = Worker(w)
      BY <1>4
    <3> QED
      BY <3>1, <3>2, <3>3, PlacesDiffer
  <2> QED
    BY <1>5, <2>2, <2>3, <2>4, <2>5
<1>8. \A p \in Places' : m[p] # MainThread /\ Bound(m[p])
  <2>1. \A p \in Places' : m[p] # MainThread
    BY <1>4, <1>5, PlaceFacts, PlacesDiffer
  <2> QED
    BY <2>1 DEF Bound
<1>9. \A p \in Places' : MayFail(p)' => MayFail(m[p])
  <2>1. MayFail(MainThread)' => MayFail(Result(1))
    <3>1. pc' = IF results[1].ok THEN "executed" ELSE "failed"
      BY <1>1, <1>2 DEF Get
    <3> QED
      BY <3>1, FailFacts
  <2>2. \A i \in DOMAIN results' : MayFail(Result(i))' => MayFail(Result(i + 1))
    BY <1>2, FailFacts
  <2>3. \A i \in DOMAIN requests : MayFail(m[Request(i)])
    BY <1>4, FailFacts
  <2>4. \A w \in Workings : MayFail(Worker(w))' => MayFail(m[Worker(w)])
    BY <1>1, <1>4, FailFacts
  <2> QED
    BY <1>4, <1>5, <2>1, <2>2, <2>3, <2>4
<1>10. \A q \in Places : \E p \in Places' : m[p] = q
  <2>1. ASSUME NEW i \in DOMAIN results
        PROVE  \E p \in Places' : m[p] = Result(i)
    <3>1. CASE i = 1
      BY <1>4, <3>1
    <3>2. CASE i # 1
      <4>1. i - 1 \in DOMAIN results' /\ (i - 1) + 1 = i
        <5>1. PICK R : R = [task : Tasks, ok : BOOLEAN]
          OBVIOUS
        <5>2. results \in Seq(R) /\ results # <<>> /\ results' = Tail(results)
          BY <1>1, <5>1
        <5> QED
          BY <3>2, <5>2
      <4> QED
        BY <1>4, <4>1
    <3> QED
      BY <3>1, <3>2
  <2>2. MainThread \notin Places
    BY <1>1, PlacesDiffer DEF Places, Handling
  <2> QED
    BY <1>4, <2>1, <2>2 DEF Places
<1>11. Moving(m)
  BY <1>1, <1>6, <1>7, <1>8, <1>9, <1>10 DEF Moving
<1> QED
  BY <1>11

(* A task that a worker or the queue has, and that becomes a result. *)
LEMMA AnsweredMoves ==
    ASSUME IInv, NEW w \in Workings, NEW ok \in BOOLEAN, Answered(w, ok),
           ok \/ working[w].stage = "building",
           UNCHANGED <<tmVars, pc, requests>>
    PROVE  \E m : Moving(m)
<1>0. PICK n : n = Len(results) + 1
  OBVIOUS
<1> DEFINE m == [p \in Places' |-> IF p = Result(n) THEN Worker(w) ELSE p]
<1>1. /\ results' = Append(results, [task |-> working[w].task, ok |-> ok])
      /\ working' = [working EXCEPT ![w] = Idle] /\ w \in Workers
      /\ UNCHANGED <<graph, requests, state, task, stopped, pc>>
      /\ working \in [Workers -> {Idle} \cup [stage : {"retrieving", "building"}, task : Tasks,
                                               done : Nat]]
      /\ results \in Seq([task : Tasks, ok : BOOLEAN])
  BY DEF Answered, tmVars, nodeVars, walkVars, IInv, PoolInv, PoolShapes, Workings
<1>2. /\ DOMAIN results' = DOMAIN results \cup {n} /\ n \notin DOMAIN results
      /\ results'[n].task = working[w].task /\ \A i \in DOMAIN results : results'[i] = results[i]
  <2>1. PICK x : x = [task |-> working[w].task, ok |-> ok]
    OBVIOUS
  <2>2. PICK R : R = [task : Tasks, ok : BOOLEAN]
    OBVIOUS
  <2>3. results \in Seq(R) /\ results' = Append(results, x)
    BY <1>1, <2>1, <2>2
  <2>4. /\ DOMAIN results' = DOMAIN results \cup {n} /\ n \notin DOMAIN results
        /\ results'[n] = x /\ \A i \in DOMAIN results : results'[i] = results[i]
    BY <1>0, <2>3
  <2> QED
    BY <2>1, <2>4
<1>3. Workings' = Workings \ {w} /\ \A v \in Workings' : working'[v] = working[v]
  BY <1>1 DEF Workings, Idle
<1>4. Result(n) \notin Places /\ Worker(w) \in Places /\ Worker(w) \notin Places'
  BY <1>1, <1>2, <1>3, PlacesDiffer DEF Places
<1>5. /\ Result(n) \in Places'
      /\ \A p \in Places' : p # Result(n) => p \in Places /\ p # Worker(w)
  BY <1>1, <1>2, <1>3, <1>4, PlacesDiffer DEF Places, Handling
<1>6. \A p \in Places' : TaskAt(p)' = TaskAt(m[p]) /\ m[p] \in Places
  <2>1. TaskAt(Result(n))' = TaskAt(Worker(w))
    BY <1>2, PlaceFacts
  <2>2. ASSUME NEW p \in Places', p # Result(n)
        PROVE  TaskAt(p)' = TaskAt(p)
    <3>1. CASE \E i \in DOMAIN requests : p = Request(i)
      BY <1>1, <3>1, PlaceFacts
    <3>2. CASE \E i \in DOMAIN results : p = Result(i)
      BY <1>2, <3>2, PlaceFacts
    <3>3. CASE \E v \in Workings' : p = Worker(v)
      BY <1>3, <3>3, PlaceFacts
    <3>4. CASE p = MainThread
      BY <1>1, <3>4, PlaceFacts
    <3> QED
      BY <1>1, <1>2, <2>2, <3>1, <3>2, <3>3, <3>4 DEF Places
  <2> QED
    BY <1>4, <1>5, <2>1, <2>2
<1>7. \A p, q \in Places' : m[p] = m[q] => p = q
  BY <1>5
<1>8. \A p \in Places' : Bound(p)' => Bound(m[p])
  <2>1. Bound(MainThread)' => Bound(MainThread)
    BY <1>1 DEF Bound, NeedsExecute
  <2>2. \A p : p # MainThread => Bound(p)
    BY DEF Bound
  <2>3. \A p \in Places' : m[p] = MainThread => p = MainThread
    BY PlacesDiffer
  <2> HIDE DEF m
  <2> QED
    BY <2>1, <2>2, <2>3
<1>9. \A p \in Places' : MayFail(p)' => MayFail(m[p])
  <2>1. MayFail(Result(n))' => MayFail(Worker(w))
    <3>1. results'[n].ok = ok
      <4>1. PICK x : x = [task |-> working[w].task, ok |-> ok]
        OBVIOUS
      <4>2. PICK R : R = [task : Tasks, ok : BOOLEAN]
        OBVIOUS
      <4>3. results \in Seq(R) /\ results' = Append(results, x)
        BY <1>1, <4>1, <4>2
      <4>4. results'[n] = x
        BY <1>0, <4>3
      <4> QED
        BY <4>1, <4>4
    <3> QED
      BY <3>1, FailFacts
  <2>2. ASSUME NEW p \in Places', p # Result(n), MayFail(p)'
        PROVE  MayFail(p)
    <3>1. CASE \E i \in DOMAIN requests : p = Request(i)
      BY <3>1, FailFacts
    <3>2. CASE \E i \in DOMAIN results : p = Result(i)
      BY <1>2, <2>2, <3>2, FailFacts
    <3>3. CASE \E v \in Workings' : p = Worker(v)
      BY <1>3, <2>2, <3>3, FailFacts
    <3>4. CASE p = MainThread
      BY <1>1, <2>2, <3>4, FailFacts
    <3> QED
      BY <1>1, <1>2, <2>2, <3>1, <3>2, <3>3, <3>4 DEF Places
  <2> QED
    BY <2>1, <2>2
<1>10. \A q \in Places : \E p \in Places' : m[p] = q
  <2>1. ASSUME NEW q \in Places, q # Worker(w)
        PROVE  q \in Places' /\ q # Result(n)
    BY <1>1, <1>2, <1>3, <1>4, <2>1 DEF Places, Handling
  <2> QED
    BY <1>5, <2>1
<1>11. \A p \in Places' : p = MainThread <=> m[p] = MainThread
  BY <1>4, PlacesDiffer
<1> HIDE DEF m
<1>12. Moving(m)
  <2>1. pc' = pc /\ (Raising' <=> Raising) /\ \A p \in Places' : p = MainThread => m[p] = p
    BY <1>1, <1>11 DEF Raising
  <2> QED
    BY <1>6, <1>7, <1>8, <1>9, <1>10, <1>11, <2>1 DEF Moving
<1> QED
  BY <1>12

LEMMA TakeMoves ==
    ASSUME IInv, NEW w \in Workers, Take(w)
    PROVE  \E m : Moving(m)
<1>0. PICK there : there = IF interrupted THEN Result(Len(results) + 1) ELSE Worker(w)
  OBVIOUS
<1> DEFINE m == [p \in Places' |-> IF p = there THEN Request(1)
                                   ELSE IF \E i \in DOMAIN requests' : p = Request(i)
                                   THEN Request(p[2] + 1) ELSE p]
<1>1. /\ requests # <<>> /\ requests' = Tail(requests) /\ working[w] = Idle
      /\ UNCHANGED <<graph, state, task, stopped, pc>>
      /\ requests \in Seq(Tasks) /\ results \in Seq([task : Tasks, ok : BOOLEAN])
      /\ working \in [Workers -> {Idle} \cup [stage : {"retrieving", "building"}, task : Tasks,
                                               done : Nat]]
  BY DEF Take, tmVars, nodeVars, walkVars, IInv, PoolInv, PoolShapes
<1>2. /\ 1 \in DOMAIN requests /\ Head(requests) = requests[1]
      /\ \A i \in DOMAIN requests' : i + 1 \in DOMAIN requests /\ requests'[i] = requests[i + 1]
      /\ \A i, j \in DOMAIN requests' : i + 1 # 1 /\ (i + 1 = j + 1 => i = j)
  BY <1>1
(* All the others stay. *)
<1>3. /\ there \in Places' /\ there \notin Places /\ TaskAt(there)' = requests[1]
      /\ there # MainThread
      /\ \A i : there # Request(i)
      /\ \A p \in Places' : \/ p = there
                            \/ \E i \in DOMAIN requests' : p = Request(i)
                            \/ /\ p \in Places /\ TaskAt(p)' = TaskAt(p)
                               /\ \A i : p # Request(i)
  <2>1. CASE interrupted
    <3>1. PICK n : n = Len(results) + 1
      OBVIOUS
    <3>2. results' = Append(results, [task |-> requests[1], ok |-> FALSE]) /\ working' = working
      BY <1>2, <2>1 DEF Take
    <3>3. /\ DOMAIN results' = DOMAIN results \cup {n} /\ n \notin DOMAIN results
          /\ results'[n].task = requests[1] /\ \A i \in DOMAIN results : results'[i] = results[i]
      <4>1. PICK x : x = [task |-> requests[1], ok |-> FALSE]
        OBVIOUS
      <4>2. PICK R : R = [task : Tasks, ok : BOOLEAN]
        OBVIOUS
      <4>3. results \in Seq(R) /\ results' = Append(results, x)
        BY <1>1, <3>2, <4>1, <4>2
      <4>4. /\ DOMAIN results' = DOMAIN results \cup {n} /\ n \notin DOMAIN results
            /\ results'[n] = x /\ \A i \in DOMAIN results : results'[i] = results[i]
        BY <3>1, <4>3
      <4> QED
        BY <4>1, <4>4
    <3>4. Workings' = Workings
      BY <3>2 DEF Workings
    <3>5. there = Result(n)
      BY <1>0, <2>1, <3>1
    <3>6. /\ there \in Places' /\ there \notin Places /\ TaskAt(there)' = requests[1]
          /\ there # MainThread /\ \A i : there # Request(i)
      BY <3>3, <3>5, PlaceFacts, PlacesDiffer DEF Places
    <3>7. ASSUME NEW p \in Places', p # there, ~ \E i \in DOMAIN requests' : p = Request(i)
          PROVE  p \in Places /\ TaskAt(p)' = TaskAt(p) /\ \A i : p # Request(i)
      <4>1. \/ \E i \in DOMAIN results : p = Result(i)
            \/ \E v \in Workings : p = Worker(v)
            \/ p = MainThread /\ Handling
        BY <1>1, <3>3, <3>4, <3>5, <3>7 DEF Places, Handling
      <4>2. CASE \E i \in DOMAIN results : p = Result(i)
        <5>1. PICK i \in DOMAIN results : p = Result(i)
          BY <4>2
        <5>2. results'[i] = results[i]
          BY <3>2, <3>3
        <5> QED
          BY <5>1, <5>2, PlaceFacts, PlacesDiffer DEF Places
      <4>3. CASE \E v \in Workings : p = Worker(v)
        <5>1. PICK v \in Workings : p = Worker(v)
          BY <4>3
        <5>2. working'[v] = working[v]
          BY <3>2, <3>3
        <5> QED
          BY <5>1, <5>2, PlaceFacts, PlacesDiffer DEF Places
      <4>4. CASE p = MainThread /\ Handling
        BY <1>1, <4>4, PlaceFacts, PlacesDiffer DEF Places
      <4> QED
        BY <4>1, <4>2, <4>3, <4>4
    <3> QED
      BY <3>6, <3>7
  <2>2. CASE ~ interrupted
    <3>1. PICK x : x = [stage |-> "retrieving", task |-> requests[1], done |-> 0]
      OBVIOUS
    <3>2. results' = results /\ working' = [working EXCEPT ![w] = x]
      BY <1>2, <2>2, <3>1 DEF Take
    <3>3. /\ Workings' = Workings \cup {w} /\ w \notin Workings /\ working'[w].task = requests[1]
          /\ \A v \in Workings : working'[v] = working[v]
      BY <1>1, <3>1, <3>2 DEF Workings, Idle
    <3>4. there = Worker(w)
      BY <1>0, <2>2
    <3>5. /\ there \in Places' /\ there \notin Places /\ TaskAt(there)' = requests[1]
          /\ there # MainThread /\ \A i : there # Request(i)
      BY <3>3, <3>4, PlaceFacts, PlacesDiffer DEF Places
    <3>6. ASSUME NEW p \in Places', p # there, ~ \E i \in DOMAIN requests' : p = Request(i)
          PROVE  p \in Places /\ TaskAt(p)' = TaskAt(p) /\ \A i : p # Request(i)
      <4>1. \/ \E i \in DOMAIN results : p = Result(i)
            \/ \E v \in Workings : p = Worker(v)
            \/ p = MainThread /\ Handling
        BY <1>1, <3>2, <3>3, <3>4, <3>6 DEF Places, Handling
      <4>2. CASE \E i \in DOMAIN results : p = Result(i)
        <5>1. PICK i \in DOMAIN results : p = Result(i)
          BY <4>2
        <5>2. results'[i] = results[i]
          BY <3>2, <3>3
        <5> QED
          BY <5>1, <5>2, PlaceFacts, PlacesDiffer DEF Places
      <4>3. CASE \E v \in Workings : p = Worker(v)
        <5>1. PICK v \in Workings : p = Worker(v)
          BY <4>3
        <5>2. working'[v] = working[v]
          BY <3>2, <3>3
        <5> QED
          BY <5>1, <5>2, PlaceFacts, PlacesDiffer DEF Places
      <4>4. CASE p = MainThread /\ Handling
        BY <1>1, <4>4, PlaceFacts, PlacesDiffer DEF Places
      <4> QED
        BY <4>1, <4>2, <4>3, <4>4
    <3> QED
      BY <3>5, <3>6
  <2> QED
    BY <2>1, <2>2
<1>4. /\ m[there] = Request(1)
      /\ \A i \in DOMAIN requests' : Request(i) \in Places' /\ m[Request(i)] = Request(i + 1)
  <2>1. \A i : Request(i)[2] = i
    BY DEF Request
  <2>2. \A i \in DOMAIN requests' : Request(i) \in Places'
    BY DEF Places
  <2> QED
    BY <1>3, <2>1, <2>2
<1>5. \A p \in Places' : p = there \/ (\E i \in DOMAIN requests' : p = Request(i)) \/ m[p] = p
  OBVIOUS
<1> HIDE DEF m
<1>6. \A p \in Places' : TaskAt(p)' = TaskAt(m[p]) /\ m[p] \in Places
  <2>1. TaskAt(there)' = TaskAt(Request(1)) /\ Request(1) \in Places
    BY <1>2, <1>3, PlaceFacts DEF Places
  <2>2. \A i \in DOMAIN requests' :
          TaskAt(Request(i))' = TaskAt(Request(i + 1)) /\ Request(i + 1) \in Places
    BY <1>2, PlaceFacts DEF Places
  <2> QED
    BY <1>3, <1>4, <1>5, <2>1, <2>2
<1>7. \A p, q \in Places' : m[p] = m[q] => p = q
  <2>1. \A i, j \in DOMAIN requests' :
           m[Request(i)] # m[there] /\ (m[Request(i)] = m[Request(j)] => i = j)
    BY <1>2, <1>4, PlacesDiffer
  <2>2. \A p \in Places' : p = there \/ (\E i \in DOMAIN requests' : p = Request(i))
                            \/ (m[p] = p /\ \A i : p # Request(i))
    BY <1>3, <1>5
  <2> QED
    BY <1>4, <2>1, <2>2
<1>8. \A p \in Places' : Bound(p)' => Bound(m[p])
  <2>1. Bound(MainThread)' => Bound(MainThread)
    BY <1>1 DEF Bound, NeedsExecute
  <2>2. \A p : p # MainThread => Bound(p)
    BY DEF Bound
  <2>3. \A p \in Places' : m[p] = MainThread => p = MainThread
    BY <1>4, <1>5, PlacesDiffer
  <2> QED
    BY <2>1, <2>2, <2>3
<1>9. /\ \A i \in DOMAIN results : i \in DOMAIN results' /\ results'[i] = results[i]
      /\ \A v \in Workings : v \in Workings' /\ working'[v] = working[v]
  <2>1. CASE interrupted
    <3>1. PICK x : x = [task |-> requests[1], ok |-> FALSE]
      OBVIOUS
    <3>2. PICK R : R = [task : Tasks, ok : BOOLEAN]
      OBVIOUS
    <3>3. results \in Seq(R) /\ results' = Append(results, x) /\ working' = working
      BY <1>1, <1>2, <2>1, <3>1, <3>2 DEF Take
    <3>4. \A i \in DOMAIN results : i \in DOMAIN results' /\ results'[i] = results[i]
      BY <3>3
    <3> QED
      BY <3>3, <3>4 DEF Workings
  <2>2. CASE ~ interrupted
    <3>1. PICK x : x = [stage |-> "retrieving", task |-> requests[1], done |-> 0]
      OBVIOUS
    <3>2. results' = results /\ working' = [working EXCEPT ![w] = x]
      BY <1>2, <2>2, <3>1 DEF Take
    <3> QED
      BY <1>1, <3>1, <3>2 DEF Workings, Idle
  <2> QED
    BY <2>1, <2>2
<1>10. \A p \in Places' : MayFail(p)' => MayFail(m[p])
  <2>1. \A p \in Places' : m[p] = p /\ (\A i : p # Request(i)) /\ p # there =>
           (MayFail(p)' => MayFail(p))
    <3> SUFFICES ASSUME NEW p \in Places', \A i : p # Request(i), p # there, MayFail(p)'
                 PROVE  MayFail(p)
      OBVIOUS
    <3>1. p \in Places
      BY <1>3
    <3>2. CASE \E i \in DOMAIN results : p = Result(i)
      <4>1. PICK i \in DOMAIN results : p = Result(i)
        BY <3>2
      <4> QED
        BY <1>9, <4>1, FailFacts
    <3>3. CASE \E v \in Workings : p = Worker(v)
      <4>1. PICK v \in Workings : p = Worker(v)
        BY <3>3
      <4> QED
        BY <1>9, <4>1, FailFacts
    <3>4. CASE p = MainThread
      BY <1>1, <3>4, FailFacts
    <3> QED
      BY <3>1, <3>2, <3>3, <3>4 DEF Places
  <2>2. MayFail(Request(1)) /\ \A i : MayFail(Request(i + 1))
    BY FailFacts
  <2> QED
    BY <1>3, <1>4, <1>5, <2>1, <2>2
<1>11. \A q \in Places : \E p \in Places' : m[p] = q
  <2>1. ASSUME NEW i \in DOMAIN requests
        PROVE  \E p \in Places' : m[p] = Request(i)
    <3>1. CASE i = 1
      BY <1>3, <1>4, <3>1
    <3>2. CASE i # 1
      <4>1. i - 1 \in DOMAIN requests' /\ (i - 1) + 1 = i
        BY <1>1, <3>2
      <4> QED
        BY <1>4, <4>1
    <3> QED
      BY <3>1, <3>2
  <2>2. ASSUME NEW q \in Places, \A i : q # Request(i)
        PROVE  q \in Places' /\ m[q] = q
    <3>1. q \in Places'
      <4>1. CASE \E i \in DOMAIN results : q = Result(i)
        BY <1>9, <4>1 DEF Places
      <4>2. CASE \E v \in Workings : q = Worker(v)
        BY <1>9, <4>2 DEF Places
      <4>3. CASE q = MainThread
        BY <1>1, <2>2, <4>3, PlacesDiffer DEF Places, Handling
      <4> QED
        BY <2>2, <4>1, <4>2, <4>3 DEF Places
    <3>2. q # there
      BY <1>3
    <3> QED
      BY <1>5, <2>2, <3>1, <3>2
  <2>3. \A q \in Places : (\E i \in DOMAIN requests : q = Request(i)) \/ (\A i : q # Request(i))
    BY PlacesDiffer DEF Places
  <2> QED
    BY <2>1, <2>2, <2>3
<1>12. \A p \in Places' : p = MainThread <=> m[p] = MainThread
  <2>1. \A i : Request(i) # MainThread
    BY PlacesDiffer
  <2> QED
    BY <1>3, <1>4, <1>5, <2>1
<1>13. Moving(m)
  <2>1. pc' = pc /\ (Raising' <=> Raising) /\ \A p \in Places' : p = MainThread => m[p] = p
    BY <1>1, <1>12 DEF Raising
  <2> QED
    BY <1>6, <1>7, <1>8, <1>10, <1>11, <1>12, <2>1 DEF Moving
<1> QED
  BY <1>13

(* The steps in which that happens, and nothing else. *)
Moves ==
  /\ \E m : Moving(m)
  /\ UNCHANGED <<graph, nodeVars, stopped>>
  /\ pc # "examine" => pc' # "examine"

LEMMA EffectsOnMoves ==
    ASSUME OutInv, Moves
    PROVE  OutInv'
<1>1. PICK m : Moving(m)
  BY DEF Moves
<1>2. Late => Late'
  BY DEF Late, Moves
<1> QED
  BY <1>1, <1>2, Moved DEF Moving, Moves, nodeVars

-----------------------------------------------------------------------------
(* What the steps of the taskmaster do to side effects. *)

(* A side effect is a target of no executor but its own. *)
LEMMA OwnTarget ==
    ASSUME IInv, NEW n \in Public, NEW s \in ToSet(graph.targets[n])
    PROVE  s \in Public
<1>1. /\ n \in Nodes /\ s \in Nodes /\ n \in ToSet(graph.targets[n]) /\ graph \in Graphs
      /\ graph.targets[s] = graph.targets[n]
  <2>1. n \in Nodes /\ graph \in Graphs
    BY DEF Public, IInv, WalkInv, WalkShapes
  <2>2. s \in Nodes
    BY <2>1, GraphFacts, Elements
  <2> QED
    BY <2>1, <2>2, GraphAssumption
<1>2. ASSUME SideEffect(s)
      PROVE  n = s
  <2>1. s \in graph.plain
    BY <1>1, <1>2, GraphAssumption DEF SideEffect
  <2>2. graph.targets[s] = <<s>>
    BY <1>1, <2>1, GraphAssumption
  <2> QED
    BY <1>1, <2>2 DEF ToSet
<1> QED
  BY <1>1, <1>2 DEF Public, Private

LEMMA LetsBeRetrieved ==
    ASSUME IInv, NEW n \in Public, NEW targets, Retrieved(targets),
           targets \subseteq ToSet(graph.targets[n])
    PROVE  LetsBe({})
<1> SUFFICES ASSUME NEW s \in Nodes, Private(s), state[s] = Executing
             PROVE  state'[s] = Executing
  BY DEF LetsBe
<1>1. s \notin targets
  BY OwnTarget DEF Public
<1> QED
  BY <1>1 DEF Retrieved

(* The targets of the task that is handled are public.                     *)
LEMMA TargetsPublic ==
    ASSUME IInv, OutInv, Handling
    PROVE  ToSet(task.targets) \subseteq Public
<1>1. MainThread \in Places /\ TaskAt(MainThread) = task
  BY PlaceFacts DEF Places
<1>2. task.targets = graph.targets[task.node] /\ task.node \in Public
  BY <1>1 DEF OutInv, Shaped
<1> QED
  BY <1>2, OwnTarget

LEMMA LetsBeExecuted ==
    ASSUME IInv, OutInv, Handling, ExecutedWithCallbacks
    PROVE  LetsBe(EffectsAt(MainThread))
<1> SUFFICES ASSUME NEW s \in Nodes, Private(s), state[s] = Executing,
                    s \notin EffectsAt(MainThread)
             PROVE  state'[s] = Executing
  BY DEF LetsBe
<1> DEFINE finished == {t \in ToSet(task.targets) : state[t] = Executing}
<1>1. state'[s] = IF s \in finished THEN Executed
                  ELSE IF \E t \in finished : s \in ToSet(graph.effects[t]) THEN NoState
                  ELSE state[s]
  BY DEF ExecutedWithCallbacks
<1>2. s \notin finished
  BY TargetsPublic DEF Public
<1>3. ~ \E t \in finished : s \in ToSet(graph.effects[t])
  BY PlaceFacts DEF EffectsAt, Effects, Private
<1> QED
  BY <1>1, <1>2, <1>3

LEMMA LetsBeFailed ==
    ASSUME IInv, OutInv, WalkPublic, Handling, FailContinue
    PROVE  LetsBe({})
<1> SUFFICES ASSUME NEW s \in Nodes, Private(s), state[s] = Executing
             PROVE  state'[s] = Executing
  BY DEF LetsBe
<1> DEFINE targets == ToSet(task.targets)
<1>1. targets \subseteq Public
  BY TargetsPublic
<1>2. \A n \in Public : waitingParents[n] \subseteq Public
  BY DEF WalkPublic, Public
<1>3. s \notin Public /\ Public \in SUBSET Nodes
  BY DEF Public
<1> HIDE DEF targets
<1>4. s \notin Above(targets)
  BY <1>1, <1>2, <1>3 DEF Above
<1>5. state'[s] = IF s \in Above(targets) THEN Failed ELSE state[s]
  BY DEF FailContinue, WillNotBuild, targets
<1> QED
  BY <1>4, <1>5

LEMMA EffectsOnNextTask ==
    ASSUME IInv, OutInv, WalkPublic, pc = "examine", NextTask, pc' = "prepare", UNCHANGED poolVars
    PROVE  OutInv'
<1> DEFINE r == ready.node
           made == Effects(graph.targets[r]) \ Spoiled
<1>1. PICK broken \in BOOLEAN :
         /\ task' = [TaskOf(r) EXCEPT !.broken = broken]
         /\ MakeReady \/ (Raised /\ broken)
         /\ r \in graph.broken \/ BusyEffects = {}
         /\ UNCHANGED <<graph, mode, waitingParents, waitingSE, refCount, implicit, walkVars, ready>>
  BY NextTaskFacts
<1>2. PICK outOfDate \in BOOLEAN :
         \/ state' = [n \in Nodes |->
                       IF n \in ToSet(graph.targets[r]) THEN IF outOfDate THEN Executing ELSE UpToDate
                       ELSE IF outOfDate /\ n \in Effects(graph.targets[r]) THEN Executing
                       ELSE state[n]]
         \/ state' = state /\ broken
  BY <1>1 DEF MakeReady, Raised
<1>3. /\ task'.targets = graph.targets[r] /\ task'.node = r /\ r \in Nodes /\ r \in Public
      /\ Head(graph.targets[r]) \in ToSet(graph.targets[r])
      /\ Head(graph.targets[r]) \in Nodes
  <2>1. r \in Nodes /\ graph \in Graphs
    BY DEF IInv, WalkInv, WalkShapes
  <2>2. r \in ToSet(graph.targets[r]) /\ graph.targets[r] \in Seq(Nodes)
    BY <2>1, GraphAssumption, GraphFacts
  <2>3. graph.targets[r] # <<>>
    BY <2>2 DEF ToSet
  <2>4. Head(graph.targets[r]) \in ToSet(graph.targets[r])
    BY <2>2, <2>3 DEF ToSet
  <2>5. task'.targets = graph.targets[r] /\ task'.node = r
    BY <1>1 DEF TaskOf
  <2> QED
    BY <2>1, <2>2, <2>4, <2>5, Elements DEF WalkPublic
<1> HIDE DEF r
<1>4. /\ UNCHANGED <<graph, requests, results, working, stopped>>
      /\ Workings' = Workings
  BY <1>1 DEF poolVars, walkVars, Workings
<1>5. MainThread \notin Places /\ Places' = Places \cup {MainThread}
  BY <1>4, PlacesDiffer DEF Places, Handling
<1>6. \A p \in Places : TaskAt(p)' = TaskAt(p) /\ EffectsAt(p)' = EffectsAt(p)
  <2>1. \A p \in Places : TaskAt(p)' = TaskAt(p)
    BY <1>4, <1>5, PlaceFacts DEF Places
  <2> QED
    BY <1>4, <2>1, SameGraph DEF EffectsAt
<1>7. TaskAt(MainThread)' = task' /\ EffectsAt(MainThread)' = made
  BY <1>3, <1>4, PlaceFacts, SameGraph DEF EffectsAt
<1>8. \A s \in Nodes : Private(s) /\ state[s] = Executing => state'[s] = Executing
  <2>1. \A s \in Nodes : Private(s) => s \notin ToSet(graph.targets[r])
    BY <1>3, OwnTarget DEF Public
  <2> QED
    BY <1>2, <2>1
<1>9. /\ \A p \in Places : \A s \in EffectsAt(p) :
            s \in Nodes /\ Private(s) /\ state[s] = Executing
      /\ \A p \in Places : Bound(p)
  <2>1. \A p \in Places : Bound(p)
    BY <1>5 DEF Bound
  <2> QED
    BY <2>1, EffectsArePrivate DEF OutInv, Held, Late
<1>10. \A s \in made : s \in Nodes /\ state[s] # Executing
  <2>1. CASE r \in graph.plain \cup graph.broken
    BY <2>1 DEF Spoiled
  <2>2. CASE r \notin graph.plain \cup graph.broken
    <3>1. BusyEffects = {s \in Effects(graph.targets[r]) : state[s] = Executing}
      BY <2>2 DEF BusyEffects, ActionEffects, HasBuilder, r
    <3>2. \A n \in Nodes : ToSet(graph.effects[n]) \subseteq Nodes
      BY GraphFacts, Elements DEF IInv, WalkInv, WalkShapes
    <3>3. ToSet(graph.targets[r]) \subseteq Nodes
      BY <1>3, GraphFacts, Elements DEF IInv, WalkInv, WalkShapes
    <3> QED
      BY <1>1, <2>2, <3>1, <3>2, <3>3 DEF Effects
  <2> QED
    BY <2>1, <2>2
<1> HIDE DEF made
<1>11. Apart'
  BY <1>5, <1>6, <1>7, <1>9, <1>10 DEF OutInv, Apart
<1>12. Held'
  <2> SUFFICES ASSUME NEW p \in Places', Bound(p)'
               PROVE  \A s \in EffectsAt(p)' : state'[s] = Executing
    BY DEF Held
  <2>1. CASE p # MainThread
    BY <1>5, <1>6, <1>8, <1>9, <2>1
  <2>2. CASE p = MainThread
    <3>1. state'[Head(graph.targets[r])] = Executing /\ ~ broken
      BY <1>1, <1>3, <2>2 DEF Bound, NeedsExecute, TaskOf
    <3>2. outOfDate
      <4>1. state'[Head(graph.targets[r])] = IF outOfDate THEN Executing ELSE UpToDate
        BY <1>2, <1>3, <3>1
      <4> QED
        BY <3>1, <4>1 DEF Executing, UpToDate
    <3>3. \A s \in made : state'[s] = Executing
      BY <1>2, <1>10, <3>1, <3>2 DEF made
    <3> QED
      BY <1>7, <2>2, <3>3
  <2> QED
    BY <2>1, <2>2
<1>13. Shaped'
  BY <1>3, <1>4, <1>5, <1>6, <1>7, SameGraph DEF OutInv, Shaped
<1> QED
  BY <1>11, <1>12, <1>13 DEF OutInv

LEMMA PrefixExists ==
    ASSUME IInv
    PROVE  LET k == CachedPrefix(task.targets)
           IN  /\ k \in 0 .. Len(task.targets)
               /\ \A i \in 1 .. k : task.targets[i] \in graph.cached
               /\ k < Len(task.targets) => task.targets[k + 1] \notin graph.cached
<1> DEFINE targets == task.targets
           ends == {k \in 0 .. Len(targets) : k = Len(targets) \/ targets[k + 1] \notin graph.cached}
<1>1. Len(targets) \in Nat
  BY DEF IInv, WalkInv, WalkShapes, Tasks
<1> HIDE DEF targets
<1>2. ends \in SUBSET Nat /\ Len(targets) \in ends
  BY <1>1
<1>3. PICK k \in ends : \A j \in ends : k <= j
  BY <1>2, Least
<1>4. k \in 0 .. Len(targets) /\ (k < Len(targets) => targets[k + 1] \notin graph.cached)
  BY <1>1
<1>5. \A i \in 1 .. k : targets[i] \in graph.cached
  <2> SUFFICES ASSUME NEW i \in 1 .. k, targets[i] \notin graph.cached
               PROVE  FALSE
    OBVIOUS
  <2>1. i - 1 \in ends
    BY <1>1, <1>4
  <2> QED
    BY <1>3, <1>4, <2>1
<1> HIDE DEF ends
<1> QED
  BY <1>4, <1>5 DEF CachedPrefix, targets

-----------------------------------------------------------------------------
(* What the steps of Jobs do to the tasks that are out. *)

LEMMA EffectsOnPick ==
    ASSUME IInv, OutInv, Pick
    PROVE  OutInv'
<1>1. /\ UNCHANGED <<graph, requests, results, working, task, stopped>>
      /\ pc = "next" /\ ~ stopped /\ pc' \in {"next", "examine"}
      /\ Workings' = Workings
  BY DEF Pick, SkipHandled, Consider, nodeVars, poolVars, Workings
<1>2. ~ Late /\ ~ Handling'
  BY <1>1 DEF Late, Handling
<1>3. PICK n \in Nodes : \/ state' = state
                         \/ state' = [state EXCEPT ![n] = Pending] /\ state[n] <= Pending
  BY DEF Pick, SkipHandled, Consider, nodeVars
<1>4. LetsBe({})
  BY <1>3 DEF LetsBe, Pending, Executing, IInv, StateShape
<1> QED
  BY <1>1, <1>2, <1>4, Stay

LEMMA EffectsOnNoTask ==
    ASSUME IInv, OutInv, NoTask
    PROVE  OutInv'
<1>1. /\ UNCHANGED <<graph, requests, results, working, task, stopped>>
      /\ pc = "next" /\ pc' \in {"cleanup", "get"} /\ Workings' = Workings
      /\ WillNotBuild(ToSet(candidates), state)
  BY DEF NoTask, NoCandidate, poolVars, Workings
<1>2. LetsBe({})
  BY <1>1 DEF LetsBe, WillNotBuild
<1>3. ~ Handling' /\ (Late => Late')
  BY <1>1 DEF Late, Handling
<1> QED
  BY <1>1, <1>2, <1>3, Stay

LEMMA EffectsOnExamine ==
    ASSUME IInv, OutInv, WalkPublic, ExamineNode
    PROVE  OutInv'
<1>1. UNCHANGED poolVars /\ pc = "examine"
  BY DEF ExamineNode
<1>2. CASE NextTask /\ pc' = "prepare"
  BY <1>1, <1>2, EffectsOnNextTask
<1>3. CASE Examine /\ pc' = "next"
  <2>1. /\ UNCHANGED <<graph, requests, results, working, task, stopped>>
        /\ Workings' = Workings
    BY <1>1, <1>3 DEF Examine, SkipChildFailed, WaitForChildren, WaitForSideEffects, poolVars,
       walkVars, Workings
  <2>2. ~ Late /\ ~ Handling'
    BY <1>1, <1>3 DEF Late, Handling
  <2>3. \A n \in Nodes : state'[n] = state[n] \/ n \in ToSet(graph.targets[ready.node])
    BY <1>3 DEF Examine, SkipChildFailed, WaitForChildren, WaitForSideEffects
  <2>4. LetsBe({})
    <3>1. ToSet(graph.targets[ready.node]) \subseteq Public
      BY <1>1, OwnTarget DEF WalkPublic
    <3> QED
      BY <2>3, <3>1 DEF LetsBe, Public
  <2> QED
    BY <2>1, <2>2, <2>4, Stay
<1> QED
  BY <1>2, <1>3 DEF ExamineNode

LEMMA EffectsOnPrepare ==
    ASSUME IInv, OutInv, Prepare
    PROVE  OutInv'
<1>1. /\ UNCHANGED <<graph, requests, results, working, task, stopped, state>>
      /\ pc = "prepare" /\ pc' \in {"failed", "execute", "executed"}
      /\ pc' = "execute" => NeedsExecute /\ ~ task.broken
      /\ Workings' = Workings
  BY DEF Prepare, Unprepared, tmVars, nodeVars, walkVars, poolVars, Workings
<1>2. Handling /\ (Late => Late') /\ (Bound(MainThread)' => Bound(MainThread))
  BY <1>1 DEF Handling, Late, Bound
<1>3. LetsBe({})
  BY <1>1 DEF LetsBe
<1> QED
  BY <1>1, <1>2, <1>3, Stay

(* Handling a result releases the side effects of its own task only. *)
LEMMA EffectsOnHandled ==
    ASSUME IInv, OutInv, WalkPublic, HandleExecuted \/ HandleFailed
    PROVE  OutInv'
<1> DEFINE S == EffectsAt(MainThread)
<1>1. /\ UNCHANGED <<requests, results, working>>
      /\ pc \in {"executed", "failed"} /\ pc' = "postprocess"
      /\ ExecutedWithCallbacks \/ DoFailed
      /\ Workings' = Workings
  BY DEF HandleExecuted, HandleFailed, poolVars, Workings
<1>2. /\ graph' = graph
      /\ \/ ExecutedWithCallbacks /\ task' = task /\ stopped' = stopped
         \/ FailContinue /\ task' = task /\ stopped' = stopped
         \/ FailContinue /\ stopped'
  BY <1>1 DEF DoFailed, ExecutedWithCallbacks, FailContinue, walkVars
<1>3. Handling /\ MainThread \in Places /\ (Handling' => task' = task) /\ (Late => Late')
  BY <1>1, <1>2 DEF Places, Handling, Late
<1>4. LetsBe(S)
  <2>1. LetsBe({}) => LetsBe(S)
    BY DEF LetsBe
  <2> QED
    BY <1>2, <1>3, <2>1, LetsBeExecuted, LetsBeFailed
<1>5. ~ Bound(MainThread)'
  BY <1>1 DEF Bound
<1>6. \A p \in Places : p \in Places' /\ Bound(p)' /\ ~ Late' => EffectsAt(p) \cap S = {}
  BY <1>3, <1>5 DEF OutInv, Apart
<1> HIDE DEF S
<1> QED
  BY <1>1, <1>2, <1>3, <1>4, <1>5, <1>6, Stay

LEMMA EffectsOnPostprocess ==
    ASSUME IInv, OutInv, PostprocessTask
    PROVE  OutInv'
<1> DEFINE S == EffectsAt(MainThread)
<1>1. /\ UNCHANGED <<graph, requests, results, working, stopped>>
      /\ pc = "postprocess" /\ pc' \in {"next", "get"}
      /\ Workings' = Workings
      /\ state' = [n \in Nodes |-> IF n \in {s \in Effects(task.targets) : state[s] = Executing}
                               THEN NoState ELSE state[n]]
  BY DEF PostprocessTask, Postprocess, poolVars, Workings
<1>2. LetsBe(S)
  BY <1>1, PlaceFacts DEF LetsBe, EffectsAt, Private
<1> HIDE DEF S
<1>3. ~ Handling' /\ (Late => Late') /\ (~ Late' => MainThread \in Places)
  BY <1>1 DEF Places, Handling, Late
<1>4. ~ Bound(MainThread)'
  BY <1>1 DEF Bound
<1>5. \A p \in Places : p \in Places' /\ Bound(p)' /\ ~ Late' => EffectsAt(p) \cap S = {}
  BY <1>3, <1>4 DEF OutInv, Apart, S
<1> QED
  BY <1>1, <1>2, <1>3, <1>5, Stay

LEMMA EffectsOnSerialExecute ==
    ASSUME IInv, OutInv, SerialExecute
    PROVE  OutInv'
<1> DEFINE k == CachedPrefix(task.targets)
           targets == ToSet(SubSeq(task.targets, 1, k))
<1>1. /\ Retrieved(targets) /\ UNCHANGED <<requests, results, working>>
      /\ pc = "execute" /\ pc' \in {"executed", "failed"} /\ Workings' = Workings
  BY DEF SerialExecute, poolVars, Workings
<1>2. MainThread \in Places /\ TaskAt(MainThread) = task
  BY <1>1, PlaceFacts DEF Places, Handling
<1>3. task.node \in Public /\ task.targets = graph.targets[task.node]
  BY <1>2 DEF OutInv, Shaped
<1>4. targets \subseteq ToSet(task.targets)
  <2>1. k \in 0 .. Len(task.targets) /\ task.targets \in Seq(Nodes)
    BY PrefixExists DEF IInv, WalkInv, WalkShapes, Tasks
  <2> HIDE DEF k
  <2> QED
    BY <2>1 DEF ToSet
<1> HIDE DEF targets
<1>5. LetsBe({})
  BY <1>1, <1>3, <1>4, LetsBeRetrieved
<1>6. UNCHANGED <<graph, stopped, task>>
  BY <1>1 DEF Retrieved, walkVars
<1>7. Handling /\ (Late => Late') /\ ~ Bound(MainThread)'
  BY <1>1, <1>6 DEF Handling, Late, Bound
<1> QED
  BY <1>1, <1>5, <1>6, <1>7, Stay

LEMMA EffectsOnRetrieve ==
    ASSUME IInv, OutInv, NEW w \in Workings, Retrieve(w)
    PROVE  OutInv'
<1> DEFINE k == working[w].done + 1
<1>1. /\ UNCHANGED <<pc, requests>> /\ w \in Workers
      /\ working[w] \in [stage : {"retrieving", "building"}, task : Tasks, done : Nat]
      /\ working \in [Workers -> {Idle} \cup [stage : {"retrieving", "building"}, task : Tasks,
                                             done : Nat]]
  BY DEF Retrieve, Workings, IInv, PoolInv, PoolShapes, Idle
<1>2. CASE Answered(w, TRUE) /\ UNCHANGED tmVars
  <2>1. \E m : Moving(m)
    BY <1>1, <1>2, AnsweredMoves
  <2> QED
    BY <1>1, <1>2, <2>1, EffectsOnMoves DEF Moves, tmVars, walkVars
<1>3. CASE \/ /\ k <= Len(working[w].task.targets)
              /\ Retrieved({working[w].task.targets[k]})
              /\ working' = [working EXCEPT ![w].done = k] /\ results' = results
           \/ working' = [working EXCEPT ![w].stage = "building"] /\ UNCHANGED <<tmVars, results>>
  <2>1. /\ Workings' = Workings
        /\ \A v \in Workings : working'[v].task = working[v].task
    <3>1. PICK new \in [stage : {"retrieving", "building"}, task : Tasks, done : Nat] :
            working' = [working EXCEPT ![w] = new] /\ new.task = working[w].task
      BY <1>1, <1>3
    <3> QED
      BY <1>1, <3>1 DEF Workings, Idle
  <2>2. /\ UNCHANGED <<graph, stopped, task, results>>
        /\ \A n \in Nodes : state'[n] = Executing => state[n] = Executing
    BY <1>3 DEF Retrieved, walkVars, tmVars, nodeVars, Executed, Executing
  <2>3. Worker(w) \in Places /\ TaskAt(Worker(w)) = working[w].task
    BY <1>1, PlaceFacts DEF Places
  <2>4. /\ working[w].task.node \in Public
        /\ working[w].task.targets = graph.targets[working[w].task.node]
    BY <2>3 DEF OutInv, Shaped
  <2>5. LetsBe({})
    <3>1. CASE state' = state
      BY <3>1 DEF LetsBe
    <3>2. CASE /\ k <= Len(working[w].task.targets)
               /\ Retrieved({working[w].task.targets[k]})
      <4>1. working[w].task.targets[k] \in ToSet(working[w].task.targets)
        BY <1>1, <3>2 DEF ToSet, Tasks
      <4> QED
        BY <2>4, <3>2, <4>1, LetsBeRetrieved
    <3> QED
      BY <1>3, <3>1, <3>2 DEF tmVars, nodeVars
  <2>6. (Handling' => Handling) /\ (Late => Late')
    BY <1>1, <2>2 DEF Handling, Late
  <2>7. Bound(MainThread)' => Bound(MainThread)
    <3>1. ASSUME pc = "prepare"
          PROVE  Head(task.targets) \in Nodes
      <4>1. MainThread \in Places /\ TaskAt(MainThread) = task
        BY <3>1, PlaceFacts DEF Places, Handling
      <4>2. /\ task.targets = graph.targets[task.node] /\ task.targets \in Seq(Nodes)
            /\ task.node \in Nodes
        BY <4>1 DEF OutInv, Shaped, IInv, WalkInv, WalkShapes, Tasks
      <4>3. task.node \in ToSet(task.targets)
        BY <4>2, GraphAssumption DEF IInv, WalkInv, WalkShapes
      <4>4. task.targets # <<>>
        BY <4>3 DEF ToSet
      <4> QED
        BY <4>2, <4>4
    <3>2. pc = "prepare" /\ NeedsExecute' => NeedsExecute
      BY <2>2, <3>1 DEF NeedsExecute
    <3> QED
      BY <1>1, <2>2, <3>2 DEF Bound
  <2> QED
    BY <1>1, <2>1, <2>2, <2>5, <2>6, <2>7, Stay
<1>4. Len(working[w].task.targets) \in Nat /\ k \in Nat
  BY <1>1 DEF Tasks
<1>5. k > Len(working[w].task.targets) \/ k <= Len(working[w].task.targets)
  BY <1>4
<1> QED
  BY <1>2, <1>3, <1>4, <1>5 DEF Retrieve

LEMMA EffectsOnWork ==
    ASSUME IInv, OutInv, NEW w \in Workers, Work(w)
    PROVE  OutInv'
<1>1. CASE Take(w)
  BY <1>1, TakeMoves, EffectsOnMoves DEF Moves, Take, tmVars, walkVars
<1>2. CASE Built(w)
  <2>1. \E m : Moving(m)
    BY <1>2, AnsweredMoves DEF Built, Workings
  <2> QED
    BY <1>2, <2>1, EffectsOnMoves DEF Moves, Built, tmVars, walkVars
<1>3. CASE Retrieve(w)
  BY <1>3, EffectsOnRetrieve DEF Retrieve, Workings
<1> QED
  BY <1>1, <1>2, <1>3 DEF Work

LEMMA OutStep ==
    ASSUME IInv, OutInv, WalkPublic, [Next]_vars
    PROVE  OutInv'
<1>1. CASE Cleanup
  <2>1. /\ UNCHANGED <<graph, requests, results, working, task, stopped, state>>
        /\ pc = "cleanup" /\ pc' = "done" /\ Workings' = Workings
    BY <1>1 DEF Cleanup, tmVars, nodeVars, walkVars, poolVars, Workings
  <2>2. (Late => Late') /\ ~ Handling' /\ LetsBe({})
    BY <2>1 DEF Late, Handling, LetsBe
  <2> QED
    BY <2>1, <2>2, Stay
<1>2. CASE Signal \/ UNCHANGED vars
  <2>1. /\ UNCHANGED <<graph, requests, results, working, task, state, pc>>
        /\ Workings' = Workings /\ (stopped' \/ stopped' = stopped)
    BY <1>2 DEF Signal, Stop, vars, tmVars, nodeVars, walkVars, jobVars, poolVars, Workings
  <2>2. /\ Late => Late'
        /\ Handling' => Handling
        /\ LetsBe({})
        /\ Bound(MainThread)' => Bound(MainThread)
    BY <2>1 DEF Late, Handling, LetsBe, Bound, NeedsExecute
  <2> QED
    BY <2>1, <2>2, Stay
<1>3. CASE Dispatch
  BY <1>3, DispatchMoves, EffectsOnMoves DEF Moves, Dispatch, tmVars, walkVars
<1>4. CASE Get
  BY <1>4, GetMoves, EffectsOnMoves DEF Moves, Get, walkVars
<1> QED
  BY <1>1, <1>2, <1>3, <1>4, EffectsOnPick, EffectsOnNoTask, EffectsOnExamine, EffectsOnPrepare,
     EffectsOnHandled, EffectsOnPostprocess, EffectsOnSerialExecute, EffectsOnWork DEF Next, Main

-----------------------------------------------------------------------------
(* What the steps do to the walk.  The sequences that it is made of: *)

LEMMA ReverseWithin ==
    ASSUME NEW S, NEW s \in Seq(S)
    PROVE  Reverse(s) \in Seq(S)
BY DEF Reverse

LEMMA OrderedWithin ==
    ASSUME NEW S, IsFiniteSet(S), NEW s \in SetToSeqs(S)
    PROVE  s \in Seq(S)
BY FS_CardinalityType DEF SetToSeqs

LEMMA UnvisitedWithin ==
    ASSUME NEW S, ready.kids \in Seq(S)
    PROVE  Unvisited \in Seq(S)
<1> DEFINE at == {i \in DOMAIN ready.kids : state[ready.kids[i]] = NoState}
<1>1. at \in SUBSET Nat /\ IsFiniteSet(at) /\ at \subseteq DOMAIN ready.kids
  <2>1. DOMAIN ready.kids = 1 .. Len(ready.kids) /\ Len(ready.kids) \in Nat
    OBVIOUS
  <2>2. IsFiniteSet(1 .. Len(ready.kids))
    BY <2>1, FS_Interval
  <2> QED
    BY <2>1, <2>2, FS_Subset
<1>2. Unvisited = [k \in 1 .. Cardinality(at) |->
                     ready.kids[CHOOSE i \in at : Rank(at, i) = k - 1]]
  BY DEF Unvisited, Rank
<1> HIDE DEF at
<1>3. Cardinality(at) \in Nat
  BY <1>1, Ranked
<1>4. ASSUME NEW k \in 1 .. Cardinality(at)
      PROVE  ready.kids[CHOOSE i \in at : Rank(at, i) = k - 1] \in S
  <2>1. k - 1 \in 0 .. Cardinality(at) - 1
    BY <1>3
  <2>2. \E i \in at : Rank(at, i) = k - 1
    BY <1>1, <2>1, Ranked
  <2>3. PICK i : i = CHOOSE j \in at : Rank(at, j) = k - 1
    OBVIOUS
  <2>4. i \in DOMAIN ready.kids
    BY <1>1, <2>2, <2>3
  <2>5. ready.kids[i] \in S
    BY <2>4
  <2> QED
    BY <2>3, <2>5
<1>5. PICK f : f = [k \in 1 .. Cardinality(at) |->
                      ready.kids[CHOOSE i \in at : Rank(at, i) = k - 1]]
  OBVIOUS
<1>6. f \in [1 .. Cardinality(at) -> S]
  BY <1>4, <1>5
<1>7. f \in Seq(S)
  BY <1>3, <1>6
<1>8. Unvisited = f
  BY <1>2, <1>5, Zenon
<1> QED
  BY <1>7, <1>8

LEMMA TriplesFinite ==
    ASSUME NEW A, IsFiniteSet(A), NEW B, IsFiniteSet(B)
    PROVE  IsFiniteSet(A \X B \X B)
<1> DEFINE from == (A \X B) \X B
           f == [x \in from |-> <<x[1][1], x[1][2], x[2]>>]
<1>1. IsFiniteSet(from)
  <2>1. IsFiniteSet(A \X B)
    BY FS_Product
  <2> HIDE DEF f
  <2> QED
    BY <2>1, FS_Product
<1>2. f \in Surjection(from, A \X B \X B)
  <2>1. f \in [from -> A \X B \X B]
    OBVIOUS
  <2>2. ASSUME NEW t \in A \X B \X B
        PROVE  \E x \in from : f[x] = t
    <3>1. PICK a \in A, b \in B, c \in B : t = <<a, b, c>>
      OBVIOUS
    <3>2. <<<<a, b>>, c>> \in from /\ f[<<<<a, b>>, c>>] = t
      BY <3>1
    <3> QED
      BY <3>2
  <2> QED
    BY <2>1, <2>2 DEF Surjection
<1> HIDE DEF from, f
<1> QED
  BY <1>1, <1>2, FS_Surjection

(* The walk is public as long as the graph stays and the main thread is    *)
(* not about to examine another node.                                      *)
LEMMA WalkKept ==
    ASSUME WalkPublic, UNCHANGED <<graph, waitingSE, topLeft, ready>>,
           candidates' \in Seq(Public), waitingParents' \in [Nodes -> SUBSET Public],
           pc' = "examine" => pc = "examine"
    PROVE  WalkPublic'
<1>1. Public' = Public
  BY SameGraph
<1> QED
  BY <1>1 DEF WalkPublic

LEMMA WalkUntouched ==
    ASSUME WalkPublic, UNCHANGED <<graph, waitingSE, waitingParents, candidates, topLeft, ready>>,
           pc' = "examine" => pc = "examine"
    PROVE  WalkPublic'
BY WalkKept DEF WalkPublic

LEMMA WalkOnWillNotBuild ==
    ASSUME WalkPublic, NEW nodes, NEW newState, WillNotBuild(nodes, newState)
    PROVE  waitingParents' \in [Nodes -> SUBSET Public]
BY DEF WalkPublic, WillNotBuild

LEMMA WalkOnPick ==
    ASSUME IInv, WalkPublic, Pick
    PROVE  WalkPublic'
<1>1. PICK n \in Nodes : \/ SkipHandled(n) /\ pc' = "next"
                         \/ Consider(n) /\ pc' = "examine"
  BY DEF Pick
<1>2. /\ UNCHANGED <<graph, waitingParents, waitingSE>> /\ FindNextCandidate(n)
      /\ \/ ready' = ready /\ pc' = "next"
         \/ ready'.node = n /\ ready'.kids = Children(n, implicit'[n])
  BY <1>1 DEF SkipHandled, Consider, nodeVars
<1>3. Public' = Public
  BY <1>2, SameGraph
<1>4. n \in Public /\ candidates' \in Seq(Public) /\ topLeft' \in Seq(Public)
  <2>1. candidates \in Seq(Public) /\ topLeft \in Seq(Public)
    BY DEF WalkPublic
  <2> QED
    BY <1>2, <2>1 DEF FindNextCandidate, Last, Front
<1>5. \A found : Children(n, found) \in Seq(Public)
  <2>1. graph.kids[n] \in Seq(Nodes) /\ graph.late[n] \in Seq(Nodes)
    BY GraphFacts DEF IInv, WalkInv, WalkShapes
  <2>2. /\ \A i \in DOMAIN graph.kids[n] : graph.kids[n][i] \in Public
        /\ \A i \in DOMAIN graph.late[n] : graph.late[n][i] \in Public
    BY <2>1 DEF Public, Private, Spoiled, Wanted, ToSet
  <2>3. graph.kids[n] \in Seq(Public) /\ graph.late[n] \in Seq(Public)
    BY <2>1, <2>2
  <2> QED
    BY <2>3 DEF Children
<1> QED
  BY <1>2, <1>3, <1>4, <1>5 DEF WalkPublic

LEMMA WalkOnExamine ==
    ASSUME IInv, WalkPublic, ExamineNode
    PROVE  WalkPublic'
<1>1. pc = "examine" /\ ready.node \in Public
  BY DEF ExamineNode, WalkPublic
<1>2. CASE NextTask
  <2>1. UNCHANGED <<graph, waitingSE, waitingParents, candidates, topLeft, ready>>
    BY <1>2 DEF NextTask, walkVars
  <2> QED
    BY <1>1, <2>1, WalkUntouched
<1>3. ASSUME candidates' = candidates \o Reverse(Unvisited)
      PROVE  candidates' \in Seq(Public)
  <2>1. Unvisited \in Seq(Public)
    BY UnvisitedWithin DEF WalkPublic
  <2>2. Reverse(Unvisited) \in Seq(Public)
    BY <2>1, ReverseWithin
  <2> QED
    BY <1>3, <2>2 DEF WalkPublic
<1>4. CASE SkipChildFailed
  <2>1. UNCHANGED <<graph, waitingSE, waitingParents, topLeft, ready>>
    BY <1>4 DEF SkipChildFailed
  <2> QED
    BY <1>1, <1>3, <1>4, <2>1, WalkKept DEF SkipChildFailed, WalkPublic
<1>5. CASE WaitForChildren
  <2>1. UNCHANGED <<graph, waitingSE, topLeft, ready>>
    BY <1>5 DEF WaitForChildren
  <2>2. waitingParents' \in [Nodes -> SUBSET Public]
    BY <1>1, <1>5 DEF WaitForChildren, WalkPublic
  <2> QED
    BY <1>1, <1>3, <1>5, <2>1, <2>2, WalkKept DEF WaitForChildren
<1>6. CASE WaitForSideEffects
  <2>1. UNCHANGED <<graph, waitingParents, candidates, topLeft, ready>>
    BY <1>6 DEF WaitForSideEffects, walkVars
  <2>2. waitingSE' \in [Nodes -> SUBSET Public]
    BY <1>1, <1>6 DEF WaitForSideEffects, WalkPublic
  <2>3. Public' = Public
    BY <2>1, SameGraph
  <2> QED
    BY <1>1, <2>1, <2>2, <2>3 DEF WalkPublic
<1> QED
  BY <1>2, <1>4, <1>5, <1>6 DEF ExamineNode, Examine

(* Who is put back on the stack waited for a target or a side effect.      *)
LEMMA WalkOnPostprocess ==
    ASSUME IInv, WalkPublic, PostprocessTask
    PROVE  WalkPublic'
<1> DEFINE targets == ToSet(task.targets)
           effects == {s \in Effects(task.targets) : state[s] = Executing}
           subtract == [p \in Nodes |->
                          Cardinality({n \in targets \cup effects : p \in waitingParents[n]})]
           unblocked == {w \in targets \X Nodes \X Nodes :
                           /\ w[2] \in ToSet(graph.effects[w[1]])
                           /\ w[3] \in waitingSE[w[2]]
                           /\ refCount[w[3]] = 0}
           released == {p \in Nodes : subtract[p] > 0 /\ refCount[p] = subtract[p]}
<1>1. /\ UNCHANGED <<graph, waitingSE, topLeft, ready>>
      /\ waitingParents' = [n \in Nodes |-> IF n \in targets THEN {} ELSE waitingParents[n]]
      /\ pc' # "examine"
      /\ \E u \in SetToSeqs(unblocked), r \in SetToSeqs(released) :
           candidates' = candidates \o [i \in DOMAIN u |-> u[i][3]] \o r
  BY DEF PostprocessTask, Postprocess
<1>2. PICK u \in SetToSeqs(unblocked), r \in SetToSeqs(released) :
        candidates' = candidates \o [i \in DOMAIN u |-> u[i][3]] \o r
  BY <1>1
<1>3. task.targets \in Seq(Nodes) /\ targets \subseteq Nodes /\ effects \subseteq Nodes
  <2>1. task \in Tasks
    BY DEF IInv, WalkInv, WalkShapes
  <2>2. task.targets \in Seq(Nodes)
    BY <2>1 DEF Tasks
  <2> QED
    BY <2>1, <2>2, Elements, EffectsAreSideEffects
<1>4. unblocked \in SUBSET (Nodes \X Nodes \X Nodes) /\ \A w \in unblocked : w[3] \in Public
  BY <1>3 DEF WalkPublic
<1>5. released \in SUBSET Nodes /\ \A p \in released : p \in Public
  <2> SUFFICES ASSUME NEW p \in Nodes, subtract[p] > 0
               PROVE  p \in Public
    OBVIOUS
  <2>1. PICK waited : waited = {n \in targets \cup effects : p \in waitingParents[n]}
    OBVIOUS
  <2>2. Cardinality(waited) > 0
    BY <2>1
  <2>3. waited # {}
    <3>1. Cardinality({}) = 0
      BY FS_EmptySet
    <3>2. waited = {} => Cardinality(waited) = 0
      BY <3>1, Zenon
    <3> QED
      BY <2>2, <3>2
  <2>4. PICK n \in targets \cup effects : p \in waitingParents[n]
    BY <2>1, <2>3
  <2> QED
    BY <1>3, <2>4 DEF WalkPublic
<1> HIDE DEF targets, unblocked, released
<1>6. IsFiniteSet(unblocked) /\ IsFiniteSet(released)
  <2>1. IsFiniteSet(Nodes) /\ IsFiniteSet(Nodes \X Nodes \X Nodes)
    BY GraphAssumption, TriplesFinite
  <2> QED
    BY <1>4, <1>5, <2>1, FS_Subset
<1>7. u \in Seq(unblocked) /\ r \in Seq(released)
  BY <1>6, OrderedWithin
<1>8. [i \in DOMAIN u |-> u[i][3]] \in Seq(Public) /\ r \in Seq(Public)
  <2>1. \A i \in DOMAIN u : u[i][3] \in Public
    BY <1>4, <1>7
  <2>2. [i \in DOMAIN u |-> u[i][3]] \in [1 .. Len(u) -> Public] /\ Len(u) \in Nat
    BY <1>7, <2>1
  <2>3. \A i \in DOMAIN r : r[i] \in Public
    BY <1>5, <1>7
  <2> QED
    BY <1>7, <2>2, <2>3
<1>9. candidates' \in Seq(Public)
  <2>1. PICK v : v = [i \in DOMAIN u |-> u[i][3]]
    OBVIOUS
  <2> QED
    BY <1>2, <1>8, <2>1 DEF WalkPublic
<1>10. waitingParents' \in [Nodes -> SUBSET Public]
  BY <1>1 DEF WalkPublic
<1> QED
  BY <1>1, <1>9, <1>10, WalkKept

LEMMA WalkStep ==
    ASSUME IInv, WalkPublic, [Next]_vars
    PROVE  WalkPublic'
<1>1. CASE NoTask
  <2>1. UNCHANGED <<graph, waitingSE, topLeft, ready>> /\ candidates' = <<>> /\ pc' # "examine"
    BY <1>1 DEF NoTask, NoCandidate
  <2>2. candidates' \in Seq(Public)
    BY <2>1
  <2>3. waitingParents' \in [Nodes -> SUBSET Public]
    BY <1>1, WalkOnWillNotBuild DEF NoTask, NoCandidate
  <2> QED
    BY <2>1, <2>2, <2>3, WalkKept
<1>2. CASE HandleExecuted \/ HandleFailed
  <2>1. /\ UNCHANGED <<graph, waitingSE, candidates, topLeft, ready>> /\ pc' # "examine"
        /\ waitingParents' = waitingParents \/ FailContinue
    BY <1>2 DEF HandleExecuted, HandleFailed, DoFailed, ExecutedWithCallbacks, FailContinue,
       walkVars
  <2>2. waitingParents' \in [Nodes -> SUBSET Public]
    BY <2>1, WalkOnWillNotBuild DEF FailContinue, WalkPublic
  <2> QED
    BY <2>1, <2>2, WalkKept DEF WalkPublic
<1>3. CASE Prepare \/ Dispatch \/ SerialExecute \/ Get \/ Cleanup \/ Signal \/ UNCHANGED vars
  BY <1>3, WalkUntouched DEF Prepare, Dispatch, SerialExecute, Retrieved, Get, Cleanup, Signal,
     Stop, vars, tmVars, nodeVars, walkVars, jobVars
<1>4. ASSUME NEW w \in Workers, Work(w)
      PROVE  WalkPublic'
  BY <1>4, WalkUntouched DEF Work, Take, Retrieve, Retrieved, Built, tmVars, nodeVars, walkVars
<1> QED
  BY <1>1, <1>2, <1>3, <1>4, WalkOnPick, WalkOnExamine, WalkOnPostprocess DEF Next, Main

(* One task at a time has a side effect that nobody asks for, and it is    *)
(* "executing" until the main thread handles what came of the task         *)
(* (Taskmaster.py, _find_next_ready_node, make_ready and postprocess).     *)
THEOREM EffectsAlwaysHeld == Spec => []EffectInv
<1>1. Init => EffectInv
  <2> SUFFICES ASSUME Init
               PROVE  EffectInv
    OBVIOUS
  <2>1. Places = {}
    BY DEF Init, Places, Handling, Workings, Idle
  <2>2. OutInv
    BY <2>1 DEF OutInv, Apart, Held, Shaped
  <2>3. topLeft \in Seq(Public)
    <3>1. graph.tops \in Seq(Nodes) /\ topLeft = graph.tops
      BY GraphFacts DEF Init, TMInit
    <3>2. \A i \in DOMAIN graph.tops : graph.tops[i] \in Public
      BY <3>1 DEF Public, Private, Spoiled, Wanted, ToSet
    <3> QED
      BY <3>1, <3>2
  <2>4. WalkPublic
    <3>1. candidates = <<>> /\ ready.kids = <<>> /\ pc # "examine"
          /\ waitingParents = [n \in Nodes |-> {}] /\ waitingSE = [n \in Nodes |-> {}]
      BY DEF Init, TMInit, None
    <3> QED
      BY <2>3, <3>1 DEF WalkPublic
  <2> QED
    BY <2>2, <2>4 DEF EffectInv
<1>2. IInv /\ EffectInv /\ [Next]_vars => EffectInv'
  BY OutStep, WalkStep DEF EffectInv
<1> QED
  BY <1>1, <1>2, Invariance, PTL DEF Spec

(* Two tasks that are out together never make the same side effect, unless *)
(* it is one that somebody asks for, or its maker has no action or its     *)
(* children cannot be determined, for any graph and any number of workers. *)
THEOREM SideEffectsStayApart == Spec => []SideEffectsApart
<1>1. EffectInv => SideEffectsApart
  <2> SUFFICES ASSUME OutInv, NEW e \in Executions, NEW f \in Executions, e # f
               PROVE  Effects(e.targets) \cap Effects(f.targets) \subseteq Spoiled
    BY DEF EffectInv, SideEffectsApart
  <2>1. ASSUME NEW x \in Executions
        PROVE  \E p \in Places : TaskAt(p) = x
    <3>1. CASE \E w \in Workings : x = working[w].task
      BY <3>1, PlaceFacts DEF Places
    <3>2. CASE \E i \in DOMAIN requests : x = requests[i]
      BY <3>2, PlaceFacts DEF Places
    <3>3. CASE pc = "execute" /\ x = task
      BY <3>3, PlaceFacts DEF Places, Handling
    <3> QED
      BY <3>1, <3>2, <3>3 DEF Executions, ToSet
  <2>2. PICK p, q \in Places : TaskAt(p) = e /\ TaskAt(q) = f
    BY <2>1
  <2> QED
    BY <2>2 DEF OutInv, Apart, EffectsAt
<1> QED
  BY <1>1, EffectsAlwaysHeld, PTL

-----------------------------------------------------------------------------
(* Types.  What the invariants above do not say of them: *)

Kinds ==
  /\ implicit \in [Nodes -> {"unscanned", "explicit", "all"}]
  /\ pendingChildren \in SUBSET Nodes
  /\ stopped \in BOOLEAN

LEMMA KindsStep ==
    ASSUME IInv, Kinds, [Next]_vars
    PROVE  Kinds'
<1> USE DEF Kinds
<1>1. \A targets : Rescanned(targets) \in [Nodes -> {"unscanned", "explicit", "all"}]
  BY DEF Rescanned
<1>2. CASE Pick
  <2>1. \A n \in Nodes : Scanned(n) \in [Nodes -> {"unscanned", "explicit", "all"}]
    BY DEF Scanned
  <2> QED
    BY <1>2, <2>1 DEF Pick, SkipHandled, Consider, nodeVars
<1>3. CASE NoTask
  BY <1>3 DEF NoTask, NoCandidate, WillNotBuild
<1>4. CASE ExamineNode
  <2>1. KidsIn({Pending}) \subseteq Nodes
    BY Elements DEF KidsIn, IInv, WalkInv, WalkShapes
  <2> QED
    BY <1>4, <2>1 DEF ExamineNode, Examine, SkipChildFailed, WaitForChildren, WaitForSideEffects,
       NextTask, walkVars
<1>5. CASE HandleExecuted \/ HandleFailed
  BY <1>1, <1>5 DEF HandleExecuted, HandleFailed, DoFailed, ExecutedWithCallbacks, FailContinue,
     WillNotBuild, walkVars
<1>6. CASE PostprocessTask
  BY <1>6 DEF PostprocessTask, Postprocess
<1>7. CASE SerialExecute
  BY <1>1, <1>7 DEF SerialExecute, Retrieved, walkVars
<1>8. CASE Prepare \/ Dispatch \/ Get \/ Cleanup \/ Signal \/ UNCHANGED vars
  BY <1>8 DEF Prepare, Dispatch, Get, Cleanup, Signal, Stop, vars, tmVars, nodeVars, walkVars
<1>9. ASSUME NEW w \in Workers, Work(w)
      PROVE  Kinds'
  BY <1>1, <1>9 DEF Work, Take, Retrieve, Retrieved, Built, tmVars, nodeVars, walkVars
<1> QED
  BY <1>2, <1>3, <1>4, <1>5, <1>6, <1>7, <1>8, <1>9 DEF Next, Main

(* Every variable keeps its type, and every reference count lies between 0 *)
(* and the number of nodes, in every graph in which no side effect is a    *)
(* child (Taskmaster.py, Node/__init__.py).                                *)
THEOREM TypesAlwaysKept == Spec => [](EffectsUnneeded => TypeOK)
<1>1. Init => Kinds
  BY DEF Init, TMInit, Kinds
<1>2. IInv /\ Kinds /\ [Next]_vars => Kinds'
  BY KindsStep
<1>3. IInv /\ EffectInv /\ Kinds => (EffectsUnneeded => TypeOK)
  <2> SUFFICES ASSUME IInv, EffectInv, Kinds, WaitCounts
               PROVE  TypeOK
    BY DEF IInv, WalkInv, Waits
  <2>1. Public \subseteq Nodes
    BY DEF Public
  <2>2. candidates \in Seq(Nodes) /\ topLeft \in Seq(Nodes)
    BY <2>1 DEF EffectInv, WalkPublic
  <2>3. waitingSE \in [Nodes -> SUBSET Nodes]
    BY <2>1 DEF EffectInv, WalkPublic
  <2>4. \A p \in Nodes : refCount[p] \in 0 .. Cardinality(Nodes)
    <3> TAKE p \in Nodes
    <3>1. WaitersOf(p) \in SUBSET Nodes /\ IsFiniteSet(Nodes)
      BY GraphAssumption DEF WaitersOf
    <3>2. /\ Cardinality(WaitersOf(p)) \in Nat /\ Cardinality(Nodes) \in Nat
          /\ Cardinality(WaitersOf(p)) <= Cardinality(Nodes)
      BY <3>1, FS_Subset, FS_CardinalityType
    <3>3. refCount[p] = Cardinality(WaitersOf(p))
      BY DEF WaitCounts, WaitersOf
    <3> QED
      BY <3>2, <3>3
  <2>5. refCount \in [Nodes -> 0 .. Cardinality(Nodes)]
    BY <2>4 DEF IInv, WalkInv, WalkShapes
  <2> QED
    BY <2>2, <2>3, <2>5 DEF TypeOK, Kinds, IInv, StateShape, WalkInv, WalkShapes
<1> QED
  BY <1>1, <1>2, <1>3, Invariance, EffectsAlwaysHeld, PTL DEF Spec

-----------------------------------------------------------------------------
(* The order of a build, in graphs in which nobody needs a side effect and *)
(* the cache has all targets of an action or none of them: what may become *)
(* of a node that has a task, of one that waits, and of one that is waited *)
(* for.                                                                    *)

Mates(n) == ToSet(graph.targets[n])
WholeCached == \A k \in graph.cached : Mates(k) \subseteq graph.cached
Orderly == EffectsUnneeded /\ WholeCached

(* What scanning n finds, now and from now on. *)
Found(n) == FoundNow(n) = "all" /\ \A t \in Mates(n) : implicit[t] # "explicit"
KidsOf(n) == ToSet(graph.kids[n]) \cup IF Found(n) THEN ToSet(graph.late[n]) ELSE {}

(* Where tasks are that are out or being handled: each has targets of its  *)
(* own.  A target that has been taken from the cache is that of an action  *)
(* that is not executed, and cannot fail.                                  *)
Flights == {p \in Places : p = MainThread => pc # "postprocess" /\ ~ Raising}
FlightsApart ==
  \A p, q \in Flights : p # q => TargetsAt(p) \cap TargetsAt(q) = {}
FlightStates ==
  \A p \in Flights : \A t \in TargetsAt(p) :
    /\ state[t] \in {Executing, UpToDate, Executed}
    /\ state[t] = Executed => t \in graph.cached /\ ~ MayFail(p)
    /\ state[t] # UpToDate => HasBuilder(t)
    /\ Bound(p) => state[t] # UpToDate
FlightInv == FlightsApart /\ FlightStates

(* Targets of one action go together; but one may fail because something   *)
(* that it waits for fails, and then that is needed by the others too.     *)
MateInv ==
  \A n \in Nodes : \A t \in Mates(n) : state[n] <= Pending =>
    \/ state[t] <= Pending
    \/ state[t] = Failed /\ n \notin graph.broken /\ \E x \in KidsOf(n) : state[x] = Failed

(* A target of a task that is out, or is being postprocessed. *)
Coming(x) == \/ \E q \in Flights : x \in TargetsAt(q)
             \/ pc = "postprocess" /\ x \in ToSet(task.targets)

(* What is waited for is a child; who waits is pending, or failed with     *)
(* another child, unless the child came from the cache meanwhile.  Nobody  *)
(* waits for a child that is done, except until it is postprocessed.       *)
WaitsFor(p, x) ==
  /\ p \notin graph.broken /\ x \in KidsOf(p)
  /\ \/ SideEffect(p) \/ state[p] \in {Pending, Failed}
     \/ state[x] = Executed /\ x \in graph.cached
  /\ Done(x) => Coming(x)
WaitInv == \A x \in Nodes : \A p \in waitingParents[x] : WaitsFor(p, x)

ScanInv == \A n \in Nodes : implicit[n] = "all" => FoundNow(n) = "all"

(* The node that is examined. *)
ReadyInv ==
  pc = "examine" =>
    LET r == ready.node
        kids == ToSet(ready.kids)
    IN  /\ state[r] = Pending
        /\ ToSet(graph.kids[r]) \subseteq kids /\ kids \subseteq KidsOf(r)
        /\ \A t \in Mates(r) :
             /\ \A x \in Nodes : t \in waitingParents[x] => x \in kids
             /\ state[t] = Failed => \E x \in kids : state[x] = Failed

(* make_ready raises what one of the targets gives rise to. *)
RaisedInv ==
  Raising => ToSet(task.targets) \cap graph.unready # {} /\ state[task.node] = Pending

Ordered ==
  /\ IInv /\ EffectInv /\ Kinds /\ Orderly
  /\ FlightInv /\ MateInv /\ WaitInv /\ ScanInv /\ ReadyInv /\ RaisedInv

-----------------------------------------------------------------------------
LEMMA MatesFacts ==
    ASSUME IInv, NEW n \in Nodes
    PROVE  /\ n \in Mates(n) /\ Mates(n) \subseteq Nodes
           /\ \A t \in Mates(n) :
                /\ Mates(t) = Mates(n) /\ graph.targets[t] = graph.targets[n]
                /\ graph.kids[t] = graph.kids[n] /\ graph.late[t] = graph.late[n]
                /\ graph.generated[t] = graph.generated[n]
                /\ t \in graph.broken <=> n \in graph.broken
                /\ HasBuilder(t) <=> HasBuilder(n)
           /\ graph.generated[n] \subseteq ToSet(graph.kids[n])
           /\ ToSet(graph.kids[n]) \subseteq Nodes /\ ToSet(graph.late[n]) \subseteq Nodes
           /\ ~ HasBuilder(n) => graph.targets[n] = <<n>> /\ Mates(n) = {n}
           /\ SideEffect(n) => ~ HasBuilder(n)
<1>1. graph \in Graphs
  BY DEF IInv, WalkInv, WalkShapes
<1>2. Mates(n) \subseteq Nodes /\ ToSet(graph.kids[n]) \subseteq Nodes /\ ToSet(graph.late[n]) \subseteq Nodes
  BY <1>1, GraphFacts, Elements DEF Mates
<1>3. ~ HasBuilder(n) => graph.targets[n] = <<n>>
  BY <1>1, GraphAssumption DEF HasBuilder
<1>4. ~ HasBuilder(n) => Mates(n) = {n}
  BY <1>3 DEF Mates, ToSet
<1>5. SideEffect(n) => ~ HasBuilder(n)
  BY <1>1, GraphAssumption DEF HasBuilder, SideEffect
<1>6. /\ n \in Mates(n) /\ graph.generated[n] \subseteq ToSet(graph.kids[n])
      /\ \A t \in Mates(n) :
           /\ graph.targets[t] = graph.targets[n]
           /\ graph.kids[t] = graph.kids[n] /\ graph.late[t] = graph.late[n]
           /\ graph.generated[t] = graph.generated[n]
           /\ t \in graph.broken <=> n \in graph.broken
  BY <1>1, GraphAssumption DEF Mates
<1>7. ASSUME NEW t \in Mates(n)
      PROVE  HasBuilder(t) <=> HasBuilder(n)
  <2>1. ~ HasBuilder(t) => graph.targets[t] = <<t>>
    BY <1>1, <1>2, GraphAssumption DEF HasBuilder
  <2>2. ~ HasBuilder(t) => Mates(n) = {t}
    BY <1>6, <2>1 DEF Mates, ToSet
  <2> QED
    BY <1>4, <1>6, <2>2
<1> QED
  BY <1>2, <1>3, <1>4, <1>5, <1>6, <1>7 DEF Mates

(* Nobody needs a side effect. *)
LEMMA KidsFacts ==
    ASSUME Ordered, NEW n \in Nodes
    PROVE  /\ KidsOf(n) \subseteq Nodes /\ graph.generated[n] \subseteq Nodes
           /\ \A x \in KidsOf(n) : ~ SideEffect(x)
           /\ \A g \in graph.generated[n] : ~ SideEffect(g)
           /\ \A t \in Mates(n) : KidsOf(t) = KidsOf(n) /\ FoundNow(t) = FoundNow(n)
<1>1. IInv /\ EffectsUnneeded
  BY DEF Ordered, Orderly
<1>2. KidsOf(n) \subseteq Nodes /\ graph.generated[n] \subseteq Nodes
  BY <1>1, MatesFacts DEF KidsOf
<1>3. /\ \A x \in KidsOf(n) : ~ SideEffect(x)
      /\ \A g \in graph.generated[n] : ~ SideEffect(g)
  BY <1>1, <1>2, MatesFacts DEF KidsOf, EffectsUnneeded
<1>4. \A t \in Mates(n) : FoundNow(t) = FoundNow(n)
  BY <1>1, MatesFacts DEF FoundNow
<1>5. \A t \in Mates(n) : Mates(t) = Mates(n)
  BY <1>1, MatesFacts
<1>6. \A t \in Mates(n) : graph.kids[t] = graph.kids[n] /\ graph.late[t] = graph.late[n]
  BY <1>1, MatesFacts
<1>7. \A t \in Mates(n) : KidsOf(t) = KidsOf(n)
  BY <1>4, <1>5, <1>6 DEF KidsOf, Found
<1> QED
  BY <1>2, <1>3, <1>4, <1>7

(* Who waits is a node, and nobody waits for a side effect. *)
LEMMA WaitFacts ==
    ASSUME Ordered, NEW x \in Nodes, NEW p \in waitingParents[x]
    PROVE  p \in Nodes /\ ~ SideEffect(x) /\ WaitsFor(p, x)
<1>1. WaitInv /\ waitingParents \in [Nodes -> SUBSET Nodes] /\ (SideEffect(x) => waitingParents[x] = {})
  BY DEF Ordered, IInv, WalkInv, WalkShapes, Waits, Orderly
<1> QED
  BY <1>1 DEF WaitInv

LEMMA FlightFacts ==
    ASSUME IInv, EffectInv, NEW p \in Flights
    PROVE  /\ TaskAt(p) \in Tasks /\ TaskAt(p).node \in Nodes
           /\ TaskAt(p).targets = graph.targets[TaskAt(p).node]
           /\ TargetsAt(p) = Mates(TaskAt(p).node)
           /\ \A t \in TargetsAt(p) : t \in Nodes /\ Mates(t) = TargetsAt(p)
           /\ p # MainThread => Bound(p)
<1>1. p \in Places
  BY DEF Flights
<1>2. TaskAt(p) \in Tasks /\ TaskAt(p).node \in Nodes
  BY <1>1, TasksAtPlaces DEF Tasks
<1>3. TaskAt(p).targets = graph.targets[TaskAt(p).node]
  BY <1>1 DEF EffectInv, OutInv, Shaped
<1>4. TargetsAt(p) = Mates(TaskAt(p).node)
  BY <1>3 DEF TargetsAt, Mates
<1> QED
  BY <1>2, <1>3, <1>4, MatesFacts DEF Bound

LEMMA RaisingFacts ==
    /\ pc \notin {"prepare", "failed"} => ~ Raising
    /\ pc' \notin {"prepare", "failed"} => ~ Raising'
    /\ UNCHANGED <<pc, task, state>> => (Raising' <=> Raising)
  BY DEF Raising

LEMMA MainInFlight ==
    ASSUME pc \in {"prepare", "execute", "executed", "failed"}, ~ Raising
    PROVE  MainThread \in Flights /\ TaskAt(MainThread) = task
           /\ TargetsAt(MainThread) = ToSet(task.targets)
  BY PlaceFacts DEF Flights, Places, Handling, TargetsAt

(* What is examined has no task yet, and nor do its mates. *)
LEMMA ExaminedFacts ==
    ASSUME Ordered, pc = "examine"
    PROVE  /\ ready.node \in Nodes /\ state[ready.node] = Pending
           /\ \A t \in Mates(ready.node) :
                /\ t \in Nodes /\ (state[t] <= Pending \/ state[t] = Failed)
                /\ ready.node \in graph.broken \/ KidsIn({Failed}) = {} => state[t] <= Pending
                /\ \A p \in Flights : t \notin TargetsAt(p)
<1>1. ready.node \in Nodes /\ state[ready.node] = Pending
  BY DEF Ordered, ReadyInv, IInv, WalkInv, WalkShapes
<1>2. ASSUME NEW t \in Mates(ready.node)
      PROVE  /\ t \in Nodes
             /\ \/ state[t] <= Pending
                \/ /\ state[t] = Failed /\ ready.node \notin graph.broken
                   /\ \E x \in ToSet(ready.kids) : state[x] = Failed
  BY <1>1, <1>2, MatesFacts DEF Ordered, MateInv, ReadyInv, Pending
<1>3. \A t \in Mates(ready.node) : KidsIn({Failed}) = {} => state[t] <= Pending
  BY <1>2 DEF KidsIn
<1>4. \A t \in Mates(ready.node) : \A p \in Flights : t \notin TargetsAt(p)
  <2> SUFFICES ASSUME NEW t \in Mates(ready.node), NEW p \in Flights, t \in TargetsAt(p)
               PROVE  FALSE
    OBVIOUS
  <2>1. state[t] \in {Executing, UpToDate, Executed}
    BY DEF Ordered, FlightInv, FlightStates
  <2> QED
    BY <1>2, <2>1 DEF Executing, UpToDate, Executed, Pending, Failed
<1> QED
  BY <1>1, <1>2, <1>3, <1>4

(* How far a failure reaches. *)
LEMMA AboveFacts ==
    ASSUME waitingParents \in [Nodes -> SUBSET Nodes], NEW T \in SUBSET Nodes
    PROVE  /\ T \subseteq Above(T) /\ Above(T) \subseteq Nodes
           /\ \A x \in Above(T) : waitingParents[x] \subseteq Above(T)
           /\ \A n \in Above(T) : n \in T \/ \E x \in Above(T) : n \in waitingParents[x]
           /\ \A S \in SUBSET Nodes :
                T \subseteq S /\ (\A x \in S : waitingParents[x] \subseteq S) => Above(T) \subseteq S
<1>1. T \subseteq Above(T) /\ Above(T) \subseteq Nodes
  BY DEF Above
<1>2. \A x \in Above(T) : waitingParents[x] \subseteq Above(T)
  BY DEF Above
<1>3. \A S \in SUBSET Nodes :
         T \subseteq S /\ (\A x \in S : waitingParents[x] \subseteq S) => Above(T) \subseteq S
  BY DEF Above
<1>4. ASSUME NEW n \in Above(T), n \notin T, \A x \in Above(T) : n \notin waitingParents[x]
      PROVE  FALSE
  <2>1. Above(T) \ {n} \in SUBSET Nodes
    BY <1>1
  <2>2. \A x \in Above(T) \ {n} : waitingParents[x] \subseteq Above(T) \ {n}
    BY <1>2, <1>4
  <2>3. T \subseteq Above(T) \ {n}
    BY <1>1, <1>4
  <2> QED
    BY <1>3, <1>4, <2>1, <2>2, <2>3
<1> QED
  BY <1>1, <1>2, <1>3, <1>4

LEMMA FailReach ==
    ASSUME Ordered, NEW T \in SUBSET Nodes, \A t \in T : state[t] # Executed
    PROVE  \A n \in Above(T) : n \in T \/ SideEffect(n) \/ state[n] \in {Pending, Failed}
<1> DEFINE S == {n \in Nodes : n \in T \/ SideEffect(n) \/ state[n] \in {Pending, Failed}}
<1>1. waitingParents \in [Nodes -> SUBSET Nodes]
  BY DEF Ordered, IInv, WalkInv, WalkShapes
<1>2. ASSUME NEW x \in S, NEW p \in waitingParents[x]
      PROVE  p \in S
  <2>1. p \in Nodes /\ ~ SideEffect(x) /\ WaitsFor(p, x)
    BY <1>2, WaitFacts
  <2>2. state[x] # Executed
    BY <1>2, <2>1 DEF Executed, Pending, Failed
  <2> QED
    BY <2>1, <2>2 DEF WaitsFor
<1>3. T \subseteq S /\ S \in SUBSET Nodes
  OBVIOUS
<1> HIDE DEF S
<1>4. Above(T) \subseteq S
  BY <1>1, <1>2, <1>3, AboveFacts
<1> QED
  BY <1>4 DEF S

(* What fails has not been executed, and no other task has it. *)
LEMMA FailingFacts ==
    ASSUME Ordered, pc = "failed" \/ (pc = "executed" /\ CannotMake)
    PROVE  /\ ToSet(task.targets) \subseteq Nodes
           /\ \A t \in ToSet(task.targets) : Mates(t) = ToSet(task.targets)
           /\ \A t \in ToSet(task.targets) : state[t] \in {Executing, UpToDate} \/ state[t] <= Pending
           /\ ~ Raising => \A t \in ToSet(task.targets) : state[t] \in {Executing, UpToDate}
           /\ \A t \in ToSet(task.targets) : state[t] # Executed
<1>0. MainThread \in Places /\ TaskAt(MainThread) = task
  BY PlaceFacts DEF Places, Handling
<1>1. ASSUME ~ Raising
      PROVE  /\ MainThread \in Flights /\ TaskAt(MainThread) = task
             /\ TargetsAt(MainThread) = ToSet(task.targets)
  BY <1>1, MainInFlight
<1>2. /\ task.targets \in Seq(Nodes) /\ ToSet(task.targets) \subseteq Nodes
      /\ task.node \in ToSet(task.targets)
      /\ \A t \in ToSet(task.targets) : Mates(t) = ToSet(task.targets)
  <2>1. /\ task \in Tasks /\ task.node \in Nodes /\ ToSet(task.targets) = Mates(task.node)
    BY <1>0, TasksAtPlaces DEF Ordered, EffectInv, OutInv, Shaped, Mates, Tasks
  <2> QED
    BY <2>1, MatesFacts DEF Ordered, Tasks
<1>3. ASSUME ~ Raising
      PROVE  \A t \in ToSet(task.targets) : /\ state[t] \in {Executing, UpToDate, Executed}
                                            /\ state[t] = Executed => ~ MayFail(MainThread)
                                            /\ state[t] # UpToDate => HasBuilder(t)
  BY <1>1, <1>3 DEF Ordered, FlightInv, FlightStates
<1>4. CASE pc = "failed" /\ ~ Raising
  BY <1>2, <1>3, <1>4, FailFacts DEF Executing, UpToDate, Executed
<1>5. CASE pc = "executed" /\ CannotMake
  <2>1. Head(task.targets) \in ToSet(task.targets)
    <3>1. task.targets # <<>>
      BY <1>2 DEF ToSet
    <3> QED
      BY <1>2, <3>1 DEF ToSet
  <2>2. ToSet(task.targets) = {Head(task.targets)}
    BY <1>2, <1>5, <2>1, MatesFacts DEF CannotMake, Missing, Ordered
  <2>3. ~ Raising
    BY <1>5, RaisingFacts
  <2> QED
    BY <1>2, <1>3, <1>5, <2>2, <2>3 DEF CannotMake, Missing, Executing, UpToDate, Executed
<1>6. CASE Raising
  BY <1>2, <1>6 DEF Raising, Pending, Executed
<1> QED
  BY <1>2, <1>4, <1>5, <1>6

(* Nobody else has the targets that the main thread handles. *)
LEMMA FailingApart ==
    ASSUME Ordered, pc \in {"executed", "failed"}
    PROVE  \A p \in Flights : p # MainThread => \A t \in TargetsAt(p) : t \notin ToSet(task.targets)
<1>1. CASE Raising
  <2>1. ASSUME NEW p \in Flights, p # MainThread, NEW t \in TargetsAt(p), t \in ToSet(task.targets)
        PROVE  FALSE
    <3>1. state[t] \in {Executing, UpToDate, Executed}
      BY DEF Ordered, FlightInv, FlightStates
    <3> QED
      BY <1>1, <2>1, <3>1 DEF Raising, Pending, Executing, UpToDate, Executed
  <2> QED
    BY <2>1
<1>2. CASE ~ Raising
  BY <1>2, MainInFlight DEF Ordered, FlightInv, FlightsApart
<1> QED
  BY <1>1, <1>2

-----------------------------------------------------------------------------
(* What is taken from the cache are targets of a task that is out, and of  *)
(* an action that will not be executed.                                    *)

LEMMA RetrieveShape ==
    ASSUME Ordered, NEW w \in Workers, Retrieve(w)
    PROVE  /\ w \in Workings /\ Worker(w) \in Flights /\ Bound(Worker(w))
           /\ working[w] \in [stage : {"retrieving", "building"}, task : Tasks, done : Nat]
           /\ UNCHANGED <<pc, requests>>
           /\ \/ Answered(w, TRUE) /\ UNCHANGED tmVars
              \/ /\ \E t \in TargetsAt(Worker(w)) \cap graph.cached : Retrieved({t})
                 /\ working' = [working EXCEPT ![w].done = working[w].done + 1]
                 /\ UNCHANGED results
              \/ /\ \E t \in TargetsAt(Worker(w)) : t \notin graph.cached
                 /\ working' = [working EXCEPT ![w].stage = "building"]
                 /\ UNCHANGED <<tmVars, results>>
<1> DEFINE targets == working[w].task.targets
           k == working[w].done + 1
<1>1. /\ w \in Workings /\ UNCHANGED <<pc, requests>>
      /\ working[w] \in [stage : {"retrieving", "building"}, task : Tasks, done : Nat]
  BY DEF Retrieve, Workings, Ordered, IInv, PoolInv, PoolShapes, Idle
<1>2. Worker(w) \in Flights /\ Bound(Worker(w)) /\ TargetsAt(Worker(w)) = ToSet(targets)
  BY <1>1, PlacesDiffer, PlaceFacts DEF Flights, Places, Bound, TargetsAt
<1>3. targets \in Seq(Nodes) /\ k \in Nat \ {0} /\ Len(targets) \in Nat
  BY <1>1 DEF Tasks
<1>4. k > Len(targets) \/ targets[k] \in ToSet(targets)
  BY <1>3 DEF ToSet
<1> QED
  BY <1>1, <1>2, <1>4 DEF Retrieve

LEMMA SerialShape ==
    ASSUME Ordered, SerialExecute
    PROVE  /\ MainThread \in Flights /\ Bound(MainThread)
           /\ pc = "execute" /\ pc' \in {"executed", "failed"} /\ UNCHANGED poolVars
           /\ \E T \in SUBSET (TargetsAt(MainThread) \cap graph.cached) :
                Retrieved(T) /\ (pc' = "failed" => T = {} /\ \E t \in TargetsAt(MainThread) : t \notin graph.cached)
<1> DEFINE k == CachedPrefix(task.targets)
           T == ToSet(SubSeq(task.targets, 1, k))
<1>1. /\ Retrieved(T) /\ UNCHANGED poolVars
      /\ pc = "execute" /\ pc' \in {"executed", "failed"}
      /\ pc' = "failed" => k < Len(task.targets)
  BY DEF SerialExecute, poolVars
<1>2. /\ MainThread \in Flights /\ Bound(MainThread) /\ TaskAt(MainThread) = task
      /\ TargetsAt(MainThread) = ToSet(task.targets)
  BY <1>1, MainInFlight, RaisingFacts DEF Bound
<1>3. /\ k \in 0 .. Len(task.targets) /\ task.targets \in Seq(Nodes)
      /\ \A i \in 1 .. k : task.targets[i] \in graph.cached
      /\ k < Len(task.targets) => task.targets[k + 1] \notin graph.cached
  BY PrefixExists DEF Ordered, IInv, WalkInv, WalkShapes, Tasks
<1> HIDE DEF k
<1>4. T \subseteq ToSet(task.targets) /\ T \subseteq graph.cached /\ (k = 0 => T = {})
  BY <1>3 DEF ToSet
<1>5. ASSUME pc' = "failed"
      PROVE  k = 0 /\ \E t \in TargetsAt(MainThread) : t \notin graph.cached
  <2>1. task.targets[k + 1] \in ToSet(task.targets) /\ task.targets[k + 1] \notin graph.cached
    BY <1>1, <1>3, <1>5 DEF ToSet
  <2>2. ASSUME k # 0
        PROVE  FALSE
    <3>1. task.targets[1] \in ToSet(task.targets) /\ task.targets[1] \in graph.cached
      BY <1>3, <2>2 DEF ToSet
    <3>2. Mates(task.targets[1]) = ToSet(task.targets)
      BY <1>2, <3>1, FlightFacts DEF Ordered
    <3> QED
      BY <2>1, <3>1, <3>2 DEF Ordered, Orderly, WholeCached
  <2> QED
    BY <1>2, <2>1, <2>2
<1> HIDE DEF T
<1> QED
  BY <1>1, <1>2, <1>4, <1>5

(* Nodes go forward, but for side effects, and what is executed stays. *)
Onward ==
  \A n \in Nodes : ~ SideEffect(n) =>
    /\ state'[n] >= state[n]
    /\ state[n] \in {Executed, Failed} => state'[n] = state[n]

LEMMA OnwardRetrieved ==
    ASSUME Ordered, NEW p \in Flights, NEW T \in SUBSET TargetsAt(p), Retrieved(T)
    PROVE  Onward
<1>1. \A t \in T : state[t] \in {Executing, UpToDate, Executed}
  BY DEF Ordered, FlightInv, FlightStates
<1> QED
  BY <1>1 DEF Retrieved, Onward, Executing, UpToDate, Executed, Failed, Ordered, IInv, StateShape,
     NoState

LEMMA OnwardFailed ==
    ASSUME Ordered, pc = "failed" \/ (pc = "executed" /\ CannotMake), FailContinue
    PROVE  Onward
<1>1. /\ ToSet(task.targets) \subseteq Nodes
      /\ \A t \in ToSet(task.targets) : state[t] \in {Executing, UpToDate} \/ state[t] <= Pending
      /\ \A t \in ToSet(task.targets) : state[t] # Executed
  BY FailingFacts
<1>2. \A n \in Above(ToSet(task.targets)) :
        n \in ToSet(task.targets) \/ SideEffect(n) \/ state[n] \in {Pending, Failed}
  BY <1>1, FailReach
<1>3. state' = [n \in Nodes |-> IF n \in Above(ToSet(task.targets)) THEN Failed ELSE state[n]]
  BY DEF FailContinue, WillNotBuild
<1> QED
  BY <1>1, <1>2, <1>3 DEF Onward, Executing, UpToDate, Executed, Pending, Failed, Ordered, IInv,
     StateShape, NoState

LEMMA OnwardHandled ==
    ASSUME Ordered, HandleExecuted \/ HandleFailed
    PROVE  Onward
<1>1. CASE ExecutedWithCallbacks
  <2>1. \A t \in Nodes : SideEffect(t) \/ \A n \in ToSet(task.targets) : t \notin ToSet(graph.effects[n])
    <3>1. task.targets \in Seq(Nodes)
      BY DEF Ordered, IInv, WalkInv, WalkShapes, Tasks
    <3> QED
      BY <3>1, Elements DEF SideEffect
  <2> QED
    BY <1>1, <2>1 DEF ExecutedWithCallbacks, Onward, Executing, Executed, Failed, Ordered, IInv,
       StateShape, NoState
<1>2. CASE (pc = "failed" \/ (pc = "executed" /\ CannotMake)) /\ FailContinue
  BY <1>2, OnwardFailed
<1> QED
  BY <1>1, <1>2 DEF HandleExecuted, HandleFailed, DoFailed

(* What make_ready does: it settles what it is asked for, or raises and    *)
(* leaves everything as it is.                                             *)
LEMMA MakeReadyStates ==
    ASSUME Ordered, pc = "examine", NextTask
    PROVE  /\ \A n \in Mates(ready.node) : state[n] <= Pending
           /\ \/ /\ state' = state /\ task'.broken
                 /\ Mates(ready.node) \cap graph.unready # {}
              \/ \E s \in {Executing, UpToDate} :
                   /\ s = Executing => HasBuilder(ready.node)
                   /\ \A n \in Mates(ready.node) : state'[n] = s
                   /\ \A n \in Nodes \ Mates(ready.node) : SideEffect(n) \/ state'[n] = state[n]
<1>1. /\ ready.node \in Nodes /\ Mates(ready.node) \subseteq Nodes
      /\ \A t \in Mates(ready.node) : state[t] <= Pending
  BY ExaminedFacts, NextTaskFacts
<1>2. CASE MakeReady
  <2>1. PICK outOfDate \in BOOLEAN :
          /\ outOfDate => HasBuilder(ready.node)
          /\ state' = [n \in Nodes |->
                         IF n \in Mates(ready.node) THEN IF outOfDate THEN Executing ELSE UpToDate
                         ELSE IF outOfDate /\ n \in Effects(graph.targets[ready.node])
                              THEN Executing ELSE state[n]]
    BY <1>2 DEF MakeReady, Mates
  <2>2. \A n \in Effects(graph.targets[ready.node]) : SideEffect(n)
    BY <1>1 DEF Effects, SideEffect, Mates
  <2>3. CASE outOfDate
    <3>1. /\ \A n \in Mates(ready.node) : state'[n] = Executing
          /\ \A n \in Nodes \ Mates(ready.node) : SideEffect(n) \/ state'[n] = state[n]
      BY <1>1, <2>1, <2>2, <2>3
    <3> QED
      BY <1>1, <2>1, <2>3, <3>1
  <2>4. CASE ~ outOfDate
    <3>1. /\ \A n \in Mates(ready.node) : state'[n] = UpToDate
          /\ \A n \in Nodes \ Mates(ready.node) : state'[n] = state[n]
      BY <1>1, <2>1, <2>4
    <3>2. UpToDate # Executing
      BY DEF UpToDate, Executing
    <3> QED
      BY <1>1, <3>1, <3>2
  <2> QED
    BY <2>3, <2>4
<1>3. CASE Raised /\ task'.broken
  BY <1>1, <1>3 DEF Raised, Mates
<1>4. MakeReady \/ (Raised /\ task'.broken)
  BY NextTaskFacts DEF TaskOf
<1> QED
  BY <1>1, <1>2, <1>3, <1>4

(* The task that is made of it is in flight, unless make_ready has raised. *)
LEMMA NewTaskFacts ==
    ASSUME Ordered, pc = "examine", NextTask, pc' = "prepare"
    PROVE  /\ TaskAt(MainThread)' = task' /\ TargetsAt(MainThread)' = Mates(ready.node)
           /\ task'.node = ready.node /\ task'.targets = graph.targets[ready.node]
           /\ MainThread \in Flights' <=> ~ Raising'
           /\ Raising' => state' = state /\ Mates(ready.node) \cap graph.unready # {}
           /\ ~ Raising' => \E s \in {Executing, UpToDate} :
                /\ s = Executing => HasBuilder(ready.node)
                /\ \A n \in Mates(ready.node) : state'[n] = s
                /\ \A n \in Nodes \ Mates(ready.node) : SideEffect(n) \/ state'[n] = state[n]
<1>1. task'.node = ready.node /\ task'.targets = graph.targets[ready.node]
  BY NextTaskFacts DEF TaskOf
<1>2. TaskAt(MainThread)' = task' /\ TargetsAt(MainThread)' = Mates(ready.node)
  BY <1>1, PlaceFacts DEF TargetsAt, Mates
<1>3. MainThread \in Flights' <=> ~ Raising'
  BY PlacesDiffer DEF Flights, Places, Handling
<1>4. /\ \A n \in Mates(ready.node) : state[n] <= Pending
      /\ ready.node \in Mates(ready.node)
  BY MakeReadyStates, ExaminedFacts, MatesFacts DEF Ordered
<1>5. state' = state /\ task'.broken => Raising'
  BY <1>1, <1>4 DEF Raising, Mates
<1>6. ASSUME NEW s \in {Executing, UpToDate}, \A n \in Mates(ready.node) : state'[n] = s, Raising'
      PROVE  FALSE
  BY <1>1, <1>4, <1>6 DEF Raising, Mates, Executing, UpToDate, Pending
<1> QED
  BY <1>1, <1>2, <1>3, <1>5, <1>6, MakeReadyStates

LEMMA OnwardStep ==
    ASSUME Ordered, [Next]_vars
    PROVE  Onward
<1> USE DEF NoState, Pending, Executing, UpToDate, Executed, Failed
<1>1. state \in [Nodes -> NoState .. Failed]
  BY DEF Ordered, IInv, StateShape
<1>2. state' = state => Onward
  BY <1>1 DEF Onward
<1>3. CASE Pick
  BY <1>1, <1>3 DEF Pick, SkipHandled, Consider, nodeVars, Onward
<1>4. CASE NoTask
  BY <1>1, <1>4 DEF NoTask, NoCandidate, WillNotBuild, Onward
<1>5. CASE ExamineNode
  <2>1. pc = "examine"
    BY <1>5 DEF ExamineNode
  <2>2. CASE SkipChildFailed
    <3>1. \A t \in ToSet(graph.targets[ready.node]) : state[t] <= Pending \/ state[t] = Failed
      BY <2>1, ExaminedFacts DEF Mates
    <3> QED
      BY <1>1, <2>2, <3>1 DEF SkipChildFailed, Onward
  <2>3. CASE WaitForChildren \/ WaitForSideEffects
    BY <1>2, <2>3 DEF WaitForChildren, WaitForSideEffects
  <2>4. CASE NextTask
    BY <1>1, <2>1, <2>4, MakeReadyStates DEF Onward
  <2> QED
    BY <1>5, <2>2, <2>3, <2>4 DEF ExamineNode, Examine
<1>6. CASE PostprocessTask
  <2>1. \A s \in Effects(task.targets) : SideEffect(s)
    BY EffectsAreSideEffects DEF Ordered, IInv, WalkInv, WalkShapes
  <2> QED
    BY <1>1, <1>6, <2>1 DEF PostprocessTask, Postprocess, Onward
<1>7. CASE SerialExecute
  BY <1>7, SerialShape, OnwardRetrieved
<1>8. ASSUME NEW w \in Workers, Work(w)
      PROVE  Onward
  <2>1. CASE Retrieve(w)
    <3>1. Worker(w) \in Flights /\ (state' = state \/ \E t \in TargetsAt(Worker(w)) : Retrieved({t}))
      BY <2>1, RetrieveShape DEF tmVars, nodeVars
    <3> QED
      BY <1>2, <3>1, OnwardRetrieved
  <2>2. CASE Take(w) \/ Built(w)
    BY <1>2, <2>2 DEF Take, Built, tmVars, nodeVars
  <2> QED
    BY <1>8, <2>1, <2>2 DEF Work
<1>9. CASE Prepare \/ Dispatch \/ Get \/ Cleanup \/ Signal \/ UNCHANGED vars
  BY <1>2, <1>9 DEF Prepare, Dispatch, Get, Cleanup, Signal, Stop, vars, tmVars, nodeVars
<1> QED
  BY <1>3, <1>4, <1>5, <1>6, <1>7, <1>8, <1>9, OnwardHandled DEF Next, Main

-----------------------------------------------------------------------------
(* What the steps do to the tasks that are out. *)

(* The tasks go on, each with the states of its targets. *)
LEMMA FlightKept ==
    ASSUME FlightInv, graph' = graph, NEW m,
           \A p \in Flights' : /\ m[p] \in Flights
                               /\ TaskAt(p)' = TaskAt(m[p])
                               /\ Bound(p)' => Bound(m[p])
                               /\ MayFail(p)' => MayFail(m[p])
                               /\ \A t \in TargetsAt(m[p]) : state'[t] = state[t],
           \A p, q \in Flights' : m[p] = m[q] => p = q
    PROVE  FlightInv'
<1>1. \A p \in Flights' : TargetsAt(p)' = TargetsAt(m[p])
  BY DEF TargetsAt
<1>2. FlightsApart'
  BY <1>1 DEF FlightInv, FlightsApart
<1>3. FlightStates'
  <2> SUFFICES ASSUME NEW p \in Flights', NEW t \in TargetsAt(m[p])
               PROVE  /\ state'[t] \in {Executing, UpToDate, Executed}
                      /\ state'[t] = Executed => t \in graph'.cached /\ ~ MayFail(p)'
                      /\ state'[t] # UpToDate => HasBuilder(t)'
                      /\ Bound(p)' => state'[t] # UpToDate
    BY <1>1 DEF FlightStates
  <2>1. /\ state[t] \in {Executing, UpToDate, Executed}
        /\ state[t] = Executed => t \in graph.cached /\ ~ MayFail(m[p])
        /\ state[t] # UpToDate => HasBuilder(t)
        /\ Bound(m[p]) => state[t] # UpToDate
    BY DEF FlightInv, FlightStates
  <2>2. HasBuilder(t)' <=> HasBuilder(t)
    BY DEF HasBuilder
  <2> QED
    BY <2>1, <2>2
<1> QED
  BY <1>2, <1>3 DEF FlightInv

(* The same if none changes its place. *)
LEMMA FlightStays ==
    ASSUME FlightInv, graph' = graph,
           \A p \in Flights' : /\ p \in Flights
                               /\ TaskAt(p)' = TaskAt(p)
                               /\ Bound(p)' => Bound(p)
                               /\ MayFail(p)' => MayFail(p)
                               /\ \A t \in TargetsAt(p) : state'[t] = state[t]
    PROVE  FlightInv'
<1>1. PICK m : m = [p \in Flights' |-> p]
  OBVIOUS
<1> QED
  BY <1>1, FlightKept

LEMMA FlightOnMoves ==
    ASSUME FlightInv, Moves
    PROVE  FlightInv'
<1>1. PICK m : Moving(m)
  BY DEF Moves
<1>2. \A p \in Flights' : m[p] \in Flights /\ p \in Places'
  BY <1>1 DEF Moving, Flights
<1> QED
  BY <1>1, <1>2, FlightKept DEF Moving, Moves, nodeVars

(* The main thread has been doing something else, or is now. *)
LEMMA OthersStay ==
    ASSUME UNCHANGED poolVars
    PROVE  /\ \A p \in Flights' : p # MainThread => p \in Flights
           /\ \A p \in Flights : p # MainThread => p \in Flights'
           /\ \A p : p # MainThread /\ (p \in Flights \/ p \in Flights') =>
                      /\ TaskAt(p)' = TaskAt(p) /\ TargetsAt(p)' = TargetsAt(p)
                      /\ Bound(p) /\ Bound(p)'
                      /\ MayFail(p)' <=> MayFail(p)
<1> USE DEF poolVars
<1>1. Workings' = Workings
  BY DEF Workings
<1>2. \A p : p # MainThread => (p \in Places' <=> p \in Places)
  BY <1>1 DEF Places
<1>3. \A p : p # MainThread /\ p \in Places => TaskAt(p)' = TaskAt(p)
  BY PlaceFacts DEF Places
<1>4. \A p : p # MainThread /\ p \in Places => (MayFail(p)' <=> MayFail(p))
  BY DEF MayFail
<1> QED
  BY <1>2, <1>3, <1>4 DEF Flights, Bound, TargetsAt

(* The tasks that the main thread does not have are to be executed. *)
LEMMA OthersFacts ==
    ASSUME Ordered, NEW p \in Flights, p # MainThread, NEW t \in TargetsAt(p)
    PROVE  /\ t \in Nodes /\ ~ SideEffect(t) /\ Bound(p)
           /\ state[t] \in {Executing, Executed}
           /\ state[t] = Executed => t \in graph.cached /\ ~ MayFail(p)
<1>1. t \in Nodes /\ Bound(p)
  BY FlightFacts DEF Ordered
<1>2. /\ state[t] \in {Executing, Executed} /\ HasBuilder(t)
      /\ state[t] = Executed => t \in graph.cached /\ ~ MayFail(p)
  BY <1>1 DEF Ordered, FlightInv, FlightStates, UpToDate, Executing, Executed
<1> QED
  BY <1>1, <1>2, MatesFacts DEF Ordered

(* The states of tasks that are out change only by what their thread does. *)
LEMMA FlightOnExamine ==
    ASSUME Ordered, ExamineNode
    PROVE  FlightInv'
<1> DEFINE r == ready.node
<1>1. pc = "examine" /\ UNCHANGED poolVars /\ graph' = graph
  BY DEF ExamineNode, Examine, SkipChildFailed, WaitForChildren, WaitForSideEffects, NextTask
<1>2. MainThread \notin Flights /\ FlightInv /\ IInv /\ EffectInv
  BY <1>1, PlacesDiffer DEF Flights, Places, Handling, Ordered
<1>3. /\ r \in Nodes
      /\ \A t \in Mates(r) : t \in Nodes /\ \A p \in Flights : t \notin TargetsAt(p)
  BY <1>1, ExaminedFacts
<1>4. \A p \in Flights : p # MainThread /\ \A t \in TargetsAt(p) : t \in Nodes /\ ~ SideEffect(t)
  BY <1>2, OthersFacts
<1> HIDE DEF r
<1>7. CASE NextTask /\ pc' = "prepare" /\ Raising'
  <2>1. state' = state /\ MainThread \notin Flights'
    BY <1>1, <1>7, NewTaskFacts
  <2> QED
    BY <1>1, <1>2, <2>1, OthersStay, FlightStays
<1>5. CASE NextTask /\ pc' = "prepare" /\ ~ Raising'
  <2>1. PICK s \in {Executing, UpToDate} :
          /\ s = Executing => HasBuilder(r)
          /\ \A n \in Mates(r) : state'[n] = s
          /\ \A n \in Nodes \ Mates(r) : SideEffect(n) \/ state'[n] = state[n]
    BY <1>1, <1>5, NewTaskFacts DEF r
  <2>2. pc' = "prepare" /\ task'.targets = graph.targets[r]
    BY <1>1, <1>5, NewTaskFacts DEF r
  <2>3. TargetsAt(MainThread)' = Mates(r)
    BY <1>1, <1>5, NewTaskFacts DEF r
  <2>4. \A p \in Flights' : p # MainThread => p \in Flights /\ TargetsAt(p)' = TargetsAt(p)
    BY <1>1, OthersStay
  <2>5. FlightsApart'
    BY <1>2, <1>3, <2>3, <2>4 DEF FlightInv, FlightsApart
  <2>6. \A n : HasBuilder(n)' <=> HasBuilder(n)
    BY <1>1 DEF HasBuilder
  <2>7. ASSUME NEW p \in Flights', NEW t \in TargetsAt(p)'
        PROVE  /\ state'[t] \in {Executing, UpToDate, Executed}
               /\ state'[t] = Executed => t \in graph'.cached /\ ~ MayFail(p)'
               /\ state'[t] # UpToDate => HasBuilder(t)'
               /\ Bound(p)' => state'[t] # UpToDate
    <3>1. CASE p = MainThread
      <4>1. t \in Mates(r) /\ state'[t] = s
        BY <2>1, <2>3, <2>7, <3>1
      <4>3. s = Executing => HasBuilder(t)
        BY <1>2, <1>3, <2>1, <4>1, MatesFacts
      <4>4. Bound(p)' => s # UpToDate
        <5>1. Head(task'.targets) \in Mates(r)
          <6>1. r \in Mates(r) /\ graph.targets[r] \in Seq(Nodes)
            BY <1>2, <1>3, MatesFacts, GraphFacts DEF IInv, WalkInv, WalkShapes
          <6> QED
            BY <2>2, <6>1 DEF Mates, ToSet
        <5>2. state'[Head(task'.targets)] = s
          BY <2>1, <5>1
        <5> QED
          BY <2>2, <3>1, <5>2 DEF Bound, NeedsExecute, Executing, UpToDate
      <4>5. s # Executed
        BY DEF Executing, UpToDate, Executed
      <4> QED
        BY <2>6, <4>1, <4>3, <4>4, <4>5
    <3>2. CASE p # MainThread
      <4>1. p \in Flights /\ t \in TargetsAt(p) /\ (MayFail(p)' <=> MayFail(p)) /\ Bound(p)
        BY <1>1, <2>7, <3>2, OthersStay
      <4>2. t \in Nodes /\ t \notin Mates(r) /\ ~ SideEffect(t)
        BY <1>3, <1>4, <4>1
      <4>3. state'[t] = state[t]
        BY <2>1, <4>2
      <4> QED
        BY <1>1, <1>2, <2>6, <3>2, <4>1, <4>3 DEF FlightInv, FlightStates
    <3> QED
      BY <3>1, <3>2
  <2> QED
    BY <2>5, <2>7 DEF FlightInv, FlightStates
<1>6. CASE Examine /\ pc' = "next"
  <2>2. MainThread \notin Flights'
    BY <1>6, PlacesDiffer DEF Flights, Places, Handling
  <2>3. \A p \in Flights : \A t \in TargetsAt(p) : state'[t] = state[t]
    BY <1>3, <1>4, <1>6 DEF Examine, SkipChildFailed, WaitForChildren, WaitForSideEffects, Mates, r
  <2> QED
    BY <1>1, <1>2, <2>2, <2>3, OthersStay, FlightStays
<1> QED
  BY <1>5, <1>6, <1>7 DEF ExamineNode

LEMMA FlightOnHandled ==
    ASSUME Ordered, HandleExecuted \/ HandleFailed
    PROVE  FlightInv'
<1>1. pc' = "postprocess" /\ UNCHANGED poolVars /\ graph' = graph /\ pc \in {"executed", "failed"}
  BY DEF HandleExecuted, HandleFailed, DoFailed, ExecutedWithCallbacks, FailContinue
<1>2. MainThread \notin Flights' /\ MainThread \in Places /\ TaskAt(MainThread) = task
  BY <1>1, PlaceFacts DEF Flights, Places, Handling
<1>3. ASSUME NEW p \in Flights, p # MainThread, NEW t \in TargetsAt(p)
      PROVE  state'[t] = state[t]
  <2>1. /\ t \in Nodes /\ ~ SideEffect(t) /\ state[t] \in {Executing, Executed}
    BY <1>3, OthersFacts
  <2>2. t \notin ToSet(task.targets)
    BY <1>1, <1>3, FailingApart
  <2>3. CASE ExecutedWithCallbacks
    <3>1. ToSet(task.targets) \subseteq Nodes
      <4>1. task \in Tasks
        BY <1>2, TasksAtPlaces DEF Ordered
      <4> QED
        BY <4>1, Elements DEF Tasks
    <3>2. \A n \in ToSet(task.targets) : t \notin ToSet(graph.effects[n])
      BY <2>1, <3>1 DEF SideEffect
    <3> QED
      BY <2>1, <2>2, <2>3, <3>2 DEF ExecutedWithCallbacks
  <2>4. CASE (pc = "failed" \/ (pc = "executed" /\ CannotMake)) /\ FailContinue
    <3>1. \A n \in ToSet(task.targets) : n \in Nodes /\ state[n] # Executed
      BY <2>4, FailingFacts
    <3>2. t \notin Above(ToSet(task.targets))
      BY <2>1, <2>2, <3>1, FailReach DEF Executing, Executed, Pending, Failed
    <3> QED
      BY <2>1, <2>4, <3>2 DEF FailContinue, WillNotBuild
  <2> QED
    BY <2>3, <2>4 DEF HandleExecuted, HandleFailed, DoFailed
<1> QED
  BY <1>1, <1>2, <1>3, OthersStay, FlightStays DEF Ordered

LEMMA FlightOnPostprocess ==
    ASSUME Ordered, PostprocessTask
    PROVE  FlightInv'
<1>1. /\ pc = "postprocess" /\ pc' \in {"next", "get"} /\ UNCHANGED poolVars /\ graph' = graph
      /\ state' = [n \in Nodes |-> IF n \in {s \in Effects(task.targets) : state[s] = Executing}
                                   THEN NoState ELSE state[n]]
  BY DEF PostprocessTask, Postprocess
<1>2. MainThread \notin Flights' /\ MainThread \notin Flights
  BY <1>1, PlacesDiffer DEF Flights, Places, Handling
<1>3. \A s \in Effects(task.targets) : SideEffect(s)
  BY EffectsAreSideEffects DEF Ordered, IInv, WalkInv, WalkShapes
<1>4. \A p \in Flights : \A t \in TargetsAt(p) : state'[t] = state[t]
  BY <1>1, <1>2, <1>3, OthersFacts
<1> QED
  BY <1>1, <1>2, <1>4, OthersStay, FlightStays DEF Ordered

(* Targets of one task are taken from the cache. *)
LEMMA FlightOnRetrieved ==
    ASSUME Ordered, NEW p \in Flights, Bound(p), NEW T \in SUBSET (TargetsAt(p) \cap graph.cached),
           Retrieved(T),
           Flights' = Flights, \A q \in Flights : TaskAt(q)' = TaskAt(q),
           \A q \in Flights : (Bound(q)' => Bound(q)) /\ (q # p => (MayFail(q)' => MayFail(q))),
           MayFail(p)' => MayFail(p) \/ (T = {} /\ \E t \in TargetsAt(p) : t \notin graph.cached),
           T # {} => ~ MayFail(p)'
    PROVE  FlightInv'
<1>1. FlightInv /\ IInv /\ EffectInv /\ WholeCached /\ graph' = graph
  BY DEF Ordered, Orderly, Retrieved
<1>2. \A q \in Flights : TargetsAt(q)' = TargetsAt(q) /\ TargetsAt(q) \subseteq Nodes
  BY <1>1, FlightFacts DEF TargetsAt
<1>3. FlightsApart'
  BY <1>1, <1>2 DEF FlightInv, FlightsApart
<1>4. ASSUME NEW q \in Flights, NEW t \in TargetsAt(q)
      PROVE  /\ state'[t] \in {Executing, UpToDate, Executed}
             /\ state'[t] = Executed => t \in graph'.cached /\ ~ MayFail(q)'
             /\ state'[t] # UpToDate => HasBuilder(t)'
             /\ Bound(q)' => state'[t] # UpToDate
  <2>1. /\ state[t] \in {Executing, UpToDate, Executed}
        /\ state[t] = Executed => t \in graph.cached /\ ~ MayFail(q)
        /\ state[t] # UpToDate => HasBuilder(t)
        /\ Bound(q) => state[t] # UpToDate
    BY <1>1 DEF FlightInv, FlightStates
  <2>2. HasBuilder(t)' <=> HasBuilder(t)
    BY <1>1 DEF HasBuilder
  <2>3. t \in Nodes /\ state'[t] = IF t \in T THEN Executed ELSE state[t]
    BY <1>2 DEF Retrieved
  <2>4. CASE q = p
    <3>1. state[t] = Executed => TargetsAt(p) \subseteq graph.cached
      <4>1. Mates(t) = TargetsAt(p)
        BY <1>1, <2>4, FlightFacts
      <4> QED
        BY <1>1, <2>1, <4>1 DEF WholeCached
    <3>2. state[t] = Executed => ~ MayFail(p)'
      BY <2>1, <2>4, <3>1
    <3> QED
      BY <1>1, <2>1, <2>2, <2>3, <2>4, <3>2 DEF Executing, UpToDate, Executed
  <2>5. CASE q # p
    <3>1. t \notin T
      BY <1>1, <2>5 DEF FlightInv, FlightsApart
    <3> QED
      BY <1>1, <2>1, <2>2, <2>3, <2>5, <3>1
  <2> QED
    BY <2>4, <2>5
<1>5. FlightStates'
  BY <1>2, <1>4 DEF FlightStates
<1> QED
  BY <1>3, <1>5 DEF FlightInv

LEMMA NothingRaised ==
    ASSUME Ordered, SerialExecute
    PROVE  ~ Raising'
<1>1. MainThread \in Flights /\ \E T \in SUBSET TargetsAt(MainThread) : Retrieved(T) /\ task' = task
  BY SerialShape DEF Retrieved
<1>2. PICK t \in TargetsAt(MainThread) : TRUE
  BY <1>1, FlightFacts, MatesFacts DEF Ordered
<1>3. t \in Nodes /\ state[t] \in {Executing, UpToDate, Executed}
  BY <1>1, <1>2, FlightFacts DEF Ordered, FlightInv, FlightStates
<1>4. state'[t] \in {Executing, UpToDate, Executed} /\ t \in ToSet(task'.targets)
  BY <1>1, <1>2, <1>3, PlaceFacts DEF Retrieved, TargetsAt
<1> QED
  BY <1>4 DEF Raising, Pending, Executing, UpToDate, Executed

LEMMA FlightOnSerialExecute ==
    ASSUME Ordered, SerialExecute
    PROVE  FlightInv'
<1>1. /\ MainThread \in Flights /\ Bound(MainThread) /\ pc = "execute" /\ UNCHANGED poolVars
      /\ pc' \in {"executed", "failed"}
  BY SerialShape
<1>2. PICK T \in SUBSET (TargetsAt(MainThread) \cap graph.cached) :
        Retrieved(T) /\ (pc' = "failed" => T = {} /\ \E t \in TargetsAt(MainThread) : t \notin graph.cached)
  BY SerialShape
<1>3. MainThread \in Flights' /\ TaskAt(MainThread)' = TaskAt(MainThread)
  <2>1. UNCHANGED task
    BY <1>2 DEF Retrieved
  <2>2. ~ Raising'
    BY NothingRaised
  <2> QED
    BY <1>1, <2>1, <2>2, PlaceFacts DEF Flights, Places, Handling
<1>4. ~ Bound(MainThread)' /\ (MayFail(MainThread)' => pc' = "failed")
  BY <1>1, FailFacts DEF Bound
<1> QED
  BY <1>1, <1>2, <1>3, <1>4, OthersStay, FlightOnRetrieved

LEMMA NothingRetrieved ==
    ASSUME IInv, Kinds, UNCHANGED tmVars
    PROVE  Retrieved({})
<1>1. state \in [Nodes -> NoState .. Failed] /\ implicit \in [Nodes -> {"unscanned", "explicit", "all"}]
  BY DEF IInv, StateShape, Kinds
<1> QED
  BY <1>1 DEF Retrieved, Rescanned, tmVars, nodeVars, walkVars

LEMMA RaisingStays ==
    ASSUME Ordered, NEW p \in Flights, NEW T \in SUBSET TargetsAt(p), Retrieved(T), pc' = pc,
           pc \in {"prepare", "failed"}
    PROVE  Raising' <=> Raising
<1>1. /\ task' = task /\ ToSet(task.targets) \subseteq Nodes
      /\ \A n \in Nodes : state'[n] = IF n \in T THEN Executed ELSE state[n]
  BY Elements DEF Retrieved, Ordered, IInv, WalkInv, WalkShapes, Tasks
<1>2. \A t \in T : state[t] \in {Executing, UpToDate, Executed}
  BY DEF Ordered, FlightInv, FlightStates
<1>3. \A n \in Nodes : state'[n] <= Pending <=> state[n] <= Pending
  BY <1>1, <1>2 DEF Executing, UpToDate, Executed, Pending
<1> QED
  BY <1>1, <1>3 DEF Raising

(* A worker that goes on with its task keeps its place. *)
LEMMA RetrieveStays ==
    ASSUME Ordered, NEW w \in Workers, Retrieve(w), results' = results
    PROVE  /\ Flights' = Flights /\ Workings' = Workings
           /\ \A q \in Flights : TaskAt(q)' = TaskAt(q)
           /\ UNCHANGED <<pc, task, graph, stopped, requests, results>>
           /\ \A v \in Workings : v # w => working'[v] = working[v]
           /\ working'[w].stage = "building" => \E t \in TargetsAt(Worker(w)) : t \notin graph.cached
<1>1. /\ w \in Workings /\ Worker(w) \in Flights /\ Bound(Worker(w))
      /\ working[w] \in [stage : {"retrieving", "building"}, task : Tasks, done : Nat]
      /\ UNCHANGED <<pc, requests>> /\ working[w].stage = "retrieving"
  BY RetrieveShape DEF Retrieve
<1>2. /\ results' = results
      /\ \/ /\ \E t \in TargetsAt(Worker(w)) \cap graph.cached : Retrieved({t})
            /\ working' = [working EXCEPT ![w].done = working[w].done + 1]
         \/ /\ \E t \in TargetsAt(Worker(w)) : t \notin graph.cached
            /\ working' = [working EXCEPT ![w].stage = "building"]
            /\ UNCHANGED tmVars
  <2>1. results' # Append(results, [task |-> working[w].task, ok |-> TRUE])
    BY DEF Ordered, IInv, PoolInv, PoolShapes
  <2> QED
    BY <2>1, RetrieveShape DEF Answered
<1>3. working \in [Workers -> {Idle} \cup [stage : {"retrieving", "building"}, task : Tasks,
                                           done : Nat]]
  BY DEF Ordered, IInv, PoolInv, PoolShapes
<1>4. /\ Workings' = Workings /\ UNCHANGED <<graph, task, stopped>>
      /\ \A v \in Workings : working'[v].task = working[v].task
      /\ \A v \in Workings : v # w => working'[v] = working[v]
      /\ working'[w].stage = "building" => \E t \in TargetsAt(Worker(w)) : t \notin graph.cached
  <2>1. CASE /\ working' = [working EXCEPT ![w].done = working[w].done + 1]
             /\ \E t \in TargetsAt(Worker(w)) \cap graph.cached : Retrieved({t})
    <3>1. PICK new : new = [working[w] EXCEPT !.done = working[w].done + 1]
      OBVIOUS
    <3>2. /\ working' = [working EXCEPT ![w] = new] /\ new.task = working[w].task
          /\ new.stage = "retrieving"
      BY <1>1, <2>1, <3>1
    <3> QED
      BY <1>1, <1>3, <2>1, <3>2 DEF Workings, Idle, Retrieved, walkVars
  <2>2. CASE /\ working' = [working EXCEPT ![w].stage = "building"]
             /\ \E t \in TargetsAt(Worker(w)) : t \notin graph.cached
             /\ UNCHANGED tmVars
    <3>1. PICK new : new = [working[w] EXCEPT !.stage = "building"]
      OBVIOUS
    <3>2. /\ working' = [working EXCEPT ![w] = new] /\ new.task = working[w].task
          /\ new.stage = "building"
      BY <1>1, <2>2, <3>1
    <3> QED
      BY <1>1, <1>3, <2>2, <3>2 DEF Workings, Idle, tmVars, walkVars
  <2> QED
    BY <1>2, <2>1, <2>2
<1>5. Flights' = Flights
  <2>1. Places' = Places
    BY <1>1, <1>2, <1>4 DEF Places, Handling
  <2>2. Raising' <=> Raising
    <3>1. CASE \E t \in TargetsAt(Worker(w)) : Retrieved({t})
      BY <1>1, <3>1, RaisingStays, RaisingFacts
    <3>2. CASE UNCHANGED tmVars
      BY <1>1, <3>2, RaisingFacts DEF tmVars, nodeVars
    <3> QED
      BY <1>2, <3>1, <3>2
  <2> QED
    BY <1>1, <2>1, <2>2 DEF Flights
<1>6. \A q \in Flights : TaskAt(q)' = TaskAt(q)
  BY <1>1, <1>2, <1>4, PlaceFacts, PlacesDiffer DEF Flights, Places
<1> QED
  BY <1>1, <1>2, <1>4, <1>5, <1>6

LEMMA FlightOnRetrieve ==
    ASSUME Ordered, NEW w \in Workers, Retrieve(w)
    PROVE  FlightInv'
<1>1. /\ w \in Workings /\ Worker(w) \in Flights /\ Bound(Worker(w))
      /\ working[w] \in [stage : {"retrieving", "building"}, task : Tasks, done : Nat]
      /\ UNCHANGED <<pc, requests>> /\ working[w].stage = "retrieving"
  BY RetrieveShape DEF Retrieve
<1>2. CASE Answered(w, TRUE) /\ UNCHANGED tmVars
  <2>1. \E m : Moving(m)
    BY <1>1, <1>2, AnsweredMoves DEF Ordered
  <2> QED
    BY <1>1, <1>2, <2>1, FlightOnMoves DEF Moves, tmVars, walkVars, Ordered
<1>3. CASE /\ results' = results
           /\ \/ /\ \E t \in TargetsAt(Worker(w)) \cap graph.cached : Retrieved({t})
                 /\ working' = [working EXCEPT ![w].done = working[w].done + 1]
              \/ /\ \E t \in TargetsAt(Worker(w)) : t \notin graph.cached
                 /\ working' = [working EXCEPT ![w].stage = "building"]
                 /\ UNCHANGED tmVars
  <2>0. working \in [Workers -> {Idle} \cup [stage : {"retrieving", "building"}, task : Tasks,
                                             done : Nat]]
    BY DEF Ordered, IInv, PoolInv, PoolShapes
  <2>1. /\ Workings' = Workings /\ UNCHANGED <<graph, task, stopped>>
        /\ \A v \in Workings : v # w => working'[v] = working[v]
        /\ working'[w].stage = "building" => \E t \in TargetsAt(Worker(w)) : t \notin graph.cached
    BY <1>3, RetrieveStays
  <2>2. Flights' = Flights
    BY <1>3, RetrieveStays
  <2>3. \A q \in Flights : TaskAt(q)' = TaskAt(q)
    BY <1>3, RetrieveStays
  <2>4. \A q \in Flights : q # Worker(w) => (MayFail(q)' => MayFail(q))
    BY <1>1, <1>3, <2>1, FailFacts DEF Flights, Places
  <2>5. Bound(MainThread)' => Bound(MainThread)
    <3>1. ASSUME pc = "prepare"
          PROVE  Head(task.targets) \in Nodes
      <4>1. MainThread \in Places /\ TaskAt(MainThread) = task
        BY <3>1, PlaceFacts DEF Places, Handling
      <4>2. task.targets \in Seq(Nodes) /\ task.node \in ToSet(task.targets)
        <5>1. task \in Tasks /\ task.node \in Nodes /\ ToSet(task.targets) = Mates(task.node)
          BY <4>1, TasksAtPlaces DEF Ordered, EffectInv, OutInv, Shaped, Mates, Tasks
        <5> QED
          BY <5>1, MatesFacts DEF Ordered, Tasks
      <4>3. task.targets # <<>>
        BY <4>2 DEF ToSet
      <4> QED
        BY <4>2, <4>3
    <3>2. \A n \in Nodes : state'[n] = Executing => state[n] = Executing
      <4>1. state' = state \/ \E T : Retrieved(T)
        BY <1>3 DEF tmVars, nodeVars
      <4>2. ASSUME NEW T, Retrieved(T)
            PROVE  \A n \in Nodes : state'[n] = Executing => state[n] = Executing
        BY <4>2 DEF Retrieved, Executed, Executing
      <4> QED
        BY <4>1, <4>2
    <3> QED
      BY <1>1, <2>1, <3>1, <3>2 DEF Bound, NeedsExecute
  <2>6. \A q \in Flights : Bound(q)' => Bound(q)
    BY <2>5 DEF Bound
  <2>7. MayFail(Worker(w))' <=> working'[w].stage = "building"
    BY FailFacts
  <2>8. CASE /\ working' = [working EXCEPT ![w].done = working[w].done + 1]
             /\ \E t \in TargetsAt(Worker(w)) \cap graph.cached : Retrieved({t})
    <3>1. PICK t \in TargetsAt(Worker(w)) \cap graph.cached : Retrieved({t})
      BY <2>8
    <3>2. working'[w].stage = "retrieving"
      BY <1>1, <2>0, <2>8
    <3> QED
      BY <1>1, <2>2, <2>3, <2>4, <2>6, <2>7, <3>1, <3>2, FlightOnRetrieved
  <2>9. CASE UNCHANGED tmVars
    <3>1. Retrieved({})
      BY <2>9, NothingRetrieved DEF Ordered
    <3> QED
      BY <1>1, <2>1, <2>2, <2>3, <2>4, <2>6, <2>7, <3>1, FlightOnRetrieved
  <2> QED
    BY <1>3, <2>8, <2>9
<1> QED
  BY <1>2, <1>3, RetrieveShape

LEMMA FlightStep ==
    ASSUME Ordered, [Next]_vars
    PROVE  FlightInv'
<1>0. FlightInv
  BY DEF Ordered
<1>1. CASE Pick \/ NoTask
  <2>1. /\ UNCHANGED poolVars /\ graph' = graph
        /\ pc = "next" /\ pc' \in {"next", "examine", "cleanup", "get"}
    BY <1>1 DEF Pick, SkipHandled, Consider, NoTask, NoCandidate
  <2>2. MainThread \notin Flights'
    BY <2>1, PlacesDiffer DEF Flights, Places, Handling
  <2>3. \A p \in Flights : p # MainThread
    BY <2>1, PlacesDiffer DEF Flights, Places, Handling
  <2>4. ASSUME NEW p \in Flights, NEW t \in TargetsAt(p)
        PROVE  state'[t] = state[t]
    <3>1. t \in Nodes /\ state[t] \in {Executing, Executed}
      BY <2>3, <2>4, OthersFacts
    <3>2. state \in [Nodes -> NoState .. Failed]
      BY DEF Ordered, IInv, StateShape
    <3> QED
      BY <1>1, <3>1, <3>2 DEF Pick, SkipHandled, Consider, NoTask, NoCandidate, WillNotBuild,
         nodeVars, Pending, Executing, Executed
  <2> QED
    BY <1>0, <2>1, <2>2, <2>4, OthersStay, FlightStays
<1>2. CASE Prepare
  <2>1. /\ UNCHANGED poolVars /\ UNCHANGED <<graph, state, task>>
        /\ pc = "prepare" /\ pc' \in {"failed", "execute", "executed"}
        /\ pc' = "execute" => NeedsExecute
        /\ pc' # "failed" => ~ task.broken
    BY <1>2 DEF Prepare, Unprepared, tmVars, nodeVars
  <2>2. /\ Bound(MainThread)' => Bound(MainThread)
        /\ MayFail(MainThread)
        /\ MainThread \in Flights' => MainThread \in Flights
        /\ TaskAt(MainThread)' = TaskAt(MainThread)
    <3>1. ~ Raising' => ~ Raising
      BY <2>1 DEF Raising
    <3> QED
      BY <2>1, <3>1, FailFacts, MainInFlight, PlaceFacts DEF Bound, Flights
  <2> QED
    BY <1>0, <2>1, <2>2, OthersStay, FlightStays
<1>3. CASE Cleanup
  <2>1. /\ UNCHANGED poolVars /\ UNCHANGED <<graph, state, task>> /\ pc' = "done"
    BY <1>3 DEF Cleanup, tmVars, nodeVars
  <2>2. MainThread \notin Flights'
    BY <2>1, PlacesDiffer DEF Flights, Places, Handling
  <2> QED
    BY <1>0, <2>1, <2>2, OthersStay, FlightStays
<1>4. CASE Signal \/ UNCHANGED vars
  <2>1. UNCHANGED poolVars /\ UNCHANGED <<graph, state, task, pc>>
    BY <1>4 DEF Signal, Stop, vars, tmVars, nodeVars, walkVars, jobVars
  <2>2. /\ Bound(MainThread)' => Bound(MainThread)
        /\ MayFail(MainThread)' => MayFail(MainThread)
        /\ MainThread \in Flights' => MainThread \in Flights
        /\ TaskAt(MainThread)' = TaskAt(MainThread)
    BY <2>1, FailFacts, PlaceFacts, PlacesDiffer DEF Bound, NeedsExecute, Flights, Places, Handling,
       Raising
  <2> QED
    BY <1>0, <2>1, <2>2, OthersStay, FlightStays
<1>5. CASE Dispatch
  <2>1. IInv
    BY DEF Ordered
  <2> QED
    BY <1>0, <1>5, <2>1, DispatchMoves, FlightOnMoves DEF Moves, Dispatch, tmVars, walkVars
<1>6. CASE Get
  <2>1. IInv
    BY DEF Ordered
  <2> QED
    BY <1>0, <1>6, <2>1, GetMoves, FlightOnMoves DEF Moves, Get, walkVars
<1>7. ASSUME NEW w \in Workers, Work(w)
      PROVE  FlightInv'
  <2>1. IInv
    BY DEF Ordered
  <2>2. CASE Take(w)
    BY <1>0, <2>1, <2>2, TakeMoves, FlightOnMoves DEF Moves, Take, tmVars, walkVars
  <2>3. CASE Built(w)
    <3>1. \E m : Moving(m)
      BY <2>1, <2>3, AnsweredMoves DEF Built, Workings
    <3> QED
      BY <1>0, <2>3, <3>1, FlightOnMoves DEF Moves, Built, tmVars, walkVars
  <2> QED
    BY <1>7, <2>2, <2>3, FlightOnRetrieve DEF Work
<1> QED
  BY <1>1, <1>2, <1>3, <1>4, <1>5, <1>6, <1>7, FlightOnExamine, FlightOnHandled, FlightOnPostprocess,
     FlightOnSerialExecute DEF Next, Main

-----------------------------------------------------------------------------
(* What the steps do to the walk. *)

LEMMA GraphStays ==
    ASSUME [Next]_vars
    PROVE  /\ graph' = graph /\ mode' = mode
           /\ \A n : (HasBuilder(n)' <=> HasBuilder(n)) /\ (SideEffect(n)' <=> SideEffect(n))
                     /\ Mates(n)' = Mates(n) /\ (Unsure(n)' <=> Unsure(n)) /\ (Slips(n)' <=> Slips(n))
<1>1. graph' = graph /\ mode' = mode
  <2>1. CASE Main
    BY <2>1 DEF Main, Pick, SkipHandled, Consider, NoTask, NoCandidate, ExamineNode, Examine,
       SkipChildFailed, WaitForChildren, WaitForSideEffects, NextTask, Prepare, Dispatch,
       SerialExecute, Retrieved, Get, HandleExecuted, HandleFailed, DoFailed, ExecutedWithCallbacks,
       FailContinue, PostprocessTask, Postprocess, Cleanup, tmVars
  <2>2. CASE Signal \/ UNCHANGED vars
    BY <2>2 DEF Signal, Stop, vars, tmVars
  <2>3. ASSUME NEW w \in Workers, Work(w)
        PROVE  graph' = graph /\ mode' = mode
    BY <2>3 DEF Work, Take, Retrieve, Retrieved, Built, tmVars
  <2> QED
    BY <2>1, <2>2, <2>3 DEF Next
<1> QED
  BY <1>1 DEF HasBuilder, SideEffect, Mates, Unsure, Slips

(* What is known of the children is found when a node is considered, and   *)
(* forgotten when a file is built.                                         *)
LEMMA ScanShape ==
    ASSUME [Next]_vars
    PROVE  \/ implicit' = implicit
           \/ \E n \in Nodes : Consider(n) /\ pc = "next" /\ implicit' = Scanned(n)
           \/ \E T : implicit' = Rescanned(T)
<1>1. CASE Pick
  BY <1>1 DEF Pick, SkipHandled, Consider, nodeVars
<1>2. CASE NoTask \/ ExamineNode \/ Prepare \/ Dispatch \/ Get \/ PostprocessTask \/ Cleanup
  BY <1>2 DEF NoTask, NoCandidate, ExamineNode, Examine, SkipChildFailed, WaitForChildren,
     WaitForSideEffects, NextTask, Prepare, Dispatch, Get, PostprocessTask, Postprocess,
     Cleanup, tmVars, nodeVars
<1>3. CASE HandleExecuted \/ HandleFailed
  BY <1>3 DEF HandleExecuted, HandleFailed, DoFailed, ExecutedWithCallbacks, FailContinue
<1>4. CASE SerialExecute \/ Signal \/ UNCHANGED vars
  BY <1>4 DEF SerialExecute, Retrieved, Signal, Stop, vars, tmVars, nodeVars
<1>5. ASSUME NEW w \in Workers, Work(w)
      PROVE  implicit' = implicit \/ \E T : implicit' = Rescanned(T)
  BY <1>5 DEF Work, Take, Retrieve, Retrieved, Built, tmVars, nodeVars
<1> QED
  BY <1>1, <1>2, <1>3, <1>4, <1>5 DEF Next, Main

LEMMA ScannedFacts ==
    ASSUME Ordered, NEW n \in Nodes
    PROVE  /\ \A t \in Nodes \ Mates(n) : Scanned(n)[t] = implicit[t]
           /\ \A t \in Mates(n) : Scanned(n)[t] = Scanned(n)[n]
           /\ Scanned(n)[n] = "all" => FoundNow(n) = "all"
           /\ Found(n) => Scanned(n)[n] = "all"
           /\ Scanned(n)[n] # "all" =>
                \A t \in Mates(n) : implicit[t] = "explicit"
                                    \/ (implicit[t] = "unscanned" /\ FoundNow(n) # "all")
<1> DEFINE all == \E t \in Mates(n) : \/ implicit[t] = "all"
                                      \/ (implicit[t] = "unscanned" /\ FoundNow(t) = "all")
<1>1. Scanned(n) = [t \in Nodes |-> IF t \in Mates(n) THEN IF all THEN "all" ELSE "explicit"
                                    ELSE implicit[t]]
  BY DEF Scanned, Mates
<1>2. n \in Mates(n) /\ Mates(n) \subseteq Nodes /\ \A t \in Mates(n) : FoundNow(t) = FoundNow(n)
  BY MatesFacts, KidsFacts DEF Ordered
<1>3. \A t \in Nodes : /\ implicit[t] \in {"unscanned", "explicit", "all"}
                       /\ implicit[t] = "all" => FoundNow(t) = "all"
  BY DEF Ordered, Kinds, ScanInv
<1>4. all => FoundNow(n) = "all"
  BY <1>2, <1>3
<1>5. Found(n) => all
  BY <1>2, <1>3 DEF Found
<1>6. ~ all => \A t \in Mates(n) : implicit[t] = "explicit"
                                   \/ (implicit[t] = "unscanned" /\ FoundNow(n) # "all")
  BY <1>2, <1>3
<1> HIDE DEF all
<1> QED
  BY <1>1, <1>2, <1>4, <1>5, <1>6

(* What has been found stays found. *)
LEMMA FoundStays ==
    ASSUME Ordered, [Next]_vars
    PROVE  /\ \A n \in Nodes : FoundNow(n) = "all" => FoundNow(n)' = "all"
           /\ \A n \in Nodes : KidsOf(n) \subseteq KidsOf(n)'
           /\ ScanInv'
<1>1. graph' = graph /\ \A n : (HasBuilder(n)' <=> HasBuilder(n)) /\ Mates(n)' = Mates(n)
  BY GraphStays
<1>2. ASSUME NEW n \in Nodes, FoundNow(n) = "all"
      PROVE  FoundNow(n)' = "all"
  <2>1. HasBuilder(n) /\ \A g \in graph.generated[n] : state[g] = Executed
    BY <1>2 DEF FoundNow
  <2>2. \A g \in graph.generated[n] : state'[g] = Executed
    BY <2>1, KidsFacts, OnwardStep DEF Onward
  <2> QED
    BY <1>1, <2>1, <2>2 DEF FoundNow
<1>3. ASSUME NEW T, implicit' = Rescanned(T), NEW t \in Nodes
      PROVE  implicit'[t] \in {implicit[t], "unscanned"}
  BY <1>3 DEF Rescanned
<1>4. ASSUME NEW n \in Nodes, Found(n)
      PROVE  Found(n)'
  <2>1. FoundNow(n)' = "all" /\ Mates(n) \subseteq Nodes /\ n \in Mates(n)
    BY <1>2, <1>4, MatesFacts DEF Found, Ordered
  <2>2. ASSUME NEW t \in Mates(n), implicit'[t] = "explicit"
        PROVE  FALSE
    <3>1. implicit[t] # "explicit"
      BY <1>4 DEF Found
    <3>2. PICK m \in Nodes : implicit' = Scanned(m)
      BY <1>3, <2>1, <2>2, <3>1, ScanShape
    <3>3. t \in Mates(m)
      BY <2>1, <2>2, <3>1, <3>2, ScannedFacts
    <3>4. Mates(m) = Mates(n) /\ m \in Mates(n)
      BY <2>1, <3>3, MatesFacts DEF Ordered
    <3>5. Scanned(n)[n] = "all"
      BY <1>4, ScannedFacts
    <3>6. Scanned(m)[t] = Scanned(m)[m] /\ Scanned(m)[n] = Scanned(m)[m]
      BY <2>1, <3>3, <3>4, ScannedFacts
    <3>7. Found(m)
      <4>1. FoundNow(m) = FoundNow(n)
        BY <3>4, KidsFacts
      <4> QED
        BY <1>4, <3>4, <4>1 DEF Found
    <3> QED
      BY <2>2, <3>2, <3>6, <3>7, ScannedFacts
  <2> QED
    BY <1>1, <2>1, <2>2 DEF Found
<1>5. \A n \in Nodes : KidsOf(n) \subseteq KidsOf(n)'
  BY <1>1, <1>4 DEF KidsOf
<1>6. ASSUME NEW n \in Nodes, implicit'[n] = "all"
      PROVE  FoundNow(n)' = "all"
  <2> SUFFICES FoundNow(n) = "all"
    BY <1>2
  <2>1. implicit[n] = "all" => FoundNow(n) = "all"
    BY DEF Ordered, ScanInv
  <2>2. ASSUME NEW m \in Nodes, implicit' = Scanned(m), n \in Mates(m)
        PROVE  FoundNow(n) = "all"
    BY <1>6, <2>2, ScannedFacts, KidsFacts
  <2>3. ASSUME NEW m \in Nodes, implicit' = Scanned(m), n \notin Mates(m)
        PROVE  FoundNow(n) = "all"
    BY <1>6, <2>1, <2>3, ScannedFacts
  <2> QED
    BY <1>3, <1>6, <2>1, <2>2, <2>3, ScanShape
<1> QED
  BY <1>2, <1>5, <1>6 DEF ScanInv

(* How a node stops being pending: it gets a task, fails with a child,     *)
(* fails because something that it waits for fails, or fails with an error *)
(* of make_ready.                                                          *)
LEMMA LeavePending ==
    ASSUME Ordered, [Next]_vars, NEW t \in Nodes, ~ SideEffect(t), state[t] <= Pending,
           state'[t] > Pending
    PROVE  \/ /\ pc = "examine" /\ t \in Mates(ready.node)
              /\ \A u \in Mates(ready.node) : state'[u] > Pending
              /\ NextTask \/ state'[t] = Failed
           \/ /\ state'[t] = Failed
              /\ \E x \in Nodes : t \in waitingParents[x] /\ state'[x] = Failed
           \/ /\ Raising /\ t \in ToSet(task.targets)
              /\ \A u \in Mates(t) : state'[u] = Failed
<1> USE DEF NoState, Pending, Executing, UpToDate, Executed, Failed
<1>1. state \in [Nodes -> NoState .. Failed] /\ state'[t] # state[t]
  BY DEF Ordered, IInv, StateShape
<1>2. ASSUME NEW p \in Flights, NEW T \in SUBSET TargetsAt(p), Retrieved(T)
      PROVE  FALSE
  <2>1. t \in T
    BY <1>1, <1>2 DEF Retrieved
  <2> QED
    BY <1>2, <2>1 DEF Ordered, FlightInv, FlightStates
<1>3. CASE ExamineNode
  <2>1. pc = "examine"
    BY <1>3 DEF ExamineNode
  <2>2. ready.node \in Nodes /\ Mates(ready.node) \subseteq Nodes
    BY <2>1, ExaminedFacts
  <2>3. CASE SkipChildFailed
    BY <1>1, <2>1, <2>2, <2>3 DEF SkipChildFailed, Mates
  <2>4. CASE WaitForChildren \/ WaitForSideEffects
    BY <1>1, <2>4 DEF WaitForChildren, WaitForSideEffects
  <2>5. CASE NextTask
    <3>1. PICK s \in {Executing, UpToDate} :
             /\ \A n \in Mates(ready.node) : state'[n] = s
             /\ \A n \in Nodes \ Mates(ready.node) : SideEffect(n) \/ state'[n] = state[n]
      BY <1>1, <2>1, <2>5, MakeReadyStates
    <3> QED
      BY <1>1, <2>1, <2>5, <3>1
  <2> QED
    BY <1>3, <2>3, <2>4, <2>5 DEF ExamineNode, Examine
<1>4. CASE HandleExecuted \/ HandleFailed
  <2>1. CASE ExecutedWithCallbacks
    BY <1>1, <2>1 DEF ExecutedWithCallbacks
  <2>2. CASE (pc = "failed" \/ (pc = "executed" /\ CannotMake)) /\ FailContinue
    <3> DEFINE T == ToSet(task.targets)
    <3>1. /\ T \subseteq Nodes /\ \A n \in T : Mates(n) = T
          /\ ~ Raising => \A n \in T : state[n] \in {Executing, UpToDate}
      BY <2>2, FailingFacts
    <3>2. state' = [n \in Nodes |-> IF n \in Above(T) THEN Failed ELSE state[n]]
      BY <2>2 DEF FailContinue, WillNotBuild
    <3>3. t \in Above(T)
      BY <1>1, <3>2
    <3>4. waitingParents \in [Nodes -> SUBSET Nodes]
      BY DEF Ordered, IInv, WalkInv, WalkShapes
    <3>7. CASE t \in T
      <4>1. Raising
        BY <1>1, <3>1, <3>7
      <4>2. \A u \in T : u \in Nodes /\ u \in Above(T)
        BY <3>1, <3>4, AboveFacts
      <4> QED
        BY <3>1, <3>2, <3>7, <4>1, <4>2
    <3> SUFFICES ASSUME t \notin T
                 PROVE  \E x \in Nodes : t \in waitingParents[x] /\ state'[x] = Failed /\ state'[t] = Failed
      BY <3>7
    <3> HIDE DEF T
    <3>5. PICK x \in Above(T) : t \in waitingParents[x]
      BY <3>1, <3>3, <3>4, AboveFacts
    <3>6. x \in Nodes
      BY <3>1, <3>4, AboveFacts
    <3> QED
      BY <3>2, <3>3, <3>5, <3>6
  <2> QED
    BY <1>4, <2>1, <2>2 DEF HandleExecuted, HandleFailed, DoFailed
<1>5. CASE SerialExecute
  BY <1>2, <1>5, SerialShape
<1>6. ASSUME NEW w \in Workers, Work(w)
      PROVE  FALSE
  <2>1. CASE Retrieve(w)
    <3>1. Worker(w) \in Flights /\ (state' = state \/ \E u \in TargetsAt(Worker(w)) : Retrieved({u}))
      BY <2>1, RetrieveShape DEF tmVars, nodeVars
    <3> QED
      BY <1>1, <1>2, <3>1
  <2>2. CASE Take(w) \/ Built(w)
    BY <1>1, <2>2 DEF Take, Built, tmVars, nodeVars
  <2> QED
    BY <1>6, <2>1, <2>2 DEF Work
<1>7. ~ Pick
  BY <1>1 DEF Pick, SkipHandled, Consider, nodeVars
<1>8. ~ NoTask
  BY <1>1 DEF NoTask, NoCandidate, WillNotBuild
<1>9. ~ PostprocessTask
  BY <1>1 DEF PostprocessTask, Postprocess
<1>10. ~ (Prepare \/ Dispatch \/ Get \/ Cleanup \/ Signal \/ UNCHANGED vars)
  BY <1>1 DEF Prepare, Dispatch, Get, Cleanup, Signal, Stop, vars, tmVars, nodeVars
<1> QED
  BY <1>3, <1>4, <1>5, <1>6, <1>7, <1>8, <1>9, <1>10 DEF Next, Main

LEMMA MateStep ==
    ASSUME Ordered, [Next]_vars
    PROVE  MateInv'
<1> USE DEF NoState, Pending, Executing, UpToDate, Executed, Failed
<1>1. /\ graph' = graph /\ \A n : Mates(n)' = Mates(n)
      /\ IInv /\ MateInv /\ Onward
  BY GraphStays, OnwardStep DEF Ordered
<1>2. SUFFICES ASSUME NEW n \in Nodes, NEW t \in Mates(n), state'[n] <= Pending, state'[t] > Pending
               PROVE  state'[t] = Failed /\ n \notin graph.broken /\ \E x \in KidsOf(n)' : state'[x] = Failed
  <2>1. StateShape' /\ \A n \in Nodes : Mates(n) \subseteq Nodes
    BY <1>1, StateStep, MatesFacts DEF IInv
  <2>2. \A n \in Nodes : \A t \in Mates(n) : state'[t] <= Pending \/ state'[t] > Pending
    BY <2>1 DEF StateShape
  <2> QED
    BY <1>1, <2>2 DEF MateInv
<1>3. /\ t \in Nodes /\ Mates(t) = Mates(n) /\ n \in Mates(n)
      /\ ~ SideEffect(n) /\ ~ SideEffect(t)
      /\ t \in graph.broken <=> n \in graph.broken
  <2>1. /\ t \in Nodes /\ Mates(t) = Mates(n) /\ n \in Mates(n)
        /\ t \in graph.broken <=> n \in graph.broken
    BY <1>1, <1>2, MatesFacts
  <2>2. state'[n] \in NoState .. Failed /\ state'[t] \in NoState .. Failed
    BY <1>1, <2>1, StateStep DEF IInv, StateShape
  <2>3. t # n
    BY <1>2, <2>2
  <2> QED
    BY <1>1, <2>1, <2>3, MatesFacts
<1>4. KidsOf(n) \subseteq Nodes /\ (\A x \in KidsOf(n) : ~ SideEffect(x)) /\ KidsOf(t) = KidsOf(n)
      /\ KidsOf(n) \subseteq KidsOf(n)'
  BY KidsFacts, FoundStays
<1>5. state[n] <= Pending
  <2>1. state[n] \in NoState .. Failed /\ state'[n] \in NoState .. Failed
    BY <1>1, StateStep DEF IInv, StateShape
  <2> QED
    BY <1>1, <1>2, <1>3, <2>1 DEF Onward
<1>6. CASE state[t] <= Pending
  <2>1. CASE pc = "examine" /\ t \in Mates(ready.node) /\ \A u \in Mates(ready.node) : state'[u] > Pending
    <3>1. ready.node \in Nodes
      BY <1>1 DEF IInv, WalkInv, WalkShapes
    <3>2. n \in Mates(ready.node)
      BY <1>1, <1>3, <2>1, <3>1, MatesFacts
    <3>3. state'[n] > Pending
      BY <2>1, <3>2
    <3>4. StateShape'
      BY <1>1, StateStep DEF IInv
    <3> QED
      BY <1>2, <3>3, <3>4 DEF StateShape
  <2>2. CASE state'[t] = Failed /\ \E x \in Nodes : t \in waitingParents[x] /\ state'[x] = Failed
    <3>1. PICK x \in Nodes : t \in waitingParents[x] /\ state'[x] = Failed
      BY <2>2
    <3>2. WaitsFor(t, x)
      BY <3>1, WaitFacts
    <3> QED
      BY <1>3, <1>4, <2>2, <3>1, <3>2 DEF WaitsFor
  <2>3. CASE \A u \in Mates(t) : state'[u] = Failed
    BY <1>2, <1>3, <2>3
  <2> QED
    BY <1>2, <1>3, <1>6, <2>1, <2>2, <2>3, LeavePending
<1>7. CASE state[t] > Pending
  <2>1. state[t] = Failed /\ n \notin graph.broken /\ \E x \in KidsOf(n) : state[x] = Failed
    <3>1. state[t] \in NoState .. Failed
      BY <1>1, <1>3 DEF IInv, StateShape
    <3> QED
      BY <1>1, <1>5, <1>7, <3>1 DEF MateInv
  <2> QED
    BY <1>1, <1>3, <1>4, <2>1 DEF Onward
<1>8. state[t] <= Pending \/ state[t] > Pending
  BY <1>1, <1>3 DEF IInv, StateShape
<1> QED
  BY <1>6, <1>7, <1>8

(* Who is done and waited for has a task, or is being postprocessed. *)
LEMMA ComingOnMoves ==
    ASSUME Ordered, Moves, NEW x, \E q \in Flights : x \in TargetsAt(q)
    PROVE  Coming(x)'
<1>1. PICK q \in Flights : x \in TargetsAt(q)
  OBVIOUS
<1>2. PICK m : Moving(m)
  BY DEF Moves
<1>3. PICK p \in Places' : m[p] = q
  BY <1>2 DEF Moving, Flights
<1>4. TaskAt(p)' = TaskAt(q) /\ TargetsAt(p)' = TargetsAt(q)
  BY <1>2, <1>3 DEF Moving, TargetsAt
<1>5. ASSUME p = MainThread
      PROVE  ~ Raising'
  <2>1. x \in ToSet(task'.targets) /\ state'[x] \in {Executing, UpToDate, Executed}
    BY <1>1, <1>4, <1>5, PlaceFacts DEF Moves, nodeVars, TargetsAt, Ordered, FlightInv, FlightStates
  <2> QED
    BY <2>1 DEF Raising, Pending, Executing, UpToDate, Executed
<1>6. p \in Flights'
  BY <1>2, <1>3, <1>5 DEF Moving, Flights
<1> QED
  BY <1>1, <1>4, <1>6 DEF Coming

LEMMA ComingStep ==
    ASSUME Ordered, [Next]_vars, NEW x \in Nodes, ~ SideEffect(x), Done(x)', Done(x) => Coming(x)
    PROVE  Coming(x)' \/ waitingParents'[x] = {}
<1> USE DEF UpToDate, Executed
<1>2. ASSUME UNCHANGED poolVars, NEW q \in Flights, x \in TargetsAt(q), q # MainThread
      PROVE  Coming(x)'
  BY <1>2, OthersStay DEF Coming
<1>3. state' = state => Done(x)
  BY DEF Done
<1>4. CASE Pick \/ NoTask
  <2>1. /\ UNCHANGED poolVars /\ pc = "next"
    BY <1>4 DEF Pick, NoTask
  <2>2. state \in [Nodes -> NoState .. Failed]
    BY DEF Ordered, IInv, StateShape
  <2>3. Done(x)
    BY <1>4, <2>2 DEF Pick, SkipHandled, Consider, nodeVars, NoTask, NoCandidate, WillNotBuild, Done,
       Pending
  <2>4. MainThread \notin Flights
    BY <2>1, PlacesDiffer DEF Flights, Places, Handling
  <2> QED
    BY <1>2, <2>1, <2>3, <2>4 DEF Coming
<1>5. CASE ExamineNode
  <2>1. /\ UNCHANGED poolVars /\ pc = "examine"
        /\ (NextTask /\ pc' = "prepare") \/ Examine
    BY <1>5 DEF ExamineNode, Examine, SkipChildFailed, WaitForChildren, WaitForSideEffects, NextTask
  <2>2. MainThread \notin Flights
    BY <2>1, PlacesDiffer DEF Flights, Places, Handling
  <2>3. CASE Done(x)
    BY <1>2, <2>1, <2>2, <2>3 DEF Coming
  <2>4. CASE ~ Done(x)
    <3>1. NextTask /\ pc' = "prepare"
      BY <2>1, <2>4 DEF Examine, SkipChildFailed, WaitForChildren, WaitForSideEffects, Done, Failed
    <3>4. MainThread \in Flights' /\ ~ Raising'
      BY <1>3, <2>1, <2>4, <3>1, NewTaskFacts
    <3>2. x \in Mates(ready.node)
      BY <2>1, <2>4, <3>1, <3>4, NewTaskFacts DEF Done
    <3>3. TargetsAt(MainThread)' = Mates(ready.node)
      BY <2>1, <3>1, NewTaskFacts
    <3> QED
      BY <3>2, <3>3, <3>4 DEF Coming
  <2> QED
    BY <2>3, <2>4
<1>6. CASE HandleExecuted \/ HandleFailed
  <2>1. UNCHANGED poolVars /\ pc' = "postprocess" /\ pc \in {"executed", "failed"}
    BY <1>6 DEF HandleExecuted, HandleFailed
  <2>2. TargetsAt(MainThread) = ToSet(task.targets)
    BY PlaceFacts DEF TargetsAt
  <2>3. CASE ExecutedWithCallbacks
    <3>1. task' = task
      BY <2>3 DEF ExecutedWithCallbacks
    <3>2. Done(x) \/ x \in ToSet(task.targets)
      BY <2>3 DEF ExecutedWithCallbacks, Done, NoState
    <3> QED
      BY <1>2, <2>1, <2>2, <3>1, <3>2 DEF Coming
  <2>4. CASE (pc = "failed" \/ (pc = "executed" /\ CannotMake)) /\ FailContinue
    <3>1. state' = [n \in Nodes |-> IF n \in Above(ToSet(task.targets)) THEN Failed ELSE state[n]]
      BY <2>4 DEF FailContinue, WillNotBuild
    <3>2. ToSet(task.targets) \subseteq Above(ToSet(task.targets))
      <4>1. ToSet(task.targets) \in SUBSET Nodes
        BY <2>4, FailingFacts
      <4> QED
        BY <4>1, AboveFacts DEF Ordered, IInv, WalkInv, WalkShapes
    <3>3. Done(x) /\ x \notin ToSet(task.targets)
      BY <3>1, <3>2 DEF Done, Failed
    <3> QED
      BY <1>2, <2>1, <2>2, <3>3 DEF Coming
  <2> QED
    BY <1>6, <2>3, <2>4 DEF HandleExecuted, HandleFailed, DoFailed
<1>7. CASE PostprocessTask
  <2>1. /\ UNCHANGED poolVars /\ pc = "postprocess"
        /\ waitingParents' = [n \in Nodes |-> IF n \in ToSet(task.targets) THEN {} ELSE waitingParents[n]]
    BY <1>7 DEF PostprocessTask, Postprocess
  <2>2. Done(x)
    BY <1>7 DEF PostprocessTask, Postprocess, Done, NoState
  <2>3. MainThread \notin Flights
    BY <2>1 DEF Flights
  <2> QED
    BY <1>2, <2>1, <2>2, <2>3 DEF Coming
<1>8. CASE SerialExecute
  <2>1. /\ UNCHANGED poolVars /\ pc' \in {"executed", "failed"} /\ pc = "execute"
        /\ Done(x) \/ x \in TargetsAt(MainThread)
        /\ task' = task
    <3>1. PICK T \in SUBSET TargetsAt(MainThread) : Retrieved(T)
      BY <1>8, SerialShape
    <3> QED
      BY <1>8, <3>1, SerialShape DEF Retrieved, Done
  <2>2. MainThread \in Flights' /\ TargetsAt(MainThread)' = TargetsAt(MainThread)
    <3>1. ~ Raising'
      BY <1>8, NothingRaised
    <3> QED
      BY <2>1, <3>1, PlaceFacts DEF Flights, Places, Handling, TargetsAt
  <2> QED
    BY <1>2, <2>1, <2>2 DEF Coming
<1>9. CASE Prepare
  <2>1. /\ UNCHANGED poolVars /\ UNCHANGED <<state, task>> /\ pc = "prepare"
        /\ pc' \in {"failed", "execute", "executed"}
    BY <1>9 DEF Prepare, tmVars, nodeVars
  <2>2. /\ MainThread \in Flights => MainThread \in Flights'
        /\ TargetsAt(MainThread)' = TargetsAt(MainThread)
    <3>1. Raising' => Raising
      BY <2>1 DEF Raising
    <3> QED
      BY <2>1, <3>1, PlaceFacts DEF Flights, Places, Handling, TargetsAt
  <2> QED
    BY <1>2, <1>3, <2>1, <2>2 DEF Coming
<1>10. CASE Cleanup
  <2>1. UNCHANGED poolVars /\ UNCHANGED <<state, task>> /\ pc = "cleanup"
    BY <1>10 DEF Cleanup, tmVars, nodeVars
  <2>2. MainThread \notin Flights
    BY <2>1, PlacesDiffer DEF Flights, Places, Handling
  <2> QED
    BY <1>2, <1>3, <2>1, <2>2 DEF Coming
<1>11. CASE Signal \/ UNCHANGED vars
  <2>1. UNCHANGED poolVars /\ UNCHANGED <<state, task, pc>>
    BY <1>11 DEF Signal, Stop, vars, tmVars, nodeVars, walkVars, jobVars
  <2>2. MainThread \in Flights => MainThread \in Flights'
    BY <2>1, RaisingFacts, PlacesDiffer DEF Flights, Places, Handling
  <2>3. TargetsAt(MainThread)' = TargetsAt(MainThread)
    BY <2>1, PlaceFacts DEF TargetsAt
  <2> QED
    BY <1>2, <1>3, <2>1, <2>2, <2>3 DEF Coming
<1>12. CASE Dispatch \/ Get
  <2>1. pc \in {"execute", "get"} /\ state' = state /\ Moves
    BY <1>12, DispatchMoves, GetMoves DEF Dispatch, Get, Moves, tmVars, nodeVars, walkVars, Ordered
  <2> QED
    BY <1>3, <2>1, ComingOnMoves DEF Coming
<1>13. ASSUME NEW w \in Workers, Work(w)
       PROVE  Coming(x)'
  <2>1. CASE Moves /\ UNCHANGED <<pc, task, state>>
    BY <1>3, <2>1, ComingOnMoves DEF Coming
  <2>2. CASE Take(w)
    <3>1. Moves /\ UNCHANGED <<pc, task, state>>
      BY <2>2, TakeMoves DEF Take, Moves, tmVars, nodeVars, walkVars, Ordered
    <3> QED
      BY <2>1, <3>1
  <2>3. CASE Built(w)
    <3>1. \E m : Moving(m)
      BY <2>3, AnsweredMoves DEF Built, Workings, Ordered
    <3>2. Moves /\ UNCHANGED <<pc, task, state>>
      BY <2>3, <3>1 DEF Built, Moves, tmVars, nodeVars, walkVars
    <3> QED
      BY <2>1, <3>2
  <2>4. CASE Retrieve(w)
    <3>1. CASE Answered(w, TRUE) /\ UNCHANGED tmVars
      <4>1. w \in Workings /\ UNCHANGED <<pc, requests>>
        BY <2>4, RetrieveShape
      <4>2. \E m : Moving(m)
        BY <3>1, <4>1, AnsweredMoves DEF Ordered
      <4>3. Moves /\ UNCHANGED <<pc, task, state>>
        BY <3>1, <4>1, <4>2 DEF Moves, tmVars, nodeVars, walkVars
      <4> QED
        BY <2>1, <4>3
    <3>2. CASE results' = results
      <4>1. Flights' = Flights /\ \A q \in Flights : TaskAt(q)' = TaskAt(q)
        BY <2>4, <3>2, RetrieveStays
      <4>2. UNCHANGED <<pc, task>>
        BY <2>4, <3>2, RetrieveStays
      <4>3. Done(x) \/ x \in TargetsAt(Worker(w))
        <5>1. state' = state \/ \E t \in TargetsAt(Worker(w)) : Retrieved({t})
          BY <2>4, RetrieveShape DEF tmVars, nodeVars
        <5> QED
          BY <1>3, <5>1 DEF Retrieved, Done
      <4>4. Worker(w) \in Flights
        BY <2>4, RetrieveShape
      <4> QED
        BY <4>1, <4>2, <4>3, <4>4 DEF Coming, TargetsAt
    <3> QED
      BY <2>4, <3>1, <3>2, RetrieveShape
  <2> QED
    BY <1>13, <2>2, <2>3, <2>4 DEF Work
<1> QED
  BY <1>4, <1>5, <1>6, <1>7, <1>8, <1>9, <1>10, <1>11, <1>12, <1>13 DEF Next, Main

(* Who waits anew is the node that is examined, for its children.          *)
LEMMA WaitShape ==
    ASSUME IInv, [Next]_vars, NEW x \in Nodes, NEW p \in waitingParents'[x]
    PROVE  \/ p \in waitingParents[x]
           \/ /\ pc = "examine" /\ p = ready.node /\ p \notin graph.broken
              /\ x \in NotReady /\ state' = state
<1>0. waitingParents \in [Nodes -> SUBSET Nodes]
  BY DEF IInv, WalkInv, WalkShapes
<1>1. CASE NoTask \/ HandleExecuted \/ HandleFailed
  BY <1>0, <1>1 DEF NoTask, NoCandidate, HandleExecuted, HandleFailed, DoFailed, FailContinue,
     ExecutedWithCallbacks, WillNotBuild
<1>2. CASE ExamineNode
  <2>1. CASE pc = "examine" /\ ready.node \notin graph.broken /\ WaitForChildren
    BY <1>0, <2>1 DEF WaitForChildren
  <2>2. CASE SkipChildFailed \/ WaitForSideEffects \/ NextTask
    BY <1>0, <2>2 DEF SkipChildFailed, WaitForSideEffects, NextTask
  <2> QED
    BY <1>2, <2>1, <2>2 DEF ExamineNode, Examine
<1>3. CASE PostprocessTask
  BY <1>0, <1>3 DEF PostprocessTask, Postprocess
<1>4. CASE Pick \/ Prepare \/ Dispatch \/ SerialExecute \/ Get \/ Cleanup \/ Signal \/ UNCHANGED vars
  BY <1>4 DEF Pick, SkipHandled, Consider, Prepare, Dispatch, SerialExecute, Retrieved, Get, Cleanup,
     Signal, Stop, vars, tmVars, nodeVars
<1>5. ASSUME NEW w \in Workers, Work(w)
      PROVE  waitingParents' = waitingParents
  BY <1>5 DEF Work, Take, Retrieve, Retrieved, Built, tmVars, nodeVars
<1> QED
  BY <1>1, <1>2, <1>3, <1>4, <1>5 DEF Next, Main

(* The step of WaitInv. *)
LEMMA WaitStep ==
    ASSUME Ordered, [Next]_vars
    PROVE  WaitInv'
<1>1. /\ graph' = graph /\ \A n : (SideEffect(n)' <=> SideEffect(n))
      /\ IInv /\ Onward /\ state \in [Nodes -> NoState .. Failed]
      /\ state' \in [Nodes -> NoState .. Failed]
  BY GraphStays, OnwardStep, StateStep DEF Ordered, IInv, StateShape
<1>2. \A n \in Nodes : KidsOf(n) \subseteq KidsOf(n)'
  BY FoundStays
<1>3. ASSUME NEW x \in Nodes, NEW p \in waitingParents[x], p \in waitingParents'[x]
      PROVE  WaitsFor(p, x)'
  <2>1. p \in Nodes /\ ~ SideEffect(x) /\ WaitsFor(p, x)
    BY <1>3, WaitFacts
  <2>2. p \notin graph'.broken /\ x \in KidsOf(p)'
    BY <1>1, <1>2, <2>1 DEF WaitsFor
  <2>3. Done(x)' => Coming(x)'
    BY <1>3, <2>1, ComingStep DEF WaitsFor, Coming
  <2>4. \/ SideEffect(p)' \/ state'[p] \in {Pending, Failed}
        \/ state'[x] = Executed /\ x \in graph'.cached
    <3>1. CASE SideEffect(p) \/ state[p] = Failed \/ (state[x] = Executed /\ x \in graph.cached)
      BY <1>1, <2>1, <3>1 DEF Onward
    <3>2. CASE ~ SideEffect(p) /\ state[p] = Pending /\ state'[p] \notin {Pending, Failed}
      <4>1. state'[p] > Pending
        BY <1>1, <2>1, <3>2 DEF Onward, Pending, NoState, Failed
      <4>2. pc = "examine" /\ p \in Mates(ready.node) /\ NextTask
        BY <1>1, <2>1, <3>2, <4>1, LeavePending, MatesFacts DEF Pending
      <4>3. x \in ToSet(ready.kids) /\ ready.node \in Nodes
        BY <1>3, <4>2, ExaminedFacts DEF Ordered, ReadyInv
      <4>4. ready.node \notin graph.broken
        BY <1>1, <2>1, <4>2, <4>3, MatesFacts DEF WaitsFor
      <4>5. state[x] \in {UpToDate, Executed}
        <5>1. KidsIn({Failed}) = {} /\ NotReady = {}
          BY <4>2, <4>4 DEF NextTask
        <5>2. state[x] \notin {Failed, NoState, Pending, Executing}
          BY <4>3, <5>1 DEF KidsIn, NotReady
        <5> QED
          BY <1>1, <5>2 DEF NoState, Pending, Executing, UpToDate, Executed, Failed
      <4>6. PICK q \in Flights : x \in TargetsAt(q)
        BY <2>1, <4>2, <4>5 DEF WaitsFor, Coming, Done
      <4>7. q # MainThread
        BY <4>2, PlacesDiffer DEF Flights, Places, Handling
      <4>8. state[x] = Executed /\ x \in graph.cached
        BY <4>5, <4>6, <4>7, OthersFacts DEF UpToDate, Executing, Executed
      <4> QED
        BY <1>1, <2>1, <4>8 DEF Onward
    <3> QED
      BY <1>1, <2>1, <3>1, <3>2 DEF WaitsFor
  <2> QED
    BY <2>2, <2>3, <2>4 DEF WaitsFor, Coming
<1>4. ASSUME NEW x \in Nodes, NEW p \in Nodes, p = ready.node, p \notin graph.broken,
             pc = "examine", x \in NotReady, state' = state
      PROVE  WaitsFor(p, x)'
  <2>1. state[p] = Pending /\ x \in KidsOf(p)
    BY <1>4 DEF Ordered, ReadyInv, NotReady, KidsIn
  <2>2. ~ Done(x)'
    BY <1>4 DEF NotReady, KidsIn, Done, NoState, Pending, Executing, UpToDate, Executed
  <2>3. x \in KidsOf(p)'
    BY <1>2, <2>1
  <2> QED
    BY <1>1, <1>4, <2>1, <2>2, <2>3 DEF WaitsFor
<1>5. ready.node \in Nodes
  BY <1>1 DEF IInv, WalkInv, WalkShapes
<1> QED
  BY <1>1, <1>3, <1>4, <1>5, WaitShape DEF WaitInv

(* What there is to examine is found when a node is considered; meanwhile  *)
(* workers may take files from the cache.                                  *)
LEMMA ExamineShape ==
    ASSUME [Next]_vars, pc' = "examine"
    PROVE  \/ pc = "next" /\ ~ stopped /\ \E n \in Nodes : Consider(n)
           \/ /\ pc = "examine" /\ UNCHANGED <<ready, waitingParents, candidates, topLeft>>
              /\ (stopped => stopped')
              /\ \/ UNCHANGED <<state, implicit>>
                 \/ \E w \in Workers : Retrieve(w)
<1>1. CASE Pick
  BY <1>1 DEF Pick
<1>2. pc' = pc => pc = "examine"
  OBVIOUS
<1>3. ~ (NoTask \/ ExamineNode \/ Prepare \/ Dispatch \/ SerialExecute \/ Get \/ HandleExecuted
         \/ HandleFailed \/ PostprocessTask \/ Cleanup)
  BY DEF NoTask, ExamineNode, Prepare, Dispatch, SerialExecute, Get, HandleExecuted, HandleFailed,
     PostprocessTask, Cleanup
<1>4. CASE Signal \/ UNCHANGED vars
  BY <1>4 DEF Signal, Stop, vars, tmVars, nodeVars, walkVars, jobVars
<1>5. ASSUME NEW w \in Workers, Work(w)
      PROVE  /\ UNCHANGED <<pc, ready, waitingParents, candidates, topLeft, stopped>>
             /\ UNCHANGED <<state, implicit>> \/ Retrieve(w)
  BY <1>5 DEF Work, Take, Retrieve, Retrieved, Built, tmVars, nodeVars, walkVars
<1> QED
  BY <1>1, <1>3, <1>4, <1>5 DEF Next, Main

(* A worker that takes files from the cache takes none of what is examined. *)
LEMMA RetrieveTouches ==
    ASSUME Ordered, NEW w \in Workers, Retrieve(w), NEW x \in Nodes
    PROVE  \/ state'[x] = state[x]
           \/ /\ x \in TargetsAt(Worker(w)) /\ Worker(w) \in Flights
              /\ x \in graph.cached /\ state'[x] = Executed
<1>1. \/ state' = state
      \/ \E t \in TargetsAt(Worker(w)) \cap graph.cached : Retrieved({t})
  BY RetrieveShape DEF tmVars, nodeVars
<1>2. Worker(w) \in Flights
  BY RetrieveShape
<1> QED
  BY <1>1, <1>2 DEF Retrieved

LEMMA ReadyStep ==
    ASSUME Ordered, [Next]_vars
    PROVE  ReadyInv'
<1> USE DEF NoState, Pending, Executing, UpToDate, Executed, Failed
<1>1. /\ graph' = graph /\ \A n : Mates(n)' = Mates(n)
      /\ IInv /\ Onward /\ state \in [Nodes -> NoState .. Failed]
  BY GraphStays, OnwardStep DEF Ordered, IInv, StateShape
<1>2. \A n \in Nodes : KidsOf(n) \subseteq KidsOf(n)'
  BY FoundStays
<1>3. ASSUME NEW n \in Nodes, Consider(n)
      PROVE  ReadyInv'
  <2> DEFINE kids == ToSet(ready'.kids)
  <2>1. /\ ready'.node = n /\ implicit' = Scanned(n) /\ waitingParents' = waitingParents
        /\ state[n] <= Pending /\ state' = [state EXCEPT ![n] = Pending]
        /\ ready'.kids = Children(n, implicit'[n])
    BY <1>3 DEF Consider
  <2>2. /\ graph.kids[n] \in Seq(Nodes) /\ graph.late[n] \in Seq(Nodes) /\ n \in Mates(n)
        /\ Mates(n) \subseteq Nodes
    BY <1>1, GraphFacts, MatesFacts DEF IInv, WalkInv, WalkShapes
  <2>3. kids = ToSet(graph.kids[n]) \cup IF implicit'[n] = "all" THEN ToSet(graph.late[n]) ELSE {}
    <3>1. ToSet(graph.kids[n] \o graph.late[n]) = ToSet(graph.kids[n]) \cup ToSet(graph.late[n])
      BY <2>2, ConcatElements
    <3>2. graph.kids[n] \o <<>> = graph.kids[n]
      BY <2>2
    <3> QED
      BY <1>1, <2>1, <3>1, <3>2 DEF Children
  <2> HIDE DEF kids
  <2>4. kids \subseteq KidsOf(n)'
    <3>1. implicit'[n] = "all" => Found(n)'
      <4>1. \A t \in Mates(n) : implicit'[t] = implicit'[n]
        BY <2>1, ScannedFacts
      <4>2. ScanInv'
        BY FoundStays
      <4> QED
        BY <1>1, <4>1, <4>2 DEF Found, ScanInv
    <3> QED
      BY <1>1, <2>3, <3>1 DEF KidsOf
  <2>5. KidsOf(n) \subseteq kids
    BY <1>1, <2>1, <2>3, ScannedFacts DEF KidsOf
  <2>6. ASSUME NEW t \in Mates(n)
        PROVE  /\ \A x \in Nodes : t \in waitingParents'[x] => x \in kids
               /\ state'[t] = Failed => \E x \in kids : state'[x] = Failed
    <3>1. KidsOf(t) = KidsOf(n)
      BY KidsFacts
    <3>2. \A x \in Nodes : t \in waitingParents[x] => x \in KidsOf(t)
      BY WaitFacts DEF WaitsFor
    <3>3. ASSUME state'[t] = Failed
          PROVE  \E x \in kids : state'[x] = Failed
      <4>1. state[t] = Failed
        BY <1>1, <2>1, <2>2, <3>3
      <4>2. PICK x \in KidsOf(n) : state[x] = Failed
        BY <2>1, <4>1 DEF Ordered, MateInv
      <4>3. x \in Nodes /\ x # n
        BY <2>1, <4>2, KidsFacts
      <4> QED
        BY <1>1, <2>1, <2>5, <4>2, <4>3
    <3> QED
      BY <2>1, <2>5, <3>1, <3>2, <3>3
  <2> QED
    BY <1>1, <2>1, <2>2, <2>3, <2>4, <2>6 DEF ReadyInv, kids
<1>4. ASSUME pc = "examine", UNCHANGED <<ready, waitingParents>>,
             UNCHANGED state \/ \E w \in Workers : Retrieve(w)
      PROVE  ReadyInv'
  <2> DEFINE r == ready.node
             kids == ToSet(ready.kids)
  <2>1. /\ r \in Nodes /\ state[r] = Pending
        /\ \A t \in Mates(r) : t \in Nodes /\ \A p \in Flights : t \notin TargetsAt(p)
    BY <1>4, ExaminedFacts
  <2>2. /\ ToSet(graph.kids[r]) \subseteq kids /\ kids \subseteq KidsOf(r)
        /\ \A t \in Mates(r) :
             /\ \A x \in Nodes : t \in waitingParents[x] => x \in kids
             /\ state[t] = Failed => \E x \in kids : state[x] = Failed
    BY <1>4 DEF Ordered, ReadyInv
  <2>3. r \in Mates(r) /\ \A x \in KidsOf(r) : x \in Nodes /\ ~ SideEffect(x)
    BY <1>1, <2>1, MatesFacts, KidsFacts
  <2> HIDE DEF r, kids
  <2>4. \A t \in Mates(r) : state'[t] = state[t]
    BY <1>4, <2>1, RetrieveTouches
  <2>5. \A x \in kids : state[x] = Failed => state'[x] = Failed
    BY <1>1, <2>2, <2>3 DEF Onward
  <2>6. kids \subseteq KidsOf(r)'
    <3>1. ASSUME NEW n \in Nodes, n = r
          PROVE  kids \subseteq KidsOf(n)'
      BY <1>2, <2>2, <3>1
    <3>2. r' = r
      BY <1>4 DEF r
    <3> QED
      BY <2>1, <3>1, <3>2
  <2>7. r' = r /\ kids' = kids
    BY <1>4 DEF r, kids
  <2>8. /\ state'[r] = Pending /\ ToSet(graph'.kids[r]) \subseteq kids
        /\ \A t \in Mates(r)' :
             /\ \A x \in Nodes : t \in waitingParents'[x] => x \in kids
             /\ state'[t] = Failed => \E x \in kids : state'[x] = Failed
    <3>1. Mates(r)' = Mates(r)
      BY <1>1, <2>7 DEF Mates
    <3>2. \A t \in Mates(r) : state'[t] = Failed => \E x \in kids : state'[x] = Failed
      BY <2>2, <2>4, <2>5
    <3>3. state'[r] = Pending /\ ToSet(graph'.kids[r]) \subseteq kids
      BY <1>1, <2>1, <2>2, <2>3, <2>4
    <3> QED
      BY <1>4, <2>2, <3>1, <3>2, <3>3
  <2> QED
    BY <2>6, <2>7, <2>8 DEF ReadyInv, r, kids
<1>5. CASE pc' = "examine"
  BY <1>3, <1>4, <1>5, ExamineShape
<1> QED
  BY <1>5 DEF ReadyInv

LEMMA RaisedStep ==
    ASSUME Ordered, [Next]_vars
    PROVE  RaisedInv'
<1> SUFFICES ASSUME Raising'
             PROVE  ToSet(task'.targets) \cap graph'.unready # {} /\ state'[task'.node] = Pending
  BY DEF RaisedInv
<1>1. graph' = graph /\ pc' \in {"prepare", "failed"}
  BY GraphStays DEF Raising
<1>2. CASE ExamineNode
  <2>1. pc = "examine" /\ NextTask /\ pc' = "prepare"
    BY <1>1, <1>2 DEF ExamineNode
  <2> QED
    BY <1>1, <2>1, NewTaskFacts, ExaminedFacts DEF Mates
<1>3. CASE Raising /\ task' = task /\ state'[task.node] = state[task.node]
  BY <1>1, <1>3 DEF Ordered, RaisedInv
<1>4. CASE Prepare
  <2>1. pc = "prepare" /\ UNCHANGED <<task, state>>
    BY <1>4 DEF Prepare, tmVars, nodeVars
  <2> QED
    BY <1>3, <2>1 DEF Raising
<1>5. ~ SerialExecute
  BY NothingRaised
<1>6. ~ Get
  <2> SUFFICES ASSUME Get
               PROVE  FALSE
    OBVIOUS
  <2>1. pc = "get" /\ state' = state /\ \E m : Moving(m)
    BY GetMoves DEF Get, nodeVars, Ordered
  <2>2. MainThread \in Places' /\ TaskAt(MainThread)' = task'
    BY <1>1, PlaceFacts DEF Places, Handling
  <2>3. PICK q \in Places : TaskAt(q) = task'
    BY <2>1, <2>2 DEF Moving
  <2>4. q \in Flights
    BY <2>1, <2>3, PlacesDiffer DEF Flights, Places, Handling
  <2>5. TaskAt(q).node \in TargetsAt(q)
    BY <2>4, FlightFacts, MatesFacts DEF Ordered
  <2>6. state[TaskAt(q).node] > Pending
    BY <2>4, <2>5 DEF Ordered, FlightInv, FlightStates, Executing, UpToDate, Executed, Pending
  <2>7. state[TaskAt(q).node] <= Pending
    BY <2>1, <2>3, <2>5 DEF Raising, TargetsAt
  <2> QED
    BY <2>6, <2>7, <2>4, FlightFacts DEF Ordered, IInv, StateShape, NoState, Failed, Pending
<1>7. CASE Signal \/ UNCHANGED vars
  <2>1. UNCHANGED <<state, task, pc>>
    BY <1>7 DEF Signal, Stop, vars, tmVars, nodeVars, jobVars
  <2> QED
    BY <1>3, <2>1, RaisingFacts
<1>8. ASSUME NEW w \in Workers, Work(w)
      PROVE  Raising /\ task' = task /\ state'[task.node] = state[task.node]
  <2>1. UNCHANGED <<pc, task>>
    BY <1>8 DEF Work, Take, Retrieve, Retrieved, Built, tmVars
  <2>2. CASE state' = state
    BY <2>1, <2>2, RaisingFacts
  <2>3. CASE Retrieve(w)
    <3>1. UNCHANGED state \/ \E t \in TargetsAt(Worker(w)) : Retrieved({t})
      BY <2>3, RetrieveShape DEF tmVars, nodeVars
    <3>2. Worker(w) \in Flights
      BY <2>3, RetrieveShape
    <3>3. Raising
      BY <1>1, <2>1, <2>2, <3>1, <3>2, RaisingStays
    <3>4. task.node \in Nodes /\ task.node \in ToSet(task.targets)
      <4>1. MainThread \in Places /\ TaskAt(MainThread) = task
        BY <3>3, PlaceFacts DEF Raising, Places, Handling
      <4>2. task \in Tasks /\ task.node \in Nodes /\ ToSet(task.targets) = Mates(task.node)
        BY <4>1, TasksAtPlaces DEF Ordered, EffectInv, OutInv, Shaped, Mates, Tasks
      <4> QED
        BY <4>2, MatesFacts DEF Ordered
    <3>5. state'[task.node] <= Pending
      BY <2>1, <3>4 DEF Raising
    <3>6. state'[task.node] = state[task.node]
      BY <2>3, <3>4, <3>5, RetrieveTouches DEF Pending, Executed
    <3> QED
      BY <2>1, <3>3, <3>6
  <2> QED
    BY <1>8, <2>2, <2>3 DEF Work, Take, Built, tmVars, nodeVars
<1>9. ~ (Pick \/ NoTask \/ Dispatch \/ HandleExecuted \/ HandleFailed \/ PostprocessTask \/ Cleanup)
  BY <1>1 DEF Pick, NoTask, Dispatch, HandleExecuted, HandleFailed, PostprocessTask, Cleanup
<1> QED
  BY <1>2, <1>3, <1>4, <1>5, <1>6, <1>7, <1>8, <1>9 DEF Next, Main

LEMMA OrderedStep ==
    ASSUME Ordered, IInv', EffectInv', [Next]_vars
    PROVE  Ordered'
<1>1. graph' = graph /\ \A n : (SideEffect(n)' <=> SideEffect(n)) /\ Mates(n)' = Mates(n)
  BY GraphStays
<1>2. Orderly'
  BY <1>1 DEF Ordered, Orderly, EffectsUnneeded, WholeCached
<1>3. Kinds' /\ ScanInv'
  BY KindsStep, FoundStays DEF Ordered
<1> QED
  BY <1>2, <1>3, FlightStep, MateStep, WaitStep, ReadyStep, RaisedStep DEF Ordered

LEMMA InitOrdered ==
    ASSUME Init, Orderly, IInv, EffectInv
    PROVE  Ordered
<1>1. /\ pc = "next" /\ state = [n \in Nodes |-> NoState]
      /\ waitingParents = [n \in Nodes |-> {}] /\ implicit = [n \in Nodes |-> "unscanned"]
      /\ Kinds
  BY DEF Init, TMInit, Kinds
<1>2. Places = {}
  BY DEF Init, Places, Handling, Workings, Idle
<1>3. FlightInv
  BY <1>2 DEF FlightInv, FlightsApart, FlightStates, Flights
<1>4. MateInv
  <2>1. \A n \in Nodes : Mates(n) \subseteq Nodes
    BY MatesFacts
  <2> QED
    BY <1>1, <2>1 DEF MateInv, NoState, Pending
<1> QED
  BY <1>1, <1>3, <1>4 DEF Ordered, WaitInv, ScanInv, ReadyInv, RaisedInv, Raising

(* In graphs in which nobody needs a side effect and the cache has all     *)
(* targets of an action or none, the states of nodes, tasks and waiting    *)
(* parents fit together as Ordered says, at every step of a build          *)
(* (Taskmaster.py, _find_next_ready_node, executed_with_callbacks,         *)
(* fail_continue and postprocess).                                         *)
THEOREM AlwaysOrdered == Spec /\ Orderly => []Ordered
<1>1. Ordered /\ IInv' /\ EffectInv' /\ [Next]_vars => Ordered'
  BY OrderedStep
<1>2. Init /\ Orderly /\ IInv /\ EffectInv => Ordered
  BY InitOrdered
<1> QED
  BY <1>1, <1>2, Invariance, EffectsAlwaysHeld, PTL DEF Spec

(* In such a graph nothing is built twice, and no node is ever taken back  *)
(* to an earlier state, side effects apart: neither by make_ready, by a    *)
(* worker that takes a file from the cache, nor by will_not_build.         *)
THEOREM NothingTakenBack == Spec /\ Orderly => NeverTakenBack
<1>1. Ordered /\ [Next]_vars =>
        [\A n \in Nodes : \/ SideEffect(n) \/ state'[n] >= state[n]
                          \/ state[n] = Failed /\ OnHalfCached(n)]_state
  BY OnwardStep DEF Onward
<1> QED
  BY <1>1, AlwaysOrdered, PTL DEF Spec, NeverTakenBack

-----------------------------------------------------------------------------
(* What is executed has its children. *)

(* Nobody makes k, and it is there. *)
Settled(k) == Done(k) /\ \A q \in Flights : k \in TargetsAt(q) => state[k] = Executed

KidsInv ==
  \A p \in Flights : Bound(p) => \A k \in AllKids(TaskAt(p).node) : Settled(k)

(* What was scanned before its generated files were there is scanned       *)
(* again: who scanned waits for them, unless one of them slips through.    *)
Expects(n) ==
  \/ pc = "examine" /\ ready.node \in Mates(n)
  \/ \A g \in graph.generated[n] : state[g] <= Executing =>
       \E t \in Mates(n) : t \in waitingParents[g]
RescanInv ==
  ~ stopped => \A n \in Nodes :
    /\ HasBuilder(n) /\ n \notin graph.broken /\ state[n] <= Pending
    /\ \A g \in graph.generated[n] : ~ Slips(g)
    /\ \A t \in Mates(n) : implicit[t] = "explicit"
    => FoundNow(n) = "explicit" /\ Expects(n)

(* What is postprocessed has come to its end, unless it could not be made  *)
(* ready.                                                                  *)
HandledInv ==
  pc = "postprocess" /\ ~ stopped =>
    \A t \in ToSet(task.targets) :
      SideEffect(t) \/ state[t] > Executing \/ (Unsure(t) /\ state[t] <= Pending)

Foreseen(n) == (\A g \in graph.generated[n] : ~ Slips(g)) \/ implicit[n] = "all"
LateInv ==
  pc = "examine" /\ ready.node \notin graph.broken /\ FoundNow(ready.node) = "all"
    /\ Foreseen(ready.node) =>
    ToSet(graph.late[ready.node]) \subseteq ToSet(ready.kids)

Complete == KidsInv /\ RescanInv /\ HandledInv /\ LateInv

-----------------------------------------------------------------------------
(* Where a task is going on, or begins. *)
LEMMA NewFlights ==
    ASSUME Ordered, [Next]_vars, NEW q \in Flights'
    PROVE  \/ \E p \in Flights : TaskAt(q)' = TaskAt(p) /\ (Bound(q)' => Bound(p))
           \/ q = MainThread /\ pc = "examine" /\ pc' = "prepare" /\ NextTask
<1> DEFINE Old == \E p \in Flights : TaskAt(q)' = TaskAt(p) /\ (Bound(q)' => Bound(p))
<1>1. CASE UNCHANGED poolVars /\ q # MainThread
  BY <1>1, OthersStay
<1>2. CASE Moves
  <2>1. PICK m : Moving(m)
    BY <1>2 DEF Moves
  <2> QED
    BY <2>1 DEF Moving, Flights
<1>3. CASE Main /\ q = MainThread /\ ~ (Dispatch \/ Get)
  <2>1. pc' \in {"prepare", "execute", "executed", "failed"}
    BY <1>3, PlacesDiffer DEF Flights, Places, Handling
  <2>2. CASE Prepare
    <3>1. /\ pc = "prepare" /\ UNCHANGED <<task, state>>
          /\ pc' = "execute" => NeedsExecute /\ ~ task.broken
          /\ pc' \in {"failed", "execute", "executed"} /\ (pc' # "failed" => ~ task.broken)
      BY <2>2 DEF Prepare, Unprepared, tmVars, nodeVars
    <3>2. ~ Raising
      <4>1. ~ Raising'
        BY <1>3 DEF Flights
      <4> QED
        BY <3>1, <4>1 DEF Raising
    <3> QED
      BY <1>3, <2>1, <3>1, <3>2, MainInFlight, PlaceFacts DEF Bound, NeedsExecute
  <2>3. CASE SerialExecute
    <3>1. pc = "execute" /\ pc' \in {"executed", "failed"} /\ task' = task
      BY <2>3 DEF SerialExecute, Retrieved
    <3> QED
      BY <1>3, <3>1, MainInFlight, RaisingFacts, PlaceFacts DEF Bound
  <2>4. CASE ExamineNode
    BY <1>3, <2>1, <2>4 DEF ExamineNode
  <2> QED
    BY <1>3, <2>1, <2>2, <2>3, <2>4 DEF Main, Pick, NoTask, HandleExecuted, HandleFailed,
       PostprocessTask, Cleanup
<1>4. CASE (Signal \/ UNCHANGED vars) /\ q = MainThread
  <2>1. UNCHANGED <<state, task, pc>>
    BY <1>4 DEF Signal, Stop, vars, tmVars, nodeVars, jobVars
  <2>2. MainThread \in Flights
    BY <1>4, <2>1, RaisingFacts, PlacesDiffer DEF Flights, Places, Handling, Signal, Stop, vars,
       tmVars, walkVars
  <2> QED
    BY <1>4, <2>1, <2>2, PlaceFacts DEF Bound, NeedsExecute
<1>5. ASSUME Main \/ Signal \/ UNCHANGED vars, ~ (Dispatch \/ Get)
      PROVE  UNCHANGED poolVars
  BY <1>5 DEF Main, Pick, NoTask, ExamineNode, Prepare, SerialExecute, HandleExecuted, HandleFailed,
     PostprocessTask, Cleanup, Signal, vars, jobVars
<1>6. CASE Dispatch \/ Get
  <2>1. Moves
    BY <1>6, DispatchMoves, GetMoves DEF Dispatch, Get, Moves, tmVars, nodeVars, walkVars, Ordered
  <2> QED
    BY <1>2, <2>1
<1>7. ASSUME NEW w \in Workers, Work(w)
      PROVE  Old
  <2>1. CASE Take(w)
    BY <1>2, <2>1, TakeMoves DEF Take, Moves, tmVars, nodeVars, walkVars, Ordered
  <2>2. CASE Built(w)
    <3>1. \E m : Moving(m)
      BY <2>2, AnsweredMoves DEF Built, Workings, Ordered
    <3> QED
      BY <1>2, <2>2, <3>1 DEF Built, Moves, tmVars, nodeVars, walkVars
  <2>3. CASE Retrieve(w)
    <3>1. CASE Answered(w, TRUE) /\ UNCHANGED tmVars
      <4>1. w \in Workings /\ UNCHANGED <<pc, requests>>
        BY <2>3, RetrieveShape
      <4>2. \E m : Moving(m)
        BY <3>1, <4>1, AnsweredMoves DEF Ordered
      <4> QED
        BY <1>2, <3>1, <4>1, <4>2 DEF Moves, tmVars, nodeVars, walkVars
    <3>2. CASE results' = results
      <4>1. q \in Flights /\ TaskAt(q)' = TaskAt(q)
        BY <2>3, <3>2, RetrieveStays
      <4>2. Bound(q)' => Bound(q)
        <5>1. UNCHANGED <<pc, task>>
          BY <2>3, <3>2, RetrieveStays
        <5>2. ASSUME pc = "prepare"
              PROVE  Head(task.targets) \in Nodes
          <6>1. MainThread \in Places /\ TaskAt(MainThread) = task
            BY <5>2, PlaceFacts DEF Places, Handling
          <6>2. task.targets \in Seq(Nodes) /\ task.node \in ToSet(task.targets)
            <7>1. task \in Tasks /\ task.node \in Nodes /\ ToSet(task.targets) = Mates(task.node)
              BY <6>1, TasksAtPlaces DEF Ordered, EffectInv, OutInv, Shaped, Mates, Tasks
            <7> QED
              BY <7>1, MatesFacts DEF Ordered, Tasks
          <6>3. task.targets # <<>>
            BY <6>2 DEF ToSet
          <6> QED
            BY <6>2, <6>3
        <5>3. \A n \in Nodes : state'[n] = Executing => state[n] = Executing
          BY <2>3, RetrieveTouches DEF Executing, Executed
        <5> QED
          BY <5>1, <5>2, <5>3 DEF Bound, NeedsExecute
      <4> QED
        BY <4>1, <4>2
    <3> QED
      BY <2>3, <3>1, <3>2, RetrieveShape
  <2> QED
    BY <1>7, <2>1, <2>2, <2>3 DEF Work
<1> QED
  BY <1>1, <1>3, <1>4, <1>5, <1>6, <1>7 DEF Next

LEMMA SettledStays ==
    ASSUME Ordered, [Next]_vars, NEW k \in Nodes, ~ SideEffect(k), Settled(k)
    PROVE  state'[k] = state[k] /\ Settled(k)'
<1> USE DEF NoState, Pending, Executing, UpToDate, Executed, Failed
<1>1. state[k] \in {UpToDate, Executed} /\ k \in DOMAIN state /\ state \in [Nodes -> NoState .. Failed]
  BY DEF Settled, Done, Ordered, IInv, StateShape
<1>2. state'[k] = state[k]
  <2>1. ASSUME NEW p \in Flights, NEW T \in SUBSET TargetsAt(p), Retrieved(T)
        PROVE  state'[k] = state[k]
    BY <2>1 DEF Settled, Retrieved
  <2>2. CASE ExamineNode
    <3>1. pc = "examine"
      BY <2>2 DEF ExamineNode
    <3>2. \A t \in Mates(ready.node) : state[t] <= Pending \/ state[t] = Failed
      BY <3>1, ExaminedFacts
    <3>3. k \notin Mates(ready.node)
      BY <1>1, <3>2
    <3>4. CASE SkipChildFailed \/ WaitForChildren \/ WaitForSideEffects
      BY <3>3, <3>4 DEF SkipChildFailed, WaitForChildren, WaitForSideEffects, Mates
    <3>5. CASE NextTask
      BY <3>1, <3>3, <3>5, MakeReadyStates
    <3> QED
      BY <2>2, <3>4, <3>5 DEF ExamineNode, Examine
  <2>3. CASE HandleExecuted \/ HandleFailed
    <3>1. CASE ExecutedWithCallbacks
      <4>1. \A n \in ToSet(task.targets) : n \in Nodes
        BY Elements DEF Ordered, IInv, WalkInv, WalkShapes, Tasks
      <4>2. \A n \in ToSet(task.targets) : k \notin ToSet(graph.effects[n])
        BY <4>1 DEF SideEffect
      <4> QED
        BY <1>1, <3>1, <4>2 DEF ExecutedWithCallbacks
    <3>2. CASE (pc = "failed" \/ (pc = "executed" /\ CannotMake)) /\ FailContinue
      <4> DEFINE T == ToSet(task.targets)
      <4>1. T \subseteq Nodes /\ \A n \in T : state[n] \in {Executing, UpToDate} \/ state[n] <= Pending
        BY <3>2, FailingFacts
      <4>2. state' = [n \in Nodes |-> IF n \in Above(T) THEN Failed ELSE state[n]]
        BY <3>2 DEF FailContinue, WillNotBuild
      <4>3. k \notin T
        <5>1. CASE Raising
          BY <1>1, <5>1 DEF Raising
        <5>2. CASE ~ Raising
          <6>1. MainThread \in Flights /\ TargetsAt(MainThread) = T
            BY <3>2, <5>2, MainInFlight
          <6>2. \A n \in T : state[n] # Executed
            BY <3>2, FailingFacts
          <6> QED
            BY <6>1, <6>2 DEF Settled
        <5> QED
          BY <5>1, <5>2
      <4> HIDE DEF T
      <4>4. k \notin Above(T)
        BY <1>1, <4>1, <4>3, FailReach
      <4> QED
        BY <4>2, <4>4
    <3> QED
      BY <2>3, <3>1, <3>2 DEF HandleExecuted, HandleFailed, DoFailed
  <2>4. CASE Pick \/ NoTask
    BY <1>1, <2>4 DEF Pick, SkipHandled, Consider, nodeVars, NoTask, NoCandidate, WillNotBuild
  <2>5. CASE PostprocessTask
    <3>1. \A s \in Effects(task.targets) : SideEffect(s)
      BY EffectsAreSideEffects DEF Ordered, IInv, WalkInv, WalkShapes
    <3> QED
      BY <2>5, <3>1 DEF PostprocessTask, Postprocess
  <2>6. CASE SerialExecute
    BY <2>1, <2>6, SerialShape
  <2>7. CASE Prepare \/ Dispatch \/ Get \/ Cleanup \/ Signal \/ UNCHANGED vars
    BY <2>7 DEF Prepare, Dispatch, Get, Cleanup, Signal, Stop, vars, tmVars, nodeVars
  <2>8. ASSUME NEW w \in Workers, Work(w)
        PROVE  state'[k] = state[k]
    <3>1. CASE Take(w) \/ Built(w)
      BY <3>1 DEF Take, Built, tmVars, nodeVars
    <3>2. CASE Retrieve(w)
      BY <3>2, RetrieveTouches DEF Settled
    <3> QED
      BY <2>8, <3>1, <3>2 DEF Work
  <2> QED
    BY <2>2, <2>3, <2>4, <2>5, <2>6, <2>7, <2>8 DEF Next, Main
<1>3. ASSUME NEW q \in Flights', k \in TargetsAt(q)'
       PROVE  state'[k] = Executed
  <2>1. CASE \E p \in Flights : TaskAt(q)' = TaskAt(p)
    BY <1>2, <1>3, <2>1 DEF Settled, TargetsAt
  <2>2. CASE q = MainThread /\ pc = "examine" /\ pc' = "prepare" /\ NextTask
    <3>1. TargetsAt(MainThread)' = Mates(ready.node)
      BY <2>2, NewTaskFacts
    <3>2. state[k] <= Pending
      BY <1>3, <2>2, <3>1, MakeReadyStates
    <3> QED
      BY <1>1, <3>2
  <2> QED
    BY <2>1, <2>2, NewFlights
<1> QED
  BY <1>1, <1>2, <1>3 DEF Settled, Done

(* The children of what has a task to be executed are those it had when    *)
(* the task was made.                                                      *)
LEMMA KidsStay ==
    ASSUME Ordered, KidsInv, [Next]_vars, NEW p \in Flights, Bound(p), NEW n, n = TaskAt(p).node
    PROVE  AllKids(n)' \subseteq AllKids(n)
<1> USE DEF NoState, Pending, Executing, UpToDate, Executed, Failed
<1>1. /\ graph' = graph /\ n \in Nodes /\ n \in TargetsAt(p) /\ IInv
      /\ \A m : (HasBuilder(m)' <=> HasBuilder(m)) /\ (Slips(m)' <=> Slips(m))
      /\ graph.generated[n] \subseteq ToSet(graph.kids[n])
      /\ TargetsAt(p) = Mates(n)
  BY GraphStays, FlightFacts, MatesFacts DEF Ordered
<1>2. \A t \in Mates(n) : state[t] > Pending /\ state[t] # Failed
  BY <1>1 DEF Ordered, FlightInv, FlightStates
<1>3. ASSUME n \notin graph.broken, FoundNow(n)' = "all"
      PROVE  FoundNow(n) = "all"
  <2>1. \A g \in graph.generated[n] : Settled(g) /\ ~ SideEffect(g) /\ g \in Nodes
    BY <1>1, <1>3, KidsFacts DEF KidsInv, AllKids
  <2>2. HasBuilder(n)
    BY <1>1, <1>3 DEF FoundNow
  <2>3. \A g \in graph.generated[n] : state[g] = Executed
    BY <1>1, <1>3, <2>1, SettledStays DEF FoundNow
  <2> QED
    BY <2>2, <2>3 DEF FoundNow
<1>4. ASSUME implicit'[n] = "all"
      PROVE  implicit[n] = "all"
  <2>1. ASSUME NEW m \in Nodes, Consider(m), implicit' = Scanned(m)
        PROVE  implicit[n] = "all"
    <3>1. state[m] <= Pending
      BY <2>1 DEF Consider
    <3>2. m \in Mates(m) /\ \A t \in Mates(m) : Mates(t) = Mates(m)
      BY <1>1, MatesFacts
    <3>3. n \notin Mates(m)
      BY <1>1, <1>2, <3>1, <3>2 DEF Ordered, StateShape, IInv
    <3> QED
      BY <1>1, <1>4, <2>1, <3>3, ScannedFacts
  <2>2. ASSUME NEW T, implicit' = Rescanned(T)
        PROVE  implicit[n] = "all"
    BY <1>1, <1>4, <2>2 DEF Rescanned
  <2> QED
    BY <1>4, <2>1, <2>2, ScanShape
<1>5. state[n] # Failed
  BY <1>1, <1>2
<1> QED
  <2>1. n \in Mates(n) /\ state[n] > Pending
    BY <1>1, <1>2, MatesFacts
  <2>2. ASSUME FoundNow(n)' = "all"
        PROVE  state'[n] > Pending
    <3>1. ~ SideEffect(n)
      BY <1>1, <2>2, MatesFacts DEF FoundNow
    <3> QED
      BY <1>1, <2>1, <3>1, OnwardStep, StateStep DEF Onward, Ordered, IInv, StateShape
  <2> QED
    BY <1>1, <1>3, <1>4, <1>5, <2>1, <2>2 DEF AllKids, Overlooked

LEMMA KidsStep ==
    ASSUME Ordered, KidsInv, LateInv, [Next]_vars
    PROVE  KidsInv'
<1> USE DEF NoState, Pending, Executing, UpToDate, Executed, Failed
<1> SUFFICES ASSUME NEW q \in Flights', Bound(q)', NEW n, n = TaskAt(q).node', NEW k \in AllKids(n)'
             PROVE  Settled(k)'
  BY DEF KidsInv
<1>1. CASE \E p \in Flights : TaskAt(q)' = TaskAt(p) /\ Bound(p)
  <2>1. PICK p \in Flights : TaskAt(q)' = TaskAt(p) /\ Bound(p)
    BY <1>1
  <2>2. n = TaskAt(p).node /\ n \in Nodes
    BY <2>1, FlightFacts DEF Ordered
  <2>3. k \in AllKids(n)
    BY <2>1, <2>2, KidsStay
  <2>4. Settled(k)
    BY <2>1, <2>2, <2>3 DEF KidsInv
  <2>5. k \in Nodes /\ ~ SideEffect(k)
    BY <2>2, <2>3, MatesFacts DEF AllKids, Ordered, Orderly, EffectsUnneeded
  <2> QED
    BY <2>4, <2>5, SettledStays
<1>2. CASE q = MainThread /\ pc = "examine" /\ pc' = "prepare" /\ NextTask
  <2>1. ~ Raising'
    BY <1>2, NewTaskFacts
  <2>2. n = ready.node /\ n \in Nodes /\ graph' = graph /\ implicit' = implicit
    BY <1>2, NewTaskFacts, ExaminedFacts, NextTaskFacts
  <2>3. PICK s \in {Executing, UpToDate} :
           /\ \A m \in Mates(n) : state[m] <= Pending /\ state'[m] = s
           /\ \A m \in Nodes \ Mates(n) : SideEffect(m) \/ state'[m] = state[m]
    BY <1>2, <2>1, <2>2, NewTaskFacts, MakeReadyStates
  <2>4. FoundNow(n)' = "all" => FoundNow(n) = "all"
    <3>1. \A g \in graph.generated[n] : g \in Nodes /\ ~ SideEffect(g)
      BY <2>2, KidsFacts
    <3>2. \A g \in graph.generated[n] : state'[g] = Executed => state[g] = Executed
      BY <2>3, <3>1
    <3> QED
      BY <2>2, <3>2 DEF FoundNow, HasBuilder
  <2>5. n \notin graph.broken /\ KidsIn({Failed}) = {} /\ NotReady = {}
    BY <1>2, <2>2, NextTaskFacts DEF AllKids
  <2>6. k \in ToSet(ready.kids)
    <3>1. state'[n] > Pending /\ graph' = graph /\ \A g : Slips(g)' <=> Slips(g)
      BY <2>2, <2>3, MatesFacts, GraphStays DEF Ordered
    <3> QED
      BY <1>2, <2>2, <2>4, <2>5, <3>1 DEF AllKids, Overlooked, Foreseen, LateInv, Ordered, ReadyInv
  <2>7. k \in Nodes /\ ~ SideEffect(k)
    BY <1>2, <2>2, <2>6, KidsFacts DEF Ordered, ReadyInv
  <2>8. Done(k)
    <3>1. state[k] \in NoState .. Failed
      BY <2>7 DEF Ordered, IInv, StateShape
    <3>2. state[k] \notin {Failed, NoState, Pending, Executing}
      BY <2>5, <2>6 DEF KidsIn, NotReady
    <3> QED
      BY <3>1, <3>2 DEF Done
  <2>9. Settled(k)
    <3>1. MainThread \notin Flights
      BY <1>2, PlacesDiffer DEF Flights, Places, Handling
    <3> QED
      BY <2>8, <3>1, OthersFacts DEF Settled, Done
  <2> QED
    BY <2>7, <2>9, SettledStays
<1> QED
  BY <1>1, <1>2, NewFlights

LEMMA LateStep ==
    ASSUME Ordered, RescanInv, LateInv, [Next]_vars
    PROVE  LateInv'
<1> USE DEF NoState, Pending, Executing, UpToDate, Executed, Failed
<1>1. /\ graph' = graph /\ \A n : (HasBuilder(n)' <=> HasBuilder(n)) /\ (Slips(n)' <=> Slips(n))
      /\ IInv /\ state \in [Nodes -> NoState .. Failed]
  BY GraphStays DEF Ordered, IInv, StateShape
<1>2. ASSUME pc = "next", NEW n \in Nodes, Consider(n), ~ stopped
      PROVE  LateInv'
  <2>1. /\ ready'.node = n /\ ready'.kids = Children(n, implicit'[n]) /\ implicit' = Scanned(n)
        /\ state[n] <= Pending /\ state' = [state EXCEPT ![n] = Pending]
    BY <1>2 DEF Consider
  <2>2. SUFFICES ASSUME FoundNow(n)' = "all", Foreseen(n)', n \notin graph.broken
                 PROVE  ToSet(graph.late[n]) \subseteq ToSet(ready'.kids)
    BY <1>1, <2>1 DEF LateInv
  <2>3. FoundNow(n) = "all"
    <3>1. \A g \in graph.generated[n] : g \in Nodes
      BY <1>1, KidsFacts
    <3>2. \A g \in graph.generated[n] : state'[g] = Executed => state[g] = Executed
      BY <1>1, <2>1, <3>1
    <3> QED
      BY <1>1, <2>2, <3>2 DEF FoundNow
  <2>4. implicit'[n] = "all"
    <3> SUFFICES ASSUME implicit'[n] # "all"
                 PROVE  FALSE
      OBVIOUS
    <3>1. \A g \in graph.generated[n] : ~ Slips(g)
      BY <1>1, <2>2 DEF Foreseen
    <3>2. \A t \in Mates(n) : implicit[t] = "explicit"
      BY <2>1, <2>3, ScannedFacts
    <3>3. HasBuilder(n)
      BY <2>3 DEF FoundNow
    <3> QED
      BY <1>2, <2>1, <2>2, <2>3, <3>1, <3>2, <3>3 DEF RescanInv
  <2>5. graph.kids[n] \in Seq(Nodes) /\ graph.late[n] \in Seq(Nodes)
    BY <1>1, GraphFacts DEF IInv, WalkInv, WalkShapes
  <2>6. ToSet(graph.kids[n] \o graph.late[n]) = ToSet(graph.kids[n]) \cup ToSet(graph.late[n])
    BY <2>5, ConcatElements
  <2> QED
    BY <1>1, <2>1, <2>4, <2>6 DEF Children
<1>3. ASSUME pc = "examine", ready' = ready, NEW n \in Nodes, n = ready.node,
             UNCHANGED <<state, implicit>> \/ \E w \in Workers : Retrieve(w),
             FoundNow(n)' = "all", Foreseen(n)', n \notin graph.broken
      PROVE  ToSet(graph.late[n]) \subseteq ToSet(ready.kids)
  <2>1. implicit'[n] = "all" => implicit[n] = "all"
    <3>1. ASSUME NEW w \in Workers, Retrieve(w)
          PROVE  implicit' = implicit \/ \E T : implicit' = Rescanned(T)
      BY <3>1 DEF Retrieve, Retrieved, tmVars, nodeVars
    <3>2. ASSUME NEW T, implicit' = Rescanned(T)
          PROVE  implicit'[n] = "all" => implicit[n] = "all"
      BY <3>2 DEF Rescanned
    <3> QED
      BY <1>3, <3>1, <3>2
  <2>2. CASE implicit[n] = "all"
    <3>1. FoundNow(n) = "all"
      BY <2>2 DEF Ordered, ScanInv
    <3> QED
      BY <1>3, <2>2, <3>1 DEF LateInv, Foreseen
  <2>3. CASE \A g \in graph.generated[n] : ~ Slips(g)
    <3>1. \A g \in graph.generated[n] : g \in Nodes
      BY KidsFacts
    <3>2. \A g \in graph.generated[n] : state'[g] = state[g]
      BY <1>3, <2>3, <3>1, RetrieveTouches DEF Slips
    <3>3. FoundNow(n) = "all"
      BY <1>1, <1>3, <3>2 DEF FoundNow
    <3> QED
      BY <1>3, <2>3, <3>3 DEF LateInv, Foreseen
  <2> QED
    BY <1>1, <1>3, <2>1, <2>2, <2>3 DEF Foreseen
<1>4. CASE pc = "examine" /\ UNCHANGED ready /\ (UNCHANGED <<state, implicit>> \/ \E w \in Workers : Retrieve(w))
  <2>1. ready.node \in Nodes
    BY <1>4, ExaminedFacts
  <2>2. PICK n \in Nodes : n = ready.node /\ n = ready.node'
    BY <1>4, <2>1
  <2>3. FoundNow(ready.node)' = FoundNow(n)' /\ Foreseen(ready.node)' = Foreseen(n)'
    BY <2>2 DEF FoundNow, Foreseen, HasBuilder
  <2> QED
    BY <1>1, <1>3, <1>4, <2>2, <2>3 DEF LateInv
<1>5. CASE pc' = "examine"
  BY <1>2, <1>4, <1>5, ExamineShape
<1> QED
  BY <1>5 DEF LateInv

LEMMA StoppedStays ==
    ASSUME [Next]_vars, stopped
    PROVE  stopped'
<1>1. CASE Main
  BY <1>1 DEF Main, Pick, SkipHandled, Consider, NoTask, NoCandidate, ExamineNode, Examine,
     SkipChildFailed, WaitForChildren, WaitForSideEffects, NextTask, Prepare, Dispatch,
     SerialExecute, Retrieved, Get, HandleExecuted, HandleFailed, DoFailed, ExecutedWithCallbacks,
     PostprocessTask, Postprocess, Cleanup, tmVars, walkVars
<1>2. CASE Signal \/ UNCHANGED vars
  BY <1>2 DEF Signal, Stop, vars, tmVars, walkVars
<1>3. ASSUME NEW w \in Workers, Work(w)
      PROVE  stopped'
  BY <1>3 DEF Work, Take, Retrieve, Retrieved, Built, tmVars, walkVars
<1> QED
  BY <1>1, <1>2, <1>3 DEF Next

(* While the build goes on, who waits is forgotten only by what comes to   *)
(* its end.                                                                *)
LEMMA ForgetShape ==
    ASSUME Ordered, [Next]_vars, ~ stopped', NEW g \in Nodes, NEW t \in waitingParents[g],
           t \notin waitingParents'[g]
    PROVE  state'[g] = Failed \/ (pc = "postprocess" /\ g \in ToSet(task.targets))
<1>0. waitingParents \in [Nodes -> SUBSET Nodes]
  BY DEF Ordered, IInv, WalkInv, WalkShapes
<1>1. CASE NoTask
  <2>1. candidates = <<>>
    BY <1>1 DEF NoTask, NoCandidate
  <2>2. Above(ToSet(candidates)) = {}
    <3>1. ToSet(candidates) = {}
      BY <2>1 DEF ToSet
    <3> QED
      BY <1>0, <3>1, AboveFacts
  <2> QED
    BY <1>0, <1>1, <2>2 DEF NoTask, NoCandidate, WillNotBuild
<1>2. CASE HandleExecuted \/ HandleFailed
  BY <1>0, <1>2 DEF HandleExecuted, HandleFailed, DoFailed, FailContinue, ExecutedWithCallbacks,
     WillNotBuild
<1>3. CASE ExamineNode
  BY <1>0, <1>3 DEF ExamineNode, Examine, WaitForChildren, SkipChildFailed, WaitForSideEffects,
     NextTask
<1>4. CASE PostprocessTask
  BY <1>0, <1>4 DEF PostprocessTask, Postprocess
<1>5. CASE Pick \/ Prepare \/ Dispatch \/ SerialExecute \/ Get \/ Cleanup \/ Signal \/ UNCHANGED vars
  BY <1>5 DEF Pick, SkipHandled, Consider, Prepare, Dispatch, SerialExecute, Retrieved, Get, Cleanup,
     Signal, Stop, vars, tmVars, nodeVars
<1>6. ASSUME NEW w \in Workers, Work(w)
      PROVE  waitingParents' = waitingParents
  BY <1>6 DEF Work, Take, Retrieve, Retrieved, Built, tmVars, nodeVars
<1> QED
  BY <1>1, <1>2, <1>3, <1>4, <1>5, <1>6 DEF Next, Main

(* How a node comes to be executed that the cache does not hold. *)
LEMMA BuiltShape ==
    ASSUME Ordered, [Next]_vars, NEW g \in Nodes, g \notin graph.cached, state[g] # Executed,
           state'[g] = Executed
    PROVE  /\ pc \in {"executed", "failed"} /\ state[g] = Executing
           /\ \A n \in Nodes : n \in waitingParents[g] => implicit'[n] = "unscanned"
<1> USE DEF NoState, Pending, Executing, UpToDate, Executed, Failed
<1>1. state \in [Nodes -> NoState .. Failed]
  BY DEF Ordered, IInv, StateShape
<1>2. CASE HandleExecuted \/ HandleFailed
  <2>1. CASE ExecutedWithCallbacks
    <3>1. g \in {t \in ToSet(task.targets) : state[t] = Executing}
      BY <1>1, <2>1 DEF ExecutedWithCallbacks
    <3> QED
      BY <1>2, <2>1, <3>1 DEF ExecutedWithCallbacks, Rescanned, HandleExecuted, HandleFailed
  <2>2. ~ FailContinue
    BY <1>1 DEF FailContinue, WillNotBuild
  <2> QED
    BY <1>2, <2>1, <2>2 DEF HandleExecuted, HandleFailed, DoFailed
<1>3. ~ ExamineNode
  <2>1. ~ (pc = "examine" /\ NextTask)
    <3> SUFFICES ASSUME pc = "examine", NextTask
                 PROVE  FALSE
      OBVIOUS
    <3>1. MakeReady \/ state' = state
      BY NextTaskFacts DEF Raised
    <3>2. ~ MakeReady
      <4> SUFFICES ASSUME MakeReady
                   PROVE  FALSE
        OBVIOUS
      <4>1. PICK outOfDate \in BOOLEAN :
              state' = [n \in Nodes |->
                          IF n \in ToSet(graph.targets[ready.node])
                          THEN IF outOfDate THEN Executing ELSE UpToDate
                          ELSE IF outOfDate /\ n \in Effects(graph.targets[ready.node])
                               THEN Executing ELSE state[n]]
        BY DEF MakeReady
      <4> QED
        BY <4>1
    <3> QED
      BY <3>1, <3>2
  <2>2. ~ Examine
    BY <1>1 DEF Examine, SkipChildFailed, WaitForChildren, WaitForSideEffects
  <2> QED
    BY <2>1, <2>2 DEF ExamineNode
<1>4. ~ (Pick \/ NoTask)
  BY <1>1 DEF Pick, SkipHandled, Consider, nodeVars, NoTask, NoCandidate, WillNotBuild
<1>5. ~ SerialExecute
  BY SerialShape DEF Retrieved
<1>6. ~ (Prepare \/ Dispatch \/ Get \/ Cleanup \/ Signal \/ UNCHANGED vars)
  BY DEF Prepare, Dispatch, Get, Cleanup, Signal, Stop, vars, tmVars, nodeVars
<1>7. ~ PostprocessTask
  BY <1>1 DEF PostprocessTask, Postprocess
<1>8. ASSUME NEW w \in Workers, Work(w)
      PROVE  FALSE
  <2>1. ~ (Take(w) \/ Built(w))
    BY DEF Take, Built, tmVars, nodeVars
  <2> QED
    BY <1>8, <2>1, RetrieveTouches DEF Work
<1> QED
  BY <1>2, <1>3, <1>4, <1>5, <1>6, <1>7, <1>8 DEF Next, Main

LEMMA RescanStep ==
    ASSUME Ordered, RescanInv, HandledInv, [Next]_vars
    PROVE  RescanInv'
<1> USE DEF NoState, Pending, Executing, UpToDate, Executed, Failed
<1>1. /\ graph' = graph
      /\ \A n : (HasBuilder(n)' <=> HasBuilder(n)) /\ Mates(n)' = Mates(n) /\ (Slips(n)' <=> Slips(n))
      /\ IInv /\ Onward /\ state \in [Nodes -> NoState .. Failed]
      /\ state' \in [Nodes -> NoState .. Failed]
  BY GraphStays, OnwardStep, StateStep DEF Ordered, IInv, StateShape
<1>2. SUFFICES ASSUME ~ stopped', NEW n \in Nodes, HasBuilder(n), state'[n] <= Pending,
                      n \notin graph.broken, \A g \in graph.generated[n] : ~ Slips(g),
                      \A t \in Mates(n) : implicit'[t] = "explicit"
               PROVE  FoundNow(n)' = "explicit" /\ Expects(n)'
  BY <1>1 DEF RescanInv
<1>3. /\ ~ SideEffect(n) /\ n \in Mates(n) /\ Mates(n) \subseteq Nodes
      /\ \A t \in Mates(n) : Mates(t) = Mates(n)
      /\ \A g \in graph.generated[n] : /\ g \in Nodes /\ ~ SideEffect(g)
                                       /\ g \notin graph.cached /\ ~ Unsure(g)
      /\ graph.generated[n] \subseteq ToSet(graph.kids[n])
  BY <1>1, <1>2, MatesFacts, KidsFacts DEF Slips
<1>4. state[n] <= Pending /\ ~ stopped
  BY <1>1, <1>2, <1>3, StoppedStays DEF Onward
<1>5. CASE \E t \in Mates(n) : implicit[t] # "explicit"
  <2>1. PICK t \in Mates(n) : implicit[t] # "explicit" /\ implicit'[t] = "explicit"
    BY <1>2, <1>5
  <2>2. PICK m \in Nodes : Consider(m) /\ pc = "next" /\ implicit' = Scanned(m)
    <3>1. ASSUME NEW T, implicit' = Rescanned(T)
          PROVE  FALSE
      BY <1>3, <2>1, <3>1 DEF Rescanned
    <3> QED
      BY <2>1, <3>1, ScanShape
  <2>3. t \in Mates(m) /\ m \in Mates(n) /\ Mates(m) = Mates(n)
    BY <1>1, <1>3, <2>1, <2>2, ScannedFacts, MatesFacts
  <2>4. FoundNow(n) # "all"
    <3>1. FoundNow(m) = FoundNow(n)
      BY <2>3, KidsFacts
    <3> QED
      BY <1>2, <2>1, <2>2, <2>3, <3>1, ScannedFacts
  <2>5. /\ state[m] <= Pending /\ state' = [state EXCEPT ![m] = Pending] /\ ready'.node = m
    BY <2>2 DEF Consider
  <2>6. FoundNow(n)' = "explicit"
    <3>1. \A g \in graph.generated[n] : state'[g] = Executed => state[g] = Executed
      BY <1>1, <1>3, <2>5
    <3> QED
      BY <1>1, <2>4, <3>1 DEF FoundNow
  <2>7. pc' = "examine"
    <3>1. implicit' # implicit
      BY <2>1
    <3>2. CASE Pick
      BY <3>1, <3>2 DEF Pick, SkipHandled, nodeVars
    <3>3. ~ (NoTask \/ ExamineNode \/ Prepare \/ Dispatch \/ SerialExecute \/ Get \/ HandleExecuted
             \/ HandleFailed \/ PostprocessTask \/ Cleanup)
      BY <2>2, <3>1 DEF NoTask, NoCandidate, ExamineNode, Prepare, Dispatch, SerialExecute, Get,
         HandleExecuted, HandleFailed, PostprocessTask, Cleanup
    <3>4. ~ (Signal \/ UNCHANGED vars)
      BY <3>1 DEF Signal, Stop, vars, tmVars, nodeVars
    <3>5. ASSUME NEW w \in Workers, Work(w)
          PROVE  FALSE
      <4>1. implicit' = implicit \/ \E T : implicit' = Rescanned(T)
        BY <3>5 DEF Work, Take, Retrieve, Retrieved, Built, tmVars, nodeVars
      <4>2. ASSUME NEW T, implicit' = Rescanned(T)
            PROVE  FALSE
        BY <1>3, <2>1, <4>2 DEF Rescanned
      <4> QED
        BY <3>1, <4>1, <4>2
    <3> QED
      BY <3>2, <3>3, <3>4, <3>5 DEF Next, Main
  <2> QED
    BY <1>1, <2>3, <2>5, <2>6, <2>7 DEF Expects
<1>6. CASE \A t \in Mates(n) : implicit[t] = "explicit"
  <2>1. FoundNow(n) = "explicit" /\ Expects(n)
    BY <1>2, <1>4, <1>6 DEF RescanInv
  <2>2. ASSUME NEW g \in graph.generated[n], state[g] # Executed, state'[g] = Executed
        PROVE  FALSE
    <3>1. /\ pc # "examine" /\ state[g] = Executing
          /\ \A t \in Nodes : t \in waitingParents[g] => implicit'[t] = "unscanned"
      BY <1>3, <2>2, BuiltShape
    <3>2. PICK t \in Mates(n) : t \in waitingParents[g]
      BY <2>1, <3>1 DEF Expects
    <3> QED
      BY <1>2, <1>3, <3>1, <3>2
  <2>3. FoundNow(n)' = "explicit"
    BY <1>1, <1>2, <2>1, <2>2 DEF FoundNow
  <2>4. CASE \A g \in graph.generated[n] : state[g] <= Executing => \E t \in Mates(n) : t \in waitingParents[g]
    <3>1. ASSUME NEW g \in graph.generated[n], state'[g] <= Executing
          PROVE  \E t \in Mates(n) : t \in waitingParents'[g]
      <4>1. g \in Nodes /\ ~ SideEffect(g) /\ state[g] <= Executing /\ state'[g] # Failed
        BY <1>1, <1>3, <3>1 DEF Onward
      <4>2. PICK t \in Mates(n) : t \in waitingParents[g]
        BY <2>4, <4>1
      <4>3. ~ (pc = "postprocess" /\ g \in ToSet(task.targets))
        BY <1>1, <1>3, <1>4, <3>1, <4>1 DEF HandledInv
      <4> QED
        BY <1>2, <4>1, <4>2, <4>3, ForgetShape
    <3> QED
      BY <1>1, <2>3, <3>1 DEF Expects
  <2>5. CASE pc = "examine" /\ ready.node \in Mates(n)
    <3>1. CASE pc' = "examine"
      BY <1>1, <2>3, <2>5, <3>1, ExamineShape DEF Expects
    <3>2. CASE ExamineNode
      <4>1. /\ graph.kids[ready.node] = graph.kids[n] /\ Mates(ready.node) = Mates(n)
            /\ HasBuilder(ready.node) /\ ready.node \notin graph.broken
        BY <1>1, <1>2, <1>3, <2>5, MatesFacts
      <4>2. graph.generated[n] \subseteq ToSet(ready.kids)
        BY <1>3, <2>5, <4>1 DEF Ordered, ReadyInv
      <4>3. ~ SkipChildFailed
        <5>1. SkipChildFailed => state'[n] = Failed
          BY <1>2, <1>3, <4>1 DEF SkipChildFailed, Mates
        <5> QED
          BY <1>2, <5>1
      <4>4. NextTask => state' = state /\ NotReady = {}
        <5>1. NextTask => state'[n] \in {Executing, UpToDate} \/ state' = state
          BY <1>3, <2>5, <4>1, MakeReadyStates
        <5>2. NextTask => NotReady = {}
          BY <4>1, NextTaskFacts
        <5> QED
          BY <1>2, <5>1, <5>2
      <4>5. /\ state' = state
            /\ \A g \in graph.generated[n] : state[g] <= Executing => ready.node \in waitingParents'[g]
        <5>1. \A g \in graph.generated[n] : state[g] <= Executing => g \in NotReady
          BY <1>1, <1>3, <4>2 DEF NotReady, KidsIn
        <5>2. CASE WaitForChildren
          BY <1>3, <5>1, <5>2 DEF WaitForChildren
        <5>3. CASE WaitForSideEffects
          BY <5>1, <5>3 DEF WaitForSideEffects
        <5>4. CASE NextTask
          BY <4>4, <5>1, <5>4
        <5> QED
          BY <3>2, <4>3, <5>2, <5>3, <5>4 DEF ExamineNode, Examine
      <4> QED
        BY <1>1, <2>3, <2>5, <4>5 DEF Expects
    <3>3. pc' # pc => ExamineNode
      <4>1. CASE Main
        BY <2>5, <4>1 DEF Main, Pick, NoTask, Prepare, Dispatch, SerialExecute, Get, HandleExecuted,
           HandleFailed, PostprocessTask, Cleanup
      <4>2. CASE Signal \/ UNCHANGED vars
        BY <4>2 DEF Signal, vars, jobVars
      <4>3. ASSUME NEW w \in Workers, Work(w)
            PROVE  pc' = pc
        BY <4>3 DEF Work, Take, Retrieve, Built
      <4> QED
        BY <4>1, <4>2, <4>3 DEF Next
    <3> QED
      BY <2>5, <3>1, <3>2, <3>3
  <2> QED
    BY <2>1, <2>4, <2>5 DEF Expects
<1> QED
  BY <1>5, <1>6

LEMMA HandledStep ==
    ASSUME Ordered, HandledInv, [Next]_vars
    PROVE  HandledInv'
<1> USE DEF NoState, Pending, Executing, UpToDate, Executed, Failed
<1>1. /\ \A n : (SideEffect(n)' <=> SideEffect(n)) /\ (Unsure(n)' <=> Unsure(n))
      /\ Onward /\ state \in [Nodes -> NoState .. Failed] /\ state' \in [Nodes -> NoState .. Failed]
      /\ ToSet(task.targets) \subseteq Nodes
  BY GraphStays, OnwardStep, StateStep, Elements DEF Ordered, IInv, StateShape, WalkInv, WalkShapes, Tasks
<1>2. CASE HandleExecuted \/ HandleFailed
  <2>2. ASSUME ~ Raising
        PROVE  \A t \in ToSet(task.targets) : state[t] \in {Executing, UpToDate, Executed}
    <3>1. /\ MainThread \in Flights /\ TargetsAt(MainThread) = ToSet(task.targets)
      BY <1>2, <2>2, MainInFlight DEF HandleExecuted, HandleFailed
    <3> QED
      BY <3>1 DEF Ordered, FlightInv, FlightStates
  <2>3. CASE ExecutedWithCallbacks /\ (Raising => mode = "ignore_errors")
    <3>1. CASE ~ Raising
      <4>1. task' = task /\ \A t \in ToSet(task.targets) : ~ SideEffect(t) => state'[t] > Executing
        BY <1>1, <2>2, <2>3, <3>1 DEF ExecutedWithCallbacks, Onward
      <4> QED
        BY <1>1, <4>1 DEF HandledInv
    <3>2. CASE Raising
      <4>1. task' = task /\ pc = "failed"
        BY <1>2, <2>3, <3>2 DEF ExecutedWithCallbacks, HandleExecuted, HandleFailed, Raising
      <4>2. \A t \in ToSet(task.targets) : Mates(t) = ToSet(task.targets)
        BY <4>1, FailingFacts
      <4>3. \A t \in ToSet(task.targets) : Unsure(t) /\ state[t] <= Pending
        BY <2>3, <3>2, <4>2 DEF Ordered, RaisedInv, Unsure, Mates, Raising
      <4>4. \A t \in ToSet(task.targets) : state'[t] <= Pending
        BY <1>1, <2>3, <4>3 DEF ExecutedWithCallbacks
      <4> QED
        BY <1>1, <4>1, <4>3, <4>4 DEF HandledInv
    <3> QED
      BY <3>1, <3>2
  <2>4. CASE FailContinue /\ ~ stopped' /\ task' = task
    <3>1. \A t \in ToSet(task.targets) : state'[t] = Failed
      <4>1. ToSet(task.targets) \subseteq Above(ToSet(task.targets))
        BY <1>1, AboveFacts DEF Ordered, IInv, WalkInv, WalkShapes
      <4> QED
        BY <1>1, <2>4, <4>1 DEF FailContinue, WillNotBuild
    <3> QED
      BY <1>1, <2>4, <3>1 DEF HandledInv
  <2>5. stopped' => HandledInv'
    BY DEF HandledInv
  <2> QED
    BY <1>2, <2>3, <2>4, <2>5, RaisingFacts DEF HandleExecuted, HandleFailed, DoFailed
<1>3. CASE pc = "postprocess" /\ task' = task
  <2>1. ASSUME NEW t \in ToSet(task.targets), ~ SideEffect(t), state[t] <= Pending, state'[t] > Pending
        PROVE  state'[t] = Failed
    BY <1>1, <1>3, <2>1, LeavePending, RaisingFacts
  <2> QED
    BY <1>1, <1>3, <2>1, StoppedStays DEF HandledInv, Onward
<1>4. ASSUME pc' = "postprocess", ~ (HandleExecuted \/ HandleFailed)
      PROVE  pc = "postprocess" /\ task' = task
  <2>1. ~ Main
    BY <1>4 DEF Main, Pick, NoTask, ExamineNode, Prepare, Dispatch, SerialExecute, Get,
       PostprocessTask, Cleanup
  <2>2. CASE Signal \/ UNCHANGED vars
    BY <1>4, <2>2 DEF Signal, Stop, vars, tmVars, jobVars
  <2>3. ASSUME NEW w \in Workers, Work(w)
        PROVE  UNCHANGED <<pc, task>>
    BY <2>3 DEF Work, Take, Retrieve, Retrieved, Built, tmVars
  <2> QED
    BY <1>4, <2>1, <2>2, <2>3 DEF Next
<1> QED
  BY <1>2, <1>3, <1>4 DEF HandledInv

(* In such a graph whoever has a task to be executed has children that are *)
(* there and stay, those included that only a scan of generated files      *)
(* finds: who scanned too early is made to scan again by built()           *)
(* (Node/__init__.py), unless the build was stopped.                       *)
THEOREM AlwaysComplete == Spec /\ Orderly => []Complete
<1>1. Init /\ Ordered => Complete
  <2> SUFFICES ASSUME Init, Ordered
               PROVE  Complete
    OBVIOUS
  <2>1. pc = "next" /\ implicit = [n \in Nodes |-> "unscanned"] /\ Places = {}
    BY DEF Init, TMInit, Places, Handling, Workings, Idle
  <2>2. \A n \in Nodes : n \in Mates(n)
    BY MatesFacts DEF Ordered
  <2> QED
    BY <2>1, <2>2 DEF Complete, KidsInv, RescanInv, HandledInv, LateInv, Flights
<1>2. Ordered /\ Complete /\ [Next]_vars => Complete'
  BY KidsStep, RescanStep, HandledStep, LateStep DEF Complete
<1> QED
  BY <1>1, <1>2, AlwaysOrdered, PTL DEF Spec

(* In such a graph what is being executed has all its children, and nobody *)
(* is still working on them, for any number of jobs and workers, any mode  *)
(* and a signal at any step (_find_next_ready_node and postprocess).       *)
THEOREM ChildrenAlwaysFirst == Spec /\ Orderly => []ChildrenFirst
<1>1. Ordered /\ Complete => ChildrenFirst
  <2> SUFFICES ASSUME Ordered, KidsInv, NEW e \in Executions, NEW k \in AllKids(e.node)
               PROVE  Done(k) /\ \A f \in Executions \ {e} : k \in ToSet(f.targets) => k \in graph.cached
    BY DEF Complete, ChildrenFirst
  <2>1. ASSUME NEW x \in Executions
        PROVE  \E p \in Flights : TaskAt(p) = x /\ Bound(p)
    <3>1. CASE \E w \in Workings : x = working[w].task
      BY <3>1, PlaceFacts, PlacesDiffer DEF Places, Flights, Bound
    <3>2. CASE \E i \in DOMAIN requests : x = requests[i]
      BY <3>2, PlaceFacts, PlacesDiffer DEF Places, Flights, Bound
    <3>3. CASE pc = "execute" /\ x = task
      BY <3>3, PlaceFacts, RaisingFacts DEF Places, Handling, Flights, Bound
    <3> QED
      BY <3>1, <3>2, <3>3 DEF Executions, ToSet
  <2>2. Settled(k)
    BY <2>1 DEF KidsInv
  <2>3. ASSUME NEW f \in Executions, k \in ToSet(f.targets)
        PROVE  k \in graph.cached
    <3>1. PICK q \in Flights : TaskAt(q) = f
      BY <2>1
    <3>2. k \in TargetsAt(q)
      BY <2>3, <3>1 DEF TargetsAt
    <3> QED
      BY <2>2, <3>2 DEF Settled, Ordered, FlightInv, FlightStates
  <2> QED
    BY <2>2, <2>3 DEF Settled
<1> QED
  BY <1>1, AlwaysOrdered, AlwaysComplete, PTL
-----------------------------------------------------------------------------
(* Nothing is lost.  Two invariants: Past, of what has been done, whoever  *)
(* stops the build; and Forth, of what is still to be done, until somebody *)
(* stops it.  No target of the command line is a side effect: else it is   *)
(* a candidate, while those who make it set it back to "no state".         *)

Tops == ToSet(graph.tops)
TopsPlain == \A n \in Tops : ~ SideEffect(n)

Made(n) == ~ SideEffect(n) /\ state[n] \in {Executing, UpToDate, Executed}
Hung(n) == ~ SideEffect(n) /\ state[n] = Pending
(* It has been looked at, or is on the stack. *)
Visited(n) == state[n] # NoState \/ n \in ToSet(candidates)

(* What is made, or has been, has its children.                            *)
MadeInv == \A n \in Nodes : Made(n) => \A k \in AllKids(n) : Settled(k)

(* Of nodes that hang, the one considered last waits for none of the       *)
(* others, unless that was pending already, and then the taskmaster knows. *)
CycleInv ==
  \A S \in SUBSET {n \in Nodes : Hung(n)} : S # {} =>
    \E y \in S : \A x \in S : y \in waitingParents[x] => x \in pendingChildren

ReadyLate ==
  pc = "examine" => \A t \in Mates(ready.node) :
    implicit[t] = "all" => ToSet(graph.late[t]) \subseteq ToSet(ready.kids)

Past == MadeInv /\ CycleInv /\ ReadyLate

(* Until the build is stopped: the targets of the command line, the        *)
(* children of what has been looked at, and what is waited for, are looked *)
(* at in their turn.                                                       *)
TopsInv == \A n \in Tops : state[n] # NoState \/ n \in ToSet(topLeft)
KnownKids(n) ==
  ToSet(graph.kids[n]) \cup IF implicit[n] = "all" THEN ToSet(graph.late[n]) ELSE {}
Touched(n) == \E t \in Mates(n) : state[t] # NoState
VisitInv ==
  \A n \in Nodes : n \notin graph.broken /\ ~ SideEffect(n) /\ Touched(n) =>
    \A k \in KnownKids(n) :
      \/ Visited(k)
      \/ pc = "examine" /\ ready.node \in Mates(n) /\ k \in ToSet(ready.kids)
WaitedInv == \A x \in Nodes : waitingParents[x] # {} => Visited(x)

(* What is pending is on the stack, or examined, or waits for a child, or  *)
(* for a side effect that a task releases when it comes to its end, or has *)
(* failed children; or it could not be made ready, just now or earlier, so *)
(* that nobody will look at it again: who waits for it does so since.      *)
AwaitsEffect(n) ==
  \E t \in Nodes : Coming(t) /\ \E s \in ToSet(graph.effects[t]) : n \in waitingSE[s]
KidFailed(n) == n \notin graph.broken /\ \E x \in KidsOf(n) : state[x] = Failed
Trying(n) ==
  /\ task.broken /\ n = task.node /\ Mates(n) \cap graph.unready # {}
  /\ pc \in {"prepare", "failed"} \/ (pc = "postprocess" /\ mode = "ignore_errors")
Unmade(n) == Unsure(n) /\ (waitingParents[n] # {} => n \in pendingChildren)
PendInv ==
  \A n \in Nodes : Hung(n) =>
    \/ n \in ToSet(candidates)
    \/ pc = "examine" /\ ready.node = n
    \/ WaitersOf(n) # {}
    \/ AwaitsEffect(n)
    \/ KidFailed(n)
    \/ Trying(n) \/ Unmade(n)

(* What is executing has a task. *)
Busy(n) ==
  IF SideEffect(n) THEN \E t \in Nodes : Coming(t) /\ n \in ToSet(graph.effects[t])
  ELSE Coming(n)
BusyInv == \A n \in Nodes : state[n] = Executing => Busy(n)

EndInv ==
  /\ pc \in {"cleanup", "done"} => candidates = <<>> /\ topLeft = <<>> /\ jobs = 0
  /\ pc = "done" => reported = Reported

Forth == TopsInv /\ VisitInv /\ WaitedInv /\ PendInv /\ BusyInv /\ EndInv
Lossless == Past /\ (~ stopped => Forth)

-----------------------------------------------------------------------------
(* What is below a node. *)
LEMMA KidsWithin ==
    ASSUME IInv, NEW n \in Nodes
    PROVE  AllKids(n) \subseteq Nodes /\ Needs(n) \subseteq AllKids(n)
<1>1. AllKids(n) \subseteq Nodes
  BY MatesFacts DEF AllKids
<1> QED
  BY <1>1 DEF Needs

LEMMA BelowFacts ==
    ASSUME IInv, NEW n \in Nodes
    PROVE  /\ Below(n) \subseteq Nodes /\ AllKids(n) \subseteq Below(n)
           /\ \A m \in Below(n) : AllKids(m) \subseteq Below(n)
           /\ \A m \in Below(n) : m \in AllKids(n) \/ \E x \in AllKids(n) : m \in Below(x)
           /\ \A m \in Below(n) : Below(m) \subseteq Below(n)
<1>1. \A m \in Nodes : AllKids(m) \subseteq Nodes
  BY KidsWithin
<1>2. \A m \in Nodes : /\ Below(m) \subseteq Nodes /\ AllKids(m) \subseteq Below(m)
                       /\ \A x \in Below(m) : AllKids(x) \subseteq Below(m)
                       /\ \A S \in SUBSET Nodes :
                            AllKids(m) \subseteq S /\ (\A x \in S : AllKids(x) \subseteq S)
                              => Below(m) \subseteq S
  BY <1>1 DEF Below
<1>3. \A m \in Below(n) : Below(m) \subseteq Below(n)
  BY <1>2
<1>4. \A m \in Below(n) : m \in AllKids(n) \/ \E x \in AllKids(n) : m \in Below(x)
  <2> DEFINE S == AllKids(n) \cup UNION {Below(x) : x \in AllKids(n)}
  <2>1. S \in SUBSET Nodes /\ AllKids(n) \subseteq S
    BY <1>1, <1>2
  <2>2. \A x \in S : AllKids(x) \subseteq S
    BY <1>1, <1>2
  <2>3. Below(n) \subseteq S
    BY <1>2, <2>1, <2>2
  <2> QED
    BY <2>3
<1> QED
  BY <1>2, <1>3, <1>4

(* Where everybody has a child, somebody is below itself. *)
LEMMA CycleExists ==
    ASSUME IInv, NEW S \in SUBSET Nodes, S # {}, \A n \in S : AllKids(n) \cap S # {}
    PROVE  \E n \in S : n \in Below(n)
<1> DEFINE size(n) == Cardinality(Below(n) \cap S)
           sizes == {size(n) : n \in S}
<1>1. IsFiniteSet(S) /\ \A n \in S : IsFiniteSet(Below(n) \cap S) /\ size(n) \in Nat
  BY GraphAssumption, FS_Subset, FS_CardinalityType
<1>2. PICK n \in S : \A m \in S : size(n) <= size(m)
  <2>1. sizes \in SUBSET Nat /\ sizes # {}
    BY <1>1
  <2>2. PICK a \in sizes : \A b \in sizes : a <= b
    BY <2>1, Least
  <2> QED
    BY <2>2
<1>3. PICK x \in S : x \in AllKids(n)
  OBVIOUS
<1>4. x \in Below(n) /\ Below(x) \subseteq Below(n)
  BY <1>3, BelowFacts
<1>5. Below(x) \cap S = Below(n) \cap S
  <2>1. PICK A, B : A = Below(x) \cap S /\ B = Below(n) \cap S
    OBVIOUS
  <2>2. IsFiniteSet(B) /\ A \subseteq B /\ Cardinality(B) <= Cardinality(A)
    BY <1>1, <1>2, <1>4, <2>1
  <2>3. Cardinality(A) \in Nat /\ Cardinality(B) \in Nat
    BY <1>1, <2>1
  <2>4. Cardinality(A) <= Cardinality(B)
    BY <2>2, FS_Subset
  <2>5. A = B
    BY <2>2, <2>3, <2>4, FS_Subset
  <2> QED
    BY <2>1, <2>5
<1> QED
  BY <1>4, <1>5

(* What is needed is no side effect. *)
LEMMA KidsReal ==
    ASSUME Ordered, NEW n \in Nodes
    PROVE  \A k \in AllKids(n) : k \in Nodes /\ ~ SideEffect(k)
  BY MatesFacts DEF AllKids, Ordered, Orderly, EffectsUnneeded

(* When no jobs are out nobody is at work. *)
LEMMA NobodyWorks ==
    ASSUME IInv, jobs = 0
    PROVE  requests = <<>> /\ results = <<>> /\ Workings = {}
<1>1. /\ Len(requests) \in Nat /\ Len(results) \in Nat
      /\ Cardinality(Workings) \in Nat /\ IsFiniteSet(Workings)
  BY WorkingsFinite, FS_CardinalityType DEF IInv, PoolInv, PoolShapes
<1>2. 0 = Len(requests) + Cardinality(Workings) + Len(results)
  BY DEF IInv, PoolInv, JobsCounted
<1>3. Len(requests) = 0 /\ Len(results) = 0 /\ Cardinality(Workings) = 0
  BY <1>1, <1>2
<1> QED
  BY <1>1, <1>3, FS_EmptySet DEF IInv, PoolInv, PoolShapes

(* When the build ends nobody is at work. *)
LEMMA EndFacts ==
    ASSUME Ordered, Forth, pc = "done"
    PROVE  /\ \A x : ~ Coming(x)
           /\ \A n \in Nodes : state[n] # Executing
           /\ candidates = <<>> /\ topLeft = <<>> /\ reported = Reported
<1>1. candidates = <<>> /\ topLeft = <<>> /\ jobs = 0 /\ reported = Reported
  BY DEF Forth, EndInv
<1>2. requests = <<>> /\ results = <<>> /\ Workings = {}
  BY <1>1, NobodyWorks DEF Ordered
<1>3. Flights = {}
  BY <1>2 DEF Flights, Places, Handling
<1>4. \A x : ~ Coming(x)
  BY <1>3 DEF Coming
<1>5. \A n \in Nodes : state[n] # Executing
  BY <1>4 DEF Forth, BusyInv, Busy
<1> QED
  BY <1>1, <1>4, <1>5

(* Then what hangs waits for what hangs, or has failed children, or could  *)
(* not be made ready.                                                      *)
LEMMA EndHung ==
    ASSUME Ordered, Forth, pc = "done", NEW n \in Nodes, Hung(n)
    PROVE  \/ \E x \in AllKids(n) : state[x] = Failed \/ (Hung(x) /\ n \in waitingParents[x])
           \/ Unmade(n)
<1> USE DEF NoState, Pending, Executing, UpToDate, Executed, Failed
<1>1. ASSUME n \notin graph.broken
      PROVE  KidsOf(n) \subseteq AllKids(n)
  BY <1>1 DEF KidsOf, AllKids, Overlooked, Hung, Found
<1>2. CASE KidFailed(n)
  BY <1>1, <1>2 DEF KidFailed
<1>3. CASE WaitersOf(n) # {}
  <2>1. PICK x \in Nodes : n \in waitingParents[x]
    BY <1>3 DEF WaitersOf
  <2>2. ~ SideEffect(x) /\ WaitsFor(n, x)
    BY <2>1, WaitFacts
  <2>3. x \in AllKids(n) /\ ~ Done(x)
    BY <1>1, <2>2, EndFacts DEF WaitsFor
  <2>4. state[x] # NoState /\ state[x] # Executing
    BY <2>1, EndFacts DEF Forth, WaitedInv, Visited, ToSet
  <2>5. state[x] \in NoState .. Failed
    BY DEF Ordered, IInv, StateShape
  <2>6. state[x] = Failed \/ state[x] = Pending
    BY <2>3, <2>4, <2>5 DEF Done
  <2> QED
    BY <2>1, <2>2, <2>3, <2>6 DEF Hung
<1>4. \/ n \in ToSet(candidates)
      \/ pc = "examine" /\ ready.node = n
      \/ WaitersOf(n) # {}
      \/ AwaitsEffect(n)
      \/ KidFailed(n)
      \/ Unmade(n)
  BY DEF Forth, PendInv, Trying
<1> QED
  BY <1>2, <1>3, <1>4, EndFacts DEF AwaitsEffect, ToSet

(* Unless something below it has failed, or could not be made ready, it is *)
(* above a cycle; and what is not there is reported, unless it could not   *)
(* be made ready itself.                                                   *)
LEMMA EndCycle ==
    ASSUME Ordered, Past, Forth, pc = "done", NEW n \in Nodes, Hung(n),
           \A m \in Below(n) \cup {n} : state[m] # Failed
    PROVE  /\ \E m \in Below(n) \cup {n} : OnKidCycle(m) \/ Abandoned(m)
           /\ ~ Abandoned(n) => reported # {}
<1> DEFINE S == {m \in Below(n) \cup {n} : Hung(m)}
           T == {m \in S : ~ Unmade(m)}
<1>1. IInv /\ Below(n) \subseteq Nodes
  BY BelowFacts DEF Ordered
<1>2. S \in SUBSET {m \in Nodes : Hung(m)} /\ n \in S
  BY <1>1
<1>3. ASSUME NEW m \in T
      PROVE  \E x \in S : x \in AllKids(m) /\ m \in waitingParents[x]
  <2>1. PICK x \in AllKids(m) : state[x] = Failed \/ (Hung(x) /\ m \in waitingParents[x])
    BY <1>2, EndHung
  <2>2. x \in Below(n)
    BY <1>1, BelowFacts
  <2> QED
    BY <2>1, <2>2
<1>4. ASSUME NEW m \in S, Unmade(m)
      PROVE  Abandoned(m)
  BY <1>4 DEF Unmade, Abandoned, Hung, Done, Pending, UpToDate, Executed
<1>5. \E m \in Below(n) \cup {n} : OnKidCycle(m) \/ Abandoned(m)
  <2>1. CASE S = T
    <3>1. \E m \in S : m \in Below(m)
      BY <1>1, <1>2, <1>3, <2>1, CycleExists
    <3> QED
      BY <3>1 DEF OnKidCycle
  <2>2. CASE S # T
    BY <1>4, <2>2
  <2> QED
    BY <2>1, <2>2
<1>6. ASSUME NEW x \in S, x \in pendingChildren
      PROVE  reported # {}
  BY <1>6, EndFacts DEF Reported, Hung, Pending, Executed
<1>7. ASSUME ~ Abandoned(n), \A m \in S : Unmade(m) => waitingParents[m] = {}
      PROVE  reported # {}
  <2>1. T \in SUBSET {m \in Nodes : Hung(m)} /\ n \in T
    BY <1>2, <1>4, <1>7
  <2>2. PICK y \in T : \A x \in T : y \in waitingParents[x] => x \in pendingChildren
    BY <2>1 DEF Past, CycleInv
  <2>3. PICK x \in S : y \in waitingParents[x]
    BY <1>3
  <2>4. x \in T
    BY <1>7, <2>3
  <2> QED
    BY <1>6, <2>2, <2>3, <2>4
<1>8. ASSUME NEW m \in S, Unmade(m), waitingParents[m] # {}
      PROVE  reported # {}
  BY <1>6, <1>8 DEF Unmade
<1> QED
  BY <1>5, <1>7, <1>8

(* Everything needed has been looked at. *)
LEMMA EndNeeded ==
    ASSUME Ordered, TopsPlain, Past, Forth, pc = "done"
    PROVE  \A n \in Needed : n \in Nodes /\ ~ SideEffect(n) /\ state[n] # NoState
<1> USE DEF NoState, Pending, Executing, UpToDate, Executed, Failed
<1> DEFINE S == {n \in Nodes : ~ SideEffect(n) /\ state[n] # NoState}
<1>1. Tops \subseteq S
  <2>1. Tops \subseteq Nodes
    BY GraphFacts, Elements DEF Tops, Ordered, IInv, WalkInv, WalkShapes
  <2> QED
    BY <2>1, EndFacts DEF Forth, TopsInv, TopsPlain, ToSet
<1>2. ASSUME NEW n \in S, NEW k \in Needs(n)
      PROVE  k \in S
  <2>1. k \in AllKids(n) /\ k \in Nodes /\ ~ SideEffect(k)
    BY <1>2, KidsReal DEF Needs
  <2>2. CASE Made(n)
    BY <2>1, <2>2 DEF Past, MadeInv, Settled, Done
  <2>3. CASE ~ Made(n)
    <3>1. state[n] \in {Pending, Failed}
      BY <2>3 DEF Made, Ordered, IInv, StateShape
    <3>2. n \notin graph.broken /\ k \in KnownKids(n)
      BY <1>2, <2>1, <3>1 DEF AllKids, Needs, KnownKids
    <3>3. Touched(n)
      BY <1>2, MatesFacts DEF Touched, Ordered
    <3>4. Visited(k)
      BY <1>2, <3>2, <3>3 DEF Forth, VisitInv
    <3> QED
      BY <2>1, <3>4, EndFacts DEF Visited, ToSet
  <2> QED
    BY <2>2, <2>3
<1>3. Needed \subseteq S
  <2>1. S \in SUBSET Nodes
    OBVIOUS
  <2> HIDE DEF S
  <2> QED
    BY <1>1, <1>2, <2>1 DEF Needed, Tops
<1> QED
  BY <1>3

LEMMA NothingLostAtEnd ==
    ASSUME Ordered, TopsPlain, Lossless
    PROVE  NothingLost
<1> SUFFICES ASSUME pc = "done", ~ stopped
             PROVE  /\ \A n \in Needed :
                         \/ Done(n)
                         \/ \E m \in Below(n) \cup {n} :
                              state[m] = Failed \/ OnKidCycle(m) \/ Abandoned(m)
                    /\ (\E n \in Needed : ~ Done(n) /\ ~ Abandoned(n))
                         /\ (\A n \in Nodes : state[n] # Failed) => reported # {}
  BY DEF NothingLost
<1>1. Past /\ Forth
  BY DEF Lossless
<1>2. ASSUME NEW n \in Needed
      PROVE  n \in Nodes /\ (Done(n) \/ Hung(n) \/ state[n] = Failed)
  <2>1. n \in Nodes /\ ~ SideEffect(n) /\ state[n] # NoState
    BY <1>1, EndNeeded
  <2>2. state[n] # Executing /\ state[n] \in NoState .. Failed
    BY <1>1, <2>1, EndFacts DEF Ordered, IInv, StateShape
  <2> QED
    BY <2>1, <2>2 DEF Done, Hung, NoState, Pending, Executing, UpToDate, Executed, Failed
<1>3. ASSUME NEW n \in Needed
      PROVE  Done(n) \/ \E m \in Below(n) \cup {n} :
                           state[m] = Failed \/ OnKidCycle(m) \/ Abandoned(m)
  BY <1>1, <1>2, EndCycle
<1>4. ASSUME NEW n \in Needed, ~ Done(n), ~ Abandoned(n), \A m \in Nodes : state[m] # Failed
      PROVE  reported # {}
  <2>1. n \in Nodes /\ Hung(n)
    BY <1>2, <1>4
  <2>2. \A m \in Below(n) \cup {n} : m \in Nodes
    BY <2>1, BelowFacts DEF Ordered
  <2> QED
    BY <1>1, <1>4, <2>1, <2>2, EndCycle
<1> QED
  BY <1>3, <1>4

-----------------------------------------------------------------------------
(* How what is made comes to be made. *)
LEMMA NewMade ==
    ASSUME Ordered, [Next]_vars, NEW n \in Nodes, Made(n)'
    PROVE  /\ ~ SideEffect(n) /\ graph' = graph
           /\ \/ Made(n)
              \/ /\ pc = "examine" /\ NextTask /\ n \in Mates(ready.node)
                 /\ state[n] <= Pending
<1> USE DEF NoState, Pending, Executing, UpToDate, Executed, Failed
<1>1. ~ SideEffect(n) /\ graph' = graph
  BY GraphStays DEF Made
<1>2. state[n] \in NoState .. Failed /\ state'[n] \in {Executing, UpToDate, Executed}
  BY DEF Made, Ordered, IInv, StateShape
<1>3. CASE state[n] <= Pending
  <2>1. n \in Mates(n)
    BY MatesFacts DEF Ordered
  <2> QED
    BY <1>1, <1>2, <1>3, <2>1, LeavePending
<1>4. CASE state[n] = Failed
  BY <1>1, <1>2, <1>4, OnwardStep DEF Onward
<1> QED
  BY <1>1, <1>2, <1>3, <1>4 DEF Made

(* The children of what is made stay the same. *)
LEMMA MadeKidsStay ==
    ASSUME Ordered, MadeInv, [Next]_vars, NEW n \in Nodes, Made(n), Made(n)'
    PROVE  AllKids(n)' \subseteq AllKids(n)
<1> USE DEF NoState, Pending, Executing, UpToDate, Executed, Failed
<1>1. /\ graph' = graph /\ IInv /\ ~ SideEffect(n)
      /\ \A m : (HasBuilder(m)' <=> HasBuilder(m)) /\ (Slips(m)' <=> Slips(m))
      /\ graph.generated[n] \subseteq ToSet(graph.kids[n])
      /\ n \in Mates(n)
  BY GraphStays, MatesFacts DEF Ordered, Made
<1>2. state[n] > Pending /\ state'[n] > Pending /\ state[n] # Failed
  BY DEF Made
<1>3. ASSUME n \notin graph.broken, FoundNow(n)' = "all"
      PROVE  FoundNow(n) = "all"
  <2>1. \A g \in graph.generated[n] : Settled(g) /\ ~ SideEffect(g) /\ g \in Nodes
    BY <1>1, <1>3, KidsFacts DEF MadeInv, AllKids
  <2>2. HasBuilder(n)
    BY <1>1, <1>3 DEF FoundNow
  <2>3. \A g \in graph.generated[n] : state[g] = Executed
    BY <1>1, <1>3, <2>1, SettledStays DEF FoundNow
  <2> QED
    BY <2>2, <2>3 DEF FoundNow
<1>4. ASSUME implicit'[n] = "all"
      PROVE  implicit[n] = "all"
  <2>1. ASSUME NEW m \in Nodes, Consider(m), implicit' = Scanned(m)
        PROVE  implicit[n] = "all"
    <3>1. state[m] <= Pending
      BY <2>1 DEF Consider
    <3>2. n \notin Mates(m)
      <4> SUFFICES ASSUME n \in Mates(m)
                   PROVE  FALSE
        OBVIOUS
      <4> QED
        BY <3>1 DEF Made, Ordered, MateInv
    <3> QED
      BY <1>4, <2>1, <3>2, ScannedFacts
  <2>2. ASSUME NEW T, implicit' = Rescanned(T)
        PROVE  implicit[n] = "all"
    BY <1>4, <2>2 DEF Rescanned
  <2> QED
    BY <1>4, <2>1, <2>2, ScanShape
<1> QED
  BY <1>1, <1>2, <1>3, <1>4 DEF AllKids, Overlooked

(* A node that gets a task has its children. *)
LEMMA NewMadeKids ==
    ASSUME Ordered, LateInv, ReadyLate, [Next]_vars, pc = "examine", NextTask,
           NEW n \in Mates(ready.node), Made(n)'
    PROVE  \A k \in AllKids(n)' : k \in Nodes /\ ~ SideEffect(k) /\ Settled(k)
<1> USE DEF NoState, Pending, Executing, UpToDate, Executed, Failed
<1>1. PICK r \in Nodes : r = ready.node
  BY ExaminedFacts
<1>2. /\ graph' = graph /\ IInv /\ n \in Nodes
      /\ graph.kids[n] = graph.kids[r] /\ graph.late[n] = graph.late[r]
      /\ graph.generated[n] = graph.generated[r]
      /\ n \in graph.broken <=> r \in graph.broken
      /\ HasBuilder(n) <=> HasBuilder(r)
      /\ graph.generated[n] \subseteq ToSet(graph.kids[n])
      /\ \A g : Slips(g)' <=> Slips(g)
  BY <1>1, GraphStays, MatesFacts DEF Ordered
<1>3. implicit' = implicit
  BY NextTaskFacts
<1>4. PICK s \in {Executing, UpToDate} :
        /\ \A m \in Mates(r) : state[m] <= Pending /\ state'[m] = s
        /\ \A m \in Nodes \ Mates(r) : SideEffect(m) \/ state'[m] = state[m]
  <2>1. state' # state
    BY MakeReadyStates DEF Made
  <2> QED
    BY <1>1, <2>1, MakeReadyStates
<1>5. ASSUME NEW k \in AllKids(n)'
      PROVE  k \in Nodes /\ ~ SideEffect(k) /\ Settled(k)
  <2>1. r \notin graph.broken /\ KidsIn({Failed}) = {} /\ NotReady = {}
    BY <1>1, <1>2, <1>5, NextTaskFacts DEF AllKids
  <2>2. FoundNow(n)' = "all" => FoundNow(r) = "all"
    <3>1. \A g \in graph.generated[n] : g \in Nodes /\ ~ SideEffect(g)
      BY <1>2, KidsFacts
    <3>2. \A g \in graph.generated[n] : state'[g] = Executed => state[g] = Executed
      BY <1>4, <3>1
    <3> QED
      BY <1>2, <3>2 DEF FoundNow, HasBuilder
  <2>3. k \in ToSet(ready.kids)
    <3>1. CASE k \in ToSet(graph.kids[n])
      BY <1>1, <1>2, <3>1 DEF Ordered, ReadyInv
    <3>2. CASE k \in ToSet(graph.late[n]) /\ FoundNow(n)' = "all" /\ ~ Overlooked(n)'
      <4>1. (\A g \in graph.generated[n] : ~ Slips(g)) \/ implicit[n] = "all"
        BY <1>1, <1>2, <1>3, <1>4, <3>2 DEF Overlooked
      <4>2. CASE implicit[n] = "all"
        BY <3>2, <4>2 DEF ReadyLate
      <4>3. CASE \A g \in graph.generated[n] : ~ Slips(g)
        BY <1>1, <1>2, <2>1, <2>2, <3>2, <4>3 DEF LateInv, Foreseen
      <4> QED
        BY <4>1, <4>2, <4>3
    <3> QED
      BY <1>2, <1>5, <3>1, <3>2 DEF AllKids
  <2>4. k \in Nodes /\ ~ SideEffect(k)
    BY <1>1, <2>3, KidsFacts DEF Ordered, ReadyInv
  <2>5. Done(k)
    <3>1. state[k] \in NoState .. Failed
      BY <2>4 DEF Ordered, IInv, StateShape
    <3>2. state[k] \notin {Failed, NoState, Pending, Executing}
      BY <2>1, <2>3 DEF KidsIn, NotReady
    <3> QED
      BY <3>1, <3>2 DEF Done
  <2>6. Settled(k)
    <3>1. MainThread \notin Flights
      BY PlacesDiffer DEF Flights, Places, Handling
    <3> QED
      BY <2>5, <3>1, OthersFacts DEF Settled, Done
  <2> QED
    BY <1>1, <2>4, <2>6
<1> QED
  BY <1>5

LEMMA MadeStep ==
    ASSUME Ordered, LateInv, Past, [Next]_vars
    PROVE  MadeInv'
<1> SUFFICES ASSUME NEW n \in Nodes, Made(n)'
             PROVE  \A k \in AllKids(n)' : Settled(k)'
  BY DEF MadeInv
<1>1. CASE Made(n)
  BY <1>1, MadeKidsStay, KidsReal, SettledStays DEF Past, MadeInv, Made
<1>2. CASE ~ Made(n)
  BY <1>2, NewMade, NewMadeKids, SettledStays DEF Past
<1> QED
  BY <1>1, <1>2

LEMMA ReadyLateStep ==
    ASSUME Ordered, ReadyLate, [Next]_vars
    PROVE  ReadyLate'
<1> SUFFICES ASSUME pc' = "examine"
             PROVE  \A t \in Mates(ready.node)' :
                      implicit'[t] = "all" => ToSet(graph.late[t]) \subseteq ToSet(ready'.kids)
  BY GraphStays DEF ReadyLate
<1>1. CASE \E n \in Nodes : Consider(n)
  <2>1. PICK n \in Nodes : Consider(n)
    BY <1>1
  <2>2. /\ ready'.node = n /\ ready'.kids = Children(n, implicit'[n]) /\ implicit' = Scanned(n)
        /\ graph' = graph
    BY <2>1 DEF Consider
  <2>3. Mates(ready.node)' = Mates(n)
    BY <2>2 DEF Mates
  <2>4. graph.kids[n] \in Seq(Nodes) /\ graph.late[n] \in Seq(Nodes)
    BY GraphFacts DEF Ordered, IInv, WalkInv, WalkShapes
  <2>5. ToSet(graph.kids[n] \o graph.late[n]) = ToSet(graph.kids[n]) \cup ToSet(graph.late[n])
    BY <2>4, ConcatElements
  <2>6. \A t \in Mates(n) : graph.late[t] = graph.late[n] /\ Scanned(n)[t] = Scanned(n)[n]
    BY ScannedFacts, MatesFacts DEF Ordered
  <2> QED
    BY <2>2, <2>3, <2>5, <2>6 DEF Children
<1>2. CASE /\ pc = "examine" /\ UNCHANGED ready
           /\ UNCHANGED <<state, implicit>> \/ \E w \in Workers : Retrieve(w)
  <2>1. PICK r \in Nodes : r = ready.node
    BY <1>2, ExaminedFacts
  <2>2. Mates(ready.node)' = Mates(r) /\ Mates(r) \subseteq Nodes
    BY <1>2, <2>1, GraphStays, MatesFacts DEF Mates, Ordered
  <2>3. ASSUME NEW w \in Workers, Retrieve(w)
        PROVE  implicit' = implicit \/ \E T : implicit' = Rescanned(T)
    BY <2>3 DEF Retrieve, Retrieved, tmVars, nodeVars
  <2>4. ASSUME NEW T, implicit' = Rescanned(T), NEW t \in Nodes, implicit'[t] = "all"
        PROVE  implicit[t] = "all"
    BY <2>4 DEF Rescanned
  <2>5. \A t \in Nodes : implicit'[t] = "all" => implicit[t] = "all"
    BY <1>2, <2>3, <2>4
  <2> QED
    BY <1>2, <2>1, <2>2, <2>5 DEF ReadyLate
<1> QED
  BY <1>1, <1>2, ExamineShape

-----------------------------------------------------------------------------
(* A node is pending once it has been considered. *)
LEMMA NewHung ==
    ASSUME Ordered, [Next]_vars, NEW n \in Nodes, Hung(n)', ~ Hung(n)
    PROVE  /\ ~ SideEffect(n) /\ state[n] = NoState
           /\ pc = "next" /\ ~ stopped /\ Consider(n) /\ pc' = "examine"
           /\ UNCHANGED <<waitingParents, pendingChildren, stopped>>
<1> USE DEF NoState, Pending, Executing, UpToDate, Executed, Failed
<1>1. ~ SideEffect(n)
  BY GraphStays DEF Hung
<1>2. state \in [Nodes -> NoState .. Failed] /\ state'[n] = Pending
  BY DEF Hung, Ordered, IInv, StateShape
<1>3. state[n] = NoState
  BY <1>1, <1>2, OnwardStep DEF Onward, Hung
<1>4. CASE Pick
  BY <1>1, <1>2, <1>3, <1>4 DEF Pick, SkipHandled, Consider, nodeVars
<1>5. CASE ExamineNode
  <2>1. CASE Examine
    BY <1>2, <1>3, <2>1 DEF Examine, SkipChildFailed, WaitForChildren, WaitForSideEffects
  <2>2. CASE NextTask
    <3>1. pc = "examine"
      BY <1>5 DEF ExamineNode
    <3> QED
      BY <1>1, <1>2, <1>3, <2>2, <3>1, MakeReadyStates
  <2> QED
    BY <1>5, <2>1, <2>2 DEF ExamineNode
<1>6. CASE NoTask
  BY <1>2, <1>3, <1>6 DEF NoTask, NoCandidate, WillNotBuild
<1>7. CASE HandleExecuted \/ HandleFailed
  BY <1>2, <1>3, <1>7 DEF HandleExecuted, HandleFailed, DoFailed, ExecutedWithCallbacks,
     FailContinue, WillNotBuild
<1>8. CASE PostprocessTask
  BY <1>2, <1>3, <1>8 DEF PostprocessTask, Postprocess
<1>9. CASE SerialExecute
  BY <1>2, <1>3, <1>9 DEF SerialExecute, Retrieved
<1>10. CASE Prepare \/ Dispatch \/ Get \/ Cleanup \/ Signal \/ UNCHANGED vars
  BY <1>2, <1>3, <1>10 DEF Prepare, Dispatch, Get, Cleanup, Signal, Stop, vars, tmVars, nodeVars
<1>11. ASSUME NEW w \in Workers, Work(w)
       PROVE  state'[n] # Pending
  BY <1>2, <1>3, <1>11, RetrieveTouches DEF Work, Take, Built, tmVars, nodeVars
<1> QED
  BY <1>2, <1>4, <1>5, <1>6, <1>7, <1>8, <1>9, <1>10, <1>11 DEF Next, Main

(* What the taskmaster knows to be pending stays so while it is waited for. *)
LEMMA PendingKept ==
    ASSUME IInv, [Next]_vars, NEW x \in pendingChildren, x \in Nodes, waitingParents'[x] # {}
    PROVE  x \in pendingChildren'
<1>1. waitingParents \in [Nodes -> SUBSET Nodes]
  BY DEF IInv, WalkInv, WalkShapes
<1>2. CASE Pick
  BY <1>2 DEF Pick, SkipHandled, Consider
<1>3. CASE ExamineNode
  BY <1>3 DEF ExamineNode, Examine, SkipChildFailed, WaitForChildren, WaitForSideEffects, NextTask, walkVars
<1>4. CASE NoTask
  BY <1>4 DEF NoTask, NoCandidate, WillNotBuild
<1>5. CASE HandleExecuted \/ HandleFailed
  BY <1>5 DEF HandleExecuted, HandleFailed, DoFailed, ExecutedWithCallbacks, FailContinue,
     WillNotBuild, walkVars
<1>6. CASE PostprocessTask
  BY <1>1, <1>6 DEF PostprocessTask, Postprocess
<1>7. CASE SerialExecute
  BY <1>7 DEF SerialExecute, Retrieved, walkVars
<1>8. CASE Prepare \/ Dispatch \/ Get \/ Cleanup \/ Signal \/ UNCHANGED vars
  BY <1>8 DEF Prepare, Dispatch, Get, Cleanup, Signal, Stop, vars, tmVars, walkVars
<1>9. ASSUME NEW w \in Workers, Work(w)
      PROVE  pendingChildren' = pendingChildren
  BY <1>9 DEF Work, Take, Retrieve, Retrieved, Built, tmVars, walkVars
<1> QED
  BY <1>2, <1>3, <1>4, <1>5, <1>6, <1>7, <1>8, <1>9 DEF Next, Main

(* Who begins to wait for what is pending tells the taskmaster. *)
LEMMA NewWait ==
    ASSUME Ordered, [Next]_vars, NEW x \in Nodes, NEW y \in waitingParents'[x],
           y \notin waitingParents[x], state'[x] = Pending
    PROVE  x \in pendingChildren'
<1>1. pc = "examine" /\ y = ready.node /\ x \in NotReady /\ state' = state
  BY WaitShape DEF Ordered
<1>2. x \in KidsIn({Pending})
  BY <1>1 DEF KidsIn, NotReady
<1>3. \/ WaitForChildren
      \/ waitingParents' = waitingParents
      \/ \A n \in Nodes : waitingParents'[n] \in {{}, waitingParents[n]}
  <2>1. waitingParents \in [Nodes -> SUBSET Nodes]
    BY DEF Ordered, IInv, WalkInv, WalkShapes
  <2>2. CASE Pick
    BY <2>2 DEF Pick, SkipHandled, Consider, nodeVars
  <2>3. CASE ExamineNode
    BY <2>3 DEF ExamineNode, Examine, SkipChildFailed, WaitForSideEffects, NextTask
  <2>4. CASE NoTask \/ HandleExecuted \/ HandleFailed \/ PostprocessTask
    BY <1>1, <2>4 DEF NoTask, HandleExecuted, HandleFailed, PostprocessTask
  <2>5. CASE SerialExecute
    BY <2>5 DEF SerialExecute, Retrieved
  <2>6. CASE Prepare \/ Dispatch \/ Get \/ Cleanup \/ Signal \/ UNCHANGED vars
    BY <2>6 DEF Prepare, Dispatch, Get, Cleanup, Signal, Stop, vars, tmVars, nodeVars
  <2>7. ASSUME NEW w \in Workers, Work(w)
        PROVE  waitingParents' = waitingParents
    BY <2>7 DEF Work, Take, Retrieve, Retrieved, Built, tmVars, nodeVars
  <2> QED
    BY <2>2, <2>3, <2>4, <2>5, <2>6, <2>7 DEF Next, Main
<1> QED
  BY <1>2, <1>3 DEF WaitForChildren

LEMMA CycleStep ==
    ASSUME Ordered, CycleInv, [Next]_vars
    PROVE  CycleInv'
<1> USE DEF NoState, Pending, Executing, UpToDate, Executed, Failed
<1> SUFFICES ASSUME NEW S \in SUBSET {n \in Nodes : Hung(n)'}, S # {}
             PROVE  \E y \in S : \A x \in S : y \in waitingParents'[x] => x \in pendingChildren'
  BY DEF CycleInv
<1>1. CASE \A n \in S : Hung(n)
  <2>1. PICK y \in S : \A x \in S : y \in waitingParents[x] => x \in pendingChildren
    BY <1>1 DEF CycleInv
  <2>2. ASSUME NEW x \in S, y \in waitingParents'[x]
        PROVE  x \in pendingChildren'
    <3>1. CASE y \in waitingParents[x]
      BY <2>1, <2>2, <3>1, PendingKept DEF Ordered
    <3>2. CASE y \notin waitingParents[x]
      BY <2>2, <3>2, NewWait DEF Hung
    <3> QED
      BY <3>1, <3>2
  <2> QED
    BY <2>2
<1>2. ASSUME NEW n \in S, ~ Hung(n)
      PROVE  \A x \in S : n \notin waitingParents'[x]
  <2> SUFFICES ASSUME NEW x \in S, n \in waitingParents'[x]
               PROVE  FALSE
    OBVIOUS
  <2>1. ~ SideEffect(n) /\ state[n] = NoState /\ Consider(n) /\ waitingParents' = waitingParents
    BY <1>2, NewHung
  <2>2. WaitsFor(n, x)
    BY <2>1, WaitFacts
  <2>3. state[x] = Executed
    BY <2>1, <2>2 DEF WaitsFor
  <2>4. state'[x] = Pending /\ ~ SideEffect(x)
    BY GraphStays DEF Hung
  <2> QED
    BY <2>3, <2>4, OnwardStep DEF Onward
<1> QED
  BY <1>1, <1>2

LEMMA PastStep ==
    ASSUME Ordered, LateInv, Past, [Next]_vars
    PROVE  Past'
  BY MadeStep, CycleStep, ReadyLateStep DEF Past

-----------------------------------------------------------------------------
(* What is on the stack. *)
LEMMA OrderedAll ==
    ASSUME NEW S, IsFiniteSet(S), NEW s \in SetToSeqs(S)
    PROVE  ToSet(s) = S
<1> DEFINE D == 1 .. Cardinality(S)
<1>1. Cardinality(S) \in Nat
  BY FS_CardinalityType
<1>2. s \in [D -> S] /\ \A i, j \in D : i # j => s[i] # s[j]
  BY DEF SetToSeqs
<1>3. IsFiniteSet(D) /\ Cardinality(D) = Cardinality(S)
  <2>1. IsFiniteSet(1 .. Cardinality(S)) /\
        Cardinality(1 .. Cardinality(S)) = IF 1 > Cardinality(S) THEN 0 ELSE Cardinality(S) - 1 + 1
    BY <1>1, FS_Interval
  <2> QED
    BY <1>1, <2>1
<1>4. s \in Injection(D, S)
  BY <1>2 DEF Injection, IsInjective
<1>5. s \in Surjection(D, S)
  <2> HIDE DEF D
  <2> QED
    BY <1>3, <1>4, FS_Injection
<1>6. DOMAIN s = D /\ \A x \in S : \E i \in D : s[i] = x
  BY <1>5 DEF Surjection
<1> HIDE DEF D
<1> QED
  BY <1>2, <1>6 DEF ToSet

LEMMA ReverseAll ==
    ASSUME NEW S, NEW s \in Seq(S)
    PROVE  ToSet(s) \subseteq ToSet(Reverse(s))
<1>1. DOMAIN Reverse(s) = 1 .. Len(s) /\ DOMAIN s = 1 .. Len(s) /\ Len(s) \in Nat
  BY DEF Reverse
<1>2. ASSUME NEW i \in 1 .. Len(s)
      PROVE  \E j \in 1 .. Len(s) : Reverse(s)[j] = s[i]
  <2>1. PICK j \in 1 .. Len(s) : j = (Len(s) - i) + 1
    BY <1>1
  <2>2. Reverse(s)[j] = s[(Len(s) - j) + 1]
    BY DEF Reverse
  <2>3. (Len(s) - j) + 1 = i
    BY <1>1, <2>1
  <2> QED
    BY <2>2, <2>3
<1>3. PICK t : t = Reverse(s)
  OBVIOUS
<1>4. ToSet(s) \subseteq ToSet(t)
  BY <1>1, <1>2, <1>3 DEF ToSet
<1> QED
  BY <1>3, <1>4

LEMMA UnvisitedAll ==
    ASSUME NEW S, ready.kids \in Seq(S), NEW k \in ToSet(ready.kids), state[k] = NoState
    PROVE  k \in ToSet(Unvisited)
<1> DEFINE at == {i \in DOMAIN ready.kids : state[ready.kids[i]] = NoState}
<1>1. at \in SUBSET Nat /\ IsFiniteSet(at)
  <2>1. DOMAIN ready.kids = 1 .. Len(ready.kids) /\ Len(ready.kids) \in Nat
    OBVIOUS
  <2>2. IsFiniteSet(1 .. Len(ready.kids))
    BY <2>1, FS_Interval
  <2> QED
    BY <2>1, <2>2, FS_Subset
<1>2. Unvisited = [j \in 1 .. Cardinality(at) |->
                     ready.kids[CHOOSE i \in at : Rank(at, i) = j - 1]]
  BY DEF Unvisited, Rank
<1>3. PICK i \in at : ready.kids[i] = k
  BY DEF ToSet
<1> HIDE DEF at
<1>4. Rank(at, i) \in 0 .. Cardinality(at) - 1 /\ Cardinality(at) \in Nat
  BY <1>1, <1>3, Ranked
<1>5. PICK j : j = Rank(at, i) + 1
  OBVIOUS
<1>6. j \in 1 .. Cardinality(at) /\ Rank(at, i) = j - 1
  BY <1>4, <1>5
<1>7. PICK c : c = CHOOSE h \in at : Rank(at, h) = j - 1
  OBVIOUS
<1>8. c \in at /\ Rank(at, c) = j - 1
  BY <1>3, <1>6, <1>7
<1>9. c = i
  <2>1. c \in Nat /\ i \in Nat
    BY <1>1, <1>3, <1>8
  <2>2. ~ (c < i) /\ ~ (i < c)
    <3>1. c < i => Rank(at, c) < Rank(at, i)
      BY <1>1, <1>3, <1>8, Ranked
    <3>2. i < c => Rank(at, i) < Rank(at, c)
      BY <1>1, <1>3, <1>8, Ranked
    <3> QED
      BY <1>4, <1>6, <1>8, <3>1, <3>2
  <2> QED
    BY <2>1, <2>2
<1>10. PICK f : f = [h \in 1 .. Cardinality(at) |->
                       ready.kids[CHOOSE m \in at : Rank(at, m) = h - 1]]
  OBVIOUS
<1>11. Unvisited = f
  BY <1>2, <1>10, Zenon
<1>12. DOMAIN f = 1 .. Cardinality(at) /\ f[j] = ready.kids[CHOOSE m \in at : Rank(at, m) = j - 1]
  BY <1>6, <1>10
<1>13. f[j] = k
  BY <1>3, <1>7, <1>9, <1>12
<1>14. k \in ToSet(f)
  BY <1>6, <1>12, <1>13 DEF ToSet
<1> QED
  BY <1>11, <1>14

LEMMA LastOrFront ==
    ASSUME NEW S, NEW s \in Seq(S), s # <<>>, NEW x \in ToSet(s)
    PROVE  x = Last(s) \/ x \in ToSet(Front(s))
<1>1. PICK i \in 1 .. Len(s) : s[i] = x
  BY DEF ToSet
<1>2. CASE i = Len(s)
  BY <1>1, <1>2 DEF Last
<1>3. CASE i # Len(s)
  <2>1. i \in 1 .. Len(s) - 1 /\ Len(s) \in Nat
    BY <1>1, <1>3
  <2>2. Front(s) \in Seq(S) /\ Len(Front(s)) = Len(s) - 1 /\ Front(s)[i] = s[i]
    BY <2>1 DEF Front
  <2> QED
    BY <1>1, <2>1, <2>2 DEF ToSet
<1> QED
  BY <1>2, <1>3

LEMMA HeadOrTail ==
    ASSUME NEW S, NEW s \in Seq(S), s # <<>>, NEW x \in ToSet(s)
    PROVE  x = Head(s) \/ x \in ToSet(Tail(s))
<1>1. PICK i \in 1 .. Len(s) : s[i] = x
  BY DEF ToSet
<1>2. CASE i = 1
  BY <1>1, <1>2
<1>3. CASE i # 1
  <2>1. i - 1 \in 1 .. Len(s) - 1 /\ Len(s) \in Nat
    BY <1>1, <1>3
  <2>2. Tail(s) \in Seq(S) /\ Len(Tail(s)) = Len(s) - 1 /\ Tail(s)[i - 1] = s[i]
    BY <2>1
  <2>3. i - 1 \in DOMAIN Tail(s)
    BY <2>1, <2>2
  <2> QED
    BY <1>1, <2>2, <2>3 DEF ToSet
<1> QED
  BY <1>2, <1>3

(* What is put on the stack after a task. *)
LEMMA PutBack ==
    ASSUME IInv, EffectInv, PostprocessTask
    PROVE  /\ ToSet(candidates) \subseteq ToSet(candidates')
           /\ \A t \in ToSet(task.targets), n \in Nodes : \A s \in ToSet(graph.effects[t]) :
                n \in waitingSE[s] /\ refCount[n] = 0 => n \in ToSet(candidates')
           /\ \A p \in Nodes : refCount[p] > 0 /\ refCount'[p] = 0 => p \in ToSet(candidates')
<1> DEFINE targets == ToSet(task.targets)
           effects == {s \in Effects(task.targets) : state[s] = Executing}
           subtract == [p \in Nodes |->
                          Cardinality({n \in targets \cup effects : p \in waitingParents[n]})]
           unblocked == {w \in targets \X Nodes \X Nodes :
                           /\ w[2] \in ToSet(graph.effects[w[1]])
                           /\ w[3] \in waitingSE[w[2]]
                           /\ refCount[w[3]] = 0}
           released == {p \in Nodes : subtract[p] > 0 /\ refCount[p] = subtract[p]}
<1>1. /\ refCount' = [p \in Nodes |-> refCount[p] - subtract[p]]
      /\ \E u \in SetToSeqs(unblocked), r \in SetToSeqs(released) :
           candidates' = candidates \o [i \in DOMAIN u |-> u[i][3]] \o r
  BY DEF PostprocessTask, Postprocess
<1>2. PICK u \in SetToSeqs(unblocked), r \in SetToSeqs(released) :
        candidates' = candidates \o [i \in DOMAIN u |-> u[i][3]] \o r
  BY <1>1
<1>3. task.targets \in Seq(Nodes) /\ targets \subseteq Nodes /\ effects \subseteq Nodes
  <2>1. task \in Tasks
    BY DEF IInv, WalkInv, WalkShapes
  <2>2. task.targets \in Seq(Nodes)
    BY <2>1 DEF Tasks
  <2> QED
    BY <2>1, <2>2, Elements, EffectsAreSideEffects
<1>4. \A n \in Nodes : ToSet(graph.effects[n]) \subseteq Nodes
  BY GraphFacts, Elements DEF IInv, WalkInv, WalkShapes
<1>5. ASSUME NEW t \in targets, NEW n \in Nodes, NEW s \in ToSet(graph.effects[t]),
             n \in waitingSE[s], refCount[n] = 0
      PROVE  <<t, s, n>> \in unblocked
  <2>1. s \in Nodes
    BY <1>3, <1>4
  <2> QED
    BY <1>5, <2>1
<1>6. ASSUME NEW p \in Nodes, refCount[p] > 0, refCount'[p] = 0
      PROVE  p \in released
  <2>1. IsFiniteSet({n \in targets \cup effects : p \in waitingParents[n]})
    BY <1>3, GraphAssumption, FS_Subset
  <2>2. subtract[p] \in Nat
    BY <2>1, FS_CardinalityType
  <2>3. refCount[p] \in Int /\ refCount[p] - subtract[p] = 0
    BY <1>1, <1>6 DEF IInv, WalkInv, WalkShapes
  <2> HIDE DEF subtract
  <2> QED
    BY <1>6, <2>2, <2>3
<1>7. unblocked \in SUBSET (Nodes \X Nodes \X Nodes) /\ released \in SUBSET Nodes
  BY <1>3
<1> HIDE DEF unblocked, released
<1>8. IsFiniteSet(unblocked) /\ IsFiniteSet(released)
  <2>1. IsFiniteSet(Nodes) /\ IsFiniteSet(Nodes \X Nodes \X Nodes)
    BY GraphAssumption, TriplesFinite
  <2> QED
    BY <1>7, <2>1, FS_Subset
<1>9. /\ u \in Seq(unblocked) /\ r \in Seq(released)
      /\ ToSet(u) = unblocked /\ ToSet(r) = released
  BY <1>8, OrderedWithin, OrderedAll
<1>10. PICK v : v = [i \in DOMAIN u |-> u[i][3]]
  OBVIOUS
<1>11. v \in Seq(Nodes) /\ \A w \in unblocked : w[3] \in ToSet(v)
  <2>1. \A i \in DOMAIN u : u[i] \in unblocked /\ u[i][3] \in Nodes
    BY <1>7, <1>9
  <2>2. v \in [1 .. Len(u) -> Nodes] /\ Len(u) \in Nat
    BY <1>9, <1>10, <2>1
  <2>3. v \in Seq(Nodes)
    BY <2>2
  <2>4. ASSUME NEW w \in unblocked
        PROVE  w[3] \in ToSet(v)
    <3>1. PICK i \in DOMAIN u : u[i] = w
      BY <1>9 DEF ToSet
    <3>2. v[i] = w[3] /\ i \in DOMAIN v
      BY <1>10, <3>1
    <3> QED
      BY <3>2 DEF ToSet
  <2> QED
    BY <2>3, <2>4
<1>12. candidates \in Seq(Nodes) /\ r \in Seq(Nodes)
  BY <1>7, <1>9 DEF EffectInv, WalkPublic, Public
<1>13. ToSet(candidates') = ToSet(candidates) \cup ToSet(v) \cup released
  <2>1. candidates' = (candidates \o v) \o r /\ candidates \o v \in Seq(Nodes)
    BY <1>2, <1>10, <1>11, <1>12
  <2>2. ToSet((candidates \o v) \o r) = ToSet(candidates \o v) \cup ToSet(r)
    BY <1>12, <2>1, ConcatElements
  <2>3. ToSet(candidates \o v) = ToSet(candidates) \cup ToSet(v)
    BY <1>11, <1>12, ConcatElements
  <2> QED
    BY <1>9, <2>1, <2>2, <2>3
<1>14. \A t \in targets, n \in Nodes : \A s \in ToSet(graph.effects[t]) :
         n \in waitingSE[s] /\ refCount[n] = 0 => n \in ToSet(candidates')
  <2> SUFFICES ASSUME NEW t \in targets, NEW n \in Nodes, NEW s \in ToSet(graph.effects[t]),
                      n \in waitingSE[s], refCount[n] = 0
               PROVE  n \in ToSet(candidates')
    OBVIOUS
  <2>1. <<t, s, n>> \in unblocked
    BY <1>5
  <2>2. n \in ToSet(v)
    BY <1>11, <2>1
  <2> QED
    BY <1>13, <2>2
<1> QED
  BY <1>6, <1>13, <1>14

-----------------------------------------------------------------------------
(* What is visited stays so. *)
LEMMA ExamineAdds ==
    ASSUME Ordered, pc = "examine", SkipChildFailed \/ WaitForChildren
    PROVE  /\ ToSet(candidates) \subseteq ToSet(candidates')
           /\ \A k \in ToSet(ready.kids) : state[k] = NoState => k \in ToSet(candidates')
<1>1. ready.kids \in Seq(Nodes) /\ candidates \in Seq(Nodes)
  BY DEF Ordered, IInv, WalkInv, WalkShapes, EffectInv, WalkPublic, Public
<1>2. PICK u : u = Unvisited
  OBVIOUS
<1>3. u \in Seq(Nodes) /\ \A k \in ToSet(ready.kids) : state[k] = NoState => k \in ToSet(u)
  BY <1>1, <1>2, UnvisitedWithin, UnvisitedAll
<1>4. PICK v : v = Reverse(u)
  OBVIOUS
<1>5. v \in Seq(Nodes) /\ ToSet(u) \subseteq ToSet(v)
  BY <1>3, <1>4, ReverseWithin, ReverseAll
<1>6. candidates' = candidates \o v
  BY <1>2, <1>4 DEF SkipChildFailed, WaitForChildren
<1>7. ToSet(candidates') = ToSet(candidates) \cup ToSet(v)
  BY <1>1, <1>5, <1>6, ConcatElements
<1> QED
  BY <1>3, <1>5, <1>7

LEMMA OnStack ==
    ASSUME Ordered, [Next]_vars, ~ stopped, NEW k \in ToSet(candidates)
    PROVE  \/ k \in ToSet(candidates')
           \/ pc = "next" /\ (SkipHandled(k) \/ (Consider(k) /\ pc' = "examine"))
<1>1. candidates \in Seq(Nodes) /\ candidates # <<>>
  BY DEF Ordered, EffectInv, WalkPublic, Public, ToSet
<1>2. CASE Pick
  <2>1. PICK n \in Nodes : SkipHandled(n) \/ (Consider(n) /\ pc' = "examine")
    BY <1>2 DEF Pick
  <2>2. n = Last(candidates) /\ candidates' = Front(candidates)
    BY <1>1, <2>1 DEF SkipHandled, Consider, FindNextCandidate
  <2>3. k = n \/ k \in ToSet(candidates')
    BY <1>1, <2>2, LastOrFront
  <2> QED
    BY <1>2, <2>1, <2>3 DEF Pick
<1>3. CASE NoTask
  BY <1>1, <1>3 DEF NoTask, NoCandidate
<1>4. CASE ExamineNode
  <2>1. pc = "examine" /\ (SkipChildFailed \/ WaitForChildren \/ candidates' = candidates)
    BY <1>4 DEF ExamineNode, Examine, WaitForSideEffects, NextTask, walkVars
  <2> QED
    BY <2>1, ExamineAdds
<1>5. CASE PostprocessTask
  BY <1>5, PutBack DEF Ordered
<1>6. CASE HandleExecuted \/ HandleFailed
  BY <1>6 DEF HandleExecuted, HandleFailed, DoFailed, ExecutedWithCallbacks, FailContinue, walkVars
<1>7. CASE SerialExecute
  BY <1>7 DEF SerialExecute, Retrieved, walkVars
<1>8. CASE Prepare \/ Dispatch \/ Get \/ Cleanup \/ Signal \/ UNCHANGED vars
  BY <1>8 DEF Prepare, Dispatch, Get, Cleanup, Signal, Stop, vars, tmVars, walkVars
<1>9. ASSUME NEW w \in Workers, Work(w)
      PROVE  candidates' = candidates
  BY <1>9 DEF Work, Take, Retrieve, Retrieved, Built, tmVars, walkVars
<1> QED
  BY <1>2, <1>3, <1>4, <1>5, <1>6, <1>7, <1>8, <1>9 DEF Next, Main

LEMMA VisitedStays ==
    ASSUME Ordered, [Next]_vars, ~ stopped, NEW k \in Nodes, ~ SideEffect(k), Visited(k)
    PROVE  Visited(k)'
<1> USE DEF NoState, Pending, Executing, UpToDate, Executed, Failed
<1>1. state \in [Nodes -> NoState .. Failed] /\ state' \in [Nodes -> NoState .. Failed]
  BY StateStep DEF Ordered, IInv, StateShape
<1>2. CASE state[k] # NoState
  BY <1>1, <1>2, OnwardStep DEF Onward, Visited
<1>3. CASE k \in ToSet(candidates) /\ state[k] = NoState
  BY <1>1, <1>3, OnStack DEF SkipHandled, Consider, Visited
<1> QED
  BY <1>2, <1>3 DEF Visited

(* The children of the node that is examined. *)
LEMMA ExamineVisits ==
    ASSUME Ordered, [Next]_vars, ~ stopped, pc = "examine", ready.node \notin graph.broken,
           NEW k \in ToSet(ready.kids)
    PROVE  Visited(k)' \/ (pc' = "examine" /\ ready' = ready)
<1> USE DEF NoState, Pending, Executing, UpToDate, Executed, Failed
<1>1. k \in Nodes /\ ~ SideEffect(k)
  BY ExaminedFacts, KidsFacts DEF Ordered, ReadyInv
<1>2. CASE ExamineNode
  <2>1. CASE SkipChildFailed \/ WaitForChildren
    <3>1. CASE state[k] = NoState
      BY <2>1, <3>1, ExamineAdds DEF Visited
    <3>2. CASE state[k] # NoState
      BY <1>1, <3>2, VisitedStays DEF Visited
    <3> QED
      BY <3>1, <3>2
  <2>2. CASE WaitForSideEffects \/ NextTask
    <3>1. NotReady = {}
      BY <2>2 DEF WaitForSideEffects, NextTask
    <3>2. state[k] # NoState
      BY <3>1 DEF NotReady, KidsIn
    <3> QED
      BY <1>1, <3>2, VisitedStays DEF Visited
  <2> QED
    BY <1>2, <2>1, <2>2 DEF ExamineNode, Examine
<1>3. CASE Main /\ ~ ExamineNode
  BY <1>3 DEF Main, Pick, NoTask, Prepare, Dispatch, SerialExecute, Get, HandleExecuted,
     HandleFailed, PostprocessTask, Cleanup
<1>4. CASE Signal \/ UNCHANGED vars
  BY <1>4 DEF Signal, Stop, vars, tmVars, jobVars
<1>5. ASSUME NEW w \in Workers, Work(w)
      PROVE  UNCHANGED <<pc, ready>>
  BY <1>5 DEF Work, Take, Retrieve, Retrieved, Built, tmVars
<1> QED
  BY <1>2, <1>3, <1>4, <1>5 DEF Next

LEMMA TopsStep ==
    ASSUME Ordered, TopsPlain, TopsInv, ~ stopped, [Next]_vars
    PROVE  TopsInv'
<1> USE DEF NoState, Pending, Executing, UpToDate, Executed, Failed
<1>1. /\ Tops' = Tops /\ Tops \subseteq Nodes
      /\ topLeft \in Seq(Nodes)
      /\ state \in [Nodes -> NoState .. Failed] /\ state' \in [Nodes -> NoState .. Failed]
  BY GraphStays, GraphFacts, Elements, StateStep
     DEF Tops, Ordered, IInv, StateShape, WalkInv, WalkShapes, EffectInv, WalkPublic, Public
<1>2. SUFFICES ASSUME NEW n \in Tops
               PROVE  state'[n] # NoState \/ n \in ToSet(topLeft')
  BY <1>1 DEF TopsInv
<1>3. CASE state[n] # NoState
  BY <1>1, <1>3, OnwardStep DEF Onward, TopsPlain
<1>4. CASE n \in ToSet(topLeft) /\ state[n] = NoState
  <2>1. CASE Pick
    <3>1. PICK m \in Nodes : SkipHandled(m) \/ Consider(m)
      BY <2>1 DEF Pick
    <3>2. /\ \/ topLeft' = topLeft
             \/ topLeft # <<>> /\ m = Head(topLeft) /\ topLeft' = Tail(topLeft)
      BY <3>1 DEF SkipHandled, Consider, FindNextCandidate
    <3>3. n \in ToSet(topLeft') \/ n = m
      BY <1>1, <1>4, <3>2, HeadOrTail
    <3> QED
      BY <1>1, <1>4, <3>1, <3>3 DEF SkipHandled, Consider
  <2>2. CASE NoTask \/ ExamineNode \/ HandleExecuted \/ HandleFailed \/ PostprocessTask \/ SerialExecute
    BY <1>4, <2>2 DEF NoTask, NoCandidate, ExamineNode, Examine, SkipChildFailed, WaitForChildren,
       WaitForSideEffects, NextTask, HandleExecuted, HandleFailed, DoFailed,
       ExecutedWithCallbacks, FailContinue, PostprocessTask, Postprocess, SerialExecute, Retrieved,
       walkVars
  <2>3. CASE Prepare \/ Dispatch \/ Get \/ Cleanup \/ Signal \/ UNCHANGED vars
    BY <1>4, <2>3 DEF Prepare, Dispatch, Get, Cleanup, Signal, Stop, vars, tmVars, walkVars
  <2>4. ASSUME NEW w \in Workers, Work(w)
        PROVE  topLeft' = topLeft
    BY <2>4 DEF Work, Take, Retrieve, Retrieved, Built, tmVars, walkVars
  <2> QED
    BY <1>4, <2>1, <2>2, <2>3, <2>4 DEF Next, Main
<1> QED
  BY <1>2, <1>3, <1>4 DEF TopsInv

LEMMA WaitedStep ==
    ASSUME Ordered, WaitedInv, ~ stopped, [Next]_vars
    PROVE  WaitedInv'
<1> USE DEF NoState, Pending, Executing, UpToDate, Executed, Failed
<1> SUFFICES ASSUME NEW x \in Nodes, NEW p \in waitingParents'[x]
             PROVE  Visited(x)'
  BY DEF WaitedInv
<1>1. CASE p \in waitingParents[x]
  BY <1>1, WaitFacts, VisitedStays DEF WaitedInv
<1>2. CASE pc = "examine" /\ p = ready.node /\ p \notin graph.broken /\ x \in NotReady
  <2>1. x \in ToSet(ready.kids)
    BY <1>2 DEF NotReady, KidsIn
  <2>2. waitingParents' = waitingParents \/ (pc' # "examine" \/ ready' # ready)
    <3>1. CASE ExamineNode
      BY <3>1 DEF ExamineNode
    <3>2. CASE Main /\ ~ ExamineNode
      BY <1>2, <3>2 DEF Main, Pick, NoTask, Prepare, Dispatch, SerialExecute, Get, HandleExecuted,
         HandleFailed, PostprocessTask, Cleanup
    <3>3. CASE Signal \/ UNCHANGED vars
      BY <3>3 DEF Signal, Stop, vars, tmVars, nodeVars
    <3>4. ASSUME NEW w \in Workers, Work(w)
          PROVE  waitingParents' = waitingParents
      BY <3>4 DEF Work, Take, Retrieve, Retrieved, Built, tmVars, nodeVars
    <3> QED
      BY <3>1, <3>2, <3>3, <3>4 DEF Next
  <2> QED
    BY <1>1, <1>2, <2>1, <2>2, ExamineVisits
<1> QED
  BY <1>1, <1>2, WaitShape DEF Ordered

-----------------------------------------------------------------------------
(* The children of what has been looked at. *)
LEMMA NewFound ==
    ASSUME [Next]_vars, NEW n \in Nodes, implicit'[n] = "all", implicit[n] # "all"
    PROVE  \E m \in Nodes : Consider(m) /\ pc = "next" /\ pc' = "examine"
<1>1. ASSUME NEW T, implicit' = Rescanned(T)
      PROVE  FALSE
  BY <1>1 DEF Rescanned
<1>2. CASE Pick
  BY <1>2 DEF Pick, SkipHandled, nodeVars
<1>3. CASE ExamineNode \/ NoTask \/ HandleExecuted \/ HandleFailed \/ PostprocessTask \/ SerialExecute
  BY <1>1, <1>3 DEF ExamineNode, Examine, SkipChildFailed, WaitForChildren, WaitForSideEffects,
     NextTask, NoTask, NoCandidate, HandleExecuted, HandleFailed, DoFailed,
     ExecutedWithCallbacks, FailContinue, PostprocessTask, Postprocess, SerialExecute, Retrieved
<1>4. CASE Prepare \/ Dispatch \/ Get \/ Cleanup \/ Signal \/ UNCHANGED vars
  BY <1>4 DEF Prepare, Dispatch, Get, Cleanup, Signal, Stop, vars, tmVars, nodeVars
<1>5. ASSUME NEW w \in Workers, Work(w)
      PROVE  FALSE
  BY <1>1, <1>5 DEF Work, Take, Retrieve, Retrieved, Built, tmVars, nodeVars
<1> QED
  BY <1>2, <1>3, <1>4, <1>5 DEF Next, Main

LEMMA ConsideredKids ==
    ASSUME Ordered, NEW m \in Nodes, Consider(m), NEW n \in Mates(m),
           NEW k \in KnownKids(n)'
    PROVE  k \in ToSet(ready'.kids) /\ ready'.node \in Mates(n)'
<1>1. /\ ready'.node = m /\ ready'.kids = Children(m, implicit'[m]) /\ implicit' = Scanned(m)
      /\ graph' = graph
  BY DEF Consider
<1>2. graph.kids[m] \in Seq(Nodes) /\ graph.late[m] \in Seq(Nodes)
  BY GraphFacts DEF Ordered, IInv, WalkInv, WalkShapes
<1>3. ToSet(graph.kids[m] \o graph.late[m]) = ToSet(graph.kids[m]) \cup ToSet(graph.late[m])
  BY <1>2, ConcatElements
<1>4. /\ graph.kids[n] = graph.kids[m] /\ graph.late[n] = graph.late[m]
      /\ m \in Mates(n) /\ Scanned(m)[n] = Scanned(m)[m]
  BY ScannedFacts, MatesFacts DEF Ordered
<1>5. m \in Mates(n)'
  BY <1>1, <1>4 DEF Mates
<1>6. CASE implicit'[m] = "all"
  BY <1>1, <1>3, <1>4, <1>5, <1>6 DEF Children, KnownKids
<1>7. CASE implicit'[m] # "all"
  <2>1. Children(m, implicit'[m]) = graph.kids[m]
    <3>1. graph.kids[m] \o <<>> = graph.kids[m]
      BY <1>2
    <3> QED
      BY <1>7, <3>1 DEF Children
  <2> QED
    BY <1>1, <1>4, <1>5, <1>7, <2>1 DEF KnownKids
<1> QED
  BY <1>6, <1>7

LEMMA VisitStep ==
    ASSUME Ordered, ReadyLate, VisitInv, ~ stopped, [Next]_vars
    PROVE  VisitInv'
<1> USE DEF NoState, Pending, Executing, UpToDate, Executed, Failed
<1>1. SUFFICES ASSUME NEW n \in Nodes, n \notin graph.broken, ~ SideEffect(n), Touched(n)',
                      NEW k \in KnownKids(n)'
               PROVE  \/ Visited(k)'
                      \/ pc' = "examine" /\ ready'.node \in Mates(n)' /\ k \in ToSet(ready'.kids)
  BY GraphStays DEF VisitInv
<1>2. graph' = graph /\ Mates(n)' = Mates(n) /\ n \in Mates(n)
  BY GraphStays, MatesFacts DEF Ordered
<1>3. k \in Nodes /\ ~ SideEffect(k)
  BY <1>2, MatesFacts DEF KnownKids, Ordered, Orderly, EffectsUnneeded
<1>4. ASSUME pc = "examine", ready.node \in Mates(n), k \in ToSet(ready.kids)
      PROVE  \/ Visited(k)'
             \/ pc' = "examine" /\ ready'.node \in Mates(n)' /\ k \in ToSet(ready'.kids)
  <2>1. ready.node \notin graph.broken
    BY <1>1, <1>4, MatesFacts DEF Ordered
  <2> QED
    BY <1>2, <1>4, <2>1, ExamineVisits
<1>5. CASE k \in KnownKids(n) /\ Touched(n)
  <2>1. CASE Visited(k)
    BY <1>3, <2>1, VisitedStays
  <2>2. CASE ~ Visited(k)
    BY <1>1, <1>4, <1>5, <2>2 DEF VisitInv
  <2> QED
    BY <2>1, <2>2
<1>6. CASE k \notin KnownKids(n)
  <2>1. implicit'[n] = "all" /\ implicit[n] # "all"
    BY <1>2, <1>6 DEF KnownKids
  <2>2. PICK m \in Nodes : Consider(m) /\ pc' = "examine"
    BY <2>1, NewFound
  <2>3. n \in Mates(m)
    BY <2>1, <2>2, ScannedFacts DEF Consider
  <2> QED
    BY <2>2, <2>3, ConsideredKids
<1>7. CASE k \in KnownKids(n) /\ ~ Touched(n)
  <2>1. PICK t \in Mates(n) : state'[t] # NoState
    BY <1>1, <1>2 DEF Touched
  <2>2. t \in Nodes /\ ~ SideEffect(t) /\ state[t] = NoState /\ n \in Mates(t) /\ Mates(t) = Mates(n)
    BY <1>1, <1>2, <1>7, MatesFacts DEF Touched, Ordered
  <2>3. CASE state'[t] = Pending
    <3>1. Consider(t) /\ pc' = "examine"
      BY <2>2, <2>3, NewHung, GraphStays DEF Hung
    <3> QED
      BY <2>2, <3>1, ConsideredKids
  <2>4. CASE state'[t] # Pending
    <3>1. state'[t] > Pending
      BY <2>1, <2>2, <2>4, StateStep DEF Ordered, IInv, StateShape
    <3>2. ASSUME NEW x \in Nodes, t \in waitingParents[x], state'[x] = Failed
          PROVE  FALSE
      <4>1. ~ SideEffect(x) /\ WaitsFor(t, x)
        BY <3>2, WaitFacts
      <4>2. state[x] = Executed
        BY <2>2, <4>1 DEF WaitsFor
      <4> QED
        BY <3>2, <4>1, <4>2, OnwardStep DEF Onward
    <3>3. ~ (pc = "examine" /\ t \in Mates(ready.node))
      BY <1>7, <2>2, ExaminedFacts, MatesFacts DEF Touched, Ordered
    <3>4. ~ (Raising /\ t \in ToSet(task.targets))
      <4> SUFFICES ASSUME Raising, t \in ToSet(task.targets)
                   PROVE  FALSE
        OBVIOUS
      <4>1. MainThread \in Places /\ TaskAt(MainThread) = task
        BY PlaceFacts DEF Raising, Places, Handling
      <4>2. task.node \in Nodes /\ ToSet(task.targets) = Mates(task.node)
        BY <4>1, TasksAtPlaces DEF Ordered, EffectInv, OutInv, Shaped, Mates, Tasks
      <4>3. task.node \in Mates(n)
        BY <2>2, <4>2, MatesFacts DEF Ordered
      <4> QED
        BY <1>7, <4>3 DEF Touched, Ordered, RaisedInv
    <3> QED
      BY <2>2, <3>1, <3>2, <3>3, <3>4, LeavePending
  <2> QED
    BY <2>3, <2>4
<1> QED
  BY <1>5, <1>6, <1>7

-----------------------------------------------------------------------------
(* A task stays until it has been postprocessed. *)
LEMMA ComingStays ==
    ASSUME Ordered, [Next]_vars, ~ stopped', NEW x, Coming(x)
    PROVE  Coming(x)' \/ (PostprocessTask /\ x \in ToSet(task.targets))
<1>1. ASSUME UNCHANGED poolVars, NEW q \in Flights, x \in TargetsAt(q), q # MainThread
      PROVE  Coming(x)'
  BY <1>1, OthersStay DEF Coming
<1>2. CASE pc = "postprocess" /\ x \in ToSet(task.targets)
  <2>1. CASE Main
    BY <1>2, <2>1 DEF Main, Pick, NoTask, ExamineNode, Prepare, Dispatch, SerialExecute, Get,
       HandleExecuted, HandleFailed, Cleanup
  <2>2. CASE Signal \/ UNCHANGED vars
    BY <1>2, <2>2 DEF Signal, Stop, vars, tmVars, jobVars, Coming
  <2>3. ASSUME NEW w \in Workers, Work(w)
        PROVE  UNCHANGED <<pc, task>>
    BY <2>3 DEF Work, Take, Retrieve, Retrieved, Built, tmVars
  <2> QED
    BY <1>2, <2>1, <2>2, <2>3 DEF Next, Coming
<1>3. SUFFICES ASSUME NEW q \in Flights, x \in TargetsAt(q)
               PROVE  Coming(x)'
  BY <1>2 DEF Coming
<1>4. CASE pc \in {"next", "examine", "cleanup", "postprocess"} /\ UNCHANGED poolVars
  <2>1. MainThread \notin Flights
    BY <1>4, PlacesDiffer DEF Flights, Places, Handling
  <2> QED
    BY <1>1, <1>3, <1>4, <2>1
<1>5. CASE UNCHANGED <<poolVars, task>> /\ (q = MainThread => Handling' /\ (Raising' => Raising))
  <2>1. CASE q = MainThread
    <3>1. MainThread \in Places' /\ TargetsAt(MainThread)' = TargetsAt(MainThread)
      BY <1>5, <2>1, PlaceFacts DEF Places, Handling, TargetsAt
    <3>2. TargetsAt(MainThread)' = ToSet(task'.targets)
      BY PlaceFacts DEF TargetsAt
    <3> QED
      BY <1>3, <1>5, <2>1, <3>1, <3>2 DEF Flights, Coming
  <2> QED
    BY <1>1, <1>3, <1>5, <2>1
<1>6. CASE HandleExecuted \/ HandleFailed
  <2>1. task' = task
    BY <1>6 DEF HandleExecuted, HandleFailed, DoFailed, ExecutedWithCallbacks
  <2> QED
    BY <1>5, <1>6, <2>1, RaisingFacts DEF HandleExecuted, HandleFailed, Handling
<1>7. CASE SerialExecute \/ Prepare
  <2>1. CASE SerialExecute
    BY <1>5, <2>1, SerialShape, NothingRaised DEF SerialExecute, Retrieved, Handling
  <2>2. CASE Prepare
    <3>1. UNCHANGED <<poolVars, task, state>> /\ Handling' /\ pc = "prepare"
      BY <2>2 DEF Prepare, tmVars, nodeVars, Handling
    <3> QED
      BY <1>5, <3>1 DEF Raising
  <2> QED
    BY <1>7, <2>1, <2>2
<1>8. CASE Signal \/ UNCHANGED vars
  <2>1. UNCHANGED <<poolVars, task, pc, state>>
    BY <1>8 DEF Signal, Stop, vars, tmVars, nodeVars, jobVars
  <2>2. q = MainThread => Handling
    BY PlacesDiffer DEF Flights, Places
  <2> QED
    BY <1>5, <2>1, <2>2, RaisingFacts DEF Handling
<1>9. CASE Dispatch \/ Get
  <2>1. Moves
    BY <1>9, DispatchMoves, GetMoves DEF Dispatch, Get, Moves, tmVars, nodeVars, walkVars, Ordered
  <2> QED
    BY <1>3, <2>1, ComingOnMoves
<1>10. ASSUME NEW w \in Workers, Work(w)
       PROVE  Coming(x)'
  <2>1. CASE Take(w)
    <3>1. Moves
      BY <2>1, TakeMoves DEF Take, Moves, tmVars, nodeVars, walkVars, Ordered
    <3> QED
      BY <1>3, <3>1, ComingOnMoves
  <2>2. CASE Built(w)
    <3>1. \E m : Moving(m)
      BY <2>2, AnsweredMoves DEF Built, Workings, Ordered
    <3>2. Moves
      BY <2>2, <3>1 DEF Built, Moves, tmVars, nodeVars, walkVars
    <3> QED
      BY <1>3, <3>2, ComingOnMoves
  <2>3. CASE Retrieve(w)
    <3>1. CASE Answered(w, TRUE) /\ UNCHANGED tmVars
      <4>1. w \in Workings /\ UNCHANGED <<pc, requests>>
        BY <2>3, RetrieveShape
      <4>2. \E m : Moving(m)
        BY <3>1, <4>1, AnsweredMoves DEF Ordered
      <4>3. Moves
        BY <3>1, <4>1, <4>2 DEF Moves, tmVars, nodeVars, walkVars
      <4> QED
        BY <1>3, <4>3, ComingOnMoves
    <3>2. CASE results' = results
      <4>1. Flights' = Flights /\ \A p \in Flights : TaskAt(p)' = TaskAt(p)
        BY <2>3, <3>2, RetrieveStays
      <4> QED
        BY <1>3, <4>1 DEF Coming, TargetsAt
    <3> QED
      BY <2>3, <3>1, <3>2, RetrieveShape
  <2> QED
    BY <1>10, <2>1, <2>2, <2>3 DEF Work
<1> QED
  BY <1>4, <1>6, <1>7, <1>8, <1>9, <1>10
     DEF Next, Main, Pick, NoTask, ExamineNode, PostprocessTask, Cleanup

(* What is executing has a task. *)
LEMMA NewBusy ==
    ASSUME Ordered, [Next]_vars, NEW n \in Nodes, state'[n] = Executing, state[n] # Executing
    PROVE  Busy(n)'
<1> USE DEF NoState, Pending, Executing, UpToDate, Executed, Failed
<1>1. ASSUME NEW T, Retrieved(T)
      PROVE  FALSE
  BY <1>1 DEF Retrieved
<1>2. pc = "examine" /\ NextTask /\ pc' = "prepare"
  <2>1. CASE Pick \/ NoTask \/ PostprocessTask
    <3>1. ~ Pick
      BY DEF Pick, SkipHandled, Consider, nodeVars, Ordered, IInv, StateShape
    <3>2. ~ NoTask
      BY DEF NoTask, NoCandidate, WillNotBuild
    <3>3. ~ PostprocessTask
      BY DEF PostprocessTask, Postprocess
    <3> QED
      BY <2>1, <3>1, <3>2, <3>3
  <2>2. CASE ExamineNode
    BY <2>2 DEF ExamineNode, Examine, SkipChildFailed, WaitForChildren, WaitForSideEffects
  <2>3. CASE HandleExecuted \/ HandleFailed
    BY <2>3 DEF HandleExecuted, HandleFailed, DoFailed, ExecutedWithCallbacks, FailContinue,
       WillNotBuild
  <2>4. CASE SerialExecute
    BY <1>1, <2>4, SerialShape
  <2>5. CASE Prepare \/ Dispatch \/ Get \/ Cleanup \/ Signal \/ UNCHANGED vars
    BY <2>5 DEF Prepare, Dispatch, Get, Cleanup, Signal, Stop, vars, tmVars, nodeVars
  <2>6. ASSUME NEW w \in Workers, Work(w)
        PROVE  FALSE
    <3>1. state' = state \/ \E T : Retrieved(T)
      BY <2>6, RetrieveShape DEF Work, Take, Built, tmVars, nodeVars
    <3> QED
      BY <1>1, <3>1
  <2> QED
    BY <2>1, <2>2, <2>3, <2>4, <2>5, <2>6 DEF Next, Main
<1>3. MakeReady
  BY <1>2, NextTaskFacts DEF Raised
<1>4. HasBuilder(ready.node) /\ (n \in Mates(ready.node) \/ n \in Effects(graph.targets[ready.node]))
  <2>1. PICK outOfDate \in IF HasBuilder(ready.node) THEN BOOLEAN ELSE {FALSE} :
          state' = [m \in Nodes |->
                      IF m \in Mates(ready.node) THEN IF outOfDate THEN Executing ELSE UpToDate
                      ELSE IF outOfDate /\ m \in Effects(graph.targets[ready.node])
                           THEN Executing ELSE state[m]]
    BY <1>3, Zenon DEF MakeReady, Mates
  <2>2. outOfDate
    BY <2>1
  <2>3. HasBuilder(ready.node)
    BY <2>1, <2>2
  <2> QED
    BY <2>1, <2>3
<1>5. /\ TargetsAt(MainThread)' = Mates(ready.node) /\ MainThread \in Flights'
      /\ \A t \in Mates(ready.node) : Coming(t)'
  <2>1. TargetsAt(MainThread)' = Mates(ready.node) /\ MainThread \in Flights'
    BY <1>2, NewTaskFacts
  <2> QED
    BY <2>1 DEF Coming
<1>6. ready.node \in Nodes /\ Mates(ready.node) \subseteq Nodes /\ graph' = graph
      /\ (SideEffect(n)' <=> SideEffect(n))
  BY <1>2, ExaminedFacts, MatesFacts, GraphStays DEF Ordered
<1>7. CASE SideEffect(n)
  <2>1. n \notin Mates(ready.node)
    BY <1>4, <1>6, <1>7, MatesFacts DEF Ordered
  <2>2. PICK t \in Mates(ready.node) : n \in ToSet(graph.effects[t])
    BY <1>4, <2>1 DEF Effects, Mates
  <2> QED
    BY <1>5, <1>6, <1>7, <2>2 DEF Busy
<1>8. CASE ~ SideEffect(n)
  <2>1. n \in Mates(ready.node)
    BY <1>4, <1>6, <1>8 DEF Effects, Mates, SideEffect
  <2> QED
    BY <1>5, <1>6, <1>8, <2>1 DEF Busy
<1> QED
  BY <1>7, <1>8

LEMMA BusyStep ==
    ASSUME Ordered, HandledInv, BusyInv, ~ stopped', [Next]_vars
    PROVE  BusyInv'
<1> USE DEF NoState, Pending, Executing, UpToDate, Executed, Failed
<1>1. SUFFICES ASSUME NEW n \in Nodes, state'[n] = Executing, state[n] = Executing
               PROVE  Busy(n)'
  BY NewBusy DEF BusyInv
<1>2. graph' = graph /\ (SideEffect(n)' <=> SideEffect(n)) /\ ~ stopped
  BY GraphStays, StoppedStays
<1>3. Busy(n)
  BY <1>1 DEF BusyInv
<1>4. CASE SideEffect(n)
  <2>1. PICK t \in Nodes : Coming(t) /\ n \in ToSet(graph.effects[t])
    BY <1>3, <1>4 DEF Busy
  <2>2. ~ (PostprocessTask /\ t \in ToSet(task.targets))
    BY <1>1, <2>1 DEF PostprocessTask, Postprocess, Effects
  <2>3. Coming(t)'
    BY <2>1, <2>2, ComingStays
  <2> QED
    BY <1>2, <1>4, <2>1, <2>3 DEF Busy
<1>5. CASE ~ SideEffect(n)
  <2>1. ~ (PostprocessTask /\ n \in ToSet(task.targets))
    BY <1>1, <1>2, <1>5 DEF PostprocessTask, HandledInv
  <2>2. Coming(n)'
    BY <1>3, <1>5, <2>1, ComingStays DEF Busy
  <2> QED
    BY <1>2, <1>5, <2>2 DEF Busy
<1> QED
  BY <1>4, <1>5

-----------------------------------------------------------------------------
(* Who waits for a child goes on waiting, or is put back on the stack. *)
LEMMA WaitersCounted ==
    ASSUME Ordered, NEW n \in Nodes
    PROVE  refCount[n] \in Nat /\ (WaitersOf(n) = {} <=> refCount[n] = 0)
<1>1. refCount[n] = Cardinality(WaitersOf(n)) /\ IsFiniteSet(WaitersOf(n))
  <2>1. WaitersOf(n) \subseteq Nodes /\ refCount[n] = Cardinality(WaitersOf(n))
    BY DEF Ordered, Orderly, IInv, WalkInv, Waits, WaitCounts, WaitersOf
  <2> QED
    BY <2>1, GraphAssumption, FS_Subset
<1> QED
  BY <1>1, FS_CardinalityType, FS_EmptySet

LEMMA WaitersStay ==
    ASSUME Ordered, Ordered', [Next]_vars, ~ stopped', NEW n \in Nodes, Hung(n)', WaitersOf(n) # {}
    PROVE  WaitersOf(n)' # {} \/ n \in ToSet(candidates')
<1> USE DEF NoState, Pending, Executing, UpToDate, Executed, Failed
<1>1. PICK x \in Nodes : n \in waitingParents[x]
  BY DEF WaitersOf
<1>2. waitingParents \in [Nodes -> SUBSET Nodes] /\ ~ stopped
  BY StoppedStays DEF Ordered, IInv, WalkInv, WalkShapes
<1>3. SUFFICES ASSUME ~ PostprocessTask
               PROVE  n \in waitingParents'[x]
  <2>1. ASSUME WaitersOf(n)' = {}, PostprocessTask
        PROVE  n \in ToSet(candidates')
    <3>1. refCount[n] \in Nat /\ refCount[n] # 0
      BY WaitersCounted
    <3>2. refCount'[n] = Cardinality(WaitersOf(n)')
      BY DEF Ordered, Orderly, IInv, WalkInv, Waits, WaitCounts, WaitersOf
    <3>3. refCount'[n] = 0
      BY <2>1, <3>2, FS_EmptySet
    <3> QED
      BY <2>1, <3>1, <3>3, PutBack DEF Ordered
  <2>2. n \in waitingParents'[x] => WaitersOf(n)' # {}
    BY DEF WaitersOf
  <2> QED
    BY <2>1, <2>2
<1>4. CASE NoTask
  <2>1. ToSet(candidates) = {}
    BY <1>2, <1>4 DEF NoTask, NoCandidate, ToSet
  <2>2. Above({}) = {}
    BY <1>2, AboveFacts
  <2> QED
    BY <1>1, <1>4, <2>1, <2>2 DEF NoTask, NoCandidate, WillNotBuild
<1>5. CASE HandleExecuted \/ HandleFailed
  <2>1. CASE ExecutedWithCallbacks
    BY <1>1, <2>1 DEF ExecutedWithCallbacks
  <2>2. CASE (pc = "failed" \/ (pc = "executed" /\ CannotMake)) /\ FailContinue
    <3> DEFINE T == ToSet(task.targets)
    <3>1. T \subseteq Nodes
      BY <2>2, FailingFacts
    <3>2. n \in Above(T) => state'[n] = Failed
      BY <2>2 DEF FailContinue, WillNotBuild
    <3>3. x \notin Above(T)
      BY <1>1, <1>2, <3>1, <3>2, AboveFacts DEF Hung
    <3> QED
      BY <1>1, <2>2, <3>3 DEF FailContinue, WillNotBuild
  <2> QED
    BY <1>5, <2>1, <2>2 DEF HandleExecuted, HandleFailed, DoFailed
<1>6. CASE ExamineNode
  <2>1. CASE WaitForChildren
    BY <1>1, <1>2, <2>1 DEF WaitForChildren
  <2>2. CASE SkipChildFailed \/ WaitForSideEffects \/ NextTask
    BY <1>1, <2>2 DEF SkipChildFailed, WaitForSideEffects, NextTask
  <2> QED
    BY <1>6, <2>1, <2>2 DEF ExamineNode, Examine
<1>7. CASE Pick \/ Prepare \/ Dispatch \/ SerialExecute \/ Get \/ Cleanup \/ Signal \/ UNCHANGED vars
  BY <1>1, <1>7 DEF Pick, SkipHandled, Consider, Prepare, Dispatch, SerialExecute, Retrieved, Get,
     Cleanup, Signal, Stop, vars, tmVars, nodeVars
<1>8. ASSUME NEW w \in Workers, Work(w)
      PROVE  waitingParents' = waitingParents
  BY <1>8 DEF Work, Take, Retrieve, Retrieved, Built, tmVars, nodeVars
<1> QED
  BY <1>1, <1>3, <1>4, <1>5, <1>6, <1>7, <1>8 DEF Next, Main

LEMMA WaitingSEStays ==
    ASSUME Ordered, [Next]_vars, NEW s \in Nodes, NEW n \in waitingSE[s]
    PROVE  n \in waitingSE'[s]
<1>1. CASE ExamineNode
  <2>1. CASE WaitForSideEffects
    BY <2>1 DEF WaitForSideEffects
  <2>2. CASE SkipChildFailed \/ WaitForChildren \/ NextTask
    BY <2>2 DEF SkipChildFailed, WaitForChildren, NextTask
  <2> QED
    BY <1>1, <2>1, <2>2 DEF ExamineNode, Examine
<1>2. CASE NoTask \/ HandleExecuted \/ HandleFailed \/ PostprocessTask
  BY <1>2 DEF NoTask, NoCandidate, HandleExecuted, HandleFailed, DoFailed, FailContinue,
     ExecutedWithCallbacks, PostprocessTask, Postprocess
<1>3. CASE Pick \/ Prepare \/ Dispatch \/ SerialExecute \/ Get \/ Cleanup \/ Signal \/ UNCHANGED vars
  BY <1>3 DEF Pick, SkipHandled, Consider, Prepare, Dispatch, SerialExecute, Retrieved, Get,
     Cleanup, Signal, Stop, vars, tmVars, nodeVars
<1>4. ASSUME NEW w \in Workers, Work(w)
      PROVE  waitingSE' = waitingSE
  BY <1>4 DEF Work, Take, Retrieve, Retrieved, Built, tmVars, nodeVars
<1> QED
  BY <1>1, <1>2, <1>3, <1>4 DEF Next, Main

LEMMA KidFailedStays ==
    ASSUME Ordered, [Next]_vars, NEW n \in Nodes, KidFailed(n)
    PROVE  KidFailed(n)'
<1>1. PICK x \in KidsOf(n) : state[x] = Failed
  BY DEF KidFailed
<1>2. x \in Nodes /\ ~ SideEffect(x) /\ x \in KidsOf(n)'
  BY KidsFacts, FoundStays
<1> QED
  BY <1>1, <1>2, OnwardStep, GraphStays DEF Onward, KidFailed

LEMMA AwaitsEffectStays ==
    ASSUME Ordered, Ordered', [Next]_vars, ~ stopped', NEW n \in Nodes, Hung(n)',
           NEW t \in Nodes, Coming(t), NEW s \in ToSet(graph.effects[t]), n \in waitingSE'[s],
           n \in waitingSE[s] \/ ~ PostprocessTask
    PROVE  AwaitsEffect(n)' \/ WaitersOf(n)' # {} \/ n \in ToSet(candidates')
<1>1. CASE Coming(t)'
  BY <1>1, GraphStays DEF AwaitsEffect
<1>2. CASE PostprocessTask /\ t \in ToSet(task.targets)
  <2>1. CASE refCount[n] = 0
    BY <1>2, <2>1, PutBack DEF Ordered
  <2>2. CASE refCount[n] # 0
    BY <2>2, WaitersCounted, WaitersStay
  <2> QED
    BY <2>1, <2>2
<1> QED
  BY <1>1, <1>2, ComingStays

(* What is pending. *)
LEMMA PendStep ==
    ASSUME Ordered, Ordered', PendInv, BusyInv, ~ stopped', [Next]_vars
    PROVE  PendInv'
<1> USE DEF NoState, Pending, Executing, UpToDate, Executed, Failed
<1> DEFINE Known(n) == \/ n \in ToSet(candidates)
                       \/ pc = "examine" /\ ready.node = n
                       \/ WaitersOf(n) # {}
                       \/ AwaitsEffect(n)
                       \/ KidFailed(n)
                       \/ Trying(n) \/ Unmade(n)
<1>1. SUFFICES ASSUME NEW n \in Nodes, Hung(n)'
               PROVE  Known(n)'
  BY DEF PendInv
<1>2. ~ stopped /\ graph' = graph
  BY StoppedStays, GraphStays
<1>3. ASSUME Consider(n), pc' = "examine"
      PROVE  Known(n)'
  BY <1>3 DEF Consider
<1>4. CASE ~ Hung(n)
  BY <1>1, <1>3, <1>4, NewHung
<1>5. CASE Hung(n) /\ n \in ToSet(candidates)
  BY <1>2, <1>3, <1>5, OnStack DEF SkipHandled, Hung
<1>6. CASE WaitersOf(n) # {}
  BY <1>1, <1>6, WaitersStay
<1>7. CASE AwaitsEffect(n)
  <2>1. PICK t \in Nodes : Coming(t) /\ \E s \in ToSet(graph.effects[t]) : n \in waitingSE[s]
    BY <1>7 DEF AwaitsEffect
  <2>2. PICK s \in ToSet(graph.effects[t]) : n \in waitingSE[s]
    BY <2>1
  <2>3. s \in Nodes
    BY GraphFacts, Elements DEF Ordered, IInv, WalkInv, WalkShapes
  <2>4. n \in waitingSE'[s]
    BY <2>2, <2>3, WaitingSEStays
  <2> QED
    BY <1>1, <2>1, <2>2, <2>4, AwaitsEffectStays
<1>8. CASE KidFailed(n)
  BY <1>8, KidFailedStays
<1>9. CASE pc = "examine" /\ ready.node = n
  <2>1. CASE ExamineNode
    <3>1. CASE n \notin graph.broken /\ SkipChildFailed
      <4>1. n \in Mates(n)
        BY MatesFacts DEF Ordered
      <4>2. ~ HasBuilder(n)
        BY <1>1, <1>9, <3>1, <4>1 DEF SkipChildFailed, Hung, Mates
      <4>3. PICK x \in ToSet(ready.kids) : state[x] = Failed
        BY <3>1 DEF SkipChildFailed, KidsIn
      <4>4. KidFailed(n)
        BY <1>9, <3>1, <4>3 DEF Ordered, ReadyInv, KidFailed
      <4> QED
        BY <4>4, <1>8
    <3>2. CASE WaitForChildren
      <4>1. PICK x \in NotReady : x \in NotReady
        BY <3>2 DEF WaitForChildren
      <4>2. x \in Nodes
        BY <1>9, <4>1, KidsFacts DEF NotReady, KidsIn, Ordered, ReadyInv
      <4>3. n \in waitingParents'[x]
        BY <1>9, <3>2, <4>1, <4>2 DEF WaitForChildren
      <4> QED
        BY <4>2, <4>3 DEF WaitersOf
    <3>3. CASE WaitForSideEffects
      <4>1. PICK s \in BusyEffects : s \in BusyEffects
        BY <3>3 DEF WaitForSideEffects
      <4>2. PICK m \in Mates(n) : s \in ToSet(graph.effects[m]) /\ state[s] = Executing
        BY <1>9, <4>1 DEF BusyEffects, ActionEffects, Effects, Mates
      <4>3. m \in Nodes /\ s \in Nodes
        BY <4>2, MatesFacts, GraphFacts, Elements DEF Ordered, IInv, WalkInv, WalkShapes
      <4>4. SideEffect(s)
        BY <4>2, <4>3 DEF SideEffect
      <4>5. PICK t \in Nodes : Coming(t) /\ s \in ToSet(graph.effects[t])
        BY <4>2, <4>3, <4>4 DEF BusyInv, Busy
      <4>6. n \in waitingSE'[s]
        BY <1>9, <3>3, <4>1, <4>3 DEF WaitForSideEffects
      <4> QED
        BY <1>1, <1>9, <4>5, <4>6, AwaitsEffectStays DEF PostprocessTask
    <3>4. CASE NextTask
      <4>1. n \in Mates(n)
        BY MatesFacts DEF Ordered
      <4>2. pc' = "prepare"
        BY <2>1, <1>9, <3>4 DEF ExamineNode, Examine, SkipChildFailed, WaitForChildren,
           WaitForSideEffects, NextTask, ReadyInv, Ordered
      <4>3. Raising'
        BY <1>1, <1>9, <3>4, <4>1, <4>2, NewTaskFacts DEF Hung
      <4>4. Trying(n)'
        BY <1>2, <1>9, <3>4, <4>2, <4>3, NewTaskFacts DEF Trying, Raising, Mates
      <4> QED
        BY <4>4
    <3> QED
      BY <1>9, <2>1, <3>1, <3>2, <3>3, <3>4 DEF ExamineNode, Examine
  <2>2. CASE ~ ExamineNode
    <3>1. CASE Main
      BY <1>9, <2>2, <3>1 DEF Main, Pick, NoTask, Prepare, Dispatch, SerialExecute, Get, HandleExecuted,
         HandleFailed, PostprocessTask, Cleanup
    <3>2. CASE Signal \/ UNCHANGED vars
      BY <1>9, <3>2 DEF Signal, Stop, vars, tmVars, jobVars
    <3>3. ASSUME NEW w \in Workers, Work(w)
          PROVE  UNCHANGED <<pc, ready>>
      BY <3>3 DEF Work, Take, Retrieve, Retrieved, Built, tmVars
    <3> QED
      BY <1>9, <2>2, <3>1, <3>2, <3>3 DEF Next
  <2> QED
    BY <2>1, <2>2
<1>10. CASE Trying(n)
  <2>1. MainThread \in Places /\ TaskAt(MainThread) = task
    BY <1>2, <1>10, PlaceFacts DEF Trying, Places, Handling
  <2>2. n \in ToSet(task.targets) /\ ToSet(task.targets) \subseteq Nodes
    <3>1. ToSet(task.targets) = Mates(n)
      BY <1>10, <2>1 DEF Trying, Ordered, EffectInv, OutInv, Shaped, Mates
    <3> QED
      BY <3>1, MatesFacts DEF Ordered
  <2>3. mode' = mode
    BY GraphStays
  <2>4. CASE Prepare
    <3>1. task.broken /\ UNCHANGED <<task, graph>> /\ pc' = "failed"
      BY <1>10, <2>4 DEF Prepare, Trying, Unprepared, tmVars
    <3> QED
      BY <1>10, <3>1 DEF Trying, Mates
  <2>5. CASE HandleFailed
    <3>1. CASE ExecutedWithCallbacks /\ mode = "ignore_errors"
      BY <1>10, <2>3, <2>5, <3>1 DEF HandleFailed, ExecutedWithCallbacks, Trying, Mates
    <3>2. ~ FailContinue
      <4> SUFFICES ASSUME FailContinue
                   PROVE  FALSE
        OBVIOUS
      <4>1. n \in Above(ToSet(task.targets))
        BY <2>2, AboveFacts DEF Ordered, IInv, WalkInv, WalkShapes
      <4>2. state'[n] = Failed
        BY <4>1 DEF FailContinue, WillNotBuild
      <4> QED
        BY <1>1, <4>2 DEF Hung
    <3> QED
      BY <2>5, <3>1, <3>2 DEF HandleFailed, DoFailed
  <2>6. CASE PostprocessTask
    <3>1. mode = "ignore_errors" /\ Unsure(n)
      BY <1>10, <2>6 DEF PostprocessTask, Trying, Unsure, Mates
    <3>2. waitingParents'[n] = {}
      BY <2>2, <2>6 DEF PostprocessTask, Postprocess
    <3> QED
      BY <3>1, <3>2, GraphStays DEF Unmade
  <2>7. CASE UNCHANGED <<pc, task, graph>>
    BY <1>10, <2>3, <2>7 DEF Trying, Mates
  <2>8. ASSUME NEW w \in Workers, Work(w)
        PROVE  UNCHANGED <<pc, task, graph>>
    BY <2>8 DEF Work, Take, Retrieve, Retrieved, Built, tmVars
  <2>9. ~ (Pick \/ NoTask \/ ExamineNode \/ Dispatch \/ SerialExecute \/ Get \/ HandleExecuted
           \/ Cleanup)
    BY <1>10 DEF Trying, Pick, NoTask, ExamineNode, Dispatch, SerialExecute, Get, HandleExecuted,
       Cleanup
  <2>10. CASE Signal \/ UNCHANGED vars
    BY <1>2, <2>7, <2>10 DEF Signal, Stop, vars, tmVars, jobVars
  <2> QED
    BY <2>4, <2>5, <2>6, <2>7, <2>8, <2>9, <2>10 DEF Next, Main
<1>11. CASE Unmade(n)
  <2>1. Unsure(n)'
    BY <1>11, GraphStays DEF Unmade
  <2>2. ASSUME waitingParents'[n] # {}
        PROVE  n \in pendingChildren'
    <3>1. CASE n \in pendingChildren
      BY <2>2, <3>1, PendingKept DEF Ordered
    <3>2. CASE waitingParents[n] = {}
      <4>1. PICK y \in waitingParents'[n] : y \notin waitingParents[n]
        BY <2>2, <3>2
      <4> QED
        BY <1>1, <4>1, NewWait DEF Hung
    <3> QED
      BY <1>11, <3>1, <3>2 DEF Unmade
  <2> QED
    BY <2>1, <2>2 DEF Unmade
<1>12. Hung(n) => Known(n)
  BY DEF PendInv
<1> HIDE DEF Known
<1> QED
  BY <1>4, <1>5, <1>6, <1>7, <1>8, <1>9, <1>10, <1>11, <1>12 DEF Known

-----------------------------------------------------------------------------
(* A build that is not stopped ends when nothing is left to do, and what   *)
(* it reports is what is pending then.                                     *)
LEMMA EndStep ==
    ASSUME Ordered, EndInv, ~ stopped', [Next]_vars
    PROVE  EndInv'
<1>1. ~ stopped
  BY StoppedStays
<1>2. CASE NoTask
  BY <1>1, <1>2 DEF NoTask, NoCandidate, EndInv
<1>3. CASE Cleanup
  <2>1. Reported' = Reported
    BY <1>3 DEF Cleanup, tmVars, nodeVars, walkVars, Reported, OnCycle, Above
  <2> QED
    BY <1>3, <2>1 DEF Cleanup, tmVars, walkVars, EndInv
<1>4. CASE Pick \/ ExamineNode \/ Prepare \/ Dispatch \/ SerialExecute \/ Get \/ HandleExecuted
           \/ HandleFailed \/ PostprocessTask
  <2>1. pc' \notin {"cleanup", "done"}
    BY <1>4 DEF Pick, ExamineNode, Prepare, Dispatch, SerialExecute, Get, HandleExecuted,
       HandleFailed, PostprocessTask
  <2> QED
    BY <2>1 DEF EndInv
<1>5. CASE Signal
  BY <1>5 DEF Signal, Stop
<1>6. CASE UNCHANGED vars
  BY <1>6 DEF vars, tmVars, nodeVars, walkVars, jobVars, EndInv, Reported, OnCycle, Above
<1>7. ASSUME NEW w \in Workers, Work(w)
      PROVE  EndInv'
  <2>1. UNCHANGED <<pc, candidates, topLeft, jobs, reported>>
    BY <1>7 DEF Work, Take, Retrieve, Retrieved, Built, tmVars, walkVars
  <2>2. pc # "done"
    <3>1. jobs = 0 => requests = <<>> /\ Workings = {}
      BY NobodyWorks DEF Ordered
    <3>2. requests # <<>> \/ w \in Workings
      BY <1>7 DEF Work, Take, Retrieve, Built, Workings
    <3> QED
      BY <3>1, <3>2 DEF EndInv
  <2> QED
    BY <2>1, <2>2 DEF EndInv
<1> QED
  BY <1>2, <1>3, <1>4, <1>5, <1>6, <1>7 DEF Next, Main

LEMMA LosslessStep ==
    ASSUME Ordered, Ordered', Complete, TopsPlain, Lossless, [Next]_vars
    PROVE  Lossless'
<1>1. Past'
  BY PastStep DEF Lossless, Complete
<1>2. ASSUME ~ stopped'
      PROVE  Forth'
  <2>1. ~ stopped /\ Past /\ Forth
    BY <1>2, StoppedStays DEF Lossless
  <2>2. TopsInv' /\ VisitInv' /\ WaitedInv'
    BY <2>1, TopsStep, VisitStep, WaitedStep DEF Forth, Past
  <2>3. PendInv' /\ BusyInv' /\ EndInv'
    BY <1>2, <2>1, PendStep, BusyStep, EndStep DEF Forth, Complete
  <2> QED
    BY <2>2, <2>3 DEF Forth
<1> QED
  BY <1>1, <1>2 DEF Lossless

LEMMA InitLossless ==
    ASSUME Init
    PROVE  Lossless
<1>1. /\ state = [n \in Nodes |-> NoState] /\ waitingParents = [n \in Nodes |-> {}]
      /\ pc = "next" /\ topLeft = graph.tops
  BY DEF Init, TMInit
<1>2. \A n \in Nodes : ~ Made(n) /\ ~ Hung(n) /\ state[n] = NoState /\ waitingParents[n] = {}
  BY <1>1 DEF Made, Hung, NoState, Pending, Executing, UpToDate, Executed
<1>3. Past
  BY <1>1, <1>2 DEF Past, MadeInv, CycleInv, ReadyLate
<1>4. Forth
  <2>1. \A n \in Nodes : Mates(n) \subseteq Nodes
    BY MatesFacts, InitIInv
  <2>2. VisitInv
    BY <1>1, <2>1 DEF VisitInv, Touched
  <2> QED
    BY <1>1, <1>2, <2>2 DEF Forth, TopsInv, Tops, WaitedInv, PendInv, BusyInv, EndInv, NoState,
       Executing
<1> QED
  BY <1>3, <1>4 DEF Lossless

(* In such a graph, whose targets of the command line are no side effects, *)
(* whatever is not done has somebody who will get back to it: the stack, a *)
(* child, a task that is out, or, for a cycle, the report (the steps of    *)
(* _find_next_ready_node and postprocess).  What make_ready could not do   *)
(* has its task until it is postprocessed; after that, if errors are       *)
(* ignored, nobody (Abandoned).                                            *)
THEOREM AlwaysLossless == Spec /\ Orderly /\ TopsPlain => [](TopsPlain /\ Lossless)
<1>1. Init => Lossless
  BY InitLossless
<1>2. TopsPlain /\ [Next]_vars => TopsPlain'
  BY GraphStays DEF TopsPlain, Tops
<1>3. Ordered /\ Ordered' /\ Complete /\ TopsPlain /\ Lossless /\ [Next]_vars => Lossless'
  BY LosslessStep
<1> QED
  BY <1>1, <1>2, <1>3, AlwaysOrdered, AlwaysComplete, PTL DEF Spec

(* So a build that was not stopped has made everything needed when it      *)
(* ends, but what is above a failure or a cycle, and reports a cycle if    *)
(* nothing failed (NoTask and cleanup); or, if errors are ignored, but     *)
(* what is above a node that could not be made ready, and reports          *)
(* something if more than such nodes is missing.                           *)
THEOREM NothingEverLost == Spec /\ Orderly /\ TopsPlain => []NothingLost
<1>1. Ordered /\ TopsPlain /\ Lossless => NothingLost
  BY NothingLostAtEnd
<1> QED
  BY <1>1, AlwaysOrdered, AlwaysLossless, PTL
=============================================================================

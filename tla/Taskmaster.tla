----------------------------- MODULE Taskmaster -----------------------------
(***************************************************************************)
(* The part of SCons that walks the dependency graph (Taskmaster.py) and   *)
(* what it keeps at the nodes (Node/__init__.py).  A node that is not      *)
(* ready is put into the waiting_parents of each child it waits for and    *)
(* counts them in ref_count; who finishes a child counts down and puts the *)
(* node back on the stack of candidates when nothing is left to wait for.  *)
(*                                                                         *)
(* These are the operations; module Jobs calls them, with its main thread, *)
(* its workers and its signal handler.  A graph, the mode and the number   *)
(* of jobs are chosen at the start and stay.                               *)
(***************************************************************************)
EXTENDS Integers, Sequences, FiniteSets, SequencesExt

CONSTANTS
  Nodes,     \* the files of a build
  Graphs     \* the dependency graphs to look at

(***************************************************************************)
(* A graph has for every node: the executor's targets (nodes that one      *)
(* action builds share them), its children in the order of                 *)
(* get_all_prerequisites and get_all_children, children that scanning      *)
(* finds only once this build has made the nodes in "generated" (one that  *)
(* is up to date is there to be scanned from the start), and its side      *)
(* effects; then the nodes that have no builder, the ones among them that  *)
(* do not exist, the ones whose children cannot be determined, the ones    *)
(* that may turn out to be unreadable when it is looked at whether they    *)
(* are up to date, the ones that a cache directory holds, and the targets  *)
(* of the command line.                                                    *)
(*                                                                         *)
(* The targets of an executor have it in common, and their children, which *)
(* are those of all of them; a node with no builder has an executor of its *)
(* own.  What scanning reads is a child.  SideEffect() refuses a side      *)
(* effect that has a builder, and makes the targets it is a side effect of *)
(* its sources (Environment.py, 2040-2054).                                *)
(***************************************************************************)
GraphOver(N) ==
  [kids : [N -> Seq(N)], late : [N -> Seq(N)], generated : [N -> SUBSET N],
   targets : [N -> Seq(N)], effects : [N -> Seq(N)],
   plain : SUBSET N, missing : SUBSET N, broken : SUBSET N, unready : SUBSET N,
   cached : SUBSET N, tops : Seq(N)]

ASSUME GraphAssumption ==
  /\ IsFiniteSet(Nodes)
  /\ \A g \in Graphs : /\ g \in GraphOver(Nodes)
                       /\ g.tops # <<>>
                       /\ \A n \in Nodes : n \in ToSet(g.targets[n])
                       /\ \A n \in Nodes : \A t \in ToSet(g.targets[n]) :
                            /\ g.targets[t] = g.targets[n]
                            /\ g.kids[t] = g.kids[n] /\ g.late[t] = g.late[n]
                            /\ g.generated[t] = g.generated[n]
                            /\ t \in g.broken <=> n \in g.broken
                       /\ \A n \in Nodes : g.generated[n] \subseteq ToSet(g.kids[n])
                       /\ \A n \in g.plain : g.targets[n] = <<n>>
                       /\ \A n \in Nodes : \A s \in ToSet(g.effects[n]) :
                            s \in g.plain /\ n \in ToSet(g.kids[s])

NoState == 0     Pending == 1     Executing == 2
UpToDate == 3    Executed == 4    Failed == 5

VARIABLES
  graph, mode,      \* what is built; "stop", "keep_going" or "ignore_errors"
  state, waitingParents, waitingSE, refCount, implicit,       \* of each node
  candidates, topLeft, currentTop, pendingChildren, stopped,  \* Taskmaster
  ready,            \* the node under consideration and its children
  task              \* the task that the main thread handles

nodeVars == <<state, waitingParents, waitingSE, refCount, implicit>>
walkVars == <<candidates, topLeft, currentTop, pendingChildren, stopped>>
tmVars == <<graph, mode, nodeVars, walkVars, ready, task>>

Modes == {"stop", "keep_going", "ignore_errors"}
None == [node |-> CHOOSE n \in Nodes : TRUE, kids |-> <<>>]
TaskOf(n) == [targets |-> graph.targets[n], node |-> n,
              top |-> n \in ToSet(graph.tops), broken |-> FALSE]

TMInit ==
  /\ graph \in Graphs
  /\ mode \in Modes
  /\ state = [n \in Nodes |-> NoState]
  /\ waitingParents = [n \in Nodes |-> {}]
  /\ waitingSE = [n \in Nodes |-> {}]
  /\ refCount = [n \in Nodes |-> 0]
  /\ implicit = [n \in Nodes |-> "unscanned"]
  /\ candidates = <<>>
  /\ topLeft = graph.tops
  /\ currentTop = Head(graph.tops)
  /\ pendingChildren = {}
  /\ stopped = FALSE
  /\ ready = None
  /\ task = TaskOf(Head(graph.tops))

HasBuilder(n) == n \notin graph.plain
Done(n) == state[n] \in {UpToDate, Executed}
SideEffect(n) == \E t \in Nodes : n \in ToSet(graph.effects[t])
Effects(targets) == UNION {ToSet(graph.effects[t]) : t \in ToSet(targets)}

-----------------------------------------------------------------------------
(* What scanning finds now, and what it leaves at the executor's targets:  *)
(* a target that has been scanned keeps its dependencies, and whatever is  *)
(* found for one is added to all.  A node with no builder finds nothing.   *)
FoundNow(n) ==
  IF HasBuilder(n) /\ \A g \in graph.generated[n] : state[g] = Executed THEN "all" ELSE "explicit"

Scanned(n) ==
  LET group == ToSet(graph.targets[n])
      all == \E t \in group : \/ implicit[t] = "all"
                              \/ (implicit[t] = "unscanned" /\ FoundNow(t) = "all")
  IN  [t \in Nodes |-> IF t \in group THEN IF all THEN "all" ELSE "explicit"
                       ELSE implicit[t]]

Children(n, found) ==
  graph.kids[n] \o IF found = "all" THEN graph.late[n] ELSE <<>>

(* Mutant of Rescanned: implicit dependencies are kept. *)
RescannedNever(targets) == implicit

(* built() of a node that has been built: who waits for it scans again. *)
Rescanned(targets) ==
  [n \in Nodes |-> IF \E t \in targets : n \in waitingParents[t]
                   THEN "unscanned" ELSE implicit[n]]

-----------------------------------------------------------------------------
(* will_not_build visits nodes and everything that waits for them, however *)
(* indirectly: the least set that has the nodes, and of each of its        *)
(* members the waiting parents.  Each forgets these, which count down.     *)
Above(nodes) ==
  LET Closed(S) == nodes \subseteq S /\ \A n \in S : waitingParents[n] \subseteq S
  IN  {n \in Nodes : \A S \in SUBSET Nodes : Closed(S) => n \in S}

(* Mutant of WillNotBuild: the waiting parents are not forgotten. *)
WillNotBuildKeeping(nodes, newState) ==
  LET visited == Above(nodes)
  IN  /\ state' = [n \in Nodes |-> IF n \in visited THEN newState[n] ELSE state[n]]
      /\ refCount' = [p \in Nodes |-> refCount[p]
                        - Cardinality({n \in visited : p \in waitingParents[n]})]
      /\ pendingChildren' = pendingChildren \ visited
      /\ UNCHANGED waitingParents

WillNotBuild(nodes, newState) ==
  LET visited == Above(nodes)
  IN  /\ state' = [n \in Nodes |-> IF n \in visited THEN newState[n] ELSE state[n]]
      /\ waitingParents' = [n \in Nodes |-> IF n \in visited THEN {} ELSE waitingParents[n]]
      /\ refCount' = [p \in Nodes |-> refCount[p]
                        - Cardinality({n \in visited : p \in waitingParents[n]})]
      /\ pendingChildren' = pendingChildren \ visited

(***************************************************************************)
(* _find_next_ready_node, one pass of its loop: pop a candidate and look   *)
(* at its own state (Consider) and then at its children's (Wait.., Ready). *)
(***************************************************************************)
FindNextCandidate(n) ==
  \/ /\ candidates # <<>>
     /\ n = Last(candidates)
     /\ candidates' = Front(candidates)
     /\ UNCHANGED <<topLeft, currentTop>>
  \/ /\ candidates = <<>>
     /\ topLeft # <<>>
     /\ n = Head(topLeft)
     /\ topLeft' = Tail(topLeft)
     /\ currentTop' = n
     /\ UNCHANGED candidates

SkipHandled(n) ==
  /\ FindNextCandidate(n)
  /\ state[n] > Pending
  /\ UNCHANGED <<graph, mode, nodeVars, pendingChildren, stopped, ready, task>>

(* Mutant of Consider: a node that has been handled is considered again. *)
ConsiderAgain(n) ==
  /\ FindNextCandidate(n)
  /\ state' = [state EXCEPT ![n] = Pending]
  /\ implicit' = Scanned(n)
  /\ ready' = [node |-> n, kids |-> Children(n, implicit'[n])]
  /\ UNCHANGED <<graph, mode, waitingParents, waitingSE, refCount, pendingChildren,
                 stopped, task>>

Consider(n) ==
  /\ FindNextCandidate(n)
  /\ state[n] <= Pending
  /\ state' = [state EXCEPT ![n] = Pending]
  /\ implicit' = Scanned(n)
  /\ ready' = [node |-> n, kids |-> Children(n, implicit'[n])]
  /\ UNCHANGED <<graph, mode, waitingParents, waitingSE, refCount, pendingChildren,
                 stopped, task>>

NoCandidate ==
  /\ stopped \/ (candidates = <<>> /\ topLeft = <<>>)
  /\ WillNotBuild(ToSet(candidates), state)
  /\ candidates' = <<>>
  /\ UNCHANGED <<graph, mode, waitingSE, implicit, topLeft, currentTop, stopped, ready, task>>

KidsIn(states) == {k \in ToSet(ready.kids) : state[k] \in states}
NotReady == KidsIn({NoState, Pending, Executing})
Unvisited ==
  LET at == {i \in DOMAIN ready.kids : state[ready.kids[i]] = NoState}
  IN  [k \in 1..Cardinality(at) |->
         ready.kids[CHOOSE i \in at : Cardinality({j \in at : j < i}) = k - 1]]

(* The node's action targets fail with its child; a node with no action is *)
(* left as it is.                                                          *)
SkipChildFailed ==
  /\ KidsIn({Failed}) # {}
  /\ candidates' = candidates \o Reverse(Unvisited)
  /\ state' = [n \in Nodes |->
                 IF HasBuilder(ready.node) /\ n \in ToSet(graph.targets[ready.node])
                 THEN Failed ELSE state[n]]
  /\ UNCHANGED <<graph, mode, waitingParents, waitingSE, refCount, implicit, topLeft,
                 currentTop, pendingChildren, stopped, ready, task>>

(* Mutant of WaitForChildren: a child that is waited for counts again. *)
WaitForChildrenAgain ==
  /\ KidsIn({Failed}) = {}
  /\ NotReady # {}
  /\ candidates' = candidates \o Reverse(Unvisited)
  /\ waitingParents' = [n \in Nodes |-> IF n \in NotReady THEN waitingParents[n] \cup {ready.node}
                                        ELSE waitingParents[n]]
  /\ refCount' = [refCount EXCEPT ![ready.node] = @ + Cardinality(NotReady)]
  /\ pendingChildren' = pendingChildren \cup KidsIn({Pending})
  /\ UNCHANGED <<graph, mode, state, waitingSE, implicit, topLeft, currentTop, stopped,
                 ready, task>>

WaitForChildren ==
  /\ KidsIn({Failed}) = {}
  /\ NotReady # {}
  /\ candidates' = candidates \o Reverse(Unvisited)
  /\ waitingParents' = [n \in Nodes |-> IF n \in NotReady THEN waitingParents[n] \cup {ready.node}
                                        ELSE waitingParents[n]]
  /\ refCount' = [refCount EXCEPT ![ready.node] =
                    @ + Cardinality({k \in NotReady : ready.node \notin waitingParents[k]})]
  /\ pendingChildren' = pendingChildren \cup KidsIn({Pending})
  /\ UNCHANGED <<graph, mode, state, waitingSE, implicit, topLeft, currentTop, stopped,
                 ready, task>>

ActionEffects ==
  IF HasBuilder(ready.node) THEN Effects(graph.targets[ready.node]) ELSE {}
(* Mutant of BusyEffects: a side effect that is being made is not seen. *)
BusyEffectsPending == {s \in ActionEffects : state[s] = Pending}

BusyEffects == {s \in ActionEffects : state[s] = Executing}

(* Mutant of WaitForSideEffects: the node is skipped and nobody knows. *)
WaitForSideEffectsUnknown ==
  /\ KidsIn({Failed}) \cup NotReady = {}
  /\ BusyEffects # {}
  /\ UNCHANGED tmVars

WaitForSideEffects ==
  /\ KidsIn({Failed}) \cup NotReady = {}
  /\ BusyEffects # {}
  /\ waitingSE' = [n \in Nodes |-> IF n \in BusyEffects THEN waitingSE[n] \cup {ready.node}
                                   ELSE waitingSE[n]]
  /\ UNCHANGED <<graph, mode, state, waitingParents, refCount, implicit, walkVars, ready, task>>

(* make_ready: everything is to be executed unless all targets are up to   *)
(* date; a node with no builder always is.                                 *)
MakeReady ==
  \E outOfDate \in IF HasBuilder(ready.node) THEN BOOLEAN ELSE {FALSE} :
    state' = [n \in Nodes |->
                IF n \in ToSet(graph.targets[ready.node])
                THEN IF outOfDate THEN Executing ELSE UpToDate
                ELSE IF outOfDate /\ n \in Effects(graph.targets[ready.node])
                     THEN Executing ELSE state[n]]

(* make_ready raises an error that one of the targets gives rise to, and   *)
(* leaves them all, and their side effects, as they were.  (visited() may  *)
(* raise when some of several targets have been marked as up to date; it   *)
(* is taken to raise before any has.)                                      *)
Raised ==
  /\ ToSet(graph.targets[ready.node]) \cap graph.unready # {}
  /\ UNCHANGED state

(* An error while the children are being determined makes a task of the    *)
(* node at once.  That error, or one of make_ready, is raised when the     *)
(* task is prepared.                                                       *)
NextTask ==
  LET broken == ready.node \in graph.broken
  IN  /\ broken \/ KidsIn({Failed}) \cup NotReady \cup BusyEffects = {}
      /\ \/ MakeReady /\ task' = [TaskOf(ready.node) EXCEPT !.broken = broken]
         \/ Raised /\ task' = [TaskOf(ready.node) EXCEPT !.broken = TRUE]
      /\ UNCHANGED <<graph, mode, waitingParents, waitingSE, refCount, implicit, walkVars, ready>>

Examine == ready.node \notin graph.broken /\ (SkipChildFailed \/ WaitForChildren \/ WaitForSideEffects)

-----------------------------------------------------------------------------
(* Task.prepare raises what was recorded, or that a child is missing, of   *)
(* those that scanning has found included.                                 *)
Missing(n) == n \in graph.missing /\ ~HasBuilder(n) /\ ~SideEffect(n)
Unprepared ==
  \/ task.broken
  \/ /\ HasBuilder(task.node)
     /\ \E t \in ToSet(task.targets) : \E k \in ToSet(Children(t, implicit[t])) : Missing(k)

NeedsExecute == state[Head(task.targets)] = Executing

(* executed() of a target of the command line that nothing can make. *)
CannotMake == task.top /\ Missing(Head(task.targets))

ExecutedWithCallbacks ==
  LET finished == {t \in ToSet(task.targets) : state[t] = Executing}
  IN  /\ state' = [n \in Nodes |->
                     IF n \in finished THEN Executed
                     ELSE IF \E t \in finished : n \in ToSet(graph.effects[t]) THEN NoState
                     ELSE state[n]]
      /\ implicit' = Rescanned(finished)
      /\ UNCHANGED <<graph, mode, waitingParents, waitingSE, refCount, walkVars, ready, task>>

(* do_failed: ignore the error, keep going, or stop.  Who stops hands over *)
(* the current target of the command line for postprocessing.              *)
FailContinue ==
  /\ WillNotBuild(ToSet(task.targets), [n \in Nodes |-> Failed])
  /\ UNCHANGED <<graph, mode, waitingSE, implicit, candidates, topLeft, currentTop, ready>>

DoFailed ==
  \/ /\ mode = "ignore_errors"
     /\ ExecutedWithCallbacks
  \/ /\ mode = "keep_going"
     /\ FailContinue
     /\ UNCHANGED <<stopped, task>>
  \/ /\ mode = "stop"
     /\ FailContinue
     /\ stopped' = TRUE
     /\ task' = [task EXCEPT !.targets = <<currentTop>>, !.top = TRUE]

-----------------------------------------------------------------------------
(* Task.postprocess: whoever waited for the targets counts down, and is a  *)
(* candidate again when it has nothing left to wait for; so is whoever     *)
(* waited for a side effect.  The order among them is that of a set.       *)
Postprocess ==
  LET targets == ToSet(task.targets)
      effects == {s \in Effects(task.targets) : state[s] = Executing}
      subtract == [p \in Nodes |-> Cardinality({n \in targets \cup effects : p \in waitingParents[n]})]
      unblocked == {w \in targets \X Nodes \X Nodes :
                      /\ w[2] \in ToSet(graph.effects[w[1]])
                      /\ w[3] \in waitingSE[w[2]]
                      /\ refCount[w[3]] = 0}
      released == {p \in Nodes : subtract[p] > 0 /\ refCount[p] = subtract[p]}
  IN  /\ \E u \in SetToSeqs(unblocked), r \in SetToSeqs(released) :
           candidates' = candidates \o [i \in DOMAIN u |-> u[i][3]] \o r
      /\ state' = [n \in Nodes |-> IF n \in effects THEN NoState ELSE state[n]]
      /\ refCount' = [p \in Nodes |-> refCount[p] - subtract[p]]
      /\ pendingChildren' = pendingChildren \ {t \in targets : waitingParents[t] # {}}
      /\ waitingParents' = [n \in Nodes |-> IF n \in targets THEN {} ELSE waitingParents[n]]
      /\ UNCHANGED <<graph, mode, waitingSE, implicit, topLeft, currentTop, stopped, ready, task>>

(* stop(), called by the signal handler too. *)
Stop ==
  /\ stopped' = TRUE
  /\ UNCHANGED <<graph, mode, nodeVars, candidates, topLeft, currentTop, pendingChildren,
                 ready, task>>

(* cleanup() reports a pending child that waits for itself, or that was    *)
(* not executed.                                                           *)
OnCycle(n) == n \in Above(waitingParents[n])
Reported == {n \in pendingChildren : OnCycle(n) \/ state[n] # Executed}
=============================================================================

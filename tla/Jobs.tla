-------------------------------- MODULE Jobs --------------------------------
(***************************************************************************)
(* SCons builds (Job.py): the main thread asks the taskmaster for tasks,   *)
(* hands them to worker threads, and handles what comes back.  With one    *)
(* job (class Serial) the main thread executes the tasks itself.  A signal *)
(* stops the taskmaster at any moment.                                     *)
(***************************************************************************)
EXTENDS Taskmaster

CONSTANTS
  Workers,     \* the worker threads
  JobCounts    \* the numbers of jobs (-j) to look at

ASSUME JobAssumption == IsFiniteSet(Workers) /\ JobCounts \subseteq 1..Cardinality(Workers)

VARIABLES
  num, pc, jobs,       \* jobs allowed; the main thread, and its count of jobs out
  filling,             \* it hands out tasks (and is not handling results)
  requests, results,   \* the two queues of the thread pool
  working,             \* what each worker does
  interrupted, reported

poolVars == <<requests, results, working>>
jobVars == <<num, pc, jobs, filling, poolVars, interrupted, reported>>
vars == <<tmVars, jobVars>>

Idle == [stage |-> "idle"]

Init ==
  /\ TMInit
  /\ num \in JobCounts
  /\ pc = "next"
  /\ jobs = 0
  /\ filling = TRUE
  /\ requests = <<>>
  /\ results = <<>>
  /\ working = [w \in Workers |-> Idle]
  /\ interrupted = FALSE
  /\ reported = {}

-----------------------------------------------------------------------------
(* The main thread.  The inner loop of start() hands out tasks. *)
Pick ==
  /\ pc = "next" /\ jobs < num
  /\ ~stopped
  /\ \E n \in Nodes : \/ SkipHandled(n) /\ pc' = "next"
                      \/ Consider(n) /\ pc' = "examine"
  /\ UNCHANGED <<num, jobs, filling, poolVars, interrupted, reported>>

NoTask ==
  /\ pc = "next" /\ jobs < num
  /\ NoCandidate
  /\ pc' = IF jobs = 0 THEN "cleanup" ELSE "get"
  /\ UNCHANGED <<num, jobs, filling, poolVars, interrupted, reported>>

ExamineNode ==
  /\ pc = "examine"
  /\ \/ Examine /\ pc' = "next"
     \/ NextTask /\ pc' = "prepare"
  /\ UNCHANGED <<num, jobs, filling, poolVars, interrupted, reported>>

(* Removing the old files, or making their directory, may fail. *)
Prepare ==
  /\ pc = "prepare"
  /\ \/ (Unprepared \/ NeedsExecute) /\ pc' = "failed"
     \/ ~Unprepared /\ pc' = IF NeedsExecute THEN "execute" ELSE "executed"
  /\ UNCHANGED <<tmVars, num, jobs, filling, poolVars, interrupted, reported>>

Dispatch ==
  /\ pc = "execute" /\ num > 1
  /\ requests' = Append(requests, task)
  /\ jobs' = jobs + 1
  /\ pc' = IF jobs' < num THEN "next" ELSE "get"
  /\ UNCHANGED <<tmVars, num, filling, results, working, interrupted, reported>>

HandleExecuted ==
  /\ pc = "executed"
  /\ IF CannotMake THEN DoFailed ELSE ExecutedWithCallbacks
  /\ pc' = "postprocess"
  /\ UNCHANGED <<num, jobs, filling, poolVars, interrupted, reported>>

HandleFailed ==
  /\ pc = "failed"
  /\ DoFailed
  /\ pc' = "postprocess"
  /\ UNCHANGED <<num, jobs, filling, poolVars, interrupted, reported>>

(* Mutant of PostprocessTask: results are waited for when none is there. *)
PostprocessTaskWaiting ==
  /\ pc = "postprocess"
  /\ Postprocess
  /\ filling' = filling
  /\ pc' = IF filling' THEN "next" ELSE "get"
  /\ UNCHANGED <<num, jobs, poolVars, interrupted, reported>>

PostprocessTask ==
  /\ pc = "postprocess"
  /\ Postprocess
  /\ filling' = (filling \/ results = <<>>)
  /\ pc' = IF filling' THEN "next" ELSE "get"
  /\ UNCHANGED <<num, jobs, poolVars, interrupted, reported>>

(* Mutant of Get: what comes back is not counted. *)
GetUncounted ==
  /\ pc = "get"
  /\ results # <<>>
  /\ results' = Tail(results)
  /\ task' = Head(results).task
  /\ filling' = FALSE
  /\ pc' = IF Head(results).ok THEN "executed" ELSE "failed"
  /\ UNCHANGED <<graph, mode, nodeVars, walkVars, ready, num, jobs, requests, working,
                 interrupted, reported>>

Get ==
  /\ pc = "get"
  /\ results # <<>>
  /\ results' = Tail(results)
  /\ task' = Head(results).task
  /\ jobs' = jobs - 1
  /\ filling' = FALSE
  /\ pc' = IF Head(results).ok THEN "executed" ELSE "failed"
  /\ UNCHANGED <<graph, mode, nodeVars, walkVars, ready, num, requests, working, interrupted,
                 reported>>

Cleanup ==
  /\ pc = "cleanup"
  /\ reported' = Reported
  /\ pc' = "done"
  /\ UNCHANGED <<tmVars, num, jobs, filling, poolVars, interrupted>>

-----------------------------------------------------------------------------
(* Task.execute takes each target from the cache as long as it is there,   *)
(* and marks it executed at once; if one is not there, it builds them all. *)
Retrieved(targets) ==
  /\ state' = [n \in Nodes |-> IF n \in targets THEN Executed ELSE state[n]]
  /\ implicit' = Rescanned(targets)
  /\ UNCHANGED <<graph, mode, waitingParents, waitingSE, refCount, walkVars, ready, task>>

CachedPrefix(targets) ==
  CHOOSE k \in 0..Len(targets) :
    /\ \A i \in 1..k : targets[i] \in graph.cached
    /\ k < Len(targets) => targets[k + 1] \notin graph.cached

SerialExecute ==
  /\ pc = "execute" /\ num = 1
  /\ LET k == CachedPrefix(task.targets)
     IN  /\ Retrieved(ToSet(SubSeq(task.targets, 1, k)))
         /\ \/ pc' = "executed"
            \/ k < Len(task.targets) /\ pc' = "failed"
  /\ UNCHANGED <<num, jobs, filling, poolVars, interrupted, reported>>

Answered(w, ok) ==
  /\ results' = Append(results, [task |-> working[w].task, ok |-> ok])
  /\ working' = [working EXCEPT ![w] = Idle]

(* A worker takes a task; after a signal it only answers that it failed. *)
Take(w) ==
  /\ working[w] = Idle
  /\ requests # <<>>
  /\ requests' = Tail(requests)
  /\ IF interrupted
     THEN /\ results' = Append(results, [task |-> Head(requests), ok |-> FALSE])
          /\ UNCHANGED working
     ELSE /\ working' = [working EXCEPT ![w] =
                           [stage |-> "retrieving", task |-> Head(requests), done |-> 0]]
          /\ UNCHANGED results
  /\ UNCHANGED <<tmVars, num, pc, jobs, filling, interrupted, reported>>

Retrieve(w) ==
  /\ working[w].stage = "retrieving"
  /\ LET targets == working[w].task.targets
         k == working[w].done + 1
     IN  IF k > Len(targets)
         THEN /\ Answered(w, TRUE)
              /\ UNCHANGED tmVars
         ELSE IF targets[k] \in graph.cached
         THEN /\ Retrieved({targets[k]})
              /\ working' = [working EXCEPT ![w].done = k]
              /\ UNCHANGED results
         ELSE /\ working' = [working EXCEPT ![w].stage = "building"]
              /\ UNCHANGED <<tmVars, results>>
  /\ UNCHANGED <<num, pc, jobs, filling, requests, interrupted, reported>>

Built(w) ==
  /\ working[w].stage = "building"
  /\ \E ok \in BOOLEAN : Answered(w, ok)
  /\ UNCHANGED <<tmVars, num, pc, jobs, filling, requests, interrupted, reported>>

(* Stopping the taskmaster and raising the flag (Job.py, 141-142) are one  *)
(* step: the handler runs in the main thread, which alone looks at what    *)
(* stop() sets; the workers look at the flag alone (253), and the main     *)
(* thread at the flag only to word an error (412).                         *)
Signal ==
  /\ pc # "done"
  /\ ~interrupted
  /\ interrupted' = TRUE
  /\ Stop
  /\ UNCHANGED <<num, pc, jobs, filling, poolVars, reported>>

Main == \/ Pick \/ NoTask \/ ExamineNode \/ Prepare \/ Dispatch \/ SerialExecute \/ Get
        \/ HandleExecuted \/ HandleFailed \/ PostprocessTask \/ Cleanup
Work(w) == Take(w) \/ Retrieve(w) \/ Built(w)

Next == Main \/ Signal \/ \E w \in Workers : Work(w)

(* Threads run; the action that a worker executes comes to an end. *)
Spec == Init /\ [][Next]_vars /\ WF_vars(Main) /\ \A w \in Workers : WF_vars(Work(w))

-----------------------------------------------------------------------------
Workings == {w \in Workers : working[w].stage # "idle"}
InFlight == ToSet(requests) \cup {working[w].task : w \in Workings}
              \cup {results[i].task : i \in DOMAIN results}

TypeOK ==
  /\ state \in [Nodes -> NoState..Failed]
  /\ waitingParents \in [Nodes -> SUBSET Nodes]
  /\ waitingSE \in [Nodes -> SUBSET Nodes]
  /\ refCount \in [Nodes -> 0..Cardinality(Nodes)]
  /\ implicit \in [Nodes -> {"unscanned", "explicit", "all"}]
  /\ candidates \in Seq(Nodes)
  /\ topLeft \in Seq(Nodes)
  /\ pendingChildren \in SUBSET Nodes
  /\ stopped \in BOOLEAN

(* What scanning finds once generated files are there; a node that failed  *)
(* is not scanned again, and nobody needs what only it would have found.   *)
(* A worker that takes a generated file from the cache may do so between   *)
(* the scan and the look at the file's state; and a generated file that    *)
(* could not be made ready, while errors are ignored, forgets who waits    *)
(* for it, may be tried again, and be made.  In both cases the node is     *)
(* made with what was found without the file, and the rest is neither      *)
(* waited for nor built.                                                   *)
Unsure(n) == mode = "ignore_errors" /\ ToSet(graph.targets[n]) \cap graph.unready # {}
Slips(g) == g \in graph.cached \/ Unsure(g)
Overlooked(n) ==
  state[n] > Pending /\ implicit[n] # "all" /\ \E g \in graph.generated[n] : Slips(g)
AllKids(n) ==
  IF n \in graph.broken THEN {}
  ELSE ToSet(graph.kids[n])
         \cup IF FoundNow(n) = "all" /\ state[n] # Failed /\ ~Overlooked(n)
              THEN ToSet(graph.late[n]) ELSE {}
(* A node that hangs, above a cycle, is not scanned again either. *)
Needs(n) ==
  {k \in AllKids(n) : state[n] = Pending /\ implicit[n] # "all" => k \in ToSet(graph.kids[n])}
Needed ==
  LET Closed(S) == ToSet(graph.tops) \subseteq S /\ \A n \in S : Needs(n) \subseteq S
  IN  {n \in Nodes : \A S \in SUBSET Nodes : Closed(S) => n \in S}
Below(n) ==
  LET Closed(S) == AllKids(n) \subseteq S /\ \A m \in S : AllKids(m) \subseteq S
  IN  {m \in Nodes : \A S \in SUBSET Nodes : Closed(S) => m \in S}
OnKidCycle(n) == n \in Below(n)

Executions == {working[w].task : w \in Workings} \cup ToSet(requests)
                \cup IF pc = "execute" THEN {task} ELSE {}

-----------------------------------------------------------------------------
(* Every job that is counted is out once, as a request, with a worker or   *)
(* as a result, and no more are out than were allowed: else the main       *)
(* thread would wait for results that nobody sends, or end while workers   *)
(* build.                                                                  *)
JobsCounted ==
  /\ jobs = Len(requests) + Cardinality(Workings) + Len(results)
  /\ jobs <= num

(* What is being executed has all its children, and nobody is still        *)
(* working on them, those included that only a scan of generated files     *)
(* finds.  Not so for a child that was taken from the cache while another  *)
(* target of the same action was not there: it counts as executed while    *)
(* the action still builds it, so that what needs it may begin, and if the *)
(* action fails, all that is above fails with it, begun or not.            *)
HalfCached(k) ==
  k \in graph.cached /\ ~(ToSet(graph.targets[k]) \subseteq graph.cached)
OnHalfCached(n) == \E k \in Below(n) \cup {n} : HalfCached(k)
ChildrenFirst ==
  \A e \in Executions : \A k \in AllKids(e.node) :
    \/ OnHalfCached(k)
    \/ Done(k) /\ \A f \in Executions \ {e} : k \in ToSet(f.targets) => k \in graph.cached

(* Two tasks that are out together have no side effect in common.  Not so  *)
(* for what a node makes whose children cannot be determined: its task is  *)
(* made at once, whoever is making the side effect, and releases it, as    *)
(* does the task of a node with no action.  Nor for a side effect that     *)
(* somebody asks for: it waits for all who make it, and if one of them     *)
(* fails is marked as failed while another is making it.                   *)
Wanted == ToSet(graph.tops) \cup UNION {ToSet(graph.kids[n]) \cup ToSet(graph.late[n]) : n \in Nodes}
Spoiled == Wanted \cup UNION {Effects(graph.targets[n]) : n \in graph.broken \cup graph.plain}
SideEffectsApart ==
  \A e, f \in Executions : e # f => Effects(e.targets) \cap Effects(f.targets) \subseteq Spoiled

(* A node's reference count is the number of nodes that it waits for: none *)
(* is counted twice, and none twice counted down, whichever way they end.  *)
WaitCounts ==
  \A p \in Nodes : refCount[p] = Cardinality({n \in Nodes : p \in waitingParents[n]})

(* When a build that was not stopped ends, everything needed is there,     *)
(* unless something failed below it or it needs itself; and if something   *)
(* needed is not there, and nothing failed, then that is reported.  Not so *)
(* for what could not be made ready while errors are ignored: it stays     *)
(* pending, and is reported only if somebody waits for it.                 *)
Abandoned(n) == Unsure(n) /\ ~Done(n)
NothingLost ==
  pc = "done" /\ ~stopped =>
    /\ \A n \in Needed :
         \/ Done(n)
         \/ \E m \in Below(n) \cup {n} : state[m] = Failed \/ OnKidCycle(m) \/ Abandoned(m)
    /\ (\E n \in Needed : ~Done(n) /\ ~Abandoned(n)) /\ (\A n \in Nodes : state[n] # Failed)
         => reported # {}

(* Nothing is built twice, or taken back, except side effects, which each  *)
(* of their targets makes anew, and what was failed with a child from the  *)
(* cache and is executed all the same.                                     *)
NeverTakenBack ==
  [][\A n \in Nodes : \/ SideEffect(n) \/ state'[n] >= state[n]
                      \/ state[n] = Failed /\ OnHalfCached(n)]_state

(* Every build ends: none of the threads waits for ever.  Not so for a     *)
(* node that cannot be made ready, while errors are ignored, after it has  *)
(* waited for a side effect of its own: nobody takes it out of those who   *)
(* wait, so that its postprocessing makes it a candidate again, for ever.  *)
Respun ==
  mode = "ignore_errors" /\ \E n \in graph.unready : Effects(graph.targets[n]) # {}
BuildEnds == <>(pc = "done" \/ Respun)
=============================================================================

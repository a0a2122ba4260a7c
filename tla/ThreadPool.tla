----------------------------- MODULE ThreadPool -----------------------------
(***************************************************************************)
(* ThreadPool: a bounded queue of tasks, the threads that take them, the    *)
(* callers of addTask that wait while it is full, and the owner that starts *)
(* and stops the pool.  Each critical section under mutex_ is one step; the *)
(* test at the end of the loop of runInThread is made without the mutex, in *)
(* two steps.  A condition variable is the set of those who wait on it and  *)
(* the set of those who were woken and have not yet the mutex again.        *)
(***************************************************************************)
EXTENDS Integers, Sequences, Functions

CONSTANTS
  Threads,       \* the numThreads threads of the pool
  Adders,        \* threads that call addTask
  MaxTasks,      \* bound: tasks each of them adds
  maxQueueSize   \* maxQueueSize_, 0 for no limit

VARIABLES
  running,    \* running_
  queue,      \* queue_
  threads,    \* threads_: the threads start() has started
  tpc, task,  \* where each thread is, and the task it has taken
  apc, added, \* where each caller is, and how many tasks it has added
  owner,      \* the thread that calls start() and stop()
  pushed,     \* history: the tasks put into the queue, in order
  ran,        \* history: the tasks run
  promised    \* history: tasks whose addTask returned before stop() was called

pool == <<running, queue, threads, owner>>
workers == <<tpc, task>>
callers == <<apc, added>>
vars == <<pool, workers, callers, pushed, ran, promised>>

Tasks == Adders \X (1 .. MaxTasks)

Waiting(pc) == {x \in DOMAIN pc : pc[x] = "waiting"}
Woken(pc) == {x \in DOMAIN pc : pc[x] = "woken"}

Init ==
  /\ running = FALSE /\ queue = <<>> /\ threads = {} /\ owner = "new"
  /\ tpc = [t \in Threads |-> "new"] /\ task = [t \in Threads |-> <<>>]
  /\ apc = [a \in Adders |-> "idle"] /\ added = [a \in Adders |-> 0]
  /\ pushed = <<>> /\ ran = {} /\ promised = {}

\* Condition::notify: one of those who wait, if there are any, is woken.
Notified(pc) ==
  IF Waiting(pc) = {} THEN {pc} ELSE {[pc EXCEPT ![x] = "woken"] : x \in Waiting(pc)}

\* Condition::notifyAll
NotifiedAll(pc) == [x \in DOMAIN pc |-> IF pc[x] = "waiting" THEN "woken" ELSE pc[x]]

-----------------------------------------------------------------------------
(* addTask *)

IsFull == maxQueueSize > 0 /\ Len(queue) >= maxQueueSize

NextTask(a) == <<a, added[a] + 1>>

Added(a) ==
  /\ added' = [added EXCEPT ![a] = @ + 1]
  /\ promised' = IF owner \in {"stopping", "stopped"} THEN promised
                 ELSE promised \cup {NextTask(a)}

\* Without threads the task is run by the caller.
AddTaskInline(a) ==
  /\ apc[a] = "idle" /\ added[a] < MaxTasks /\ threads = {}
  /\ ran' = ran \cup {NextTask(a)}
  /\ Added(a)
  /\ UNCHANGED <<pool, workers, apc, pushed>>

AddTaskWait(a) ==
  /\ \/ apc[a] = "idle" /\ added[a] < MaxTasks /\ threads # {}
     \/ apc[a] = "woken"
  /\ IsFull
  /\ apc' = [apc EXCEPT ![a] = "waiting"]
  /\ UNCHANGED <<pool, workers, added, pushed, ran, promised>>

AddTask(a) ==
  /\ \/ apc[a] = "idle" /\ added[a] < MaxTasks /\ threads # {}
     \/ apc[a] = "woken"
  /\ ~IsFull
  /\ queue' = Append(queue, NextTask(a)) /\ pushed' = Append(pushed, NextTask(a))
  /\ tpc' \in Notified(tpc)
  /\ apc' = [apc EXCEPT ![a] = "idle"]
  /\ Added(a)
  /\ UNCHANGED <<running, threads, owner, task, ran>>

-----------------------------------------------------------------------------
(* The threads of the pool *)

\* Mutant of TakeTask: notFull_ is not notified.
TakeTaskSilent(t) ==
  /\ tpc[t] \in {"take", "woken"} /\ queue # <<>>
  /\ task' = [task EXCEPT ![t] = Head(queue)] /\ queue' = Tail(queue)
  /\ tpc' = [tpc EXCEPT ![t] = "run"]
  /\ UNCHANGED <<running, threads, owner, callers, pushed, ran, promised>>

\* take() finds a task ...
TakeTask(t) ==
  /\ tpc[t] \in {"take", "woken"} /\ queue # <<>>
  /\ task' = [task EXCEPT ![t] = Head(queue)] /\ queue' = Tail(queue)
  /\ tpc' = [tpc EXCEPT ![t] = "run"]
  /\ apc' \in IF maxQueueSize > 0 THEN Notified(apc) ELSE {apc}
  /\ UNCHANGED <<running, threads, owner, added, pushed, ran, promised>>

\* ... or waits on notEmpty_ ...
TakeWait(t) ==
  /\ tpc[t] \in {"take", "woken"} /\ queue = <<>> /\ running
  /\ tpc' = [tpc EXCEPT ![t] = "waiting"]
  /\ UNCHANGED <<pool, task, callers, pushed, ran, promised>>

\* ... or returns an empty task, because the pool is being stopped.
TakeNothing(t) ==
  /\ tpc[t] \in {"take", "woken"} /\ queue = <<>> /\ ~running
  /\ tpc' = [tpc EXCEPT ![t] = "ran"]
  /\ UNCHANGED <<pool, task, callers, pushed, ran, promised>>

RunTask(t) ==
  /\ tpc[t] = "run"
  /\ ran' = ran \cup {task[t]} /\ task' = [task EXCEPT ![t] = <<>>]
  /\ tpc' = [tpc EXCEPT ![t] = "ran"]
  /\ UNCHANGED <<pool, callers, pushed, promised>>

\* Mutant of TestRunning: while (running_), the condition that is commented out.
TestRunningOnly(t) ==
  /\ tpc[t] = "ran"
  /\ tpc' = [tpc EXCEPT ![t] = IF running THEN "take" ELSE "exited"]
  /\ UNCHANGED <<pool, task, callers, pushed, ran, promised>>

\* if (!running_ && queue_.empty()) break; without the mutex.
TestRunning(t) ==
  /\ tpc[t] = "ran"
  /\ tpc' = [tpc EXCEPT ![t] = IF running THEN "take" ELSE "stopping"]
  /\ UNCHANGED <<pool, task, callers, pushed, ran, promised>>

TestQueue(t) ==
  /\ tpc[t] = "stopping"
  /\ tpc' = [tpc EXCEPT ![t] = IF queue = <<>> THEN "exited" ELSE "take"]
  /\ UNCHANGED <<pool, task, callers, pushed, ran, promised>>

ThreadStep(t) ==
  \/ TakeTask(t) \/ TakeWait(t) \/ TakeNothing(t)
  \/ RunTask(t) \/ TestRunning(t) \/ TestQueue(t)

\* A thread that waits wakes up though nobody notified it.
SpuriousWakeup ==
  /\ \/ \E t \in Waiting(tpc) : tpc' = [tpc EXCEPT ![t] = "woken"] /\ UNCHANGED apc
     \/ \E a \in Waiting(apc) : apc' = [apc EXCEPT ![a] = "woken"] /\ UNCHANGED tpc
  /\ UNCHANGED <<pool, task, added, pushed, ran, promised>>

-----------------------------------------------------------------------------
(* The owner *)

StartThread(t) ==
  /\ owner \in {"new", "starting"} /\ t \notin threads
  /\ running' = TRUE /\ owner' = "starting"
  /\ threads' = threads \cup {t} /\ tpc' = [tpc EXCEPT ![t] = "take"]
  /\ UNCHANGED <<queue, task, callers, pushed, ran, promised>>

Stop ==
  /\ owner = "starting" /\ threads = Threads
  /\ running' = FALSE /\ owner' = "stopping"
  /\ tpc' = NotifiedAll(tpc)
  /\ UNCHANGED <<queue, threads, task, callers, pushed, ran, promised>>

\* stop() has joined every thread.
StopReturns ==
  /\ owner = "stopping" /\ \A t \in Threads : tpc[t] = "exited"
  /\ owner' = "stopped"
  /\ UNCHANGED <<running, queue, threads, workers, callers, pushed, ran, promised>>

Next ==
  \/ \E a \in Adders : AddTaskInline(a) \/ AddTaskWait(a) \/ AddTask(a)
  \/ \E t \in Threads : ThreadStep(t) \/ StartThread(t)
  \/ SpuriousWakeup \/ Stop \/ StopReturns

Spec == Init /\ [][Next]_vars

\* Every thread runs, a caller that was woken gets the mutex, and the owner,
\* having called start(), starts all threads and, having called stop(), joins.
FairSpec ==
  /\ Spec
  /\ \A t \in Threads : WF_vars(ThreadStep(t))
  /\ \A a \in Adders : SF_vars(AddTask(a))
  /\ WF_vars(StopReturns)

-----------------------------------------------------------------------------
(* Properties *)

TypeOK ==
  /\ running \in BOOLEAN /\ Range(queue) \subseteq Tasks /\ threads \subseteq Threads
  /\ owner \in {"new", "starting", "stopping", "stopped"}
  /\ tpc \in [Threads -> {"new", "take", "waiting", "woken", "run", "ran", "stopping", "exited"}]
  /\ task \in [Threads -> Tasks \cup {<<>>}]
  /\ apc \in [Adders -> {"idle", "waiting", "woken"}] /\ added \in [Adders -> 0 .. MaxTasks]
  /\ maxQueueSize > 0 => Len(queue) <= maxQueueSize
  /\ ran \subseteq Tasks /\ promised \subseteq Tasks

Taken == {task[t] : t \in {u \in Threads : tpc[u] = "run"}}

\* A task that addTask put into the queue is in exactly one place: still in the
\* queue, in the hands of one thread, or run; none is run twice or dropped,
\* however the pool is stopped.
NoTaskLost ==
  /\ IsInjective(queue) /\ Range(queue) \cap (Taken \cup ran) = {} /\ Taken \cap ran = {}
  /\ \A t, u \in Threads : tpc[t] = "run" /\ tpc[u] = "run" /\ task[t] = task[u] => t = u
  /\ Range(pushed) \subseteq Range(queue) \cup Taken \cup ran

\* When stop() returns, every task whose addTask had returned before stop() was
\* called has been run: the threads empty the queue before they end.
DrainedAtStop == owner = "stopped" => promised \subseteq ran

\* stop() returns.
StopEnds == owner = "stopping" ~> owner = "stopped"

\* A caller blocked in addTask gets in, unless the pool is stopped first.
AddTaskEnds == \A a \in Adders : apc[a] = "waiting" ~> (apc[a] = "idle" \/ ~running)

\* Every task in the queue of a pool that is not stopped is run.
TasksRun == \A x \in Tasks : x \in Range(queue) ~> (x \in ran \/ ~running)
=============================================================================

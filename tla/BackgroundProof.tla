-------------------------- MODULE BackgroundProof ---------------------------
(***************************************************************************)
(* ThreadPool and LogFile (the instances Pool and LogFile of MCBackground)  *)
(* and AsyncLogging, for any number of threads, callers, tasks and lines.   *)
(***************************************************************************)
EXTENDS MCBackground, WellFoundedInduction, TLAPS

-----------------------------------------------------------------------------
(* Sequences without repetition *)

\* queue_.push_back of a task.
LEMMA RangeOfAppend ==
  ASSUME NEW S, NEW s \in Seq(S), NEW x \in S
  PROVE  /\ Append(s, x) \in Seq(S) /\ Len(Append(s, x)) = Len(s) + 1
         /\ Pool!Range(Append(s, x)) = Pool!Range(s) \cup {x}
<1> DEFINE a == Append(s, x)
<1>1. a \in Seq(S) /\ Len(a) = Len(s) + 1 /\ Len(s) \in Nat
  OBVIOUS
<1>2. DOMAIN a = 1 .. Len(s) + 1 /\ DOMAIN s = 1 .. Len(s)
  BY <1>1
<1>3. a[Len(s) + 1] = x /\ \A i \in 1 .. Len(s) : a[i] = s[i]
  OBVIOUS
<1>4. \A i \in 1 .. Len(s) + 1 : i \in 1 .. Len(s) \/ i = Len(s) + 1
  BY <1>1
<1>5. 1 .. Len(s) \subseteq 1 .. Len(s) + 1 /\ Len(s) + 1 \in 1 .. Len(s) + 1
  BY <1>1
<1>6. \A y : y \in Pool!Range(a) <=> y \in Pool!Range(s) \cup {x}
  <2> HIDE DEF a
  <2> QED
    BY <1>2, <1>3, <1>4, <1>5, Zenon DEF Pool!Range
<1> QED
  BY <1>1, <1>6, Zenon

LEMMA InjectiveAppend ==
  ASSUME NEW S, NEW s \in Seq(S), NEW x \in S, Pool!IsInjective(s), x \notin Pool!Range(s)
  PROVE  Pool!IsInjective(Append(s, x))
<1> DEFINE a == Append(s, x)
<1>1. Len(s) \in Nat /\ DOMAIN s = 1 .. Len(s) /\ DOMAIN a = 1 .. Len(s) + 1
  OBVIOUS
<1>2. a[Len(s) + 1] = x /\ \A i \in 1 .. Len(s) : a[i] = s[i]
  OBVIOUS
<1>3. \A i \in 1 .. Len(s) + 1 : i \in 1 .. Len(s) \/ i = Len(s) + 1
  BY <1>1
<1>4. \A i \in 1 .. Len(s) : s[i] # x
  BY <1>1, Zenon DEF Pool!Range
<1> HIDE DEF a
<1>5. \A i, j \in DOMAIN a : a[i] = a[j] => i = j
  BY <1>1, <1>2, <1>3, <1>4, Zenon DEF Pool!IsInjective
<1> QED
  BY <1>5, Zenon DEF Pool!IsInjective, a

\* queue_.front() and pop_front().
LEMMA RangeOfTail ==
  ASSUME NEW S, NEW s \in Seq(S), s # <<>>, Pool!IsInjective(s)
  PROVE  /\ Tail(s) \in Seq(S) /\ Len(Tail(s)) = Len(s) - 1
         /\ Head(s) \in Pool!Range(s) /\ Head(s) \in S
         /\ Pool!Range(Tail(s)) = Pool!Range(s) \ {Head(s)}
         /\ Pool!IsInjective(Tail(s))
<1> DEFINE r == Tail(s)
           n == Len(s)
<1>1. n \in Nat /\ n > 0 /\ DOMAIN s = 1 .. n
  OBVIOUS
<1>2. r \in Seq(S) /\ Len(r) = n - 1 /\ DOMAIN r = 1 .. n - 1
  OBVIOUS
<1>3. Head(s) = s[1] /\ 1 \in 1 .. n /\ s[1] \in S
  BY <1>1
<1>4. \A i \in 1 .. n - 1 : r[i] = s[i + 1] /\ i + 1 \in 1 .. n /\ i + 1 # 1
  BY <1>1
<1>5. \A i \in 1 .. n : i = 1 \/ (i - 1 \in 1 .. n - 1 /\ (i - 1) + 1 = i)
  BY <1>1
<1> HIDE DEF r, n
<1>6. \A i, j \in 1 .. n : s[i] = s[j] => i = j
  BY <1>1, Zenon DEF Pool!IsInjective
<1>7. Head(s) \in Pool!Range(s)
  BY <1>1, <1>3, Zenon DEF Pool!Range
<1>8. \A y : y \in Pool!Range(r) => y \in Pool!Range(s) /\ y # Head(s)
  <2> SUFFICES ASSUME NEW i \in 1 .. n - 1
               PROVE  r[i] \in Pool!Range(s) /\ r[i] # Head(s)
    BY <1>2, Zenon DEF Pool!Range
  <2> QED
    BY <1>1, <1>3, <1>4, <1>6, Zenon DEF Pool!Range
<1>9. \A y : y \in Pool!Range(s) /\ y # Head(s) => y \in Pool!Range(r)
  <2> SUFFICES ASSUME NEW i \in 1 .. n, s[i] # Head(s)
               PROVE  s[i] \in Pool!Range(r)
    BY <1>1, Zenon DEF Pool!Range
  <2>1. i # 1
    BY <1>3, Zenon
  <2>2. PICK k \in 1 .. n - 1 : k + 1 = i
    BY <1>5, <2>1, Zenon
  <2> QED
    <3>1. r[k] = s[i] /\ k \in DOMAIN r
      BY <1>2, <1>4, <2>2, Zenon
    <3> QED
      BY <3>1, Zenon DEF Pool!Range
<1>10. \A i, j \in 1 .. n - 1 : i + 1 = j + 1 => i = j
  BY <1>1
<1>11. \A i, j \in DOMAIN r : r[i] = r[j] => i = j
  <2> SUFFICES ASSUME NEW i \in 1 .. n - 1, NEW j \in 1 .. n - 1, r[i] = r[j]
               PROVE  i = j
    BY <1>2, Zenon
  <2>1. s[i + 1] = s[j + 1] /\ i + 1 \in 1 .. n /\ j + 1 \in 1 .. n
    BY <1>4, Zenon
  <2> QED
    BY <1>6, <1>10, <2>1, Zenon
<1>12. Pool!IsInjective(r)
  BY <1>11, Zenon DEF Pool!IsInjective
<1>13. Pool!Range(r) = Pool!Range(s) \ {Head(s)}
  BY <1>8, <1>9, Zenon
<1> QED
  BY <1>2, <1>3, <1>7, <1>12, <1>13, Zenon DEF r, n

-----------------------------------------------------------------------------
(* ThreadPool *)

\* Condition::notify wakes nobody or one of those who wait.
LEMMA NotifiedWakes ==
  ASSUME NEW X, NEW V, "woken" \in V, NEW pc \in [X -> V]
  PROVE  \A q \in Pool!Notified(pc) :
           /\ q \in [X -> V]
           /\ \A x \in X : q[x] = pc[x] \/ (pc[x] = "waiting" /\ q[x] = "woken")
<1> TAKE q \in Pool!Notified(pc)
<1>1. CASE q = pc
  BY <1>1, Zenon
<1>2. CASE \E x \in Pool!Waiting(pc) : q = [pc EXCEPT ![x] = "woken"]
  BY <1>2 DEF Pool!Waiting
<1> QED
  BY <1>1, <1>2, Zenon DEF Pool!Notified

LEMMA NotifiedAllWakes ==
  ASSUME NEW X, NEW V, "woken" \in V, NEW pc \in [X -> V]
  PROVE  /\ Pool!NotifiedAll(pc) \in [X -> V]
         /\ \A x \in X : \/ Pool!NotifiedAll(pc)[x] = pc[x]
                         \/ pc[x] = "waiting" /\ Pool!NotifiedAll(pc)[x] = "woken"
BY DEF Pool!NotifiedAll

ThreadStates == {"new", "take", "waiting", "woken", "run", "ran", "stopping", "exited"}
CallerStates == {"idle", "waiting", "woken"}

\* The type invariant, with what makes it inductive: a caller that is inside addTask
\* has a task to add, a thread that runs has one to run, and only a thread that was
\* started does anything.
PoolTypes ==
  /\ Pool!TypeOK /\ queue \in Seq(Pool!Tasks) /\ pushed \in Seq(Pool!Tasks)
  /\ \A a \in Adders : apc[a] # "idle" => added[a] < MaxTasks
  /\ \A t \in Threads : tpc[t] = "run" => task[t] \in Pool!Tasks
  /\ \A t \in Threads : t \notin threads => tpc[t] = "new"

\* The tasks there are.
Placed == Pool!Range(queue) \cup Pool!Taken \cup ran

\* Every task is in one place, is one that its caller has added, and one that was
\* promised to be run has not disappeared.
PoolTasks ==
  /\ Pool!NoTaskLost
  /\ \A x \in Placed : x[2] <= added[x[1]]
  /\ promised \subseteq Placed

\* A thread ends only after stop(), when no task promised is in the queue.
PoolPhases ==
  /\ poolOwner # "starting" => ~poolRunning
  /\ poolOwner = "starting" => poolRunning
  /\ poolOwner # "new" <=> threads # {}
  /\ poolOwner = "stopped" => \A t \in Threads : tpc[t] = "exited"
  /\ \A t \in Threads :
       /\ tpc[t] \in {"stopping", "exited"} => poolOwner \in {"stopping", "stopped"}
       /\ tpc[t] = "exited" => promised \cap Pool!Range(queue) = {}

\* The task that a caller adds is a new one.
LEMMA NextTaskIsNew ==
  ASSUME PoolTypes, PoolTasks, NEW a \in Adders, apc[a] # "idle" \/ added[a] < MaxTasks
  PROVE  /\ Pool!NextTask(a) \in Pool!Tasks /\ Pool!NextTask(a) \notin Placed
         /\ Pool!NextTask(a)[1] = a /\ Pool!NextTask(a)[2] = added[a] + 1
         /\ added[a] \in Nat /\ added[a] + 1 \in 0 .. MaxTasks
<1>1. MaxTasks \in Nat /\ added[a] \in Nat /\ added[a] < MaxTasks
  BY BackgroundConstants DEF PoolTypes, Pool!TypeOK
<1>2. Pool!NextTask(a) \in Pool!Tasks
  BY <1>1 DEF Pool!NextTask, Pool!Tasks
<1>3. Pool!NextTask(a)[1] = a /\ Pool!NextTask(a)[2] = added[a] + 1
  BY <1>1 DEF Pool!NextTask
<1>4. ~(added[a] + 1 <= added[a]) /\ added[a] + 1 \in 0 .. MaxTasks
  BY <1>1
<1> QED
  BY <1>1, <1>2, <1>3, <1>4, Zenon DEF PoolTasks

\* What notEmpty_.notify() does to the threads.
LEMMA ThreadsNotified ==
  ASSUME PoolTypes, tpc' \in Pool!Notified(tpc)
  PROVE  /\ tpc' \in [Threads -> ThreadStates]
         /\ \A t \in Threads : tpc'[t] = tpc[t] \/ (tpc[t] = "waiting" /\ tpc'[t] = "woken")
<1>1. tpc \in [Threads -> ThreadStates] /\ "woken" \in ThreadStates
  BY DEF PoolTypes, Pool!TypeOK, ThreadStates
<1> QED
  BY <1>1, NotifiedWakes

\* The actions that neither add, take nor run a task.
PoolQuiet ==
  \/ \E a \in Adders : Pool!AddTaskWait(a)
  \/ \E t \in Threads : Pool!TakeWait(t) \/ Pool!TakeNothing(t) \/ Pool!TestRunning(t)
                        \/ Pool!TestQueue(t) \/ Pool!StartThread(t)
  \/ Pool!SpuriousWakeup \/ Pool!Stop \/ Pool!StopReturns \/ UNCHANGED Pool!vars

LEMMA PoolCases ==
  ASSUME [Pool!Next]_(Pool!vars)
  PROVE  \/ \E a \in Adders : Pool!AddTaskInline(a) \/ Pool!AddTask(a)
         \/ \E t \in Threads : Pool!TakeTask(t) \/ Pool!RunTask(t)
         \/ PoolQuiet
BY Zenon DEF Pool!Next, Pool!ThreadStep, PoolQuiet

\* What they leave alone.
LEMMA QuietKeeps ==
  ASSUME PoolTypes, PoolQuiet
  PROVE  /\ UNCHANGED <<queue, task, added, pushed, ran, promised>>
         /\ threads' \subseteq Threads /\ poolRunning' \in BOOLEAN
         /\ poolOwner' \in {"new", "starting", "stopping", "stopped"}
         /\ tpc' \in [Threads -> ThreadStates] /\ apc' \in [Adders -> CallerStates]
         /\ \A t \in Threads : tpc'[t] = "run" <=> tpc[t] = "run"
         /\ \A t \in Threads : t \notin threads' => tpc'[t] = "new"
         /\ \A a \in Adders : apc'[a] # "idle" => added[a] < MaxTasks
<1> USE DEF PoolTypes, Pool!TypeOK, Pool!pool, Pool!workers, Pool!callers
<1>0. /\ tpc \in [Threads -> ThreadStates] /\ apc \in [Adders -> CallerStates]
      /\ "woken" \in ThreadStates
  BY DEF ThreadStates, CallerStates
<1>1. CASE \E a \in Adders : Pool!AddTaskWait(a)
  BY <1>1 DEF Pool!AddTaskWait, ThreadStates, CallerStates
<1>2. CASE \E t \in Threads : Pool!TakeWait(t) \/ Pool!TakeNothing(t)
  BY <1>2 DEF Pool!TakeWait, Pool!TakeNothing, ThreadStates, CallerStates
<1>3. CASE \E t \in Threads : Pool!TestRunning(t) \/ Pool!TestQueue(t)
  BY <1>3 DEF Pool!TestRunning, Pool!TestQueue, ThreadStates, CallerStates
<1>4. CASE \E t \in Threads : Pool!StartThread(t)
  BY <1>4 DEF Pool!StartThread, ThreadStates, CallerStates
<1>5. CASE Pool!SpuriousWakeup
  BY <1>5 DEF Pool!SpuriousWakeup, Pool!Waiting, ThreadStates, CallerStates
<1>6. CASE Pool!Stop
  <2>2. /\ tpc' \in [Threads -> ThreadStates]
        /\ \A t \in Threads : tpc'[t] = tpc[t] \/ (tpc[t] = "waiting" /\ tpc'[t] = "woken")
    BY <1>0, <1>6, NotifiedAllWakes, Zenon DEF Pool!Stop
  <2> QED
    BY <1>6, <2>2 DEF Pool!Stop, CallerStates
<1>7. CASE Pool!StopReturns
  BY <1>7 DEF Pool!StopReturns, ThreadStates, CallerStates
<1>8. CASE UNCHANGED Pool!vars
  BY <1>8 DEF Pool!vars, ThreadStates, CallerStates
<1> QED
  BY <1>1, <1>2, <1>3, <1>4, <1>5, <1>6, <1>7, <1>8 DEF PoolQuiet

LEMMA PoolTyped ==
  ASSUME PoolTypes, PoolTasks, [Pool!Next]_(Pool!vars)
  PROVE  PoolTypes'
<1>a. apc \in [Adders -> CallerStates] /\ "woken" \in CallerStates
  BY DEF PoolTypes, Pool!TypeOK, CallerStates
<1>1. ASSUME NEW a \in Adders, Pool!AddTaskInline(a)
      PROVE  PoolTypes'
  <2>1. Pool!NextTask(a) \in Pool!Tasks /\ added[a] \in Nat /\ added[a] + 1 \in 0 .. MaxTasks
    BY <1>1, NextTaskIsNew DEF Pool!AddTaskInline
  <2>2. added' \in [Adders -> 0 .. MaxTasks] /\ promised' \subseteq Pool!Tasks
    BY <1>1, <2>1 DEF PoolTypes, Pool!TypeOK, Pool!AddTaskInline, Pool!Added
  <2>3. \A b \in Adders : apc'[b] # "idle" => added'[b] < MaxTasks
    BY <1>1 DEF PoolTypes, Pool!TypeOK, Pool!AddTaskInline, Pool!Added
  <2> QED
    BY <1>1, <2>1, <2>2, <2>3
    DEF PoolTypes, Pool!TypeOK, Pool!AddTaskInline, Pool!pool, Pool!workers
<1>2. ASSUME NEW a \in Adders, Pool!AddTask(a)
      PROVE  PoolTypes'
  <2>1. Pool!NextTask(a) \in Pool!Tasks /\ added[a] \in Nat /\ added[a] + 1 \in 0 .. MaxTasks
    BY <1>2, NextTaskIsNew DEF Pool!AddTask
  <2>2. /\ added' \in [Adders -> 0 .. MaxTasks] /\ promised' \subseteq Pool!Tasks
        /\ apc' \in [Adders -> CallerStates]
    BY <1>2, <2>1 DEF PoolTypes, Pool!TypeOK, Pool!AddTask, Pool!Added, CallerStates
  <2>3. \A b \in Adders : apc'[b] # "idle" => added'[b] < MaxTasks
    BY <1>2 DEF PoolTypes, Pool!TypeOK, Pool!AddTask, Pool!Added
  <2>4. /\ queue' \in Seq(Pool!Tasks) /\ pushed' \in Seq(Pool!Tasks)
        /\ Len(queue') = Len(queue) + 1
        /\ Pool!Range(queue') = Pool!Range(queue) \cup {Pool!NextTask(a)}
    <3>1. /\ Append(queue, Pool!NextTask(a)) \in Seq(Pool!Tasks)
          /\ Len(Append(queue, Pool!NextTask(a))) = Len(queue) + 1
          /\ Pool!Range(Append(queue, Pool!NextTask(a)))
               = Pool!Range(queue) \cup {Pool!NextTask(a)}
      BY <2>1, RangeOfAppend DEF PoolTypes
    <3>2. Append(pushed, Pool!NextTask(a)) \in Seq(Pool!Tasks)
      BY <2>1, RangeOfAppend DEF PoolTypes
    <3> QED
      BY <1>2, <3>1, <3>2, Zenon DEF Pool!AddTask
  <2>5. maxQueueSize > 0 => Len(queue') <= maxQueueSize
    BY <1>2, <2>4, BackgroundConstants DEF PoolTypes, Pool!AddTask, Pool!IsFull
  <2>6. /\ tpc' \in [Threads -> ThreadStates]
        /\ \A t \in Threads : tpc'[t] = tpc[t] \/ (tpc[t] = "waiting" /\ tpc'[t] = "woken")
    BY <1>2, ThreadsNotified, Zenon DEF Pool!AddTask
  <2> QED
    BY <1>2, <2>1, <2>2, <2>3, <2>4, <2>5, <2>6
    DEF PoolTypes, Pool!TypeOK, Pool!AddTask, ThreadStates, CallerStates
<1>3. ASSUME NEW t \in Threads, Pool!TakeTask(t)
      PROVE  PoolTypes'
  <2>1. /\ queue' \in Seq(Pool!Tasks) /\ Head(queue) \in Pool!Tasks
        /\ Len(queue') = Len(queue) - 1
        /\ Pool!Range(queue') = Pool!Range(queue) \ {Head(queue)}
    BY <1>3, RangeOfTail, Zenon DEF PoolTypes, PoolTasks, Pool!NoTaskLost, Pool!TakeTask
  <2>2. /\ apc' \in [Adders -> CallerStates]
        /\ \A a \in Adders : apc'[a] = apc[a] \/ (apc[a] = "waiting" /\ apc'[a] = "woken")
    <3>1. CASE apc' = apc
      BY <1>a, <3>1
    <3>2. CASE apc' \in Pool!Notified(apc)
      <4>1. \A q \in Pool!Notified(apc) :
              /\ q \in [Adders -> CallerStates]
              /\ \A a \in Adders : q[a] = apc[a] \/ (apc[a] = "waiting" /\ q[a] = "woken")
        BY ZenonT(60), <1>a, NotifiedWakes
      <4> QED
        BY <3>2, <4>1, Zenon
    <3> QED
      BY <1>3, <3>1, <3>2, Zenon DEF Pool!TakeTask
  <2>3. /\ tpc' = [tpc EXCEPT ![t] = "run"] /\ task' = [task EXCEPT ![t] = Head(queue)]
        /\ tpc[t] # "new"
        /\ UNCHANGED <<poolRunning, threads, poolOwner, added, pushed, ran, promised>>
    BY <1>3 DEF Pool!TakeTask
  <2>4. maxQueueSize > 0 => Len(queue') <= maxQueueSize
    BY <2>1, BackgroundConstants DEF PoolTypes, Pool!TypeOK
  <2> QED
    BY <2>1, <2>2, <2>3, <2>4 DEF PoolTypes, Pool!TypeOK, CallerStates
<1>4. ASSUME NEW t \in Threads, Pool!RunTask(t)
      PROVE  PoolTypes'
  BY <1>4 DEF Pool!RunTask, PoolTypes, Pool!TypeOK, Pool!pool, Pool!callers
<1>5. ASSUME PoolQuiet
      PROVE  PoolTypes'
  BY <1>5, QuietKeeps DEF PoolTypes, Pool!TypeOK, ThreadStates, CallerStates
<1> QED
  BY <1>1, <1>2, <1>3, <1>4, <1>5, PoolCases, Zenon

\* The tasks in the hands of threads, when none is taken or run.
LEMMA TakenKept ==
  ASSUME task' = task, \A t \in Threads : tpc'[t] = "run" <=> tpc[t] = "run"
  PROVE  Pool!Taken' = Pool!Taken
BY DEF Pool!Taken

LEMMA AddedGrows ==
  ASSUME PoolTypes, NEW a \in Adders, added' = [added EXCEPT ![a] = @ + 1]
  PROVE  /\ added'[a] = added[a] + 1
         /\ \A x \in Pool!Tasks : x[2] <= added[x[1]] => x[2] <= added'[x[1]]
BY BackgroundConstants DEF PoolTypes, Pool!TypeOK, Pool!Tasks

LEMMA PlacedAreTasks ==
  ASSUME PoolTypes
  PROVE  Placed \subseteq Pool!Tasks
BY DEF PoolTypes, Pool!TypeOK, Placed, Pool!Taken

LEMMA TasksStay ==
  ASSUME PoolTypes, PoolTasks, [Pool!Next]_(Pool!vars)
  PROVE  PoolTasks'
<1>0. Placed \subseteq Pool!Tasks
  BY PlacedAreTasks
<1>1. ASSUME NEW a \in Adders, Pool!AddTaskInline(a)
      PROVE  PoolTasks'
  <2> DEFINE n == Pool!NextTask(a)
  <2>1. n \in Pool!Tasks /\ n \notin Placed /\ n[1] = a /\ n[2] = added[a] + 1 /\ added[a] \in Nat
    BY <1>1, NextTaskIsNew DEF Pool!AddTaskInline
  <2>2. /\ queue' = queue /\ task' = task /\ tpc' = tpc /\ pushed' = pushed /\ ran' = ran \cup {n}
        /\ promised' \subseteq promised \cup {n} /\ added' = [added EXCEPT ![a] = @ + 1]
    BY <1>1, Zenon DEF Pool!AddTaskInline, Pool!Added, Pool!pool, Pool!workers
  <2>3. Pool!Taken' = Pool!Taken
    BY <2>2, TakenKept, Zenon
  <2>4. Placed' = Placed \cup {n}
    BY <2>2, <2>3 DEF Placed
  <2>5. /\ n[2] <= added'[n[1]]
        /\ \A x \in Placed : x[2] <= added'[x[1]]
    <3>1. /\ added'[a] = added[a] + 1
          /\ \A x \in Pool!Tasks : x[2] <= added[x[1]] => x[2] <= added'[x[1]]
      BY <2>2, AddedGrows, Zenon
    <3>2. n[2] <= added'[n[1]]
      BY <2>1, <3>1
    <3> QED
      BY <1>0, <3>1, <3>2, Zenon DEF PoolTasks
  <2> HIDE DEF n
  <2>6. \A x \in Placed' : x[2] <= added'[x[1]]
    BY <2>4, <2>5, Zenon
  <2>7. promised' \subseteq Placed'
    BY <2>2, <2>4, Zenon DEF PoolTasks
  <2>8. Pool!NoTaskLost'
    BY <2>1, <2>2, <2>3 DEF PoolTasks, Placed, Pool!NoTaskLost
  <2> QED
    BY <2>6, <2>7, <2>8, Zenon DEF PoolTasks
<1>2. ASSUME NEW a \in Adders, Pool!AddTask(a)
      PROVE  PoolTasks'
  <2> DEFINE n == Pool!NextTask(a)
  <2>1. n \in Pool!Tasks /\ n \notin Placed /\ n[1] = a /\ n[2] = added[a] + 1 /\ added[a] \in Nat
    BY <1>2, NextTaskIsNew DEF Pool!AddTask
  <2>2. /\ queue' = Append(queue, n) /\ pushed' = Append(pushed, n) /\ task' = task /\ ran' = ran
        /\ promised' \subseteq promised \cup {n} /\ added' = [added EXCEPT ![a] = @ + 1]
        /\ tpc' \in Pool!Notified(tpc)
    BY <1>2, Zenon DEF Pool!AddTask, Pool!Added
  <2>3. \A t \in Threads : tpc'[t] = "run" <=> tpc[t] = "run"
    <3>1. \A t \in Threads : tpc'[t] = tpc[t] \/ (tpc[t] = "waiting" /\ tpc'[t] = "woken")
      BY <2>2, ThreadsNotified, Zenon
    <3> QED
      BY <3>1
  <2>4. Pool!Taken' = Pool!Taken
    BY <2>2, <2>3, TakenKept, Zenon
  <2> HIDE DEF n
  <2>5. /\ Pool!Range(queue') = Pool!Range(queue) \cup {n}
        /\ Pool!Range(pushed') = Pool!Range(pushed) \cup {n}
        /\ Pool!IsInjective(queue')
    <3>1. queue \in Seq(Pool!Tasks) /\ pushed \in Seq(Pool!Tasks)
      BY Zenon DEF PoolTypes
    <3>2. Pool!IsInjective(queue) /\ n \notin Pool!Range(queue)
      BY <2>1, Zenon DEF PoolTasks, Pool!NoTaskLost, Placed
    <3>3. Pool!Range(Append(queue, n)) = Pool!Range(queue) \cup {n}
      BY <2>1, <3>1, RangeOfAppend
    <3>4. Pool!Range(Append(pushed, n)) = Pool!Range(pushed) \cup {n}
      BY <2>1, <3>1, RangeOfAppend
    <3>5. Pool!IsInjective(Append(queue, n))
      BY <2>1, <3>1, <3>2, InjectiveAppend
    <3> QED
      BY <2>2, <3>3, <3>4, <3>5, Zenon
  <2>6. Placed' = Placed \cup {n}
    BY <2>2, <2>4, <2>5 DEF Placed
  <2>7. /\ n[2] <= added'[n[1]]
        /\ \A x \in Placed : x[2] <= added'[x[1]]
    <3>1. /\ added'[a] = added[a] + 1
          /\ \A x \in Pool!Tasks : x[2] <= added[x[1]] => x[2] <= added'[x[1]]
      BY <2>2, AddedGrows, Zenon
    <3>2. n[2] <= added'[n[1]]
      BY <2>1, <3>1
    <3> QED
      BY <1>0, <3>1, <3>2, Zenon DEF PoolTasks
  <2>8. \A x \in Placed' : x[2] <= added'[x[1]]
    BY <2>6, <2>7, Zenon
  <2>9. promised' \subseteq Placed'
    BY <2>2, <2>6, Zenon DEF PoolTasks
  <2>10. Pool!NoTaskLost'
    <3>1. \A t, u \in Threads : tpc'[t] = "run" /\ tpc'[u] = "run" /\ task'[t] = task'[u] => t = u
      BY <2>2, <2>3, Zenon DEF PoolTasks, Pool!NoTaskLost
    <3>2. /\ Pool!Range(queue') \cap (Pool!Taken' \cup ran') = {} /\ Pool!Taken' \cap ran' = {}
          /\ Pool!Range(pushed') \subseteq Pool!Range(queue') \cup Pool!Taken' \cup ran'
      BY <2>1, <2>2, <2>4, <2>5 DEF PoolTasks, Placed, Pool!NoTaskLost
    <3> QED
      BY <2>5, <3>1, <3>2, Zenon DEF Pool!NoTaskLost
  <2> QED
    BY <2>8, <2>9, <2>10, Zenon DEF PoolTasks
<1>3. ASSUME NEW t \in Threads, Pool!TakeTask(t)
      PROVE  PoolTasks'
  <2> DEFINE h == Head(queue)
  <2>1. /\ h \in Pool!Range(queue) /\ Pool!IsInjective(queue')
        /\ Pool!Range(queue') = Pool!Range(queue) \ {h}
    BY <1>3, RangeOfTail, Zenon DEF PoolTypes, PoolTasks, Pool!NoTaskLost, Pool!TakeTask
  <2>2. /\ task' = [task EXCEPT ![t] = h] /\ tpc' = [tpc EXCEPT ![t] = "run"] /\ tpc[t] # "run"
        /\ UNCHANGED <<added, pushed, ran, promised>>
    BY <1>3 DEF Pool!TakeTask
  <2> HIDE DEF h
  <2>3. /\ tpc'[t] = "run" /\ task'[t] = h
        /\ \A u \in Threads \ {t} : tpc'[u] = tpc[u] /\ task'[u] = task[u]
    BY <2>2 DEF PoolTypes, Pool!TypeOK
  <2>4. Pool!Taken' = Pool!Taken \cup {h}
    BY <2>2, <2>3 DEF Pool!Taken
  <2>5. Placed' = Placed
    BY <2>1, <2>2, <2>4 DEF Placed
  <2>6. h \notin Pool!Taken /\ h \notin ran
    BY <2>1, Zenon DEF PoolTasks, Pool!NoTaskLost
  <2>7. \A u, v \in Threads : tpc'[u] = "run" /\ tpc'[v] = "run" /\ task'[u] = task'[v] => u = v
    <3>1. \A u \in Threads : tpc[u] = "run" => task[u] # h
      BY <2>6, Zenon DEF Pool!Taken
    <3> QED
      BY <2>3, <3>1, Zenon DEF PoolTasks, Pool!NoTaskLost
  <2>8. /\ Pool!Range(queue') \cap (Pool!Taken' \cup ran') = {} /\ Pool!Taken' \cap ran' = {}
        /\ Pool!Range(pushed') \subseteq Pool!Range(queue') \cup Pool!Taken' \cup ran'
    BY <2>1, <2>2, <2>4, <2>6 DEF PoolTasks, Pool!NoTaskLost
  <2> QED
    BY <2>1, <2>2, <2>5, <2>7, <2>8, Zenon DEF PoolTasks, Pool!NoTaskLost
<1>4. ASSUME NEW t \in Threads, Pool!RunTask(t)
      PROVE  PoolTasks'
  <2>1. /\ task' = [task EXCEPT ![t] = <<>>] /\ tpc' = [tpc EXCEPT ![t] = "ran"] /\ tpc[t] = "run"
        /\ ran' = ran \cup {task[t]}
        /\ UNCHANGED <<queue, added, pushed, promised>>
    BY <1>4 DEF Pool!RunTask, Pool!pool, Pool!callers
  <2>2. /\ tpc'[t] # "run"
        /\ \A u \in Threads \ {t} : tpc'[u] = tpc[u] /\ task'[u] = task[u]
    BY <2>1 DEF PoolTypes, Pool!TypeOK
  <2>3. Pool!Taken' = Pool!Taken \ {task[t]} /\ task[t] \in Pool!Taken
    <3>1. \A u \in Threads \ {t} : tpc[u] = "run" => task[u] # task[t]
      BY <2>1, Zenon DEF PoolTasks, Pool!NoTaskLost
    <3> QED
      BY <2>1, <2>2, <3>1 DEF Pool!Taken
  <2>4. Placed' = Placed
    BY <2>1, <2>3 DEF Placed
  <2>5. \A u, v \in Threads : tpc'[u] = "run" /\ tpc'[v] = "run" /\ task'[u] = task'[v] => u = v
    BY <2>2, Zenon DEF PoolTasks, Pool!NoTaskLost
  <2>6. /\ Pool!Range(queue') \cap (Pool!Taken' \cup ran') = {} /\ Pool!Taken' \cap ran' = {}
        /\ Pool!Range(pushed') \subseteq Pool!Range(queue') \cup Pool!Taken' \cup ran'
    BY <2>1, <2>3 DEF PoolTasks, Pool!NoTaskLost
  <2> QED
    BY <2>1, <2>4, <2>5, <2>6, Zenon DEF PoolTasks, Pool!NoTaskLost
<1>5. ASSUME PoolQuiet
      PROVE  PoolTasks'
  <2>1. /\ UNCHANGED <<queue, task, added, pushed, ran, promised>>
        /\ \A t \in Threads : tpc'[t] = "run" <=> tpc[t] = "run"
    BY <1>5, QuietKeeps, Zenon
  <2>2. Pool!Taken' = Pool!Taken
    BY <2>1, TakenKept, Zenon
  <2>3. Placed' = Placed
    BY <2>1, <2>2 DEF Placed
  <2> QED
    BY <2>1, <2>2, <2>3, Zenon DEF PoolTasks, Pool!NoTaskLost
<1> QED
  BY <1>1, <1>2, <1>3, <1>4, <1>5, PoolCases, Zenon

LEMMA PhasesKept ==
  ASSUME PoolTypes, PoolTasks, PoolPhases, [Pool!Next]_(Pool!vars)
  PROVE  PoolPhases'
<1>1. ASSUME NEW a \in Adders, Pool!AddTaskInline(a)
      PROVE  PoolPhases'
  <2>1. Pool!NextTask(a) \notin Pool!Range(queue)
    BY <1>1, NextTaskIsNew DEF Pool!AddTaskInline, Placed
  <2> QED
    BY <1>1, <2>1 DEF PoolPhases, Pool!AddTaskInline, Pool!Added, Pool!pool, Pool!workers
<1>2. ASSUME NEW a \in Adders, Pool!AddTask(a)
      PROVE  PoolPhases'
  <2> DEFINE n == Pool!NextTask(a)
  <2>1. n \in Pool!Tasks /\ n \notin Placed
    BY <1>2, NextTaskIsNew DEF Pool!AddTask
  <2>2. /\ queue' = Append(queue, n) /\ UNCHANGED <<poolRunning, threads, poolOwner>>
        /\ tpc' \in Pool!Notified(tpc)
        /\ poolOwner \in {"stopping", "stopped"} => promised' = promised
    BY <1>2, Zenon DEF Pool!AddTask, Pool!Added
  <2> HIDE DEF n
  <2>3. \A t \in Threads : tpc'[t] = tpc[t] \/ (tpc[t] = "waiting" /\ tpc'[t] = "woken")
    BY <2>2, ThreadsNotified, Zenon
  <2>4. Pool!Range(queue') = Pool!Range(queue) \cup {n}
    <3>1. Pool!Range(Append(queue, n)) = Pool!Range(queue) \cup {n}
      BY <2>1, RangeOfAppend DEF PoolTypes
    <3> QED
      BY <2>2, <3>1, Zenon
  <2>5. n \notin promised
    BY <2>1, Zenon DEF PoolTasks
  <2> QED
    BY <2>2, <2>3, <2>4, <2>5 DEF PoolPhases
<1>3. ASSUME NEW t \in Threads, Pool!TakeTask(t)
      PROVE  PoolPhases'
  <2>1. Pool!Range(queue') = Pool!Range(queue) \ {Head(queue)}
    BY <1>3, RangeOfTail, Zenon DEF PoolTypes, PoolTasks, Pool!NoTaskLost, Pool!TakeTask
  <2> QED
    BY <1>3, <2>1 DEF PoolPhases, PoolTypes, Pool!TypeOK, Pool!TakeTask
<1>4. ASSUME NEW t \in Threads, Pool!RunTask(t)
      PROVE  PoolPhases'
  BY <1>4 DEF PoolPhases, PoolTypes, Pool!TypeOK, Pool!RunTask, Pool!pool, Pool!callers
<1>5. ASSUME PoolQuiet
      PROVE  PoolPhases'
  <2>0. UNCHANGED <<queue, promised>>
    BY <1>5, QuietKeeps, Zenon
  <2> USE <2>0 DEF PoolPhases, PoolTypes, Pool!TypeOK, Pool!pool, Pool!workers
  <2>1. CASE \E a \in Adders : Pool!AddTaskWait(a)
    BY <2>1 DEF Pool!AddTaskWait
  <2>2. CASE \E t \in Threads : Pool!TakeWait(t) \/ Pool!TakeNothing(t)
    BY <2>2 DEF Pool!TakeWait, Pool!TakeNothing
  <2>9. ASSUME NEW t \in Threads, Pool!TestRunning(t)
        PROVE  PoolPhases'
    <3>1. poolOwner \in {"stopping", "stopped"} \/ poolRunning \/ poolOwner = "new"
      BY Zenon
    <3>2. poolOwner # "new"
      BY <2>9 DEF Pool!TestRunning
    <3>3. \/ tpc' = [tpc EXCEPT ![t] = "take"]
          \/ tpc' = [tpc EXCEPT ![t] = "stopping"] /\ poolOwner \in {"stopping", "stopped"}
      BY <2>9, <3>1, <3>2, Zenon DEF Pool!TestRunning
    <3> QED
      BY <2>9, <3>3 DEF Pool!TestRunning
  <2>3. ASSUME NEW t \in Threads, Pool!TestQueue(t)
        PROVE  PoolPhases'
    <3>1. queue = <<>> => Pool!Range(queue) = {}
      BY DEF Pool!Range
    <3> QED
      BY <2>3, <3>1 DEF Pool!TestQueue
  <2>4. CASE \E t \in Threads : Pool!StartThread(t)
    BY <2>4 DEF Pool!StartThread
  <2>5. CASE Pool!SpuriousWakeup
    BY <2>5 DEF Pool!SpuriousWakeup, Pool!Waiting
  <2>6. CASE Pool!Stop
    BY <2>6 DEF Pool!Stop, Pool!NotifiedAll
  <2>7. CASE Pool!StopReturns
    BY <2>7 DEF Pool!StopReturns
  <2>8. CASE UNCHANGED Pool!vars
    BY <2>8 DEF Pool!vars
  <2> QED
    BY <1>5, <2>1, <2>2, <2>3, <2>4, <2>5, <2>6, <2>7, <2>8, <2>9, Zenon DEF PoolQuiet
<1> QED
  BY <1>1, <1>2, <1>3, <1>4, <1>5, PoolCases, Zenon

PoolInv == PoolTypes /\ PoolTasks /\ PoolPhases

LEMMA PoolInit ==
  ASSUME Pool!Init
  PROVE  PoolInv
<1> USE DEF Pool!Init
<1>1. Pool!Range(<<>>) = {} /\ Pool!IsInjective(<<>>)
  BY DEF Pool!Range, Pool!IsInjective
<1>2. PoolTypes
  <2>1. /\ Pool!Range(queue) = {} /\ queue \in Seq(Pool!Tasks) /\ pushed \in Seq(Pool!Tasks)
        /\ maxQueueSize > 0 => Len(queue) <= maxQueueSize
    BY <1>1, BackgroundConstants
  <2>2. added \in [Adders -> 0 .. MaxTasks]
    BY BackgroundConstants
  <2> QED
    BY <2>1, <2>2 DEF PoolTypes, Pool!TypeOK
<1>3. Pool!Taken = {}
  BY DEF Pool!Taken
<1>4. PoolTasks
  BY <1>1, <1>3 DEF PoolTasks, Placed, Pool!NoTaskLost
<1>5. PoolPhases
  BY DEF PoolPhases
<1> QED
  BY <1>2, <1>4, <1>5, Zenon DEF PoolInv

LEMMA PoolSafe ==
  ASSUME PoolInv
  PROVE  TasksKept
<1>1. Pool!DrainedAtStop
  <2> SUFFICES ASSUME poolOwner = "stopped"
               PROVE  promised \subseteq ran
    BY Zenon DEF Pool!DrainedAtStop
  <2>1. \A t \in Threads : tpc[t] = "exited"
    BY DEF PoolInv, PoolPhases
  <2>2. PICK t \in Threads : TRUE
    BY DEF PoolInv, PoolPhases, PoolTypes, Pool!TypeOK
  <2>3. promised \cap Pool!Range(queue) = {}
    BY <2>1, <2>2, Zenon DEF PoolInv, PoolPhases
  <2>4. Pool!Taken = {}
    BY <2>1 DEF Pool!Taken
  <2> QED
    BY <2>3, <2>4 DEF PoolInv, PoolTasks, Placed
<1> QED
  BY <1>1, Zenon DEF PoolInv, PoolTypes, PoolTasks, TasksKept

\* Every task of ThreadPool is in the queue, with one thread, or run, once; and when
\* stop() has returned all tasks added before it was called have been run: for any
\* number of threads, callers and tasks and any maxQueueSize_.
THEOREM TasksAreRunOnce == MCSpec => []TasksKept
<1>1. MCInit => PoolInv
  BY PoolInit, Zenon DEF MCInit
<1>2. PoolInv /\ [MCNext]_<<part, vars, poolVars, fileVars>> => PoolInv'
  <2> SUFFICES ASSUME PoolInv, [MCNext]_<<part, vars, poolVars, fileVars>>
               PROVE  PoolInv'
    OBVIOUS
  <2>1. [Pool!Next]_(Pool!vars)
    BY DEF MCNext, poolVars, Pool!vars, Pool!pool, Pool!workers, Pool!callers
  <2> QED
    BY <2>1, PoolTyped, TasksStay, PhasesKept, Zenon DEF PoolInv
<1>3. PoolInv => TasksKept
  BY PoolSafe, Zenon
<1> QED
  BY <1>1, <1>2, <1>3, PTL DEF MCSpec

-----------------------------------------------------------------------------
(* LogFile *)

\* The start of a day is not after any second of it, and days follow one another.
LEMMA DayBelow ==
  ASSUME NEW t \in Nat
  PROVE  LogFile!Day(t) \in Nat /\ LogFile!Day(t) <= t
<1>1. kRollPerSeconds \in Nat /\ kRollPerSeconds > 0
  BY BackgroundConstants
<1> DEFINE q == t \div kRollPerSeconds
<1>2. q \in Nat /\ kRollPerSeconds * q <= t
  BY <1>1
<1>3. q * kRollPerSeconds = kRollPerSeconds * q /\ q * kRollPerSeconds \in Nat
  BY <1>1, <1>2
<1> QED
  BY <1>2, <1>3 DEF LogFile!Day

LEMMA DayMonotone ==
  ASSUME NEW s \in Nat, NEW t \in Nat, s <= t
  PROVE  LogFile!Day(s) <= LogFile!Day(t)
<1> DEFINE k == kRollPerSeconds
           p == s \div k
           q == t \div k
<1>1. k \in Nat /\ k > 0
  BY BackgroundConstants
<1>2. p \in Nat /\ q \in Nat /\ k * p <= s /\ t < k * (q + 1)
  BY <1>1
<1> HIDE DEF k, p, q
<1>3. p <= q
  <2> SUFFICES ASSUME q + 1 <= p
               PROVE  FALSE
    BY <1>2
  <2>1. k * (q + 1) <= k * p
    BY <1>1, <1>2
  <2> QED
    BY <1>1, <1>2, <2>1
<1>4. p * k <= q * k
  BY <1>1, <1>2, <1>3
<1> QED
  BY <1>4 DEF LogFile!Day, k, p, q

\* The type invariant, one variable at a time.
FileKinds ==
  /\ now \in 1 .. MaxTime /\ lastRoll \in 1 .. MaxTime /\ lastFlush \in 1 .. MaxTime
  /\ name \in 1 .. MaxTime /\ lastAppend \in 1 .. MaxTime
  /\ startOfPeriod \in 0 .. MaxTime /\ count \in 0 .. checkEveryN - 1
  /\ writtenBytes \in Nat /\ unflushed \in Seq(1 .. MaxTime) /\ names \in Seq(1 .. MaxTime)
  /\ late \in Nat /\ lines \in 0 .. FileLines /\ steppedBack \in BOOLEAN

\* The names of files are the seconds of their rolls, each one roll.
FileTypes ==
  /\ FileKinds
  /\ name = lastRoll /\ startOfPeriod = LogFile!Day(lastRoll)
  /\ LogFile!NewName /\ \A i \in 1 .. Len(names) : names[i] <= lastRoll

\* While the clock is not set back: the lines of a later day are among those counted
\* since the last check, and so are the lines that have waited too long for a flush.
FileTimes ==
  /\ LogFile!RolledWhenFull
  /\ ~steppedBack =>
       /\ lastRoll <= lastFlush /\ lastFlush <= now
       /\ late <= count /\ (late > 0 => LogFile!Day(lastRoll) < LogFile!Day(now))
       /\ \A i \in 1 .. Len(unflushed) :
            /\ unflushed[i] <= now
            /\ unflushed[i] - lastFlush > flushInterval => Len(unflushed) - i < count

\* An append makes a new file ...
Rolled ==
  /\ now > lastRoll
  /\ lastRoll' = now /\ lastFlush' = now /\ startOfPeriod' = LogFile!Day(now) /\ name' = now
  /\ names' = Append(names, now)
  /\ writtenBytes' = 0 /\ unflushed' = <<>> /\ late' = 0
  /\ count' \in {0, count}

\* ... or the line stays in the file.
Stayed(l) ==
  /\ writtenBytes' = writtenBytes + l
  /\ late' = IF LogFile!Day(now) # LogFile!Day(name) THEN late + 1 ELSE late
  /\ UNCHANGED <<startOfPeriod, lastRoll, name, names>>

Waits(l) == Stayed(l) /\ unflushed' = Append(unflushed, now) /\ UNCHANGED lastFlush

LEMMA AppendCases ==
  ASSUME FileTypes, NEW l \in Sizes, LogFile!AppendLine(l)
  PROVE  /\ UNCHANGED <<now, steppedBack>> /\ lastAppend' = now /\ lines' = lines + 1
         /\ \/ Rolled
            \/ /\ ~(now > lastRoll) /\ writtenBytes + l > rollSize
               /\ Waits(l) /\ UNCHANGED count
            \/ /\ ~(writtenBytes + l > rollSize)
               /\ \/ ~(count + 1 >= checkEveryN) /\ count' = count + 1 /\ Waits(l)
                  \/ /\ count + 1 >= checkEveryN /\ count' = 0
                     /\ \/ ~(now > lastRoll) /\ Waits(l)
                        \/ /\ LogFile!Day(now) = startOfPeriod
                           /\ ~(now - lastFlush > flushInterval) /\ Waits(l)
                        \/ /\ LogFile!Day(now) = startOfPeriod
                           /\ Stayed(l) /\ unflushed' = <<>> /\ lastFlush' = now
<1>1. /\ UNCHANGED <<now, steppedBack>> /\ lastAppend' = now /\ lines' = lines + 1
      /\ LogFile!AppendUnlocked(l)
  BY Zenon DEF LogFile!AppendLine
<1>2. ASSUME LogFile!RollFile(l), count' \in {0, count}
      PROVE  Rolled \/ (~(now > lastRoll) /\ Waits(l))
  BY <1>2, Zenon DEF LogFile!RollFile, LogFile!MayRoll, LogFile!period, Rolled, Waits, Stayed
<1>3. LogFile!Stay(l, FALSE) => Waits(l)
  BY Zenon DEF LogFile!Stay, Waits, Stayed
<1>4. ASSUME LogFile!Stay(l, now - lastFlush > flushInterval)
      PROVE  \/ ~(now - lastFlush > flushInterval) /\ Waits(l)
             \/ Stayed(l) /\ unflushed' = <<>> /\ lastFlush' = now
  BY <1>4, Zenon DEF LogFile!Stay, Waits, Stayed
<1>5. CASE writtenBytes + l > rollSize
  <2>1. LogFile!RollFile(l) /\ UNCHANGED count
    BY <1>1, <1>5, Zenon DEF LogFile!AppendUnlocked
  <2> QED
    BY <1>1, <1>2, <1>5, <2>1, Zenon
<1>6. CASE ~(writtenBytes + l > rollSize)
  <2>1. LogFile!Check(l)
    BY <1>1, <1>6, Zenon DEF LogFile!AppendUnlocked
  <2>2. CASE count + 1 >= checkEveryN
    <3>1. /\ count' = 0
          /\ \/ LogFile!RollFile(l)
             \/ LogFile!Day(now) = startOfPeriod /\ LogFile!Stay(l, now - lastFlush > flushInterval)
      BY <2>1, <2>2, Zenon DEF LogFile!Check
    <3> QED
      BY <1>1, <1>2, <1>4, <1>6, <2>2, <3>1, Zenon
  <2>3. CASE ~(count + 1 >= checkEveryN)
    BY <1>1, <1>3, <1>6, <2>1, <2>3, Zenon DEF LogFile!Check
  <2> QED
    BY <2>2, <2>3, Zenon
<1> QED
  BY <1>5, <1>6, Zenon

LEMMA FileConstants ==
  /\ rollSize \in Nat /\ flushInterval \in Nat /\ checkEveryN \in Nat /\ checkEveryN > 0
  /\ MaxTime \in Nat /\ MaxTime > 0 /\ FileLines \in Nat /\ Sizes \subseteq Nat
BY BackgroundConstants

\* What a sequence holds is in the set it is over.
LEMMA ElementOfSeq ==
  ASSUME NEW S, NEW s \in Seq(S), NEW i \in 1 .. Len(s)
  PROVE  s[i] \in S
OBVIOUS

\* A roll makes a file with a name of its own.
LEMMA NewFile ==
  ASSUME FileTypes, now > lastRoll, names' = Append(names, now)
  PROVE  /\ names' \in Seq(1 .. MaxTime) /\ LogFile!NewName'
         /\ \A i \in 1 .. Len(names') : names'[i] <= now
<1>1. /\ now \in 1 .. MaxTime /\ lastRoll \in 1 .. MaxTime /\ names \in Seq(1 .. MaxTime)
      /\ \A i \in 1 .. Len(names) : names[i] <= lastRoll
  BY Zenon DEF FileTypes, FileKinds
<1>2. /\ names' \in Seq(1 .. MaxTime) /\ Len(names) \in Nat /\ Len(names') = Len(names) + 1
      /\ names'[Len(names) + 1] = now /\ \A i \in 1 .. Len(names) : names'[i] = names[i]
  BY <1>1
<1>3. ASSUME NEW i \in 1 .. Len(names) PROVE names'[i] = names[i] /\ names[i] < now
  <2>1. names[i] \in 1 .. MaxTime
    BY <1>1, ElementOfSeq, Zenon
  <2>2. names[i] <= lastRoll
    BY <1>1, Zenon
  <2> QED
    BY <1>1, <1>2, <2>1, <2>2, BackgroundConstants
<1>4. \A i \in 1 .. Len(names') : i \in 1 .. Len(names) \/ i = Len(names) + 1
  BY <1>2
<1>5. ASSUME NEW i \in 1 .. Len(names') PROVE names'[i] <= now
  <2>1. now \in Nat
    BY <1>1, BackgroundConstants
  <2>2. CASE i \in 1 .. Len(names)
    <3>1. names'[i] = names[i] /\ names[i] < now /\ names[i] \in 1 .. MaxTime
      BY <1>1, <1>3, <2>2, ElementOfSeq, Zenon
    <3> QED
      BY <2>1, <3>1
  <2>3. CASE i = Len(names) + 1
    BY <1>2, <2>1, <2>3
  <2> QED
    BY <1>4, <2>2, <2>3, Zenon
<1>6. ASSUME NEW i \in 1 .. Len(names), NEW j \in 1 .. Len(names), names'[i] = names'[j]
      PROVE  i = j
  BY <1>3, <1>6, Zenon DEF FileTypes, LogFile!NewName
<1>7. ASSUME NEW i \in 1 .. Len(names) PROVE names'[i] # now
  BY <1>1, <1>3, BackgroundConstants
<1>8. LogFile!NewName'
  BY <1>2, <1>4, <1>6, <1>7, ZenonT(60) DEF LogFile!NewName
<1> QED
  BY <1>2, <1>5, <1>8

LEMMA FileTyped ==
  ASSUME FileTypes, [LogFile!Next]_(LogFile!vars)
  PROVE  FileTypes'
<1> USE FileConstants
<1>1. ASSUME NEW l \in Sizes, LogFile!AppendLine(l)
      PROVE  FileTypes'
  <2>0. /\ UNCHANGED <<now, steppedBack>> /\ lastAppend' = now /\ lines' = lines + 1
        /\ lines < FileLines /\ l \in Nat
    BY <1>1, AppendCases DEF LogFile!AppendLine
  <2>1. CASE Rolled
    <3>1. /\ names' \in Seq(1 .. MaxTime) /\ LogFile!NewName'
          /\ \A i \in 1 .. Len(names') : names'[i] <= now
      BY <2>1, NewFile, Zenon DEF Rolled
    <3>2. LogFile!Day(now) \in 0 .. MaxTime
      <4>1. now \in Nat /\ now <= MaxTime
        BY DEF FileTypes, FileKinds
      <4>2. LogFile!Day(now) \in Nat /\ LogFile!Day(now) <= now
        BY <4>1, DayBelow, Zenon
      <4> QED
        BY <4>1, <4>2
    <3>4. FileKinds'
      BY <2>0, <2>1, <3>1, <3>2 DEF FileTypes, FileKinds, Rolled
    <3> QED
      BY <2>1, <3>1, <3>4, Zenon DEF FileTypes, Rolled
  <2>2. ASSUME Stayed(l), count' \in 0 .. checkEveryN - 1,
               \/ unflushed' = Append(unflushed, now) /\ UNCHANGED lastFlush
               \/ unflushed' = <<>> /\ lastFlush' = now
        PROVE  FileTypes'
    <3>1. unflushed' \in Seq(1 .. MaxTime) /\ lastFlush' \in 1 .. MaxTime
      <4>1. unflushed \in Seq(1 .. MaxTime) /\ now \in 1 .. MaxTime /\ lastFlush \in 1 .. MaxTime
        BY Zenon DEF FileTypes, FileKinds
      <4>2. Append(unflushed, now) \in Seq(1 .. MaxTime) /\ <<>> \in Seq(1 .. MaxTime)
        BY <4>1
      <4> QED
        BY <2>2, <4>1, <4>2, Zenon
    <3>2. FileKinds'
      BY <2>0, <2>2, <3>1 DEF FileTypes, FileKinds, Stayed
    <3> QED
      BY <2>2, <3>2 DEF FileTypes, Stayed, LogFile!NewName
  <2>3. count + 1 \in 0 .. checkEveryN - 1 \/ count + 1 >= checkEveryN
    BY DEF FileTypes, FileKinds
  <2>4. count \in 0 .. checkEveryN - 1 /\ 0 \in 0 .. checkEveryN - 1
    BY DEF FileTypes, FileKinds
  <2> QED
    BY <1>1, <2>1, <2>2, <2>3, <2>4, AppendCases, Zenon DEF Waits
<1>2. CASE LogFile!Flush
  BY <1>2 DEF LogFile!Flush, LogFile!period, FileTypes, FileKinds, LogFile!NewName
<1>3. CASE LogFile!Tick \/ LogFile!SetBack
  <2>1. now' \in 1 .. MaxTime
    <3>1. now \in 1 .. MaxTime /\ MaxTime \in Nat
      BY BackgroundConstants, Zenon DEF FileTypes, FileKinds
    <3>2. (now < MaxTime /\ now' = now + 1) \/ (now > 1 /\ now' = now - 1)
      BY <1>3, Zenon DEF LogFile!Tick, LogFile!SetBack
    <3> QED
      BY <3>1, <3>2
  <2>2. steppedBack' \in BOOLEAN
    BY <1>3, Zenon DEF LogFile!Tick, LogFile!SetBack, FileTypes, FileKinds
  <2>3. UNCHANGED <<startOfPeriod, lastRoll, lastFlush, count, name, writtenBytes, unflushed,
                    lastAppend, names, late, lines>>
    BY <1>3, Zenon DEF LogFile!Tick, LogFile!SetBack, LogFile!period
  <2> QED
    BY <2>1, <2>2, <2>3, Zenon DEF FileTypes, FileKinds, LogFile!Day, LogFile!NewName
<1>4. CASE UNCHANGED LogFile!vars
  BY <1>4 DEF LogFile!vars, LogFile!period, FileTypes, FileKinds, LogFile!NewName
<1> QED
  BY <1>1, <1>2, <1>3, <1>4, Zenon DEF LogFile!Next

LEMMA FileTimed ==
  ASSUME FileTypes, FileTimes, [LogFile!Next]_(LogFile!vars)
  PROVE  FileTimes'
<1> USE FileConstants
<1>0. /\ now \in Nat /\ lastRoll \in Nat /\ lastFlush \in Nat /\ lastAppend \in Nat
      /\ writtenBytes \in Nat /\ late \in Nat /\ count \in Nat
      /\ unflushed \in Seq(Nat) /\ name = lastRoll /\ startOfPeriod = LogFile!Day(lastRoll)
      /\ LogFile!Day(now) \in Nat /\ LogFile!Day(lastRoll) \in Nat
  <2>1. /\ now \in Nat /\ lastRoll \in Nat /\ lastFlush \in Nat /\ lastAppend \in Nat
        /\ writtenBytes \in Nat /\ late \in Nat /\ count \in Nat /\ unflushed \in Seq(Nat)
    BY DEF FileTypes, FileKinds
  <2>2. LogFile!Day(now) \in Nat /\ LogFile!Day(lastRoll) \in Nat
    BY <2>1, DayBelow, Zenon
  <2> QED
    BY <2>1, <2>2, Zenon DEF FileTypes
<1>1. ASSUME NEW l \in Sizes, LogFile!AppendLine(l)
      PROVE  FileTimes'
  <2>0. UNCHANGED <<now, steppedBack>> /\ lastAppend' = now /\ l \in Nat
    BY <1>1, AppendCases
  <2>1. CASE Rolled
    BY <1>0, <2>0, <2>1 DEF FileTimes, LogFile!RolledWhenFull, Rolled
  <2>2. ASSUME Waits(l), \/ now <= lastRoll /\ count' \in Nat
                         \/ ~(writtenBytes + l > rollSize) /\ count' = count + 1
                         \/ /\ ~(writtenBytes + l > rollSize) /\ count' \in Nat
                            /\ LogFile!Day(now) = startOfPeriod /\ ~(now - lastFlush > flushInterval)
        PROVE  FileTimes'
    <3>1. LogFile!RolledWhenFull'
      BY <1>0, <2>0, <2>2 DEF LogFile!RolledWhenFull, Waits, Stayed
    <3> SUFFICES ASSUME ~steppedBack'
                 PROVE  /\ lastRoll' <= lastFlush' /\ lastFlush' <= now'
                        /\ late' <= count'
                        /\ late' > 0 => LogFile!Day(lastRoll') < LogFile!Day(now')
                        /\ \A i \in 1 .. Len(unflushed') :
                             /\ unflushed'[i] <= now'
                             /\ unflushed'[i] - lastFlush' > flushInterval
                                  => Len(unflushed') - i < count'
      BY <3>1, Zenon DEF FileTimes
    <3>2. /\ lastRoll <= lastFlush /\ lastFlush <= now
          /\ late <= count /\ (late > 0 => LogFile!Day(lastRoll) < LogFile!Day(now))
          /\ \A i \in 1 .. Len(unflushed) :
               /\ unflushed[i] <= now
               /\ unflushed[i] - lastFlush > flushInterval => Len(unflushed) - i < count
      BY <2>0, Zenon DEF FileTimes
    <3>3. /\ lastRoll' = lastRoll /\ lastFlush' = lastFlush /\ now' = now
          /\ unflushed' = Append(unflushed, now)
          /\ late' = IF LogFile!Day(now) # LogFile!Day(lastRoll) THEN late + 1 ELSE late
      BY <1>0, <2>0, <2>2, Zenon DEF Waits, Stayed
    <3>4. LogFile!Day(lastRoll) <= LogFile!Day(now)
      BY <1>0, <3>2, DayMonotone
    <3>5. now <= lastRoll => LogFile!Day(now) = LogFile!Day(lastRoll)
      BY <1>0, <3>2
    <3>6. /\ Len(unflushed') = Len(unflushed) + 1 /\ unflushed'[Len(unflushed) + 1] = now
          /\ \A i \in 1 .. Len(unflushed) : unflushed'[i] = unflushed[i] /\ unflushed[i] \in Nat
          /\ Len(unflushed) \in Nat
      BY <1>0, <3>3
    <3>7. late' <= count' /\ (late' > 0 => LogFile!Day(lastRoll) < LogFile!Day(now))
      BY <1>0, <2>2, <3>2, <3>3, <3>4, <3>5
    <3>8. ASSUME NEW i \in 1 .. Len(unflushed')
          PROVE  /\ unflushed'[i] <= now
                 /\ unflushed'[i] - lastFlush > flushInterval => Len(unflushed') - i < count'
      <4>1. CASE i = Len(unflushed) + 1
        BY <1>0, <2>2, <3>2, <3>6, <4>1
      <4>2. CASE i \in 1 .. Len(unflushed)
        <5>1. unflushed'[i] = unflushed[i] /\ unflushed[i] \in Nat /\ unflushed[i] <= now
          BY <3>2, <3>6, <4>2, Zenon
        <5>2. unflushed[i] - lastFlush > flushInterval => Len(unflushed) - i < count
          BY <3>2, <4>2, Zenon
        <5>3. CASE now <= lastRoll \/ ~(now - lastFlush > flushInterval)
          BY SMTT(60), <1>0, <3>2, <5>1, <5>3
        <5>4. CASE count' = count + 1
          BY <1>0, <3>6, <5>1, <5>2, <5>4
        <5> QED
          BY <2>2, <5>3, <5>4, Zenon
      <4> QED
        BY <3>6, <4>1, <4>2
    <3> QED
      BY <3>2, <3>3, <3>7, <3>8, Zenon
  <2>3. ASSUME ~(writtenBytes + l > rollSize), count' = 0, LogFile!Day(now) = startOfPeriod,
               Stayed(l), unflushed' = <<>>, lastFlush' = now
        PROVE  FileTimes'
    BY <1>0, <2>0, <2>3 DEF FileTimes, LogFile!RolledWhenFull, Stayed
  <2>4. ~(now > lastRoll) => now <= lastRoll
    BY <1>0
  <2>5. count \in Nat /\ 0 \in Nat
    BY <1>0
  <2> QED
    BY <1>1, <2>1, <2>2, <2>3, <2>4, <2>5, AppendCases, Zenon
<1>2. CASE LogFile!Flush
  BY <1>0, <1>2 DEF LogFile!Flush, LogFile!period, FileTimes, LogFile!RolledWhenFull
<1>3. CASE LogFile!Tick
  <2>1. LogFile!Day(now) <= LogFile!Day(now + 1) /\ LogFile!Day(now + 1) \in Nat
    <3>1. now + 1 \in Nat /\ now <= now + 1
      BY <1>0
    <3> QED
      BY <1>0, <3>1, DayMonotone, DayBelow, Zenon
  <2>2. /\ now' = now + 1 /\ LogFile!Day(now') = LogFile!Day(now + 1)
        /\ UNCHANGED <<lastRoll, lastFlush, count, writtenBytes, unflushed, lastAppend, late,
                       steppedBack>>
    BY <1>3 DEF LogFile!Tick, LogFile!period
  <2>3. \A i \in 1 .. Len(unflushed) : unflushed[i] \in Nat
    BY <1>0
  <2> QED
    BY <1>0, <2>1, <2>2, <2>3 DEF FileTimes, LogFile!RolledWhenFull
<1>4. CASE LogFile!SetBack
  BY <1>0, <1>4 DEF LogFile!SetBack, LogFile!period, FileTimes, LogFile!RolledWhenFull
<1>5. CASE UNCHANGED LogFile!vars
  BY <1>5 DEF LogFile!vars, LogFile!period, FileTimes, LogFile!RolledWhenFull, LogFile!Day
<1> QED
  BY <1>1, <1>2, <1>3, <1>4, <1>5, Zenon DEF LogFile!Next

LEMMA FileSafe ==
  ASSUME FileTypes, FileTimes
  PROVE  FileInTime
<1> USE FileConstants
<1>1. LogFile!NewName
  BY Zenon DEF FileTypes
<1>2. count \in Nat /\ count < checkEveryN /\ late \in Nat /\ unflushed \in Seq(1 .. MaxTime)
  BY DEF FileTypes, FileKinds
<1>3. LogFile!LateIsBounded
  BY <1>2 DEF FileTimes, LogFile!LateIsBounded
<1>4. LogFile!FlushedInTime
  <2> SUFFICES ASSUME ~steppedBack, NEW i \in 1 .. Len(unflushed),
                      unflushed[i] - lastFlush > flushInterval
               PROVE  Len(unflushed) - i < checkEveryN
    BY Zenon DEF LogFile!FlushedInTime
  <2>1. Len(unflushed) - i < count
    BY Zenon DEF FileTimes
  <2> QED
    BY <1>2, <2>1
<1>5. LogFile!TypeOK
  BY Zenon DEF FileTypes, FileKinds, LogFile!TypeOK
<1> QED
  BY <1>1, <1>3, <1>4, <1>5, Zenon DEF FileInTime, FileTypes, FileTimes

LEMMA FileInit ==
  ASSUME LogFile!Init
  PROVE  FileTypes /\ FileTimes
<1> USE FileConstants DEF LogFile!Init
<1>1. LogFile!Day(1) \in 0 .. MaxTime
  BY DayBelow
<1>2. <<1>> \in Seq(1 .. MaxTime) /\ Len(<<1>>) = 1 /\ <<1>>[1] = 1
  BY BackgroundConstants
<1>3. FileKinds
  <2>1. 1 \in 1 .. MaxTime /\ 0 \in 0 .. checkEveryN - 1 /\ 0 \in 0 .. FileLines
    BY BackgroundConstants
  <2>2. <<>> \in Seq(1 .. MaxTime) /\ 0 \in Nat /\ 1 \in Nat
    BY <2>1
  <2> QED
    BY <1>1, <1>2, <2>1, <2>2, Zenon DEF FileKinds
<1>4. FileTypes
  BY <1>2, <1>3 DEF FileTypes, LogFile!NewName
<1>5. FileTimes
  BY DEF FileTimes, LogFile!RolledWhenFull
<1> QED
  BY <1>4, <1>5

\* For any rollSize_, flushInterval_, checkEveryN_ and length of a day, and however
\* the clock goes: LogFile replaces a full file with the next line of a later second
\* and opens no file twice; and unless the clock is set back a new day is noticed,
\* and a line flushed, within checkEveryN_ lines.
THEOREM FilesRollInTime == MCSpec => []FileInTime
<1>1. MCInit => FileTypes /\ FileTimes
  BY FileInit, Zenon DEF MCInit
<1>2. FileTypes /\ FileTimes /\ [MCNext]_<<part, vars, poolVars, fileVars>>
        => FileTypes' /\ FileTimes'
  <2> SUFFICES ASSUME FileTypes, FileTimes, [MCNext]_<<part, vars, poolVars, fileVars>>
               PROVE  FileTypes' /\ FileTimes'
    OBVIOUS
  <2>1. [LogFile!Next]_(LogFile!vars)
    BY DEF MCNext, fileVars, LogFile!vars, LogFile!period
  <2> QED
    BY <2>1, FileTyped, FileTimed, Zenon
<1>3. FileTypes /\ FileTimes => FileInTime
  BY FileSafe, Zenon
<1> QED
  BY <1>1, <1>2, <1>3, PTL DEF MCSpec

-----------------------------------------------------------------------------
(* Sequences of lines *)

\* A set of numbers that is not empty has a least member: induction.
LEMMA LeastNumber ==
  ASSUME NEW S \in SUBSET Nat, S # {}
  PROVE  \E x \in S : \A y \in S : x <= y
<1>1. PICK x \in S : \A y \in S : ~(<<y, x>> \in OpToRel(<, Nat))
  BY NatLessThanWellFounded, WFMin, Zenon
<1> DEFINE R == {ss \in Nat \X Nat : ss[1] < ss[2]}
<1>2. OpToRel(<, Nat) = R
  BY Zenon DEF OpToRel
<1>3. ASSUME NEW y \in S
      PROVE  x <= y
  <2>1. <<y, x>> \notin R
    BY <1>1, <1>2, Zenon
  <2> QED
    BY <2>1, SMT
<1> QED
  BY <1>3, Zenon

\* f concatenates the first k buffers of bs one by one.
Concatenates(f, bs, k) == f[0] = <<>> /\ \A n \in 1 .. k : f[n] = f[n - 1] \o bs[n]

LEMMA ConcatenatesOnce ==
  ASSUME NEW k \in Nat, NEW f, NEW g, NEW bs, NEW cs,
         Concatenates(f, bs, k), Concatenates(g, cs, k), \A n \in 1 .. k : bs[n] = cs[n]
  PROVE  \A n \in 0 .. k : f[n] = g[n]
<1> DEFINE S == {n \in 0 .. k : f[n] # g[n]}
<1> SUFFICES ASSUME S # {}
             PROVE  FALSE
  BY Zenon
<1>1. S \in SUBSET Nat
  OBVIOUS
<1>2. PICK m \in S : \A y \in S : m <= y
  BY <1>1, LeastNumber, Zenon
<1>3. m \in 0 .. k /\ f[m] # g[m]
  BY <1>2, Zenon
<1>4. m # 0
  BY <1>3, Zenon DEF Concatenates
<1>5. m \in 1 .. k /\ m - 1 \in 0 .. k /\ ~(m <= m - 1)
  BY <1>3, <1>4, SMT
<1>6. f[m - 1] = g[m - 1]
  BY <1>2, <1>5, Zenon
<1> QED
  BY <1>3, <1>5, <1>6, Zenon DEF Concatenates

\* The function that LinesOf defines.
UpTo(bs) ==
  CHOOSE f : f = [n \in 0 .. Len(bs) |-> IF n = 0 THEN <<>> ELSE f[n - 1] \o bs[n]]

LEMMA ConcatenationExists ==
  ASSUME NEW bs \in Seq(Seq(Nat)), NEW k \in 0 .. Len(bs)
  PROVE  \E f \in [0 .. k -> Seq(Nat)] : Concatenates(f, bs, k)
<1> DEFINE P(n) == \E f \in [0 .. n -> Seq(Nat)] : Concatenates(f, bs, n)
           S == {n \in 0 .. Len(bs) : ~P(n)}
<1> SUFFICES ASSUME S # {}
             PROVE  FALSE
  BY Zenon
<1>1. S \in SUBSET Nat
  OBVIOUS
<1>2. PICK m \in S : \A y \in S : m <= y
  BY <1>1, LeastNumber, Zenon
<1>3. m \in 0 .. Len(bs) /\ ~P(m)
  BY <1>2, Zenon
<1>4. m # 0
  <2>1. P(0)
    <3> DEFINE e == [n \in 0 .. 0 |-> <<>>]
    <3>1. e \in [0 .. 0 -> Seq(Nat)] /\ Concatenates(e, bs, 0)
      BY DEF Concatenates
    <3> QED
      BY <3>1, Zenon
  <2> QED
    BY <1>3, <2>1, Zenon
<1>5. /\ m \in 1 .. Len(bs) /\ m - 1 \in 0 .. Len(bs) /\ ~(m <= m - 1)
      /\ m - 1 \in 0 .. m - 1 /\ bs[m] \in Seq(Nat) /\ m \in Nat
  BY <1>3, <1>4
<1>6. P(m - 1)
  BY <1>2, <1>5, Zenon
<1>7. PICK f \in [0 .. m - 1 -> Seq(Nat)] : Concatenates(f, bs, m - 1)
  BY <1>6, Zenon
<1> DEFINE g == [n \in 0 .. m |-> IF n = m THEN f[m - 1] \o bs[m] ELSE f[n]]
<1>8. f[m - 1] \o bs[m] \in Seq(Nat)
  BY <1>5, <1>7
<1>9. g \in [0 .. m -> Seq(Nat)]
  <2>1. \A n \in 0 .. m : n = m \/ n \in 0 .. m - 1
    BY <1>5
  <2> QED
    BY <1>7, <1>8, <2>1, Zenon
<1>10. g[m] = f[m - 1] \o bs[m] /\ \A n \in 0 .. m - 1 : g[n] = f[n]
  <2>1. m \in 0 .. m /\ \A n \in 0 .. m - 1 : n \in 0 .. m /\ n # m
    BY <1>5
  <2> QED
    BY <2>1, Zenon
<1> HIDE DEF g
<1>11. Concatenates(g, bs, m)
  <2>1. 0 \in 0 .. m - 1
    BY <1>5
  <2>2. \A n \in 1 .. m : (n = m \/ n \in 1 .. m - 1) /\ n - 1 \in 0 .. m - 1
    BY <1>5
  <2>3. \A n \in 1 .. m - 1 : n \in 0 .. m - 1
    BY <1>5
  <2> QED
    BY <1>7, <1>10, <2>1, <2>2, <2>3, Zenon DEF Concatenates
<1> QED
  BY <1>3, <1>9, <1>11, Zenon

LEMMA LinesOfIsUpTo ==
  ASSUME NEW bs \in Seq(Seq(Nat))
  PROVE  /\ LinesOf(bs) = UpTo(bs)[Len(bs)] /\ Concatenates(UpTo(bs), bs, Len(bs))
         /\ \A n \in 0 .. Len(bs) : UpTo(bs)[n] \in Seq(Nat)
<1> DEFINE k == Len(bs)
           Equation(f) == f = [n \in 0 .. k |-> IF n = 0 THEN <<>> ELSE f[n - 1] \o bs[n]]
<1>1. k \in Nat /\ k \in 0 .. k /\ 0 \in 0 .. k /\ \A n \in 1 .. k : n \in 0 .. k /\ n # 0
  OBVIOUS
<1>2. PICK f \in [0 .. k -> Seq(Nat)] : Concatenates(f, bs, k)
  BY <1>1, ConcatenationExists, Zenon
<1>3. Equation(f)
  <2>1. \A n \in 0 .. k : n = 0 \/ n \in 1 .. k
    BY <1>1
  <2>2. \A n \in 0 .. k : f[n] = IF n = 0 THEN <<>> ELSE f[n - 1] \o bs[n]
    BY <1>2, <2>1, Zenon DEF Concatenates
  <2> QED
    BY <1>2, <2>2, Zenon
<1>4. Equation(UpTo(bs))
  BY <1>3, Zenon DEF UpTo
<1> HIDE DEF k
<1>5. \A n \in 0 .. k : UpTo(bs)[n] = IF n = 0 THEN <<>> ELSE UpTo(bs)[n - 1] \o bs[n]
  BY <1>4, Zenon
<1>6. Concatenates(UpTo(bs), bs, k)
  BY <1>1, <1>5, Zenon DEF Concatenates
<1>7. \A n \in 0 .. k : UpTo(bs)[n] = f[n]
  <2>1. \A n \in 1 .. k : bs[n] = bs[n]
    OBVIOUS
  <2>2. k \in Nat /\ Concatenates(f, bs, k)
    BY <1>1, <1>2, Zenon
  <2> QED
    BY ZenonT(60), <1>6, <2>1, <2>2, ConcatenatesOnce
<1>8. LinesOf(bs) = UpTo(bs)[Len(bs)]
  BY Zenon DEF LinesOf, UpTo
<1> QED
  BY <1>2, <1>6, <1>7, <1>8, Zenon DEF k

LEMMA LinesOfNone == LinesOf(<<>>) = <<>>
<1>1. <<>> \in Seq(Seq(Nat)) /\ Len(<<>>) = 0
  OBVIOUS
<1> QED
  BY <1>1, LinesOfIsUpTo, Zenon DEF Concatenates

LEMMA LinesOfSeq ==
  ASSUME NEW bs \in Seq(Seq(Nat))
  PROVE  LinesOf(bs) \in Seq(Nat)
<1>1. Len(bs) \in 0 .. Len(bs)
  OBVIOUS
<1> QED
  BY <1>1, LinesOfIsUpTo, Zenon

\* buffers_.push_back(std::move(currentBuffer_))
LEMMA LinesOfAppend ==
  ASSUME NEW bs \in Seq(Seq(Nat)), NEW b \in Seq(Nat)
  PROVE  LinesOf(Append(bs, b)) = LinesOf(bs) \o b
<1> DEFINE cs == Append(bs, b)
           k == Len(bs)
<1>1. /\ cs \in Seq(Seq(Nat)) /\ k \in Nat /\ Len(cs) = k + 1 /\ cs[k + 1] = b
      /\ \A n \in 1 .. k : cs[n] = bs[n]
  OBVIOUS
<1>2. k + 1 \in 1 .. k + 1 /\ (k + 1) - 1 = k /\ k \in 0 .. k /\ \A n \in 1 .. k : n \in 1 .. k + 1
  BY <1>1
<1> HIDE DEF cs
<1>3. Concatenates(UpTo(bs), bs, k) /\ LinesOf(bs) = UpTo(bs)[k]
  BY LinesOfIsUpTo, Zenon
<1> HIDE DEF k
<1>4. Concatenates(UpTo(cs), cs, k + 1) /\ LinesOf(cs) = UpTo(cs)[k + 1]
  BY <1>1, LinesOfIsUpTo, Zenon
<1>5. Concatenates(UpTo(cs), cs, k)
  BY <1>2, <1>4, Zenon DEF Concatenates
<1>6. \A n \in 0 .. k : UpTo(cs)[n] = UpTo(bs)[n]
  BY <1>1, <1>3, <1>5, ConcatenatesOnce
<1>7. UpTo(cs)[k + 1] = UpTo(cs)[k] \o b
  BY <1>1, <1>2, <1>4, Zenon DEF Concatenates
<1> QED
  BY <1>2, <1>3, <1>4, <1>6, <1>7, Zenon DEF cs

LEMMA ConcatAssociates ==
  ASSUME NEW a \in Seq(Nat), NEW b \in Seq(Nat), NEW c \in Seq(Nat)
  PROVE  (a \o b) \o c = a \o (b \o c)
<1> DEFINE s == (a \o b) \o c
           t == a \o (b \o c)
<1>1. /\ a \o b \in Seq(Nat) /\ b \o c \in Seq(Nat) /\ s \in Seq(Nat) /\ t \in Seq(Nat)
      /\ Len(a \o b) = Len(a) + Len(b) /\ Len(b \o c) = Len(b) + Len(c)
      /\ Len(a) \in Nat /\ Len(b) \in Nat /\ Len(c) \in Nat
  OBVIOUS
<1>2. Len(s) = Len(a) + Len(b) + Len(c) /\ Len(t) = Len(a) + Len(b) + Len(c)
  BY <1>1
<1>3. \A i \in 1 .. Len(a) : s[i] = a[i] /\ t[i] = a[i]
  BY <1>1
<1>4. \A i \in 1 .. Len(b) : s[Len(a) + i] = b[i] /\ t[Len(a) + i] = b[i]
  <2> TAKE i \in 1 .. Len(b)
  <2>1. Len(a) + i \in 1 .. Len(a \o b) /\ (a \o b)[Len(a) + i] = b[i]
    BY <1>1
  <2>2. s[Len(a) + i] = (a \o b)[Len(a) + i]
    BY <1>1, <2>1
  <2>3. i \in 1 .. Len(b \o c) /\ (b \o c)[i] = b[i]
    BY <1>1
  <2>4. t[Len(a) + i] = (b \o c)[i]
    BY <1>1, <2>3
  <2> QED
    BY <2>1, <2>2, <2>3, <2>4, Zenon
<1>5. \A i \in 1 .. Len(c) : s[Len(a) + Len(b) + i] = c[i] /\ t[Len(a) + Len(b) + i] = c[i]
  <2> TAKE i \in 1 .. Len(c)
  <2>1. s[Len(a \o b) + i] = c[i]
    BY <1>1
  <2>2. Len(b) + i \in 1 .. Len(b \o c) /\ (b \o c)[Len(b) + i] = c[i]
    BY <1>1
  <2>3. t[Len(a) + (Len(b) + i)] = (b \o c)[Len(b) + i]
    BY <1>1, <2>2
  <2>4. Len(a) + (Len(b) + i) = Len(a) + Len(b) + i
    BY <1>1
  <2> QED
    BY <1>1, <2>1, <2>2, <2>3, <2>4, Zenon
<1> HIDE DEF s, t
<1>6. \A i \in 1 .. Len(s) : \/ i \in 1 .. Len(a)
                             \/ i - Len(a) \in 1 .. Len(b) /\ Len(a) + (i - Len(a)) = i
                             \/ /\ i - Len(a) - Len(b) \in 1 .. Len(c)
                                /\ Len(a) + Len(b) + (i - Len(a) - Len(b)) = i
  BY <1>1, <1>2
<1>7. \A i \in 1 .. Len(s) : s[i] = t[i]
  <2> TAKE i \in 1 .. Len(s)
  <2>1. CASE i - Len(a) \in 1 .. Len(b) /\ Len(a) + (i - Len(a)) = i
    BY <1>4, <2>1, Zenon
  <2>2. CASE /\ i - Len(a) - Len(b) \in 1 .. Len(c)
             /\ Len(a) + Len(b) + (i - Len(a) - Len(b)) = i
    BY <1>5, <2>2, Zenon
  <2> QED
    BY <1>3, <1>6, <2>1, <2>2, Zenon
<1>8. Len(s) = Len(t)
  BY <1>2, Zenon
<1>9. s = t
  <2>1. s \in [1 .. Len(s) -> Nat] /\ t \in [1 .. Len(s) -> Nat]
    BY <1>1, <1>8
  <2> QED
    BY <1>7, <2>1
<1> QED
  BY <1>9 DEF s, t

\* The lines of the first k buffers are the first of the lines.
LEMMA LinesOfPrefix ==
  ASSUME NEW bs \in Seq(Seq(Nat)), NEW k \in 0 .. Len(bs)
  PROVE  \E r \in Seq(Nat) : LinesOf(bs) = LinesOf(SubSeq(bs, 1, k)) \o r
<1> DEFINE cs == SubSeq(bs, 1, k)
           u == UpTo(bs)
           P(n) == \E r \in Seq(Nat) : u[n] = u[k] \o r
           S == {n \in k .. Len(bs) : ~P(n)}
<1>1. /\ cs \in Seq(Seq(Nat)) /\ Len(cs) = k /\ k \in Nat /\ \A n \in 1 .. k : cs[n] = bs[n]
      /\ Len(bs) \in k .. Len(bs) /\ k \in 0 .. k /\ \A n \in 1 .. k : n \in 1 .. Len(bs)
  OBVIOUS
<1> HIDE DEF cs
<1>2. /\ Concatenates(u, bs, Len(bs)) /\ LinesOf(bs) = u[Len(bs)]
      /\ \A n \in 0 .. Len(bs) : u[n] \in Seq(Nat)
  BY LinesOfIsUpTo, Zenon
<1> HIDE DEF u
<1>3. Concatenates(UpTo(cs), cs, k) /\ LinesOf(cs) = UpTo(cs)[k]
  BY <1>1, LinesOfIsUpTo, Zenon
<1>4. Concatenates(u, bs, k)
  BY <1>1, <1>2, Zenon DEF Concatenates
<1>5. \A n \in 0 .. k : UpTo(cs)[n] = u[n]
  BY <1>1, <1>3, <1>4, ConcatenatesOnce
<1>6. S = {}
  <2> SUFFICES ASSUME S # {}
               PROVE  FALSE
    OBVIOUS
  <2>1. S \in SUBSET Nat
    BY <1>1
  <2>2. PICK m \in S : \A y \in S : m <= y
    BY <2>1, LeastNumber, Zenon
  <2>3. m \in k .. Len(bs) /\ ~P(m)
    BY <2>2, Zenon
  <2>4. u[k] \in Seq(Nat)
    BY <1>2, Zenon
  <2>5. m # k
    <3>1. u[k] = u[k] \o <<>> /\ <<>> \in Seq(Nat)
      BY <2>4
    <3> QED
      BY <2>3, <3>1, Zenon
  <2>6. m - 1 \in k .. Len(bs) /\ m \in 1 .. Len(bs) /\ ~(m <= m - 1) /\ bs[m] \in Seq(Nat)
    BY <1>1, <2>3, <2>5
  <2>7. PICK r \in Seq(Nat) : u[m - 1] = u[k] \o r
    BY <2>2, <2>6, Zenon
  <2>8. u[m] = (u[k] \o r) \o bs[m]
    BY <1>2, <2>6, <2>7, Zenon DEF Concatenates
  <2>9. (u[k] \o r) \o bs[m] = u[k] \o (r \o bs[m]) /\ r \o bs[m] \in Seq(Nat)
    <3>1. r \o bs[m] \in Seq(Nat)
      BY <2>6, <2>7
    <3> QED
      BY <2>4, <2>6, <2>7, <3>1, ConcatAssociates, Zenon
  <2> QED
    BY <2>3, <2>8, <2>9, Zenon
<1>7. P(Len(bs))
  BY <1>1, <1>6, Zenon
<1> QED
  BY <1>1, <1>2, <1>3, <1>5, <1>7, Zenon DEF cs

LEMMA ConcatElements ==
  ASSUME NEW a \in Seq(Nat), NEW b \in Seq(Nat)
  PROVE  /\ a \o b \in Seq(Nat) /\ Len(a) \in Nat /\ Len(b) \in Nat /\ Len(a \o b) = Len(a) + Len(b)
         /\ \A i \in 1 .. Len(a) : (a \o b)[i] = a[i] /\ a[i] \in Nat
         /\ \A j \in 1 .. Len(b) : (a \o b)[Len(a) + j] = b[j] /\ b[j] \in Nat
         /\ \A i \in 1 .. Len(a \o b) : i \in 1 .. Len(a) \/ \E j \in 1 .. Len(b) : i = Len(a) + j
<1>1. /\ a \o b \in Seq(Nat) /\ Len(a) \in Nat /\ Len(b) \in Nat /\ Len(a \o b) = Len(a) + Len(b)
  OBVIOUS
<1>2. \A i \in 1 .. Len(a) : (a \o b)[i] = a[i] /\ a[i] \in Nat
  OBVIOUS
<1>3. \A j \in 1 .. Len(b) : (a \o b)[Len(a) + j] = b[j] /\ b[j] \in Nat
  OBVIOUS
<1>4. ASSUME NEW i \in 1 .. Len(a \o b), i \notin 1 .. Len(a)
      PROVE  \E j \in 1 .. Len(b) : i = Len(a) + j
  <2>1. i - Len(a) \in 1 .. Len(b) /\ i = Len(a) + (i - Len(a))
    BY <1>1, <1>4
  <2> QED
    BY <2>1, Zenon
<1> QED
  BY <1>1, <1>2, <1>3, <1>4, Zenon

Ascending(s) == \A i, j \in 1 .. Len(s) : i < j => s[i] < s[j]

Below(a, b) == \A x \in Range(a), y \in Range(b) : x < y

LEMMA ConcatRange ==
  ASSUME NEW a \in Seq(Nat), NEW b \in Seq(Nat)
  PROVE  Range(a \o b) = Range(a) \cup Range(b)
<1>1. /\ DOMAIN a = 1 .. Len(a) /\ DOMAIN b = 1 .. Len(b) /\ DOMAIN (a \o b) = 1 .. Len(a \o b)
      /\ \A i \in 1 .. Len(a) : i \in 1 .. Len(a \o b)
      /\ \A j \in 1 .. Len(b) : Len(a) + j \in 1 .. Len(a \o b)
  OBVIOUS
<1>2. \A x : x \in Range(a \o b) <=> x \in Range(a) \cup Range(b)
  <2>1. ASSUME NEW i \in 1 .. Len(a \o b)
        PROVE  (a \o b)[i] \in Range(a) \cup Range(b)
    <3>1. CASE i \in 1 .. Len(a)
      <4>1. (a \o b)[i] = a[i]
        BY <3>1, ConcatElements, Zenon
      <4> QED
        BY <1>1, <3>1, <4>1, Zenon DEF Range
    <3>2. CASE \E j \in 1 .. Len(b) : i = Len(a) + j
      <4>1. PICK j \in 1 .. Len(b) : i = Len(a) + j
        BY <3>2, Zenon
      <4>2. (a \o b)[i] = b[j]
        BY <4>1, ConcatElements, Zenon
      <4> QED
        BY <1>1, <4>2, Zenon DEF Range
    <3> QED
      BY <3>1, <3>2, ConcatElements, Zenon
  <2>2. ASSUME NEW i \in 1 .. Len(a)
        PROVE  a[i] \in Range(a \o b)
    <3>1. (a \o b)[i] = a[i]
      BY ConcatElements, Zenon
    <3> QED
      BY <1>1, <3>1, Zenon DEF Range
  <2>3. ASSUME NEW j \in 1 .. Len(b)
        PROVE  b[j] \in Range(a \o b)
    <3>1. (a \o b)[Len(a) + j] = b[j]
      BY ConcatElements, Zenon
    <3> QED
      BY <1>1, <3>1, Zenon DEF Range
  <2> QED
    BY <1>1, <2>1, <2>2, <2>3, Zenon DEF Range
<1> QED
  BY <1>2, Zenon

LEMMA ConcatAscending ==
  ASSUME NEW a \in Seq(Nat), NEW b \in Seq(Nat)
  PROVE  Ascending(a \o b) <=> Ascending(a) /\ Ascending(b) /\ Below(a, b)
<1>0. /\ DOMAIN a = 1 .. Len(a) /\ DOMAIN b = 1 .. Len(b)
      /\ \A i \in 1 .. Len(a) : i \in 1 .. Len(a \o b)
      /\ \A j \in 1 .. Len(b) : Len(a) + j \in 1 .. Len(a \o b)
  OBVIOUS
<1>1. ASSUME Ascending(a \o b)
      PROVE  Ascending(a) /\ Ascending(b) /\ Below(a, b)
  <2>1. Ascending(a)
    BY <1>0, <1>1, ConcatElements, Zenon DEF Ascending
  <2>2. \A i, j \in 1 .. Len(b) : i < j => Len(a) + i < Len(a) + j
    BY ConcatElements
  <2>3. Ascending(b)
    BY <1>0, <1>1, <2>2, ConcatElements, Zenon DEF Ascending
  <2>4. \A i \in 1 .. Len(a), j \in 1 .. Len(b) : i < Len(a) + j
    BY ConcatElements
  <2>5. ASSUME NEW i \in 1 .. Len(a), NEW j \in 1 .. Len(b)
        PROVE  a[i] < b[j]
    <3>1. (a \o b)[i] < (a \o b)[Len(a) + j]
      BY <1>0, <1>1, <2>4, Zenon DEF Ascending
    <3> QED
      BY <3>1, ConcatElements, Zenon
  <2>6. Below(a, b)
    BY <1>0, <2>5, Zenon DEF Below, Range
  <2> QED
    BY <2>1, <2>3, <2>6, Zenon
<1>2. ASSUME Ascending(a), Ascending(b), Below(a, b), NEW i \in 1 .. Len(a \o b),
             NEW j \in 1 .. Len(a \o b), i < j
      PROVE  (a \o b)[i] < (a \o b)[j]
  <2>1. CASE i \in 1 .. Len(a) /\ j \in 1 .. Len(a)
    BY <1>2, <2>1, ConcatElements, ZenonT(60) DEF Ascending
  <2>2. CASE i \in 1 .. Len(a) /\ \E m \in 1 .. Len(b) : j = Len(a) + m
    <3>1. PICK m \in 1 .. Len(b) : j = Len(a) + m
      BY <2>2, Zenon
    <3>2. a[i] \in Range(a) /\ b[m] \in Range(b)
      BY <1>0, <2>2, Zenon DEF Range
    <3>3. a[i] < b[m]
      BY <1>2, <3>2, Zenon DEF Below
    <3> QED
      BY <2>2, <3>1, <3>3, ConcatElements, Zenon
  <2>3. CASE \E m \in 1 .. Len(b) : i = Len(a) + m
    <3>1. PICK m \in 1 .. Len(b) : i = Len(a) + m
      BY <2>3, Zenon
    <3>2. j \notin 1 .. Len(a)
      BY <1>2, <3>1
    <3>3. PICK n \in 1 .. Len(b) : j = Len(a) + n
      BY <3>2, ConcatElements, Zenon
    <3>4. m < n
      BY <1>2, <3>1, <3>3
    <3> QED
      BY <1>2, <3>1, <3>3, <3>4, ConcatElements, Zenon DEF Ascending
  <2> QED
    BY <2>1, <2>2, <2>3, ConcatElements, Zenon
<1> QED
  BY <1>1, <1>2, Zenon DEF Ascending

-----------------------------------------------------------------------------
(* AsyncLogging *)

Sorted(a, b, c, d) ==
  /\ Ascending(a) /\ Ascending(b) /\ Ascending(c) /\ Ascending(d)
  /\ Below(a, b) /\ Below(a, c) /\ Below(a, d) /\ Below(b, c) /\ Below(b, d) /\ Below(c, d)

Contents(a, b, c, d) == Range(a) \cup Range(b) \cup Range(c) \cup Range(d)

LEMMA FourParts ==
  ASSUME NEW a \in Seq(Nat), NEW b \in Seq(Nat), NEW c \in Seq(Nat), NEW d \in Seq(Nat),
         Sorted(a, b, c, d)
  PROVE  Ascending(a \o b \o c \o d) /\ Range(a \o b \o c \o d) = Contents(a, b, c, d)
<1>1. a \o b \in Seq(Nat) /\ (a \o b) \o c \in Seq(Nat)
  BY ConcatElements, Zenon
<1>2. Ascending(a \o b) /\ Range(a \o b) = Range(a) \cup Range(b)
  BY ConcatAscending, ConcatRange, Zenon DEF Sorted
<1>3. Below(a \o b, c) /\ Below(a \o b, d)
  BY <1>2, Zenon DEF Below, Sorted
<1>4. Ascending((a \o b) \o c) /\ Range((a \o b) \o c) = Range(a \o b) \cup Range(c)
  BY <1>1, <1>2, <1>3, ConcatAscending, ConcatRange, Zenon DEF Sorted
<1>5. Below((a \o b) \o c, d)
  BY <1>3, <1>4, Zenon DEF Below, Sorted
<1>6. /\ Ascending(((a \o b) \o c) \o d)
      /\ Range(((a \o b) \o c) \o d) = Range((a \o b) \o c) \cup Range(d)
  BY <1>1, <1>4, <1>5, ConcatAscending, ConcatRange, Zenon DEF Sorted
<1> QED
  BY <1>2, <1>4, <1>6, Zenon DEF Contents

LEMMA NoLines == <<>> \in Seq(Nat) /\ Ascending(<<>>) /\ Range(<<>>) = {}
BY DEF Ascending, Range

LEMMA OneMore ==
  ASSUME NEW a \in Seq(Nat), NEW x \in Nat, Ascending(a), \A y \in Range(a) : y < x
  PROVE  /\ Append(a, x) \in Seq(Nat) /\ Ascending(Append(a, x))
         /\ Range(Append(a, x)) = Range(a) \cup {x}
<1>1. /\ <<x>> \in Seq(Nat) /\ Append(a, x) = a \o <<x>> /\ Append(a, x) \in Seq(Nat)
      /\ Len(<<x>>) = 1 /\ <<x>>[1] = x /\ DOMAIN <<x>> = 1 .. 1
  OBVIOUS
<1>2. Range(<<x>>) = {x}
  <2>1. \A i : i \in 1 .. 1 <=> i = 1
    OBVIOUS
  <2> QED
    BY <1>1, <2>1, Zenon DEF Range
<1>3. Ascending(<<x>>)
  BY <1>1 DEF Ascending
<1>4. Below(a, <<x>>)
  BY <1>2, Zenon DEF Below
<1> QED
  BY <1>1, <1>2, <1>3, <1>4, ConcatAscending, ConcatRange, ZenonT(60)

\* The type invariant, one variable at a time.
LogKinds ==
  /\ currentBuffer \in Seq(1 .. MaxLines) /\ Len(currentBuffer) <= Capacity
  /\ nextBuffer \in {<<>>, NULL} /\ newBuffer1 \in {<<>>, NULL} /\ newBuffer2 \in {<<>>, NULL}
  /\ buffers \in Seq(Seq(Nat)) /\ buffersToWrite \in Seq(Seq(Nat)) /\ file \in Seq(Nat)
  /\ running \in BOOLEAN /\ flushed \in 0 .. Len(file)
  /\ lpc \in {"new", "top", "lock", "waiting", "woken", "write", "refill", "end", "exited"}
  /\ owner \in {"new", "starting", "running", "stopping", "stopped"}
  /\ appended \in 0 .. MaxLines

\* Where the four buffers are: nextBuffer_ is gone only when a buffer is full, and
\* threadFunc has both of its own, or has as many to write as it lacks.
Round ==
  /\ nextBuffer = NULL => buffers # <<>>
  /\ lpc = "new" => buffersToWrite = <<>>
  /\ lpc \in {"top", "lock", "waiting", "woken"} =>
       newBuffer1 = <<>> /\ newBuffer2 = <<>> /\ buffersToWrite = <<>>
  /\ lpc \in {"write", "refill"} =>
       /\ newBuffer1 = NULL /\ Len(buffersToWrite) >= 1
       /\ newBuffer2 = NULL => Len(buffersToWrite) >= 2

\* What is written, to be written, full and current is in order and complete.
LogOrder ==
  /\ Sorted(file, ToCome, LinesOf(buffers), currentBuffer)
  /\ Contents(file, ToCome, LinesOf(buffers), currentBuffer) = (1 .. appended) \ dropped
  /\ dropped \subseteq 1 .. appended

LogInv == LogKinds /\ Round /\ LogOrder

LEMMA NullIsNone == NULL # <<>>
<1>1. <<>> \in Seq(Nat)
  OBVIOUS
<1> QED
  BY <1>1, LoggingConstants, Zenon

\* The steps that move no line.
LogQuiet ==
  /\ UNCHANGED <<currentBuffer, buffers, file, appended, dropped, nextBuffer>>
  /\ ToCome' = ToCome
  /\ LogKinds' /\ Round'

LEMMA QuietSteps ==
  ASSUME LogKinds, Round,
         \/ Begin \/ Top \/ Wait \/ Timeout \/ Refill \/ End
         \/ Start \/ Started \/ Stop \/ Stopped \/ UNCHANGED vars
  PROVE  LogQuiet
<1> USE DEF LogQuiet, LogKinds, Round, ToCome, front, back, output
<1>1. CASE Begin \/ Wait \/ Timeout
  BY <1>1 DEF Begin, Wait, Timeout
<1>2. CASE Refill \/ End
  <2>1. Len(file) \in 0 .. Len(file)
    BY DEF LogKinds
  <2>2. <<>> \in Seq(Seq(Nat))
    OBVIOUS
  <2> QED
    BY <1>2, <2>1, <2>2 DEF Refill, End
<1>6. CASE Top
  <2>1. lpc' \in {"lock", "end"}
    BY <1>6, Zenon DEF Top
  <2> QED
    BY <1>6, <2>1 DEF Top
<1>3. CASE Start \/ Started \/ Stopped
  BY ZenonT(60), <1>3 DEF Start, Started, Stopped
<1>4. CASE Stop
  BY <1>4 DEF Stop, Notify
<1>5. CASE UNCHANGED vars
  BY ZenonT(60), <1>5 DEF vars
<1> QED
  BY <1>1, <1>2, <1>3, <1>4, <1>5, <1>6

LEMMA QuietKeepsOrder ==
  ASSUME LogInv, LogQuiet
  PROVE  LogInv'
<1>1. LinesOf(buffers') = LinesOf(buffers)
  BY Zenon DEF LogQuiet
<1> QED
  BY <1>1, Zenon DEF LogInv, LogQuiet, LogOrder

\* The four parts are sequences of numbers, and no line is in two of them.
LEMMA LogSeqs ==
  ASSUME LogKinds
  PROVE  /\ file \in Seq(Nat) /\ ToCome \in Seq(Nat) /\ LinesOf(buffers) \in Seq(Nat)
         /\ currentBuffer \in Seq(Nat) /\ appended \in Nat /\ appended + 1 \in Nat
<1>1. file \in Seq(Nat) /\ currentBuffer \in Seq(Nat) /\ appended \in Nat /\ appended + 1 \in Nat
  BY LoggingConstants DEF LogKinds
<1>2. LinesOf(buffers) \in Seq(Nat) /\ LinesOf(buffersToWrite) \in Seq(Nat)
  BY LinesOfSeq, Zenon DEF LogKinds
<1> QED
  BY <1>1, <1>2, NoLines, Zenon DEF ToCome

LEMMA BelowApart ==
  ASSUME NEW a \in Seq(Nat), NEW b \in Seq(Nat), Below(a, b)
  PROVE  \A x \in Range(a) : x \notin Range(b)
<1>1. Range(a) \subseteq Nat
  BY DEF Range
<1>2. \A x \in Range(a) : ~(x < x)
  BY <1>1
<1> QED
  BY <1>2, Zenon DEF Below

\* The number of the next line is above all others.
LEMMA NextLine ==
  ASSUME LogKinds, LogOrder
  PROVE  /\ \A x \in Contents(file, ToCome, LinesOf(buffers), currentBuffer) : x < appended + 1
         /\ (1 .. appended + 1) \ dropped = ((1 .. appended) \ dropped) \cup {appended + 1}
         /\ dropped \subseteq 1 .. appended + 1
<1>1. appended \in Nat
  BY LogSeqs, Zenon
<1>2. \A x \in 1 .. appended : x < appended + 1
  BY <1>1
<1>3. \A x : x \in 1 .. appended + 1 <=> x \in 1 .. appended \/ x = appended + 1
  BY <1>1
<1>4. appended + 1 \notin 1 .. appended
  BY <1>1
<1>5. /\ Contents(file, ToCome, LinesOf(buffers), currentBuffer) = (1 .. appended) \ dropped
      /\ dropped \subseteq 1 .. appended
  BY Zenon DEF LogOrder
<1> QED
  BY <1>2, <1>3, <1>4, <1>5, Zenon

LEMMA AppendKeeps ==
  ASSUME LogInv, AppendLine
  PROVE  LogInv'
<1> DEFINE a == file
           b == ToCome
           c == LinesOf(buffers)
           d == currentBuffer
           n == appended + 1
<1>0. LogKinds /\ Round /\ LogOrder
  BY Zenon DEF LogInv
<1>1. /\ a \in Seq(Nat) /\ b \in Seq(Nat) /\ c \in Seq(Nat) /\ d \in Seq(Nat) /\ n \in Nat
  BY <1>0, LogSeqs, Zenon
<1>2. /\ appended' = n /\ appended < MaxLines
      /\ UNCHANGED <<newBuffer1, newBuffer2, buffersToWrite, running, owner, file, flushed,
                     dropped>>
  BY Zenon DEF AppendLine, back, output
<1>3. lpc' = lpc \/ (lpc = "waiting" /\ lpc' = "woken")
  BY Zenon DEF AppendLine, AppendFull, Notify
<1>4. ToCome' = b
  BY <1>2, <1>3 DEF ToCome
<1>5. /\ \A x \in Contents(a, b, c, d) : x < n
      /\ (1 .. n) \ dropped = ((1 .. appended) \ dropped) \cup {n}
      /\ dropped \subseteq 1 .. n
  BY <1>0, NextLine, Zenon
<1>6. Sorted(a, b, c, d) /\ Contents(a, b, c, d) = (1 .. appended) \ dropped
  BY <1>0, Zenon DEF LogOrder
<1>7. appended' \in 0 .. MaxLines /\ n \in 1 .. MaxLines
  BY <1>0, <1>2, LoggingConstants DEF LogKinds
<1>8. ASSUME NEW e \in Seq(Nat), NEW g \in Seq(Nat), LinesOf(buffers') = e, currentBuffer' = g,
             Sorted(a, b, e, g), Contents(a, b, e, g) = Contents(a, b, c, d) \cup {n}
      PROVE  LogOrder'
  BY <1>2, <1>4, <1>5, <1>6, <1>8, Zenon DEF LogOrder
<1>9. CASE Fits
  <2>1. currentBuffer' = Append(d, n) /\ UNCHANGED <<nextBuffer, buffers, lpc>>
    BY <1>2, <1>9, Zenon DEF AppendLine
  <2>2. /\ Append(d, n) \in Seq(Nat) /\ Ascending(Append(d, n))
        /\ Range(Append(d, n)) = Range(d) \cup {n}
    BY <1>1, <1>5, <1>6, OneMore, Zenon DEF Sorted, Contents
  <2>3. Sorted(a, b, c, Append(d, n))
    BY <1>5, <1>6, <2>2, ZenonT(60) DEF Sorted, Below, Contents
  <2>4. Contents(a, b, c, Append(d, n)) = Contents(a, b, c, d) \cup {n}
    BY <2>2, Zenon DEF Contents
  <2>5. LogOrder'
    BY <1>1, <1>8, <2>1, <2>2, <2>3, <2>4, Zenon
  <2>6. currentBuffer' \in Seq(1 .. MaxLines) /\ Len(currentBuffer') <= Capacity
    BY <1>0, <1>7, <1>9, <2>1, LoggingConstants DEF Fits, LogKinds
  <2>7. LogKinds' /\ Round'
    BY <1>0, <1>2, <1>7, <2>1, <2>6, ZenonT(60) DEF LogKinds, Round
  <2> QED
    BY <2>5, <2>7, Zenon DEF LogInv
<1>10. CASE ~Fits
  <2>1. AppendFull(n)
    BY <1>2, <1>10, Zenon DEF AppendLine
  <2>2. (IF nextBuffer # NULL THEN nextBuffer ELSE <<>>) = <<>>
    BY <1>0, Zenon DEF LogKinds
  <2>3. currentBuffer' = Append(<<>>, n) /\ buffers' = Append(buffers, d) /\ nextBuffer' = NULL
    BY <2>1, <2>2, Zenon DEF AppendFull
  <2>4. LinesOf(buffers') = c \o d
    BY <1>0, <1>1, <2>3, LinesOfAppend, Zenon DEF LogKinds
  <2>5. /\ Append(<<>>, n) \in Seq(Nat) /\ Ascending(Append(<<>>, n))
        /\ Range(Append(<<>>, n)) = {n}
    <3>1. \A y \in Range(<<>>) : y < n
      BY NoLines, Zenon
    <3>2. /\ Append(<<>>, n) \in Seq(Nat) /\ Ascending(Append(<<>>, n))
          /\ Range(Append(<<>>, n)) = Range(<<>>) \cup {n}
      BY <1>1, <3>1, NoLines, OneMore
    <3> QED
      BY <3>2, NoLines, Zenon
  <2>6. /\ c \o d \in Seq(Nat) /\ Ascending(c \o d) /\ Range(c \o d) = Range(c) \cup Range(d)
    BY <1>1, <1>6, ConcatElements, ConcatAscending, ConcatRange, Zenon DEF Sorted
  <2>7. Sorted(a, b, c \o d, Append(<<>>, n))
    BY <1>5, <1>6, <2>5, <2>6, ZenonT(60) DEF Sorted, Below, Contents
  <2>8. Contents(a, b, c \o d, Append(<<>>, n)) = Contents(a, b, c, d) \cup {n}
    BY <2>5, <2>6, Zenon DEF Contents
  <2>9. LogOrder'
    BY <1>8, <2>3, <2>4, <2>5, <2>6, <2>7, <2>8, Zenon
  <2>10. currentBuffer' \in Seq(1 .. MaxLines) /\ Len(currentBuffer') <= Capacity
    BY <1>7, <2>3, LoggingConstants
  <2>11. buffers' \in Seq(Seq(Nat)) /\ buffers' # <<>>
    <3>1. buffers \in Seq(Seq(Nat))
      BY <1>0, Zenon DEF LogKinds
    <3>2. Append(buffers, d) \in Seq(Seq(Nat)) /\ Append(buffers, d) # <<>>
      <4>1. currentBuffer \in Seq(Nat)
        BY <1>1, Zenon
      <4>2. /\ Append(buffers, currentBuffer) \in Seq(Seq(Nat))
            /\ Len(Append(buffers, currentBuffer)) = Len(buffers) + 1 /\ Len(buffers) \in Nat
        BY <3>1, <4>1
      <4>3. Len(<<>>) = 0 /\ Len(buffers) + 1 # 0
        BY <4>2
      <4> QED
        BY <4>2, <4>3, Zenon
    <3> QED
      BY <2>3, <3>2, Zenon
  <2>12. LogKinds'
    BY <1>0, <1>2, <1>3, <1>7, <2>3, <2>10, <2>11 DEF LogKinds
  <2>13. Round'
    BY <1>0, <1>2, <1>3, <2>11 DEF Round
  <2> QED
    BY <2>9, <2>12, <2>13, Zenon DEF LogInv
<1> QED
  BY <1>9, <1>10, Zenon

LEMMA SwapKeeps ==
  ASSUME LogInv, SwapNow \/ SwapWoken
  PROVE  LogInv'
<1> DEFINE a == file
           c == LinesOf(buffers)
           d == currentBuffer
<1>0. LogKinds /\ Round /\ LogOrder
  BY Zenon DEF LogInv
<1>1. a \in Seq(Nat) /\ c \in Seq(Nat) /\ d \in Seq(Nat)
  BY <1>0, LogSeqs, Zenon
<1>2. lpc \in {"lock", "woken"} /\ Swap /\ (lpc = "woken" \/ buffers # <<>>)
  BY Zenon DEF SwapNow, SwapWoken
<1>3. newBuffer1 = <<>> /\ newBuffer2 = <<>> /\ ToCome = <<>>
  BY <1>0, <1>2 DEF Round, ToCome
<1>4. /\ buffersToWrite' = Append(buffers, d) /\ buffers' = <<>> /\ currentBuffer' = <<>>
      /\ newBuffer1' = NULL /\ nextBuffer' = <<>> /\ newBuffer2' \in {<<>>, NULL}
      /\ newBuffer2' = NULL => nextBuffer = NULL \/ newBuffer2 = NULL
      /\ lpc' = "write" /\ UNCHANGED <<running, owner, appended, file, flushed, dropped>>
  BY <1>0, <1>2, <1>3, Zenon DEF Swap, output, LogKinds
<1>5. ToCome' = c \o d
  <2>1. LinesOf(Append(buffers, d)) = c \o d
    BY <1>0, <1>1, LinesOfAppend, Zenon DEF LogKinds
  <2> QED
    BY <1>4, <2>1, Zenon DEF ToCome
<1>6. /\ c \o d \in Seq(Nat) /\ Ascending(c \o d) /\ Range(c \o d) = Range(c) \cup Range(d)
  BY <1>0, <1>1, ConcatElements, ConcatAscending, ConcatRange, Zenon DEF LogOrder, Sorted
<1>7. Sorted(a, c \o d, <<>>, <<>>)
  BY <1>0, <1>6, NoLines, Zenon DEF LogOrder, Sorted, Below
<1>8. Contents(a, c \o d, <<>>, <<>>) = Contents(a, ToCome, c, d)
  BY <1>3, <1>6, NoLines, Zenon DEF Contents
<1>9. LogOrder'
  BY <1>0, <1>4, <1>5, <1>7, <1>8, LinesOfNone, Zenon DEF LogOrder
<1>10. buffersToWrite' \in Seq(Seq(Nat)) /\ Len(buffersToWrite') = Len(buffers) + 1
       /\ Len(buffers) \in Nat
  BY <1>0, <1>1, <1>4 DEF LogKinds
<1>11. LogKinds'
  <2>1. /\ <<>> \in Seq(1 .. MaxLines) /\ Len(<<>>) <= Capacity /\ <<>> \in Seq(Seq(Nat))
    BY LoggingConstants
  <2> QED
    BY <1>0, <1>4, <1>10, <2>1 DEF LogKinds
<1>12. Round'
  <2>1. newBuffer2' = NULL => Len(buffers) >= 1
    BY <1>0, <1>3, <1>4, NullIsNone DEF Round, LogKinds
  <2> QED
    BY <1>4, <1>10, <2>1, NullIsNone DEF Round
<1> QED
  BY <1>9, <1>11, <1>12, Zenon DEF LogInv

LEMMA WriteKeeps ==
  ASSUME LogInv, Write
  PROVE  LogInv'
<1> DEFINE a == file
           b == LinesOf(buffersToWrite)
           c == LinesOf(buffers)
           d == currentBuffer
           k == LinesOf(Kept)
<1>0. LogKinds /\ Round /\ LogOrder /\ buffersToWrite \in Seq(Seq(Nat))
  BY Zenon DEF LogInv, LogKinds
<1>1. /\ a \in Seq(Nat) /\ b \in Seq(Nat) /\ c \in Seq(Nat) /\ d \in Seq(Nat)
  BY <1>0, LogSeqs, LinesOfSeq, Zenon
<1>2. /\ lpc = "write" /\ lpc' = "refill"
      /\ file' = a \o k /\ dropped' = dropped \cup (Range(b) \ Range(k))
      /\ buffersToWrite' = IF Len(Kept) > 2 THEN SubSeq(Kept, 1, 2) ELSE Kept
      /\ UNCHANGED <<currentBuffer, nextBuffer, buffers, newBuffer1, newBuffer2,
                     running, owner, appended, flushed>>
  BY Zenon DEF Write, front
<1>3. /\ Kept \in Seq(Seq(Nat)) /\ Len(Kept) \in Nat /\ Len(Kept) <= Len(buffersToWrite)
      /\ Len(Kept) = Len(buffersToWrite) \/ Len(Kept) = 2
      /\ Kept = SubSeq(buffersToWrite, 1, Len(Kept)) /\ Len(Kept) \in 0 .. Len(buffersToWrite)
  <2>1. CASE Len(buffersToWrite) > DropLimit
    <3>1. /\ Len(buffersToWrite) \in Nat /\ DropLimit \in Nat /\ DropLimit >= 2
      BY <1>0, LoggingConstants
    <3>2. Kept = SubSeq(buffersToWrite, 1, 2)
      BY <2>1, Zenon DEF Kept
    <3>3. SubSeq(buffersToWrite, 1, 2) \in Seq(Seq(Nat)) /\ Len(SubSeq(buffersToWrite, 1, 2)) = 2
      BY <1>0, <2>1, <3>1
    <3> QED
      BY <2>1, <3>1, <3>2, <3>3
  <2>2. CASE ~(Len(buffersToWrite) > DropLimit)
    <3>1. Kept = buffersToWrite
      BY <2>2, Zenon DEF Kept
    <3> QED
      BY <1>0, <3>1
  <2> QED
    BY <2>1, <2>2, Zenon
<1> HIDE DEF a, b, c, d, k
<1>4. PICK r \in Seq(Nat) : b = k \o r
  BY <1>0, <1>3, LinesOfPrefix DEF b, k
<1>5. k \in Seq(Nat)
  BY <1>3, LinesOfSeq, Zenon DEF k
<1>6. ToCome = b /\ ToCome' = <<>>
  BY <1>2 DEF ToCome, b
<1>7. Sorted(a, b, c, d) /\ Contents(a, b, c, d) = (1 .. appended) \ dropped
  BY <1>0, <1>6, Zenon DEF LogOrder, a, c, d
<1>8. Ascending(k) /\ Range(b) = Range(k) \cup Range(r)
  BY <1>4, <1>5, <1>7, ConcatAscending, ConcatRange, Zenon DEF Sorted
<1>9. Below(a, k) /\ Below(k, c) /\ Below(k, d)
  BY <1>7, <1>8, Zenon DEF Sorted, Below
<1>10. a \o k \in Seq(Nat) /\ Ascending(a \o k) /\ Range(a \o k) = Range(a) \cup Range(k)
  BY <1>1, <1>5, <1>7, <1>8, <1>9, ConcatElements, ConcatAscending, ConcatRange, Zenon DEF Sorted
<1>11. Sorted(a \o k, <<>>, c, d)
  BY <1>7, <1>9, <1>10, NoLines, Zenon DEF Sorted, Below
<1>12. Contents(a \o k, <<>>, c, d) = (1 .. appended) \ (dropped \cup (Range(b) \ Range(k)))
  <2>1. \A x \in Range(a) : x \notin Range(b)
    BY <1>1, <1>7, BelowApart, Zenon DEF Sorted
  <2>2. \A x \in Range(b) : x \notin Range(c)
    BY <1>1, <1>7, BelowApart, Zenon DEF Sorted
  <2>3. \A x \in Range(b) : x \notin Range(d)
    BY <1>1, <1>7, BelowApart, Zenon DEF Sorted
  <2>4. Contents(a \o k, <<>>, c, d) = Contents(a, b, c, d) \ (Range(b) \ Range(k))
    BY <1>8, <1>10, <2>1, <2>2, <2>3, NoLines DEF Contents
  <2> QED
    BY <1>7, <2>4
<1>13. dropped \cup (Range(b) \ Range(k)) \subseteq 1 .. appended
  BY <1>0, <1>7 DEF LogOrder, Contents
<1>14. LogOrder'
  BY <1>2, <1>6, <1>11, <1>12, <1>13, Zenon DEF LogOrder, a, b, c, d, k
<1>15. /\ buffersToWrite' \in Seq(Seq(Nat))
       /\ Len(buffersToWrite') = 2 \/ Len(buffersToWrite') = Len(buffersToWrite)
  <2>1. CASE Len(Kept) > 2
    BY <1>2, <1>3, <2>1
  <2>2. CASE ~(Len(Kept) > 2)
    BY <1>2, <1>3, <2>2
  <2> QED
    BY <2>1, <2>2, Zenon
<1>16. Len(file') >= Len(file) /\ Len(file') \in Nat /\ Len(file) \in Nat /\ file' \in Seq(Nat)
  BY <1>1, <1>2, <1>5, ConcatElements DEF a
<1>17. flushed' \in 0 .. Len(file')
  BY <1>0, <1>2, <1>16 DEF LogKinds
<1>18. LogKinds'
  BY <1>0, <1>2, <1>15, <1>16, <1>17 DEF LogKinds
<1>19. Round'
  <2>1. /\ newBuffer1 = NULL /\ Len(buffersToWrite) \in Nat /\ Len(buffersToWrite) >= 1
        /\ newBuffer2 = NULL => Len(buffersToWrite) >= 2
        /\ nextBuffer = NULL => buffers # <<>>
    BY <1>0, <1>2 DEF Round
  <2>2. Len(buffersToWrite') >= 1 /\ (newBuffer2 = NULL => Len(buffersToWrite') >= 2)
    <3>1. /\ Len(buffersToWrite') \in Nat
          /\ Len(buffersToWrite') >= 2 \/ Len(buffersToWrite') = Len(buffersToWrite)
      <4>1. 2 \in Nat /\ 2 >= 2
        OBVIOUS
      <4> QED
        BY <1>15, <2>1, <4>1, Zenon
    <3>2. Len(buffersToWrite') >= 2 => Len(buffersToWrite') >= 1
      BY <3>1
    <3> QED
      BY <2>1, <3>1, <3>2, Zenon
  <2> QED
    BY <1>2, <2>1, <2>2 DEF Round
<1> QED
  BY <1>14, <1>18, <1>19, Zenon DEF LogInv

LEMMA LogStep ==
  ASSUME LogInv, [Next]_vars
  PROVE  LogInv'
<1>1. CASE AppendLine
  BY <1>1, AppendKeeps, Zenon
<1>2. CASE SwapNow \/ SwapWoken
  BY <1>2, SwapKeeps, Zenon
<1>3. CASE Write
  BY <1>3, WriteKeeps, Zenon
<1>4. CASE \/ Begin \/ Top \/ Wait \/ Timeout \/ Refill \/ End
           \/ Start \/ Started \/ Stop \/ Stopped \/ UNCHANGED vars
  BY <1>4, QuietSteps, QuietKeepsOrder, Zenon DEF LogInv
<1> QED
  BY <1>1, <1>2, <1>3, <1>4, Zenon DEF Next, Thread

LEMMA LogInit ==
  ASSUME Init
  PROVE  LogInv
<1> USE DEF Init
<1>1. LogKinds
  <2>1. /\ <<>> \in Seq(1 .. MaxLines) /\ Len(<<>>) <= Capacity /\ Len(<<>>) = 0
        /\ <<>> \in Seq(Seq(Nat)) /\ <<>> \in Seq(Nat) /\ 0 \in 0 .. 0 /\ 0 \in 0 .. MaxLines
    BY LoggingConstants
  <2> QED
    BY <2>1, Zenon DEF LogKinds
<1>2. Round
  BY NullIsNone DEF Round
<1>3. ToCome = <<>> /\ LinesOf(buffers) = <<>>
  BY LinesOfNone DEF ToCome
<1>4. Sorted(<<>>, <<>>, <<>>, <<>>) /\ Contents(<<>>, <<>>, <<>>, <<>>) = {}
  BY NoLines, Zenon DEF Sorted, Below, Contents
<1>5. (1 .. 0) \ {} = {}
  OBVIOUS
<1> QED
  BY <1>1, <1>2, <1>3, <1>4, <1>5, Zenon DEF LogInv, LogOrder

LEMMA LogSafe ==
  ASSUME LogInv
  PROVE  LogIntact
<1>1. LogKinds /\ Round /\ LogOrder
  BY Zenon DEF LogInv
<1>2. TypeOK
  BY <1>1, Zenon DEF LogKinds, TypeOK
<1>3. BuffersGoRound
  <2>1. newBuffer1 = NULL => Needed = 1 \/ (Needed = 2 /\ newBuffer2 = NULL)
    BY DEF Needed
  <2> QED
    BY <1>1, <2>1 DEF BuffersGoRound, Round, LogKinds
<1>4. InOrder
  <2>1. /\ Ascending(AllLines)
        /\ Range(AllLines) = Contents(file, ToCome, LinesOf(buffers), currentBuffer)
    BY <1>1, LogSeqs, FourParts, ZenonT(60) DEF AllLines, LogOrder
  <2> QED
    BY <1>1, <2>1, Zenon DEF InOrder, Ascending, LogOrder
<1> QED
  BY <1>2, <1>3, <1>4, Zenon DEF LogIntact

\* For any capacity of a buffer, any limit of at least two and any number of lines:
\* AsyncLogging writes the lines in the order of append, each once and none but the
\* dropped ones lost, and the assertions of threadFunc hold.
THEOREM LinesInOrder == MCSpec => []LogIntact
<1>1. MCInit => LogInv
  BY LogInit, Zenon DEF MCInit
<1>2. LogInv /\ [MCNext]_<<part, vars, poolVars, fileVars>> => LogInv'
  <2> SUFFICES ASSUME LogInv, [MCNext]_<<part, vars, poolVars, fileVars>>
               PROVE  LogInv'
    OBVIOUS
  <2>1. [Next]_vars
    BY Zenon DEF MCNext
  <2> QED
    BY <2>1, LogStep, Zenon
<1>3. LogInv => LogIntact
  BY LogSafe, Zenon
<1> QED
  BY <1>1, <1>2, <1>3, PTL DEF MCSpec
=============================================================================

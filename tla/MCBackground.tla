---------------------------- MODULE MCBackground ----------------------------
(***************************************************************************)
(* The components with threads of their own, for TLC: AsyncLogging, the     *)
(* LogFile it writes to, and ThreadPool.  They share no variable and a      *)
(* behaviour is one of one of them.                                         *)
(***************************************************************************)
EXTENDS AsyncLogging

CONSTANTS
  Threads, Adders, MaxTasks, maxQueueSize,
  rollSize, flushInterval, checkEveryN, kRollPerSeconds, Sizes, MaxTime, FileLines

ASSUME BackgroundConstants ==
  /\ MaxTasks \in Nat /\ maxQueueSize \in Nat
  /\ {rollSize, flushInterval, checkEveryN, kRollPerSeconds, MaxTime, FileLines} \subseteq Nat \ {0}
  /\ Sizes \subseteq Nat \ {0}

VARIABLES
  part,
  poolRunning, queue, threads, tpc, task, apc, added, poolOwner, pushed, ran, promised,
  now, startOfPeriod, lastRoll, lastFlush, count, name, writtenBytes, unflushed,
  lastAppend, names, late, lines, steppedBack

Pool == INSTANCE ThreadPool WITH running <- poolRunning, owner <- poolOwner
LogFile == INSTANCE LogFile WITH MaxLines <- FileLines

poolVars ==
  <<poolRunning, queue, threads, tpc, task, apc, added, poolOwner, pushed, ran, promised>>
fileVars ==
  <<now, startOfPeriod, lastRoll, lastFlush, count, name, writtenBytes, unflushed,
    lastAppend, names, late, lines, steppedBack>>

MCInit == part \in {"logging", "file", "pool"} /\ Init /\ LogFile!Init /\ Pool!Init

MCNext ==
  /\ \/ part = "logging" /\ Next /\ UNCHANGED <<poolVars, fileVars>>
     \/ part = "file" /\ LogFile!Next /\ UNCHANGED <<vars, poolVars>>
     \/ part = "pool" /\ Pool!Next /\ UNCHANGED <<vars, fileVars>>
  /\ UNCHANGED part

\* The fairness of AsyncLogging and of ThreadPool.
MCSpec ==
  /\ MCInit /\ [][MCNext]_<<part, vars, poolVars, fileVars>>
  /\ WF_vars(part = "logging" /\ Thread) /\ WF_vars(part = "logging" /\ Started)
  /\ WF_vars(part = "logging" /\ Stopped)
  /\ \A t \in Threads : WF_poolVars(part = "pool" /\ Pool!ThreadStep(t))
  /\ \A a \in Adders : SF_poolVars(part = "pool" /\ Pool!AddTask(a))
  /\ WF_poolVars(part = "pool" /\ Pool!StopReturns)

\* AsyncLogging writes lines in order, each once, and its buffers go round.
LogIntact == TypeOK /\ InOrder /\ BuffersGoRound

\* LogFile replaces a file that is larger than rollSize_ with the next line, and
\* notices a new day, and flushes, within checkEveryN_ lines; it opens no file twice.
FileInTime ==
  /\ LogFile!TypeOK /\ LogFile!RolledWhenFull /\ LogFile!LateIsBounded
  /\ LogFile!FlushedInTime /\ LogFile!NewName

\* Every task of ThreadPool is in the queue, in the hands of one thread, or run,
\* and the threads empty the queue before stop() returns.
TasksKept == Pool!TypeOK /\ Pool!NoTaskLost /\ Pool!DrainedAtStop

\* AsyncLogging writes and flushes every line that was not dropped; ThreadPool runs
\* the tasks in its queue and a caller blocked in addTask gets in; the stop() of
\* either returns: no notification is lost.
BackgroundLive ==
  /\ LinesReachDisk /\ StopEnds
  /\ Pool!TasksRun /\ Pool!AddTaskEnds /\ Pool!StopEnds
=============================================================================

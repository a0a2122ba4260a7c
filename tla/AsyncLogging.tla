---------------------------- MODULE AsyncLogging ----------------------------
(***************************************************************************)
(* AsyncLogging: threads append log lines to currentBuffer_; one thread     *)
(* takes the full buffers, gives empty ones back, writes and flushes.  Four *)
(* buffers go round: currentBuffer_, nextBuffer_, newBuffer1, newBuffer2.   *)
(* A line is a number, in the order of append; a buffer is the sequence of  *)
(* its lines; NULL is a unique_ptr that was moved from.                     *)
(***************************************************************************)
EXTENDS Integers, Sequences, Functions

CONSTANTS
  Capacity,    \* lines that fit into a buffer
  DropLimit,   \* more buffers than this are dropped (25 in the code)
  MaxLines,    \* bound: lines appended
  NULL

ASSUME LoggingConstants ==
  /\ Capacity \in Nat \ {0} /\ DropLimit \in Nat /\ DropLimit >= 2 /\ MaxLines \in Nat
  /\ NULL \notin Seq(Nat)

VARIABLES
  currentBuffer, nextBuffer, buffers,            \* under mutex_
  newBuffer1, newBuffer2, buffersToWrite,        \* of threadFunc
  running,                                       \* running_
  lpc,         \* where threadFunc is
  owner,       \* the thread that calls start() and stop()
  appended,    \* lines appended so far
  file,        \* lines written to the LogFile
  flushed,     \* how many of them are flushed
  dropped      \* history: lines of dropped buffers

front == <<currentBuffer, nextBuffer, buffers>>
back == <<newBuffer1, newBuffer2, buffersToWrite>>
output == <<file, flushed, dropped>>
vars == <<front, back, running, lpc, owner, appended, output>>

\* The lines of a sequence of buffers.
LinesOf(bs) ==
  LET upTo[n \in 0 .. Len(bs)] == IF n = 0 THEN <<>> ELSE upTo[n - 1] \o bs[n]
  IN  upTo[Len(bs)]

Init ==
  /\ currentBuffer = <<>> /\ nextBuffer = <<>> /\ buffers = <<>>
  /\ newBuffer1 = NULL /\ newBuffer2 = NULL /\ buffersToWrite = <<>>
  /\ running = FALSE /\ lpc = "new" /\ owner = "new"
  /\ appended = 0 /\ file = <<>> /\ flushed = 0 /\ dropped = {}

-----------------------------------------------------------------------------
(* append *)

\* cond_.notify(): the logging thread, if it waits, is woken.
Notify == lpc' = IF lpc = "waiting" THEN "woken" ELSE lpc

\* The current buffer has no room: the next one, or a new one, takes its place.
AppendFull(line) ==
  /\ buffers' = Append(buffers, currentBuffer)
  /\ currentBuffer' = Append(IF nextBuffer # NULL THEN nextBuffer ELSE <<>>, line)
  /\ nextBuffer' = NULL
  /\ Notify

\* currentBuffer_->avail() > len
Fits == Len(currentBuffer) < Capacity

AppendLine ==
  /\ appended < MaxLines
  /\ appended' = appended + 1
  /\ IF Fits
     THEN /\ currentBuffer' = Append(currentBuffer, appended')
          /\ UNCHANGED <<nextBuffer, buffers, lpc>>
     ELSE AppendFull(appended')
  /\ UNCHANGED <<back, running, owner, output>>

-----------------------------------------------------------------------------
(* threadFunc *)

\* The thread begins, with two buffers of its own.
Begin ==
  /\ owner = "starting" /\ lpc = "new"
  /\ newBuffer1' = <<>> /\ newBuffer2' = <<>>
  /\ lpc' = "top"
  /\ UNCHANGED <<front, buffersToWrite, running, owner, appended, output>>

\* while (running_)
Top ==
  /\ lpc = "top"
  /\ lpc' = IF running THEN "lock" ELSE "end"
  /\ UNCHANGED <<front, back, running, owner, appended, output>>

\* The buffers are exchanged, with the mutex held.
Swap ==
  /\ buffersToWrite' = Append(buffers, currentBuffer) /\ buffers' = <<>>
  /\ currentBuffer' = newBuffer1 /\ newBuffer1' = NULL
  /\ nextBuffer' = IF nextBuffer = NULL THEN newBuffer2 ELSE nextBuffer
  /\ newBuffer2' = IF nextBuffer = NULL THEN NULL ELSE newBuffer2
  /\ lpc' = "write"
  /\ UNCHANGED <<running, owner, appended, output>>

SwapNow == lpc = "lock" /\ buffers # <<>> /\ Swap

Wait ==
  /\ lpc = "lock" /\ buffers = <<>>
  /\ lpc' = "waiting"
  /\ UNCHANGED <<front, back, running, owner, appended, output>>

\* waitForSeconds ends after flushInterval_ seconds.
Timeout ==
  /\ lpc = "waiting"
  /\ lpc' = "woken"
  /\ UNCHANGED <<front, back, running, owner, appended, output>>

\* There is no loop around the wait: the buffers are exchanged in any case.
SwapWoken == lpc = "woken" /\ Swap

\* Mutant of Kept: one buffer is kept.
KeptOne == IF Len(buffersToWrite) > DropLimit THEN SubSeq(buffersToWrite, 1, 1) ELSE buffersToWrite

\* The first two buffers are kept of too many.
Kept == IF Len(buffersToWrite) > DropLimit THEN SubSeq(buffersToWrite, 1, 2) ELSE buffersToWrite

Write ==
  /\ lpc = "write"
  /\ file' = file \o LinesOf(Kept)
  /\ dropped' = dropped \cup (Range(LinesOf(buffersToWrite)) \ Range(LinesOf(Kept)))
  /\ buffersToWrite' = IF Len(Kept) > 2 THEN SubSeq(Kept, 1, 2) ELSE Kept
  /\ lpc' = "refill"
  /\ UNCHANGED <<front, newBuffer1, newBuffer2, running, owner, appended, flushed>>

\* How many of the written buffers the refill needs.
Needed == (IF newBuffer1 = NULL THEN 1 ELSE 0) + (IF newBuffer2 = NULL THEN 1 ELSE 0)

\* newBuffer1 and newBuffer2 are taken from the written buffers and reset; the
\* rest is freed and the file is flushed.
Refill ==
  /\ lpc = "refill" /\ Len(buffersToWrite) >= Needed
  /\ newBuffer1' = <<>> /\ newBuffer2' = <<>> /\ buffersToWrite' = <<>>
  /\ flushed' = Len(file)
  /\ lpc' = "top"
  /\ UNCHANGED <<front, running, owner, appended, file, dropped>>

\* The last flush, after the loop.
End ==
  /\ lpc = "end"
  /\ flushed' = Len(file)
  /\ lpc' = "exited"
  /\ UNCHANGED <<front, back, running, owner, appended, file, dropped>>

Thread == Begin \/ Top \/ SwapNow \/ Wait \/ Timeout \/ SwapWoken \/ Write \/ Refill \/ End

-----------------------------------------------------------------------------
(* start and stop *)

Start ==
  /\ owner = "new"
  /\ running' = TRUE /\ owner' = "starting"
  /\ UNCHANGED <<front, back, lpc, appended, output>>

\* start() returns when the latch is down.
Started ==
  /\ owner = "starting" /\ lpc # "new"
  /\ owner' = "running"
  /\ UNCHANGED <<front, back, running, lpc, appended, output>>

\* stop() sets running_ and notifies, without the mutex.
Stop ==
  /\ owner = "running"
  /\ owner' = "stopping"
  /\ running' = FALSE /\ Notify
  /\ UNCHANGED <<front, back, appended, output>>

Stopped ==
  /\ owner = "stopping" /\ lpc = "exited"
  /\ owner' = "stopped"
  /\ UNCHANGED <<front, back, running, lpc, appended, output>>

Next == AppendLine \/ Thread \/ Start \/ Started \/ Stop \/ Stopped

Spec == Init /\ [][Next]_vars

\* The logging thread runs, its wait ends in time, and stop() waits for it.
FairSpec == Spec /\ WF_vars(Thread) /\ WF_vars(Started) /\ WF_vars(Stopped)

-----------------------------------------------------------------------------
(* Properties *)

TypeOK ==
  /\ currentBuffer \in Seq(1 .. MaxLines) /\ Len(currentBuffer) <= Capacity
  /\ nextBuffer \in {<<>>, NULL}
  /\ running \in BOOLEAN /\ flushed \in 0 .. Len(file)
  /\ lpc \in {"new", "top", "lock", "waiting", "woken", "write", "refill", "end", "exited"}
  /\ owner \in {"new", "starting", "running", "stopping", "stopped"}
  /\ appended \in 0 .. MaxLines

\* The assertions of threadFunc: at the head of the loop both spare buffers are
\* there and empty and nothing is left to write, and after the writing there are
\* buffers enough to take them from, also when too many were dropped.
BuffersGoRound ==
  /\ lpc = "top" => newBuffer1 = <<>> /\ newBuffer2 = <<>> /\ buffersToWrite = <<>>
  /\ lpc = "write" => buffersToWrite # <<>>
  /\ lpc = "refill" => Len(buffersToWrite) >= Needed

ToCome == IF lpc = "write" THEN LinesOf(buffersToWrite) ELSE <<>>

\* The lines written, about to be written, in full buffers and in the current one.
AllLines == file \o ToCome \o LinesOf(buffers) \o currentBuffer

\* Lines are written in the order of append, each once, and none is lost but by
\* the drop: what is written and what is still to be written, in this order, are
\* ascending and are all lines appended that were not dropped.
InOrder ==
  /\ \A i, j \in 1 .. Len(AllLines) : i < j => AllLines[i] < AllLines[j]
  /\ Range(AllLines) = (1 .. appended) \ dropped

\* Every line reaches the disk, or is dropped, or the logging is stopped.
LinesReachDisk ==
  \A i \in 1 .. MaxLines :
    i <= appended /\ owner # "new" ~> (i \in Range(SubSeq(file, 1, flushed)) \cup dropped \/ ~running)

\* stop() returns, though its notification may come before the wait.
StopEnds == owner = "stopping" ~> owner = "stopped"
=============================================================================

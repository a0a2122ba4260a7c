----------------------------- MODULE EventLoop -----------------------------
(***************************************************************************)
(* An EventLoop in the thread an EventLoopThread starts for it: the loop,   *)
(* its queue of pending functors with the eventfd that wakes the poll, and  *)
(* quit().  Callers are the other threads that use the loop; the owner is   *)
(* the thread that calls startLoop() and destroys the EventLoopThread.      *)
(*                                                                          *)
(* A step of a thread is what it does between two accesses to state another *)
(* thread may touch: pending (under mutex_), quit_, loop_ and the eventfd.  *)
(***************************************************************************)
EXTENDS Naturals, Sequences, Functions

CONSTANTS
  Callers,   \* threads that call queueInLoop and quit from outside the loop
  Functors   \* bound: the callbacks, each handed over at most once

VARIABLES
  lpc,        \* where the loop's thread is
  active,     \* activeChannels_: the wakeup channel, another channel, or both
  pending,    \* pendingFunctors_
  functors,   \* the functors doPendingFunctors has swapped out and not yet run
  calling,    \* callingPendingFunctors_
  quit,       \* quit_
  evt,        \* whether the eventfd is readable
  loopPtr,    \* EventLoopThread::loop_ is not NULL
  owner,      \* where the owner is
  caller,     \* whether a caller still has to call wakeup()
  submitted,  \* history: functors in the order they were queued
  executed    \* history: functors in the order they were called

shared == <<pending, quit, evt, loopPtr>>
thread == <<lpc, active, functors, calling>>
vars == <<shared, thread, owner, caller, submitted, executed>>

Looping == {"check", "poll", "events", "pending", "run", "call"}

Init ==
  /\ lpc = "none" /\ active = {} /\ pending = <<>> /\ functors = <<>>
  /\ calling = FALSE /\ quit = FALSE /\ evt = FALSE /\ loopPtr = FALSE
  /\ owner = "new" /\ caller = [t \in Callers |-> "idle"]
  /\ submitted = <<>> /\ executed = <<>>

-----------------------------------------------------------------------------
(* EventLoopThread: its owner and its thread *)

\* startLoop starts the thread and waits on the condition ...
StartLoop ==
  /\ owner = "new"
  /\ owner' = "starting" /\ lpc' = "init"
  /\ UNCHANGED <<shared, active, functors, calling, caller, submitted, executed>>

\* ... until threadFunc has published the loop.
StartLoopReturn ==
  /\ owner = "starting" /\ loopPtr
  /\ owner' = "started"
  /\ UNCHANGED <<shared, thread, caller, submitted, executed>>

\* The destructor: quit() and join() if the loop is there.
Destroy ==
  /\ owner = "started"
  /\ \/ /\ loopPtr
        /\ quit' = TRUE /\ owner' = "wakeup"
     \/ /\ ~loopPtr
        /\ owner' = "gone" /\ UNCHANGED quit
  /\ UNCHANGED <<pending, evt, loopPtr, thread, caller, submitted, executed>>

\* Whether quit() called outside the loop's thread makes the eventfd readable.
QuitWakes == TRUE

OwnerWakeup ==
  /\ owner = "wakeup"
  /\ evt' = (evt \/ QuitWakes) /\ owner' = "joining"
  /\ UNCHANGED <<pending, quit, loopPtr, thread, caller, submitted, executed>>

Join ==
  /\ owner = "joining" /\ lpc = "end"
  /\ owner' = "gone"
  /\ UNCHANGED <<shared, thread, caller, submitted, executed>>

\* threadFunc: the loop is published before loop() is called, and withdrawn
\* after it has returned.
Publish ==
  /\ lpc = "init"
  /\ loopPtr' = TRUE /\ lpc' = "ready"
  /\ UNCHANGED <<pending, quit, evt, active, functors, calling, owner, caller,
                 submitted, executed>>

Retire ==
  /\ lpc = "exit"
  /\ loopPtr' = FALSE /\ lpc' = "end"
  /\ UNCHANGED <<pending, quit, evt, active, functors, calling, owner, caller,
                 submitted, executed>>

-----------------------------------------------------------------------------
(* queueInLoop and quit from other threads *)

\* Mutant of Enqueue: a functor is put in front of the others.
EnqueueFirst(f) == pending' = <<f>> \o pending

Enqueue(f) == pending' = Append(pending, f)

Fresh(f) == f \notin Range(submitted)

\* The push under mutex_; the caller then goes on to wakeup().
QueueInLoop(t, f) ==
  /\ caller[t] = "idle" /\ loopPtr /\ Fresh(f)
  /\ Enqueue(f)
  /\ submitted' = Append(submitted, f)
  /\ caller' = [caller EXCEPT ![t] = "wakeup"]
  /\ UNCHANGED <<quit, evt, loopPtr, thread, owner, executed>>

Wakeup(t) ==
  /\ caller[t] = "wakeup"
  /\ evt' = TRUE
  /\ caller' = [caller EXCEPT ![t] = "idle"]
  /\ UNCHANGED <<pending, quit, loopPtr, thread, owner, submitted, executed>>

-----------------------------------------------------------------------------
(* The loop *)

LoopBegin ==
  /\ lpc = "ready"
  /\ quit' = FALSE /\ lpc' = "check"
  /\ UNCHANGED <<pending, evt, loopPtr, active, functors, calling, owner, caller,
                 submitted, executed>>

\* while (!quit_)
Check ==
  /\ lpc = "check"
  /\ lpc' = IF quit THEN "exit" ELSE "poll"
  /\ UNCHANGED <<shared, active, functors, calling, owner, caller, submitted, executed>>

\* poll() returns with the channels that have events; it reports the eventfd
\* whenever it is readable.
Poll(channels) ==
  /\ lpc = "poll"
  /\ "wakeup" \in channels <=> evt
  /\ active' = channels /\ lpc' = "events"
  /\ UNCHANGED <<shared, functors, calling, owner, caller, submitted, executed>>

PollWoken == \E channels \in SUBSET {"wakeup", "io"} : evt /\ Poll(channels)
PollIo == ~evt /\ Poll({"io"})
PollTimeout == ~evt /\ Poll({})

\* EventLoop::handleRead, the callback of the wakeup channel.
HandleRead ==
  /\ lpc = "events" /\ "wakeup" \in active
  /\ evt' = FALSE /\ active' = active \ {"wakeup"}
  /\ UNCHANGED <<pending, quit, loopPtr, lpc, functors, calling, owner, caller,
                 submitted, executed>>

\* The callback of another channel returns.
HandleIo ==
  /\ lpc = "events" /\ "io" \in active
  /\ active' = active \ {"io"}
  /\ UNCHANGED <<shared, lpc, functors, calling, owner, caller, submitted, executed>>

\* Mutant of WakesItself: a functor that queues another one does not wake the loop.
WakesNever == FALSE

\* queueInLoop in the loop's own thread wakes it only from within a functor.
WakesItself == calling

\* What a callback in the loop's thread may do: queueInLoop ...
InCallback == lpc = "call" \/ (lpc = "events" /\ "io" \in active)

QueueFromLoop(f) ==
  /\ InCallback /\ Fresh(f)
  /\ Enqueue(f)
  /\ submitted' = Append(submitted, f)
  /\ evt' = (evt \/ WakesItself)
  /\ UNCHANGED <<quit, loopPtr, thread, owner, caller, executed>>

\* ... and quit.
QuitFromLoop ==
  /\ InCallback /\ ~quit
  /\ quit' = TRUE
  /\ UNCHANGED <<pending, evt, loopPtr, thread, owner, caller, submitted, executed>>

\* doPendingFunctors: the flag is set, then the queue is swapped out.
EventsHandled ==
  /\ lpc = "events" /\ active = {}
  /\ calling' = TRUE /\ lpc' = "pending"
  /\ UNCHANGED <<shared, active, functors, owner, caller, submitted, executed>>

SwapPending ==
  /\ lpc = "pending"
  /\ functors' = pending /\ pending' = <<>> /\ lpc' = "run"
  /\ UNCHANGED <<quit, evt, loopPtr, active, calling, owner, caller, submitted, executed>>

CallFunctor ==
  /\ lpc = "run" /\ functors # <<>>
  /\ executed' = Append(executed, Head(functors))
  /\ functors' = Tail(functors) /\ lpc' = "call"
  /\ UNCHANGED <<shared, active, calling, owner, caller, submitted>>

FunctorReturns ==
  /\ lpc = "call"
  /\ lpc' = "run"
  /\ UNCHANGED <<shared, active, functors, calling, owner, caller, submitted, executed>>

PendingDone ==
  /\ lpc = "run" /\ functors = <<>>
  /\ calling' = FALSE /\ lpc' = "check"
  /\ UNCHANGED <<shared, active, functors, owner, caller, submitted, executed>>

-----------------------------------------------------------------------------

\* The steps of the loop's thread that need nothing from outside.
LoopStep ==
  \/ Publish \/ LoopBegin \/ Check \/ PollWoken \/ HandleRead \/ HandleIo
  \/ EventsHandled \/ SwapPending \/ CallFunctor \/ FunctorReturns \/ PendingDone
  \/ Retire

OwnerStep == StartLoopReturn \/ OwnerWakeup \/ Join

Next ==
  \/ StartLoop \/ Destroy \/ OwnerStep
  \/ LoopStep \/ PollIo \/ PollTimeout \/ QuitFromLoop
  \/ \E f \in Functors : QueueFromLoop(f) \/ \E t \in Callers : QueueInLoop(t, f)
  \/ \E t \in Callers : Wakeup(t)

Spec == Init /\ [][Next]_vars

\* Threads run; nothing is assumed of the 10 second timeout of the poll, of
\* other events, or of what callbacks do.
FairSpec ==
  /\ Spec
  /\ WF_vars(LoopStep) /\ WF_vars(OwnerStep)
  /\ \A t \in Callers : WF_vars(Wakeup(t))

-----------------------------------------------------------------------------
(* Properties *)

\* Types, and what belongs to a phase of the loop: its thread is there once startLoop
\* is called, callingPendingFunctors_ is set exactly in doPendingFunctors, active
\* channels and swapped-out functors are handled before the phase ends.
TypeOK ==
  /\ lpc \in {"none", "init", "ready", "exit", "end"} \cup Looping
  /\ active \subseteq {"wakeup", "io"}
  /\ pending \in Seq(Functors) /\ functors \in Seq(Functors)
  /\ calling \in BOOLEAN /\ quit \in BOOLEAN /\ evt \in BOOLEAN /\ loopPtr \in BOOLEAN
  /\ owner \in {"new", "starting", "started", "wakeup", "joining", "gone"}
  /\ caller \in [Callers -> {"idle", "wakeup"}]
  /\ submitted \in Seq(Functors) /\ executed \in Seq(Functors)
  /\ lpc = "none" <=> owner = "new"
  /\ calling <=> lpc \in {"pending", "run", "call"}
  /\ active # {} => lpc = "events"
  /\ functors # <<>> => lpc \in {"run", "call"}

\* EventLoop.h, queueInLoop: "Queues callback in the loop thread."  The loop
\* implements a queue: functors run once each, in the order they were queued.
Queue == INSTANCE FunctorQueue WITH waiting <- functors \o pending
RunsInOrder == Queue!QSpec

\* A functor that was queued runs, without the poll timing out, unless the loop
\* is told to quit.
QueuedRuns ==
  \A f \in Functors : (~Fresh(f)) ~> (f \in Range(executed) \/ quit)

\* EventLoop.h, quit: "Quits loop."  Once quit() is called while the loop runs,
\* the thread comes to its end.
QuitWhileLoopingEnds == (quit /\ lpc \in Looping) ~> (lpc = "end")
=============================================================================

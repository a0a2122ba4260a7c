----------------------------- MODULE MCReactor ------------------------------
(***************************************************************************)
(* EventLoop and TimerQueue for TLC, side by side: TimerQueue models the    *)
(* loop by the order in which it runs functors and polls, EventLoop models  *)
(* how it sleeps and wakes, and they share no variable.  A behaviour is one *)
(* of either.                                                               *)
(***************************************************************************)
EXTENDS TimerQueue

CONSTANTS Callers, Functors

VARIABLES part, lpc, activeChannels, pending, functors, callingPending, quit, evt,
  loopPtr, owner, caller, submitted, executed

Loop == INSTANCE EventLoop WITH active <- activeChannels, calling <- callingPending

loopVars ==
  <<lpc, activeChannels, pending, functors, callingPending, quit, evt, loopPtr, owner,
    caller, submitted, executed>>

MCInit == part \in {"timers", "loop"} /\ Init /\ Loop!Init

MCNext ==
  /\ \/ part = "timers" /\ Next /\ UNCHANGED loopVars
     \/ part = "loop" /\ Loop!Next /\ UNCHANGED vars
  /\ UNCHANGED part

MCvars == <<part, vars, loopVars>>

\* The fairness of both specifications.
MCSpec ==
  /\ MCInit /\ [][MCNext]_MCvars
  /\ WF_vars(part = "timers" /\ LoopStep) /\ WF_vars(part = "timers" /\ Expire)
  /\ WF_vars(part = "timers" /\ Tick)
  /\ WF_loopVars(part = "loop" /\ Loop!LoopStep) /\ WF_loopVars(part = "loop" /\ Loop!OwnerStep)
  /\ \A t \in Callers : WF_loopVars(part = "loop" /\ Loop!Wakeup(t))

\* Both keep their structures in order: timers_ and activeTimers_ agree and hold
\* no deleted timer, handleRead uses none, and the flags and lists of EventLoop
\* belong to the phase its loop is in.
Sound == TypeOK /\ SetsAgree /\ NoDeletedTimerUsed /\ Loop!TypeOK

\* EventLoop runs functors once each, in the order they were queued.
RunsInOrder == Loop!RunsInOrder

\* Without a timeout of the poll, EventLoop runs a queued functor, and a quit() of
\* a running EventLoop ends its thread: no wakeup is lost.
NoLostWakeup == Loop!QueuedRuns /\ Loop!QuitWhileLoopingEnds
=============================================================================

----------------------------- MODULE TimerQueue -----------------------------
(***************************************************************************)
(* TimerQueue: the sets timers_ and activeTimers_, the timerfd, and the     *)
(* callbacks run from handleRead, which may themselves add and cancel       *)
(* timers.  Other threads reach the queue through the functors of the loop  *)
(* (calls).  Timer objects live at addresses that are used again after a    *)
(* delete, which is why a TimerId also holds a sequence number.             *)
(***************************************************************************)
EXTENDS Integers, Sequences, FiniteSetsExt

CONSTANTS
  Addrs,      \* addresses of Timer objects
  MaxTimers,  \* bound: how many timers are created
  MaxTime,    \* bound: the last value of the clock
  Intervals,  \* intervals of timers, 0 for one that does not repeat
  None

ASSUME TimerConstants ==
  /\ MaxTimers \in Nat /\ MaxTime \in Nat /\ Intervals \subseteq Nat
  /\ None \notin Nat \cup [seq : Nat, expiration : Nat, interval : Nat]

VARIABLES
  heap,       \* the Timer object at each address, None when deleted
  timers,     \* timers_: pairs of expiration and address
  active,     \* activeTimers_: pairs of address and sequence
  canceling,  \* cancelingTimers_
  calling,    \* callingExpiredTimers_
  expired,    \* handleRead: the entries getExpired moved out
  due,        \* those of them whose callback has still to run
  readTime,   \* handleRead: the time it began
  armed,      \* when the timerfd becomes readable, None if it is not armed
  readable,   \* whether the timerfd is readable
  polled,     \* whether poll() has reported the timerfd
  calls,      \* functors queued for the loop: adds and cancels
  now,        \* the clock
  created,    \* Timer::s_numCreated_
  adding,     \* addTimer in other threads: timers queued, TimerId not yet made
  ids,        \* the TimerIds addTimer has returned
  asked,      \* history: TimerIds some thread has called cancel() for
  cancelled,  \* history: TimerIds cancelInLoop has seen after addTimerInLoop
  ran         \* history: TimerIds whose callback has run

memory == <<heap, created, adding, ids>>
lists == <<timers, active, canceling>>
reading == <<calling, expired, due, readTime>>
timerfd == <<armed, readable, polled>>
history == <<asked, cancelled, ran>>
vars == <<memory, lists, reading, timerfd, calls, now, history>>

Id(a) == <<a, heap[a].seq>>

Init ==
  /\ heap = [a \in Addrs |-> None] /\ created = 0 /\ adding = {} /\ ids = {}
  /\ timers = {} /\ active = {} /\ canceling = {}
  /\ calling = FALSE /\ expired = {} /\ due = {} /\ readTime = 0
  /\ armed = None /\ readable = FALSE /\ polled = FALSE
  /\ calls = <<>> /\ now = 0
  /\ asked = {} /\ cancelled = {} /\ ran = {}

-----------------------------------------------------------------------------
(* The timerfd *)

\* resetTimerfd: at least 100 microseconds from now; a setting clears what has
\* not been read.
ResetTimerfd(when) ==
  /\ armed' = IF when > now THEN when ELSE now
  /\ readable' = FALSE

\* The timer of the kernel expires.
Expire ==
  /\ armed # None /\ armed <= now
  /\ readable' = TRUE /\ armed' = None
  /\ UNCHANGED <<memory, lists, reading, polled, calls, now, history>>

\* poll() returns with the channel of the timerfd; callbacks of other channels
\* may run before handleRead does.
Poll ==
  /\ readable /\ ~polled /\ ~calling
  /\ polled' = TRUE
  /\ UNCHANGED <<memory, lists, reading, armed, readable, calls, now, history>>

Tick ==
  /\ now < MaxTime
  /\ now' = now + 1
  /\ UNCHANGED <<memory, lists, reading, timerfd, calls, history>>

-----------------------------------------------------------------------------
(* addTimer *)

\* new Timer(cb, when, interval)
NewTimer(a, when, i) ==
  /\ heap[a] = None /\ created < MaxTimers
  /\ heap' = [heap EXCEPT ![a] = [seq |-> created + 1, expiration |-> when, interval |-> i]]
  /\ created' = created + 1

Earliest(when) == \A e \in timers : when < e[1]

\* Mutant of Rearms: the timerfd is set for the first timer only.
RearmsFirst(when) == timers = {}

\* insert() reports that the timer is now the earliest, and the timerfd is set.
Rearms(when) == Earliest(when)

\* addTimerInLoop for the timer t at address a.
AddTimerInLoop(a, t) ==
  /\ timers' = timers \cup {<<t.expiration, a>>}
  /\ active' = active \cup {<<a, t.seq>>}
  /\ IF Rearms(t.expiration) THEN ResetTimerfd(t.expiration)
     ELSE UNCHANGED <<armed, readable>>
  /\ UNCHANGED <<canceling, polled>>

\* Another thread: the object is made there, the insertion is queued ...
AddTimer(a, when, i) ==
  /\ NewTimer(a, when, i)
  /\ adding' = adding \cup {<<a, created + 1>>}
  /\ calls' = Append(calls, [op |-> "add", id |-> <<a, created + 1>>])
  /\ UNCHANGED <<ids, lists, reading, timerfd, now, history>>

\* ... and then the object is read for its sequence.  The loop may have deleted
\* it: what is read is the sequence of the timer that has the address now, or
\* what is left there, or something that is no timer's sequence.
AddTimerReturn(id) ==
  /\ adding' = adding \ {id}
  /\ \E read \in IF heap[id[1]] # None THEN {Id(id[1])} ELSE {id, <<id[1], 0>>} :
       ids' = ids \cup {read}
  /\ UNCHANGED <<heap, created, lists, reading, timerfd, calls, now, history>>

\* A callback runs in the loop's thread: of another channel, of a functor, or of
\* an expired timer.
InCallback == calling => due # expired

AddTimerNow(a, when, i) ==
  /\ InCallback
  /\ NewTimer(a, when, i)
  /\ AddTimerInLoop(a, heap'[a])
  /\ ids' = ids \cup {<<a, created + 1>>} /\ UNCHANGED adding
  /\ UNCHANGED <<reading, calls, now, history>>

-----------------------------------------------------------------------------
(* cancel *)

\* Mutant of Found: timers whose callbacks are running are found as well.
FoundExpired(id) == id \in active \cup {Id(e[2]) : e \in expired}

\* activeTimers_ has the TimerId: same address and same sequence.
Found(id) == id \in active

\* cancelInLoop
CancelInLoop(id) ==
  /\ IF Found(id)
     THEN /\ timers' = timers \ {<<heap[id[1]].expiration, id[1]>>}
          /\ active' = active \ {id}
          /\ heap' = [heap EXCEPT ![id[1]] = None]
          /\ UNCHANGED canceling
     ELSE /\ canceling' = IF calling THEN canceling \cup {id} ELSE canceling
          /\ UNCHANGED <<timers, active, heap>>
  /\ cancelled' = IF \E i \in 1 .. Len(calls) : calls[i] = [op |-> "add", id |-> id]
                  THEN cancelled ELSE cancelled \cup {id}
  /\ UNCHANGED <<created, adding, ids, timerfd>>

Cancel(id) ==
  /\ id \notin asked
  /\ asked' = asked \cup {id}
  /\ calls' = Append(calls, [op |-> "cancel", id |-> id])
  /\ UNCHANGED <<memory, lists, reading, timerfd, now, cancelled, ran>>

CancelNow(id) ==
  /\ InCallback /\ id \notin asked
  /\ asked' = asked \cup {id}
  /\ CancelInLoop(id)
  /\ UNCHANGED <<reading, calls, now, ran>>

\* doPendingFunctors runs the next queued functor, after the events are handled.
RunCall ==
  /\ ~polled /\ ~calling /\ calls # <<>>
  /\ calls' = Tail(calls)
  /\ LET c == Head(calls)
     IN  \/ /\ c.op = "add"
            /\ AddTimerInLoop(c.id[1], heap[c.id[1]])
            /\ UNCHANGED <<memory, cancelled>>
         \/ /\ c.op = "cancel"
            /\ CancelInLoop(c.id)
  /\ UNCHANGED <<reading, now, asked, ran>>

-----------------------------------------------------------------------------
(* handleRead *)

\* What getExpired erases from activeTimers_.
ActiveTimers(entries) == {Id(e[2]) : e \in entries}

\* The timerfd is read, what has expired is moved out of both sets.
HandleRead ==
  /\ polled /\ ~calling
  /\ polled' = FALSE /\ readable' = FALSE
  /\ readTime' = now
  /\ expired' = {e \in timers : e[1] <= now} /\ due' = expired'
  /\ timers' = timers \ expired'
  /\ active' = active \ ActiveTimers(expired')
  /\ calling' = TRUE /\ canceling' = {}
  /\ UNCHANGED <<memory, armed, calls, now, history>>

\* Callbacks run in the order of their expiration.
RunTimer ==
  \E e \in due :
    /\ \A o \in due : e[1] <= o[1]
    /\ due' = due \ {e}
    /\ ran' = ran \cup {Id(e[2])}
    /\ UNCHANGED <<memory, lists, calling, expired, readTime, timerfd, calls, now,
                   asked, cancelled>>

\* Mutant of Repeats: a timer cancelled in its own callback is started again.
RepeatsAlways(a) == heap[a].interval > 0

\* A timer that repeats is started again unless its callback cancelled it.
Repeats(a) == heap[a].interval > 0 /\ Id(a) \notin canceling

\* reset(): expired timers are started again or deleted, the timerfd is set for
\* the earliest timer.
Reset ==
  LET again == {a \in {e[2] : e \in expired} : Repeats(a)}
      gone == {e[2] : e \in expired} \ again
  IN  /\ calling /\ due = {}
      /\ heap' = [a \in Addrs |->
                    IF a \in again
                    THEN [heap[a] EXCEPT !.expiration = readTime + heap[a].interval]
                    ELSE IF a \in gone THEN None ELSE heap[a]]
      /\ timers' = timers \cup {<<readTime + heap[a].interval, a>> : a \in again}
      /\ active' = active \cup {Id(a) : a \in again}
      /\ IF timers' # {} THEN ResetTimerfd(Min({e[1] : e \in timers'}))
         ELSE UNCHANGED <<armed, readable>>
      /\ calling' = FALSE /\ expired' = {}
      /\ UNCHANGED <<created, adding, ids, canceling, due, readTime, polled, calls, now, history>>

-----------------------------------------------------------------------------

LoopStep == Poll \/ RunCall \/ HandleRead \/ RunTimer \/ Reset

Next ==
  \/ \E a \in Addrs, when \in 1 .. MaxTime, i \in Intervals :
       AddTimer(a, when, i) \/ AddTimerNow(a, when, i)
  \/ \E id \in adding : AddTimerReturn(id)
  \/ \E id \in ids : Cancel(id) \/ CancelNow(id)
  \/ LoopStep \/ Expire \/ Tick

Spec == Init /\ [][Next]_vars

\* The loop's thread runs, the clock goes on and the kernel's timer expires.
FairSpec == Spec /\ WF_vars(LoopStep) /\ WF_vars(Expire) /\ WF_vars(Tick)

-----------------------------------------------------------------------------
(* Properties *)

Timer == [seq : Nat, expiration : Nat, interval : Nat]
TimerIds == Addrs \X Nat
Entries == Nat \X Addrs

\* The values of the variables of TimerQueue.
TypeOK ==
  /\ heap \in [Addrs -> Timer \cup {None}] /\ created \in Nat 
  /\ adding \subseteq TimerIds /\ ids \subseteq TimerIds
  /\ timers \subseteq Entries /\ active \subseteq TimerIds /\ canceling \subseteq TimerIds
  /\ calling \in BOOLEAN /\ expired \subseteq Entries /\ due \subseteq expired
  /\ readTime \in Nat /\ now \in Nat /\ armed \in Nat \cup {None}
  /\ readable \in BOOLEAN /\ polled \in BOOLEAN
  /\ calls \in Seq([op : {"add", "cancel"}, id : TimerIds])
  /\ asked \subseteq TimerIds /\ cancelled \subseteq TimerIds /\ ran \subseteq TimerIds

\* timers_ and activeTimers_ hold the same timers, all of them objects that have
\* not been deleted, listed under the time and the number the object holds now
\* (the asserts on the two sizes, and on erase finding what it erases).
SetsAgree ==
  /\ \A e \in timers : heap[e[2]] # None /\ e[1] = heap[e[2]].expiration /\ Id(e[2]) \in active
  /\ \A id \in active : heap[id[1]] # None /\ id = Id(id[1])
                         /\ <<heap[id[1]].expiration, id[1]>> \in timers

\* handleRead uses no deleted timer: whatever the callbacks cancel, an expired
\* timer stays allocated, and stays out of both sets, until reset() has seen it;
\* and a queued insertion finds the object it was made for.
NoDeletedTimerUsed ==
  /\ \A e \in expired : heap[e[2]] # None /\ \A o \in timers : o[2] # e[2]
  /\ \A i \in 1 .. Len(calls) :
       calls[i].op = "add" =>
         LET a == calls[i].id[1]
         IN  heap[a] # None /\ Id(a) = calls[i].id /\ \A e \in timers \cup expired : e[2] # a

\* A cancelled timer is not in the queue once the callbacks have returned, also
\* when it was cancelled from its own callback and repeats.
CancelledLeaves == cancelled \cap active = {}

\* Every timer in the queue that expires within the bound on the clock runs or
\* is cancelled.
TimersRun ==
  \A a \in Addrs, s \in 1 .. MaxTimers :
    <<a, s>> \in active /\ heap[a].expiration <= MaxTime
      ~> <<a, s>> \in ran \/ <<a, s>> \in asked
=============================================================================

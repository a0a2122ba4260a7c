---------------------------- MODULE ReactorProof -----------------------------
(* Proofs about EventLoop and TimerQueue, and about the two of MCReactor. *)
EXTENDS MCReactor, SequenceTheorems, NaturalsInduction, WellFoundedInduction, TLAPS

-----------------------------------------------------------------------------
(* EventLoop: types and phases *)

\* The two halves of the type invariant of EventLoop.
LoopTypes ==
  /\ lpc \in {"none", "init", "ready", "exit", "end"} \cup Loop!Looping
  /\ activeChannels \subseteq {"wakeup", "io"}
  /\ pending \in Seq(Functors) /\ functors \in Seq(Functors)
  /\ callingPending \in BOOLEAN /\ quit \in BOOLEAN /\ evt \in BOOLEAN /\ loopPtr \in BOOLEAN
  /\ owner \in {"new", "starting", "started", "wakeup", "joining", "gone"}
  /\ caller \in [Callers -> {"idle", "wakeup"}]
  /\ submitted \in Seq(Functors) /\ executed \in Seq(Functors)

LoopPhases ==
  /\ lpc = "none" <=> owner = "new"
  /\ callingPending <=> lpc \in {"pending", "run", "call"}
  /\ activeChannels # {} => lpc = "events"
  /\ functors # <<>> => lpc \in {"run", "call"}

LEMMA LoopHalves == Loop!TypeOK <=> LoopTypes /\ LoopPhases
BY Zenon DEF Loop!TypeOK, LoopTypes, LoopPhases

LEMMA LoopHalvesNext == Loop!TypeOK' <=> LoopTypes' /\ LoopPhases'
BY Zenon DEF Loop!TypeOK, LoopTypes, LoopPhases

LEMMA LoopInit ==
  ASSUME Loop!Init
  PROVE  Loop!TypeOK
<1>1. LoopTypes
  <2>1. /\ pending \in Seq(Functors) /\ functors \in Seq(Functors)
        /\ submitted \in Seq(Functors) /\ executed \in Seq(Functors)
        /\ caller \in [Callers -> {"idle", "wakeup"}]
    BY DEF Loop!Init
  <2> QED
    BY Zenon, <2>1 DEF Loop!Init, LoopTypes
<1>2. LoopPhases
  BY DEF Loop!Init, LoopPhases
<1> QED
  BY Zenon, <1>1, <1>2, LoopHalves

\* The steps that queue no functor and take none out.
LoopQuiet ==
  \/ Loop!StartLoop \/ Loop!Destroy \/ Loop!OwnerStep \/ Loop!Publish \/ Loop!LoopBegin
  \/ Loop!Check \/ Loop!PollWoken \/ Loop!HandleRead \/ Loop!HandleIo
  \/ Loop!EventsHandled \/ Loop!FunctorReturns \/ Loop!PendingDone \/ Loop!Retire
  \/ Loop!PollIo \/ Loop!PollTimeout \/ Loop!QuitFromLoop
  \/ \E t \in Callers : Loop!Wakeup(t)

LEMMA LoopQuietTyped ==
  ASSUME Loop!TypeOK, LoopQuiet
  PROVE  Loop!TypeOK' /\ UNCHANGED <<pending, functors, submitted, executed>>
<1> USE LoopHalves DEF Loop!shared, Loop!thread
<1>1. CASE Loop!StartLoop \/ Loop!Destroy \/ Loop!OwnerStep
  <2> USE <1>1 DEF Loop!StartLoop, Loop!Destroy, Loop!OwnerStep, Loop!StartLoopReturn,
        Loop!OwnerWakeup, Loop!QuitWakes, Loop!Join
  <2>1. LoopTypes'
    BY DEF LoopTypes
  <2>2. LoopPhases'
    BY DEF LoopPhases
  <2> QED
    BY <2>1, <2>2, LoopHalvesNext
<1>2. CASE Loop!Publish \/ Loop!LoopBegin \/ Loop!Check \/ Loop!Retire
  <2> USE <1>2 DEF Loop!Publish, Loop!LoopBegin, Loop!Check, Loop!Retire
  <2>1. LoopTypes'
    BY DEF LoopTypes, Loop!Looping
  <2>2. LoopPhases'
    BY DEF LoopPhases
  <2> QED
    BY <2>1, <2>2, LoopHalvesNext
<1>3. CASE Loop!PollWoken \/ Loop!PollIo \/ Loop!PollTimeout
  <2> USE <1>3 DEF Loop!PollWoken, Loop!PollIo, Loop!PollTimeout, Loop!Poll
  <2>1. LoopTypes'
    BY DEF LoopTypes, Loop!Looping
  <2>2. LoopPhases'
    BY DEF LoopPhases
  <2> QED
    BY <2>1, <2>2, LoopHalvesNext
<1>4. CASE Loop!HandleRead \/ Loop!HandleIo \/ Loop!EventsHandled
  <2> USE <1>4 DEF Loop!HandleRead, Loop!HandleIo, Loop!EventsHandled
  <2>1. LoopTypes'
    BY DEF LoopTypes, Loop!Looping
  <2>2. LoopPhases'
    BY DEF LoopPhases
  <2> QED
    BY <2>1, <2>2, LoopHalvesNext
<1>5. CASE Loop!FunctorReturns \/ Loop!PendingDone \/ Loop!QuitFromLoop
  <2> USE <1>5 DEF Loop!FunctorReturns, Loop!PendingDone, Loop!QuitFromLoop
  <2>1. LoopTypes'
    BY ZenonT(60) DEF LoopTypes, Loop!Looping
  <2>2. LoopPhases'
    BY DEF LoopPhases
  <2> QED
    BY <2>1, <2>2, LoopHalvesNext
<1>6. CASE \E t \in Callers : Loop!Wakeup(t)
  <2> USE <1>6 DEF Loop!Wakeup
  <2>1. LoopTypes'
    BY DEF LoopTypes, Loop!Looping
  <2>2. LoopPhases'
    BY DEF LoopPhases
  <2> QED
    BY <2>1, <2>2, LoopHalvesNext
<1> QED
  BY Zenon, <1>1, <1>2, <1>3, <1>4, <1>5, <1>6 DEF LoopQuiet

\* queueInLoop, from another thread or from a callback.
LEMMA LoopQueueTyped ==
  ASSUME Loop!TypeOK, NEW f \in Functors,
         Loop!QueueFromLoop(f) \/ \E t \in Callers : Loop!QueueInLoop(t, f)
  PROVE  /\ Loop!TypeOK'
         /\ pending' = Append(pending, f) /\ UNCHANGED <<functors, executed>>
<1> USE DEF Loop!TypeOK, Loop!Looping, Loop!thread, Loop!Enqueue, Loop!WakesItself
<1>1. CASE Loop!QueueFromLoop(f)
  BY <1>1 DEF Loop!QueueFromLoop, Loop!WakesItself
<1>2. CASE \E t \in Callers : Loop!QueueInLoop(t, f)
  BY <1>2 DEF Loop!QueueInLoop
<1> QED
  BY Zenon, <1>1, <1>2

LEMMA LoopSwapTyped ==
  ASSUME Loop!TypeOK, Loop!SwapPending
  PROVE  Loop!TypeOK' /\ functors = <<>>
BY DEF Loop!TypeOK, Loop!Looping, Loop!SwapPending

LEMMA LoopCallTyped ==
  ASSUME Loop!TypeOK, Loop!CallFunctor
  PROVE  Loop!TypeOK'
BY DEF Loop!TypeOK, Loop!Looping, Loop!CallFunctor, Loop!shared

\* Every step of EventLoop is of one of the four kinds above.
LEMMA LoopCases ==
  ASSUME Loop!Next
  PROVE  \/ LoopQuiet
         \/ \E f \in Functors :
              Loop!QueueFromLoop(f) \/ \E t \in Callers : Loop!QueueInLoop(t, f)
         \/ Loop!SwapPending
         \/ Loop!CallFunctor
BY Zenon DEF Loop!Next, Loop!LoopStep, LoopQuiet

LEMMA LoopTyped ==
  ASSUME Loop!TypeOK, [Loop!Next]_loopVars
  PROVE  Loop!TypeOK'
<1>1. CASE Loop!Next
  BY Zenon, <1>1, LoopCases, LoopQuietTyped, LoopQueueTyped, LoopSwapTyped, LoopCallTyped
<1>2. CASE UNCHANGED loopVars
  BY <1>2 DEF loopVars, Loop!TypeOK, Loop!Looping
<1> QED
  BY <1>1, <1>2

-----------------------------------------------------------------------------
(* EventLoop implements FunctorQueue *)

LEMMA LoopSimulates ==
  ASSUME Loop!TypeOK, [Loop!Next]_loopVars
  PROVE  [Loop!Queue!QNext]_(Loop!Queue!qvars)
<1> USE DEF Loop!Queue!QNext, Loop!Queue!qvars
<1>1. CASE \E f \in Functors :
             Loop!QueueFromLoop(f) \/ \E t \in Callers : Loop!QueueInLoop(t, f)
  <2>1. PICK f \in Functors :
          Loop!QueueFromLoop(f) \/ \E t \in Callers : Loop!QueueInLoop(t, f)
    BY <1>1
  <2>2. pending' = Append(pending, f) /\ UNCHANGED <<functors, executed>>
    BY Zenon, <2>1, LoopQueueTyped
  <2>0. pending \in Seq(Functors) /\ functors \in Seq(Functors) /\ <<f>> \in Seq(Functors)
    BY DEF Loop!TypeOK
  <2>3. functors \o Append(pending, f) = Append(functors \o pending, f)
    BY <2>0, AppendIsConcat, ConcatAssociative, ConcatProperties
  <2> QED
    BY <2>2, <2>3 DEF Loop!Queue!Submit
<1>2. CASE Loop!SwapPending
  <2>1. functors = <<>>
    BY Zenon, <1>2, LoopSwapTyped
  <2> QED
    BY <1>2, <2>1, ConcatEmptySeq DEF Loop!SwapPending, Loop!TypeOK
<1>3. CASE Loop!CallFunctor
  <2>1. Head(functors \o pending) = Head(functors)
        /\ Tail(functors \o pending) = Tail(functors) \o pending
        /\ functors \o pending # <<>>
    BY <1>3 DEF Loop!CallFunctor, Loop!TypeOK
  <2> QED
    BY <1>3, <2>1 DEF Loop!CallFunctor, Loop!shared, Loop!Queue!Run
<1>4. CASE UNCHANGED <<pending, functors, submitted, executed>>
  BY <1>4
<1>5. CASE UNCHANGED loopVars
  BY <1>4, <1>5 DEF loopVars
<1> QED
  BY Zenon, <1>1, <1>2, <1>3, <1>4, <1>5, LoopCases, LoopQuietTyped

-----------------------------------------------------------------------------
(* TimerQueue: the inductive invariant *)

\* No two insertions wait for the same address.
AddsApart ==
  \A i, j \in 1 .. Len(calls) :
    calls[i].op = "add" /\ calls[j].op = "add" /\ calls[i].id[1] = calls[j].id[1] => i = j

\* Numbers are given out once: those in use are not above s_numCreated_.
Numbered ==
  /\ \A a \in Addrs : heap[a] # None => heap[a].seq <= created
  /\ \A id \in adding \cup ids \cup cancelled : id[2] <= created
  /\ \A i \in 1 .. Len(calls) : calls[i].id[2] <= created

\* A cancelled timer cannot come back: it is not in the queue, not waiting for its
\* insertion, and reset() will find it in cancelingTimers_ if it has expired.
CancelKept ==
  /\ CancelledLeaves
  /\ expired # {} => calling
  /\ \A e \in expired : Id(e[2]) \in cancelled => Id(e[2]) \in canceling
  /\ \A i \in 1 .. Len(calls) : calls[i].op = "add" => calls[i].id \notin cancelled

TimerInv == TypeOK /\ SetsAgree /\ NoDeletedTimerUsed /\ AddsApart /\ Numbered /\ CancelKept

\* A timer that is there has its fields.
LEMMA TimerThere ==
  ASSUME TypeOK, NEW a \in Addrs, heap[a] # None
  PROVE  /\ heap[a] \in Timer /\ heap[a].seq \in Nat /\ heap[a].expiration \in Nat
         /\ heap[a].interval \in Nat /\ Id(a) \in TimerIds
BY DEF TypeOK, Timer, Id, TimerIds

LEMMA Pairs == \A x, y : <<x, y>>[1] = x /\ <<x, y>>[2] = y
OBVIOUS

LEMMA OneMore ==
  \A n \in Nat : /\ n + 1 <= n + 1
                /\ \A x \in TimerIds : x[2] <= n => x[2] <= n + 1
BY DEF TimerIds

LEMMA TimerIsSome ==
  ASSUME NEW s \in Nat, NEW x \in Nat, NEW i \in Nat
  PROVE  /\ [seq |-> s, expiration |-> x, interval |-> i] \in Timer
         /\ [seq |-> s, expiration |-> x, interval |-> i] # None
BY TimerConstants DEF Timer

\* A nonempty set of expirations has a least one.
LEMMA Least ==
  ASSUME NEW S \in SUBSET Nat, S # {}
  PROVE  Min(S) \in S
<1>1. PICK x \in S : \A y \in S : ~(<<y, x>> \in OpToRel(<, Nat))
  BY Zenon, NatLessThanWellFounded, WFMin
<1>2. \A y \in S : x <= y
  <2> DEFINE R == {ss \in Nat \X Nat : ss[1] < ss[2]}
  <2>1. OpToRel(<, Nat) = R
    BY Zenon DEF OpToRel
  <2> SUFFICES ASSUME NEW y \in S
               PROVE  x <= y
    OBVIOUS
  <2>2. <<y, x>> \notin R
    BY Zenon, <1>1, <2>1
  <2>3. x \in Nat /\ y \in Nat /\ ~(y < x)
    BY SMT, <2>2
  <2> QED
    BY <2>3
<1> QED
  BY <1>2 DEF Min

\* A queued call names an address and a number.
LEMMA CallThere ==
  ASSUME TypeOK, NEW j \in 1 .. Len(calls)
  PROVE  /\ calls[j] \in [op : {"add", "cancel"}, id : TimerIds]
         /\ calls[j].id \in TimerIds /\ calls[j].id[1] \in Addrs /\ calls[j].id[2] \in Nat
<1>1. calls[j] \in [op : {"add", "cancel"}, id : TimerIds]
  BY Zenon, ElementOfSeq DEF TypeOK
<1>2. calls[j].id \in TimerIds
  BY Zenon, <1>1
<1> QED
  BY <1>1, <1>2 DEF TimerIds

LEMMA TimerInit ==
  ASSUME Init
  PROVE  TimerInv
<1>1. TypeOK
  <2>1. heap \in [Addrs -> Timer \cup {None}] /\ calls \in Seq([op : {"add", "cancel"}, id : TimerIds])
    BY DEF Init
  <2> QED
    BY <2>1 DEF Init, TypeOK
<1> QED
  BY <1>1 DEF Init, TimerInv, SetsAgree, NoDeletedTimerUsed, AddsApart, Numbered, CancelKept,
     CancelledLeaves

-----------------------------------------------------------------------------
(* TimerQueue: every step keeps the invariant *)

\* The timerfd, the clock, the poll, a callback that returns, and addTimer
\* returning in another thread.
LEMMA QuietKeeps ==
  ASSUME TimerInv,
         \/ Expire \/ Poll \/ Tick \/ RunTimer
         \/ \E id \in adding : AddTimerReturn(id)
  PROVE  TimerInv'
<1> USE DEF TimerInv
<1>1. UNCHANGED <<heap, created, timers, active, canceling, calling, expired, calls, cancelled>>
  BY DEF Expire, Poll, Tick, RunTimer, AddTimerReturn, memory, lists, reading, history
<1>2. TypeOK'
  <2>1. CASE Expire \/ Poll \/ Tick
    <3>1. UNCHANGED <<memory, lists, reading, calls, history>>
      BY Zenon, <2>1 DEF Expire, Poll, Tick
    <3>2. now' \in Nat /\ armed' \in Nat \cup {None} /\ readable' \in BOOLEAN /\ polled' \in BOOLEAN
      <4>1. CASE Expire
        BY Zenon, <4>1 DEF TypeOK, Expire
      <4>2. CASE Poll
        BY Zenon, <4>2 DEF TypeOK, Poll
      <4>3. CASE Tick
        BY <4>3 DEF TypeOK, Tick, timerfd
      <4> QED
        BY Zenon, <2>1, <4>1, <4>2, <4>3
    <3> QED
      BY Zenon, <3>1, <3>2 DEF TypeOK, memory, lists, reading, history
  <2>2. CASE RunTimer
    <3>1. PICK e \in due : /\ due' = due \ {e} /\ ran' = ran \cup {Id(e[2])}
                           /\ UNCHANGED <<memory, lists, calling, expired, readTime, timerfd,
                                          calls, now, asked, cancelled>>
      BY <2>2 DEF RunTimer
    <3>2. e[2] \in Addrs /\ heap[e[2]] # None
      BY DEF TypeOK, Entries, NoDeletedTimerUsed
    <3>3. Id(e[2]) \in TimerIds
      BY Zenon, <3>2, TimerThere
    <3> QED
      BY <3>1, <3>3 DEF TypeOK, memory, lists, timerfd
  <2>3. CASE \E id \in adding : AddTimerReturn(id)
    <3>1. PICK id \in adding : AddTimerReturn(id)
      BY <2>3
    <3>2. id \in TimerIds /\ id[1] \in Addrs /\ <<id[1], 0>> \in TimerIds
      BY DEF TypeOK, TimerIds
    <3>3. heap[id[1]] # None => Id(id[1]) \in TimerIds
      BY Zenon, <3>2, TimerThere
    <3>4. ids' \subseteq TimerIds
      BY <3>1, <3>2, <3>3 DEF AddTimerReturn, TypeOK
    <3> QED
      BY <3>1, <3>4 DEF AddTimerReturn, TypeOK, lists, reading, timerfd, history
  <2> QED
    BY Zenon, <2>1, <2>2, <2>3
<1>3. Numbered'
  <2>1. CASE UNCHANGED <<adding, ids>>
    BY <1>1, <2>1 DEF Numbered
  <2>2. CASE \E id \in adding : AddTimerReturn(id)
    <3>1. PICK id \in adding : AddTimerReturn(id)
      BY <2>2
    <3>2. id[1] \in Addrs /\ id[2] <= created /\ created \in Nat
      BY DEF TypeOK, TimerIds, Numbered
    <3>3. \A i \in ids' : i \in ids \/ i[2] <= created
      BY <3>1, <3>2, TimerThere DEF AddTimerReturn, Numbered, Id
    <3>4. adding' \subseteq adding
      BY <3>1 DEF AddTimerReturn
    <3> QED
      BY <1>1, <3>3, <3>4 DEF Numbered
  <2> QED
    BY Zenon, <2>1, <2>2 DEF Expire, Poll, Tick, RunTimer, memory
<1>4. SetsAgree' /\ NoDeletedTimerUsed'
  BY Zenon, <1>1 DEF SetsAgree, NoDeletedTimerUsed, Id
<1>5. AddsApart' /\ CancelKept'
  BY Zenon, <1>1 DEF AddsApart, CancelKept, CancelledLeaves, Id
<1> QED
  BY Zenon, <1>2, <1>3, <1>4, <1>5

\* cancel() in another thread queues the call.
LEMMA CancelKeeps ==
  ASSUME TimerInv, NEW id \in ids, Cancel(id)
  PROVE  TimerInv'
<1> USE DEF TimerInv
<1>1. /\ id \in TimerIds /\ id[2] <= created
      /\ calls' = Append(calls, [op |-> "cancel", id |-> id])
      /\ UNCHANGED <<heap, created, adding, ids, timers, active, canceling, calling, expired,
                     cancelled>>
  BY DEF Cancel, TypeOK, Numbered, memory, lists, reading
<1>2. TypeOK'
  BY <1>1 DEF Cancel, TypeOK, reading, timerfd
<1>3. calls \in Seq([op : {"add", "cancel"}, id : TimerIds])
  BY DEF TypeOK
<1>4. /\ Len(calls') = Len(calls) + 1 /\ Len(calls) \in Nat
      /\ \A i \in 1 .. Len(calls) : calls'[i] = calls[i]
      /\ calls'[Len(calls) + 1].op = "cancel" /\ calls'[Len(calls) + 1].id = id
  BY <1>1, <1>3
<1>5. SetsAgree'
  BY Zenon, <1>1 DEF SetsAgree, Id
<1>6. NoDeletedTimerUsed'
  BY SMTT(60), <1>1, <1>4 DEF NoDeletedTimerUsed, Id
<1>7. AddsApart'
  BY <1>4 DEF AddsApart
<1>8. Numbered'
  BY <1>1, <1>4 DEF Numbered
<1>9. CancelKept'
  BY <1>1, <1>4 DEF CancelKept, CancelledLeaves, Id
<1> QED
  BY Zenon, <1>2, <1>5, <1>6, <1>7, <1>8, <1>9

\* resetTimerfd keeps the type of the timerfd.
LEMMA ResetTyped ==
  ASSUME TypeOK, NEW when \in Nat, ResetTimerfd(when)
  PROVE  armed' \in Nat \cup {None} /\ readable' \in BOOLEAN
BY DEF TypeOK, ResetTimerfd

\* addTimer in another thread: a new object, and its insertion is queued.
LEMMA AddTimerKeeps ==
  ASSUME TimerInv, NEW a \in Addrs, NEW when \in 1 .. MaxTime, NEW i \in Intervals,
         AddTimer(a, when, i)
  PROVE  TimerInv'
<1> DEFINE t == [seq |-> created + 1, expiration |-> when, interval |-> i]
           c == [op |-> "add", id |-> <<a, created + 1>>]
<1> USE DEF TimerInv
<1>1. /\ heap[a] = None /\ heap' = [heap EXCEPT ![a] = t] /\ created' = created + 1
      /\ adding' = adding \cup {<<a, created + 1>>} /\ calls' = Append(calls, c)
      /\ UNCHANGED <<ids, timers, active, canceling, calling, expired, cancelled>>
  BY DEF AddTimer, NewTimer, lists, reading, history
<1>2. created \in Nat /\ t \in Timer /\ t # None /\ <<a, created + 1>> \in TimerIds
  BY TimerConstants, TimerIsSome DEF TypeOK, TimerIds
<1>3. /\ heap'[a] = t /\ \A b \in Addrs \ {a} : heap'[b] = heap[b]
      /\ heap' \in [Addrs -> Timer \cup {None}]
  BY <1>1, <1>2 DEF TypeOK
<1>4. TypeOK'
  <2>0. c \in [op : {"add", "cancel"}, id : TimerIds]
    BY Zenon, <1>2
  <2>1. calls' \in Seq([op : {"add", "cancel"}, id : TimerIds])
    BY Zenon, <1>1, <2>0, AppendProperties DEF TypeOK
  <2>2. adding' \subseteq TimerIds
    BY Zenon, <1>1, <1>2 DEF TypeOK
  <2>3. created' \in Nat
    BY <1>1, <1>2
  <2> QED
    BY Zenon, <1>3, <2>1, <2>2, <2>3 DEF TypeOK, AddTimer, lists, reading, timerfd, history
<1>5. /\ Len(calls') = Len(calls) + 1 /\ Len(calls) \in Nat
      /\ \A j \in 1 .. Len(calls) : calls'[j] = calls[j]
      /\ calls'[Len(calls) + 1] = c
  BY <1>1, <1>2 DEF TypeOK
<1>6. \A e \in timers \cup expired : e[2] \in Addrs /\ e[2] # a /\ heap[e[2]] # None
  BY <1>1 DEF TypeOK, Entries, SetsAgree, NoDeletedTimerUsed
<1>7. \A id \in active : id[1] \in Addrs /\ id[1] # a
  BY <1>1 DEF TypeOK, TimerIds, SetsAgree
<1>8. \A j \in 1 .. Len(calls) :
        calls[j].id[1] \in Addrs /\ (calls[j].op = "add" => calls[j].id[1] # a)
  BY Zenon, <1>1, CallThere DEF NoDeletedTimerUsed
<1>9. SetsAgree'
  BY <1>1, <1>3, <1>6, <1>7 DEF SetsAgree, Id
<1>10. NoDeletedTimerUsed'
  <2>1. \A e \in expired' : heap'[e[2]] # None /\ \A o \in timers' : o[2] # e[2]
    BY <1>1, <1>3, <1>6 DEF NoDeletedTimerUsed
  <2>2. \A j \in 1 .. Len(calls') :
          calls'[j].op = "add" =>
            /\ heap'[calls'[j].id[1]] # None /\ Id(calls[j].id[1])' = calls'[j].id
            /\ \A e \in timers' \cup expired' : e[2] # calls'[j].id[1]
    <3>1. \A j \in 1 .. Len(calls) :
            calls[j].op = "add" =>
              /\ heap'[calls[j].id[1]] # None
              /\ <<calls[j].id[1], heap'[calls[j].id[1]].seq>> = calls[j].id
              /\ \A e \in timers \cup expired : e[2] # calls[j].id[1]
      <4> SUFFICES ASSUME NEW j \in 1 .. Len(calls), calls[j].op = "add"
                   PROVE  /\ heap'[calls[j].id[1]] # None
                          /\ <<calls[j].id[1], heap'[calls[j].id[1]].seq>> = calls[j].id
                          /\ \A e \in timers \cup expired : e[2] # calls[j].id[1]
        BY Zenon
      <4>0. calls[j].id[1] \in Addrs \ {a}
        BY Zenon, <1>8
      <4>1. heap'[calls[j].id[1]] = heap[calls[j].id[1]]
        BY Zenon, <1>3, <4>0
      <4> QED
        BY Zenon, <4>1 DEF NoDeletedTimerUsed, Id
    <3>2. /\ heap'[c.id[1]] # None /\ <<c.id[1], heap'[c.id[1]].seq>> = c.id
          /\ \A e \in timers \cup expired : e[2] # c.id[1]
      <4>1. c.id = <<a, created + 1>> /\ c.id[1] = a /\ t.seq = created + 1
        BY Zenon, Pairs
      <4> HIDE DEF c, t
      <4> QED
        BY Zenon, <1>2, <1>3, <1>6, <4>1
    <3>3. ASSUME NEW j \in 1 .. Len(calls')
          PROVE  \/ j \in 1 .. Len(calls) /\ calls'[j] = calls[j]
                 \/ calls'[j] = c
      BY SMTT(60), <1>5
    <3>4. timers' = timers /\ expired' = expired
      BY Zenon, <1>1
    <3> QED
      BY ZenonT(30), <3>1, <3>2, <3>3, <3>4 DEF Id
  <2> QED
    BY Zenon, <2>1, <2>2 DEF NoDeletedTimerUsed
<1>11. AddsApart'
  BY <1>5, <1>8 DEF AddsApart
<1>12. Numbered'
  <2>1. \A b \in Addrs : heap'[b] # None => heap'[b].seq <= created'
    <3>1. created' = created + 1 /\ created \in Nat /\ heap'[a].seq = created + 1
      BY Zenon, <1>1, <1>2, <1>3
    <3>2. ASSUME NEW b \in Addrs \ {a}, heap'[b] # None PROVE heap'[b].seq <= created'
      <4>1. heap'[b].seq \in Nat /\ heap'[b].seq <= created
        BY Zenon, <1>3, <3>2, TimerThere DEF Numbered
      <4> QED
        BY <3>1, <4>1
    <3>3. heap'[a].seq <= created'
      BY <3>1
    <3> QED
      BY Zenon, <3>2, <3>3
  <2>2. \A id \in adding' \cup ids' \cup cancelled' : id[2] <= created'
    <3> SUFFICES ASSUME NEW d \in adding' \cup ids' \cup cancelled'
                 PROVE  d[2] <= created'
      BY Zenon
    <3>1. created' = created + 1 /\ created \in Nat
      BY Zenon, <1>1, <1>2
    <3>2. CASE d \in adding \cup ids \cup cancelled
      <4>1. d \in TimerIds /\ d[2] <= created
        BY Zenon, <3>2 DEF Numbered, TypeOK
      <4> QED
        BY Zenon, <3>1, <4>1, OneMore
    <3>3. CASE d = <<a, created + 1>>
      BY Zenon, <3>1, <3>3, OneMore, Pairs
    <3> QED
      BY Zenon, <1>1, <3>2, <3>3
  <2>3. \A j \in 1 .. Len(calls') : calls'[j].id[2] <= created'
    <3>1. \A j \in 1 .. Len(calls) : calls[j].id[2] \in Nat /\ calls[j].id[2] <= created
      BY Zenon, CallThere DEF Numbered
    <3>2. c.id[2] = created + 1
      OBVIOUS
    <3> QED
      <4>1. created' = created + 1 /\ created \in Nat
        BY Zenon, <1>1, <1>2
      <4>2. \A j \in 1 .. Len(calls') : j \in 1 .. Len(calls) \/ j = Len(calls) + 1
        BY <1>5
      <4>3. \A j \in 1 .. Len(calls) : calls'[j].id[2] <= created'
        BY <1>5, <3>1, <4>1
      <4>4. c.id[2] <= created'
        BY <3>2, <4>1
      <4> HIDE DEF c
      <4> QED
        BY Zenon, <1>5, <4>2, <4>3, <4>4
  <2> QED
    BY Zenon, <2>1, <2>2, <2>3 DEF Numbered
<1>13. CancelKept'
  <2>1. CancelledLeaves' /\ (expired' # {} => calling')
    BY <1>1 DEF CancelKept, CancelledLeaves
  <2>2. \A e \in expired' : Id(e[2])' \in cancelled' => Id(e[2])' \in canceling'
    BY <1>1, <1>3, <1>6 DEF CancelKept, Id
  <2>3. <<a, created + 1>> \notin cancelled
    BY <1>2 DEF Numbered
  <2>4. \A j \in 1 .. Len(calls') : calls'[j].op = "add" => calls'[j].id \notin cancelled'
    BY <1>1, <1>5, <2>3 DEF CancelKept
  <2> QED
    BY Zenon, <2>1, <2>2, <2>4 DEF CancelKept
<1> QED
  BY Zenon, <1>4, <1>9, <1>10, <1>11, <1>12, <1>13

\* addTimerInLoop sets the timerfd or leaves it alone.
LEMMA AddInLoopTyped ==
  ASSUME TypeOK, NEW a, NEW t, t.expiration \in Nat, AddTimerInLoop(a, t)
  PROVE  armed' \in Nat \cup {None} /\ readable' \in BOOLEAN /\ polled' \in BOOLEAN
<1>1. polled' = polled /\ (ResetTimerfd(t.expiration) \/ UNCHANGED <<armed, readable>>)
  BY Zenon DEF AddTimerInLoop
<1>2. CASE ResetTimerfd(t.expiration)
  BY Zenon, <1>1, <1>2, ResetTyped DEF TypeOK
<1>3. CASE UNCHANGED <<armed, readable>>
  BY Zenon, <1>1, <1>3 DEF TypeOK
<1> QED
  BY Zenon, <1>1, <1>2, <1>3

\* addTimer in the loop's thread: a new object, and it is inserted.
LEMMA AddTimerNowKeeps ==
  ASSUME TimerInv, NEW a \in Addrs, NEW when \in 1 .. MaxTime, NEW i \in Intervals,
         AddTimerNow(a, when, i)
  PROVE  TimerInv'
<1> DEFINE t == [seq |-> created + 1, expiration |-> when, interval |-> i]
           id == <<a, created + 1>>
<1> USE DEF TimerInv
<1>1. /\ heap[a] = None /\ heap' = [heap EXCEPT ![a] = t] /\ created' = created + 1
      /\ ids' = ids \cup {id} /\ AddTimerInLoop(a, heap'[a])
      /\ UNCHANGED <<adding, canceling, calling, expired, due, readTime, calls, now, asked,
                     cancelled, ran>>
  BY Zenon DEF AddTimerNow, NewTimer, AddTimerInLoop, reading, history
<1>2. created \in Nat /\ t \in Timer /\ t # None /\ id \in TimerIds
  BY TimerConstants, TimerIsSome DEF TypeOK, TimerIds
<1>3. /\ heap'[a] = t /\ \A b \in Addrs \ {a} : heap'[b] = heap[b]
      /\ heap' \in [Addrs -> Timer \cup {None}]
  BY <1>1, <1>2 DEF TypeOK
<1>4. /\ timers' = timers \cup {<<when, a>>} /\ active' = active \cup {id}
      /\ t.expiration = when /\ t.seq = created + 1
      /\ when \in Nat /\ <<when, a>> \in Entries
  BY SMTT(60), <1>1, <1>3, TimerConstants DEF AddTimerInLoop, Entries
<1> HIDE DEF t, id
<1>5. TypeOK'
  <2>1. armed' \in Nat \cup {None} /\ readable' \in BOOLEAN /\ polled' \in BOOLEAN
    BY Zenon, <1>1, <1>3, <1>4, AddInLoopTyped
  <2>2. created' \in Nat
    <3>1. created' = created + 1 /\ created \in Nat
      BY Zenon, <1>1, <1>2
    <3> QED
      BY <3>1
  <2>3. timers' \subseteq Entries /\ active' \subseteq TimerIds /\ ids' \subseteq TimerIds
    BY Zenon, <1>1, <1>2, <1>4 DEF TypeOK
  <2> QED
    BY Zenon, <1>1, <1>3, <2>1, <2>2, <2>3 DEF TypeOK
<1>6. \A e \in timers \cup expired : e[2] \in Addrs \ {a}
  BY <1>1 DEF TypeOK, Entries, SetsAgree, NoDeletedTimerUsed
<1>7. \A d \in active : d[1] \in Addrs \ {a}
  BY <1>1 DEF TypeOK, TimerIds, SetsAgree
<1>8. \A j \in 1 .. Len(calls) : calls[j].op = "add" => calls[j].id[1] \in Addrs \ {a}
  BY Zenon, <1>1, CallThere DEF NoDeletedTimerUsed
<1>9. SetsAgree'
  <2>1. \A e \in timers' : /\ heap'[e[2]] # None /\ e[1] = heap'[e[2]].expiration
                           /\ Id(e[2])' \in active'
    BY <1>2, <1>3, <1>4, <1>6 DEF SetsAgree, Id, id
  <2>2. \A d \in active' : /\ heap'[d[1]] # None /\ d = Id(d[1])'
                           /\ <<heap'[d[1]].expiration, d[1]>> \in timers'
    BY <1>2, <1>3, <1>4, <1>7 DEF SetsAgree, Id, id
  <2> QED
    BY Zenon, <2>1, <2>2 DEF SetsAgree
<1>10. NoDeletedTimerUsed'
  <2>1. \A e \in expired' : heap'[e[2]] # None /\ \A o \in timers' : o[2] # e[2]
    <3>1. expired' = expired /\ timers' = timers \cup {<<when, a>>} /\ <<when, a>>[2] = a
      BY Zenon, <1>1, <1>4, Pairs
    <3>2. \A e \in expired : e[2] \in Addrs \ {a} /\ heap'[e[2]] = heap[e[2]]
      BY Zenon, <1>3, <1>6
    <3> QED
      BY ZenonT(30), <3>1, <3>2 DEF NoDeletedTimerUsed
  <2>2. ASSUME NEW j \in 1 .. Len(calls'), calls'[j].op = "add"
        PROVE  /\ heap'[calls'[j].id[1]] # None /\ Id(calls[j].id[1])' = calls'[j].id
               /\ \A e \in timers' \cup expired' : e[2] # calls'[j].id[1]
    <3>1. /\ heap[calls[j].id[1]] # None /\ Id(calls[j].id[1]) = calls[j].id
          /\ \A e \in timers \cup expired : e[2] # calls[j].id[1]
      BY Zenon, <1>1, <2>2 DEF NoDeletedTimerUsed
    <3>2. calls[j].id[1] # a /\ heap'[calls[j].id[1]] = heap[calls[j].id[1]]
      BY Zenon, <1>1, <1>3, <1>8, <2>2
    <3> QED
      <4>1. /\ expired' = expired /\ timers' = timers \cup {<<when, a>>} /\ <<when, a>>[2] = a
            /\ calls' = calls
        BY Zenon, <1>1, <1>4, Pairs
      <4> QED
        BY ZenonT(30), <3>1, <3>2, <4>1 DEF Id
  <2> QED
    BY Zenon, <2>1, <2>2 DEF NoDeletedTimerUsed
<1>11. AddsApart'
  BY Zenon, <1>1 DEF AddsApart
<1>12. Numbered'
  <2>1. \A b \in Addrs : heap'[b] # None => heap'[b].seq <= created'
    <3>1. created' = created + 1 /\ created \in Nat /\ heap'[a].seq = created + 1
      BY Zenon, <1>1, <1>2, <1>3, <1>4
    <3>2. ASSUME NEW b \in Addrs \ {a}, heap'[b] # None PROVE heap'[b].seq <= created'
      <4>1. heap'[b].seq \in Nat /\ heap'[b].seq <= created
        BY Zenon, <1>3, <3>2, TimerThere DEF Numbered
      <4> QED
        BY <3>1, <4>1
    <3>3. heap'[a].seq <= created'
      BY <3>1
    <3> QED
      BY Zenon, <3>2, <3>3
  <2>2. \A d \in adding' \cup ids' \cup cancelled' : d[2] <= created'
    <3> SUFFICES ASSUME NEW d \in adding' \cup ids' \cup cancelled'
                 PROVE  d[2] <= created'
      BY Zenon
    <3>1. created' = created + 1 /\ created \in Nat
      BY Zenon, <1>1, <1>2
    <3>2. CASE d \in adding \cup ids \cup cancelled
      <4>1. d \in TimerIds /\ d[2] <= created
        BY Zenon, <3>2 DEF Numbered, TypeOK
      <4> QED
        BY Zenon, <3>1, <4>1, OneMore
    <3>3. CASE d = <<a, created + 1>>
      BY Zenon, <3>1, <3>3, OneMore, Pairs
    <3> QED
      BY Zenon, <1>1, <3>2, <3>3 DEF id
  <2>3. \A j \in 1 .. Len(calls') : calls'[j].id[2] <= created'
    <3>1. \A j \in 1 .. Len(calls) : calls[j].id[2] \in Nat /\ calls[j].id[2] <= created
      BY Zenon, CallThere DEF Numbered
    <3> QED
      BY <1>1, <1>2, <3>1
  <2> QED
    BY Zenon, <2>1, <2>2, <2>3 DEF Numbered
<1>13. CancelKept'
  <2>1. id \notin cancelled
    BY <1>2 DEF Numbered, id
  <2>2. CancelledLeaves' /\ (expired' # {} => calling')
    BY Zenon, <1>1, <1>4, <2>1 DEF CancelKept, CancelledLeaves
  <2>3. \A e \in expired' : Id(e[2])' \in cancelled' => Id(e[2])' \in canceling'
    BY <1>1, <1>3, <1>6 DEF CancelKept, Id
  <2>4. \A j \in 1 .. Len(calls') : calls'[j].op = "add" => calls'[j].id \notin cancelled'
    BY Zenon, <1>1 DEF CancelKept
  <2> QED
    BY Zenon, <2>2, <2>3, <2>4 DEF CancelKept
<1> QED
  BY Zenon, <1>5, <1>9, <1>10, <1>11, <1>12, <1>13

\* What is left of the queued calls when the first is taken out.
LEMMA TailCalls ==
  ASSUME TimerInv, calls # <<>>, calls' = Tail(calls)
  PROVE  /\ Head(calls) = calls[1] /\ 1 \in 1 .. Len(calls)
         /\ calls' \in Seq([op : {"add", "cancel"}, id : TimerIds])
         /\ \A j \in 1 .. Len(calls') : /\ j + 1 \in 1 .. Len(calls) /\ calls'[j] = calls[j + 1]
                                        /\ j + 1 # 1
         /\ AddsApart'
<1> USE DEF TimerInv
<1>1. calls \in Seq([op : {"add", "cancel"}, id : TimerIds])
  BY DEF TypeOK
<1>2. /\ Head(calls) = calls[1] /\ 1 \in 1 .. Len(calls)
      /\ calls' \in Seq([op : {"add", "cancel"}, id : TimerIds])
      /\ Len(calls) \in Nat /\ Len(calls') = Len(calls) - 1
  BY <1>1
<1>3. \A j \in 1 .. Len(calls') : /\ j + 1 \in 1 .. Len(calls) /\ calls'[j] = calls[j + 1]
                                  /\ j + 1 # 1
  BY <1>1, <1>2
<1>4. AddsApart'
  <2> SUFFICES ASSUME NEW i \in 1 .. Len(calls'), NEW j \in 1 .. Len(calls'),
                      calls'[i].op = "add", calls'[j].op = "add",
                      calls'[i].id[1] = calls'[j].id[1]
               PROVE  i = j
    BY DEF AddsApart
  <2>1. i + 1 = j + 1
    BY Zenon, <1>3 DEF AddsApart
  <2> QED
    BY <2>1
<1> QED
  BY Zenon, <1>2, <1>3, <1>4

\* doPendingFunctors runs a queued insertion.
LEMMA RunAddKeeps ==
  ASSUME TimerInv, RunCall, Head(calls).op = "add"
  PROVE  TimerInv'
<1> DEFINE c == Head(calls)
           a == c.id[1]
<1> USE DEF TimerInv
<1>1. /\ calls # <<>> /\ calls' = Tail(calls) /\ AddTimerInLoop(a, heap[a])
      /\ UNCHANGED <<heap, created, adding, ids, canceling, calling, expired, due, readTime, now,
                     asked, cancelled, ran>>
  BY Zenon DEF RunCall, AddTimerInLoop, memory, reading
<1>2. /\ c = calls[1] /\ 1 \in 1 .. Len(calls)
      /\ \A j \in 1 .. Len(calls') : /\ j + 1 \in 1 .. Len(calls) /\ calls'[j] = calls[j + 1]
                                     /\ j + 1 # 1
  BY Zenon, <1>1, TailCalls
<1>3. /\ a \in Addrs /\ heap[a] # None /\ Id(a) = c.id
      /\ \A e \in timers \cup expired : e[2] # a
  BY ZenonT(60), <1>2, CallThere DEF NoDeletedTimerUsed
<1>4. heap[a] \in Timer /\ heap[a].expiration \in Nat /\ Id(a) \in TimerIds
  BY Zenon, <1>3, TimerThere
<1>5. timers' = timers \cup {<<heap[a].expiration, a>>} /\ active' = active \cup {Id(a)}
  BY Zenon, <1>1 DEF AddTimerInLoop, Id
<1>6. \A j \in 1 .. Len(calls') : calls'[j].op = "add" => calls'[j].id[1] # a
  BY Zenon, <1>2 DEF AddsApart
<1> HIDE DEF c, a
<1>7. TypeOK'
  <2>1. armed' \in Nat \cup {None} /\ readable' \in BOOLEAN /\ polled' \in BOOLEAN
    BY Zenon, <1>1, <1>4, AddInLoopTyped
  <2>2. <<heap[a].expiration, a>> \in Entries
    BY Zenon, <1>3, <1>4 DEF Entries
  <2>3. calls' \in Seq([op : {"add", "cancel"}, id : TimerIds])
    BY Zenon, <1>1, TailCalls
  <2> QED
    BY Zenon, <1>1, <1>4, <1>5, <2>1, <2>2, <2>3 DEF TypeOK
<1>8. SetsAgree'
  <2>1. \A e \in timers' : /\ heap'[e[2]] # None /\ e[1] = heap'[e[2]].expiration
                           /\ Id(e[2])' \in active'
    BY <1>1, <1>3, <1>5 DEF SetsAgree, Id
  <2>2. \A d \in active' : /\ heap'[d[1]] # None /\ d = Id(d[1])'
                           /\ <<heap'[d[1]].expiration, d[1]>> \in timers'
    <3> SUFFICES ASSUME NEW d \in active'
                 PROVE  /\ heap'[d[1]] # None /\ d = Id(d[1])'
                        /\ <<heap'[d[1]].expiration, d[1]>> \in timers'
      BY Zenon
    <3>1. CASE d \in active
      BY Zenon, <1>1, <1>5, <3>1 DEF SetsAgree, Id
    <3>2. CASE d = Id(a)
      <4>1. d[1] = a /\ d = <<a, heap[a].seq>>
        BY Zenon, <3>2 DEF Id
      <4> QED
        BY Zenon, <1>1, <1>3, <1>5, <4>1 DEF Id
    <3> QED
      BY Zenon, <1>5, <3>1, <3>2
  <2> QED
    BY Zenon, <2>1, <2>2 DEF SetsAgree
<1>9. NoDeletedTimerUsed'
  <2>1. \A e \in expired' : heap'[e[2]] # None /\ \A o \in timers' : o[2] # e[2]
    <3>1. /\ expired' = expired /\ heap' = heap /\ <<heap[a].expiration, a>>[2] = a
          /\ timers' = timers \cup {<<heap[a].expiration, a>>}
      BY Zenon, <1>1, <1>5, Pairs
    <3> QED
      BY ZenonT(30), <1>3, <3>1 DEF NoDeletedTimerUsed
  <2>2. ASSUME NEW j \in 1 .. Len(calls'), calls'[j].op = "add"
        PROVE  /\ heap'[calls'[j].id[1]] # None /\ Id(calls[j].id[1])' = calls'[j].id
               /\ \A e \in timers' \cup expired' : e[2] # calls'[j].id[1]
    <3>1. /\ heap[calls'[j].id[1]] # None /\ Id(calls'[j].id[1]) = calls'[j].id
          /\ \A e \in timers \cup expired : e[2] # calls'[j].id[1]
      BY Zenon, <1>2, <2>2 DEF NoDeletedTimerUsed
    <3>2. calls'[j].id[1] # a
      BY Zenon, <1>6, <2>2
    <3> QED
      <4>1. /\ expired' = expired /\ heap' = heap /\ <<heap[a].expiration, a>>[2] = a
            /\ timers' = timers \cup {<<heap[a].expiration, a>>}
        BY Zenon, <1>1, <1>5, Pairs
      <4> QED
        BY ZenonT(30), <3>1, <3>2, <4>1 DEF Id
  <2> QED
    BY Zenon, <2>1, <2>2 DEF NoDeletedTimerUsed
<1>10. AddsApart'
  BY Zenon, <1>1, TailCalls
<1>11. Numbered'
  BY Zenon, <1>1, <1>2 DEF Numbered
<1>12. CancelKept'
  <2>1. Id(a) \notin cancelled
    BY Zenon, <1>2, <1>3 DEF CancelKept, c
  <2>2. \A j \in 1 .. Len(calls') : calls'[j].op = "add" => calls'[j].id \notin cancelled'
    BY Zenon, <1>1, <1>2 DEF CancelKept
  <2> QED
    BY Zenon, <1>1, <1>5, <2>1, <2>2 DEF CancelKept, CancelledLeaves, Id
<1> QED
  BY Zenon, <1>7, <1>8, <1>9, <1>10, <1>11, <1>12

\* cancelInLoop, whichever way it was called: the calls left are among those that
\* were queued.
LEMMA CancelInLoopKeeps ==
  ASSUME TimerInv, NEW id \in TimerIds, id[2] <= created, CancelInLoop(id),
         calls' \in Seq([op : {"add", "cancel"}, id : TimerIds]), AddsApart',
         \A j \in 1 .. Len(calls') : \E k \in 1 .. Len(calls) : calls'[j] = calls[k],
         asked' \subseteq TimerIds,
         UNCHANGED <<reading, now, ran>>
  PROVE  TimerInv'
<1> DEFINE a == id[1]
<1> USE DEF TimerInv
<1>1. /\ UNCHANGED <<created, adding, ids, armed, readable, polled, calling, expired, due,
                     readTime, now, ran>>
      /\ a \in Addrs
      /\ cancelled' \subseteq cancelled \cup {id}
  BY DEF CancelInLoop, timerfd, reading, TimerIds
<1>2. \A j \in 1 .. Len(calls') : calls'[j].op = "add" => calls'[j].id \notin cancelled'
  <2> SUFFICES ASSUME NEW j \in 1 .. Len(calls'), calls'[j].op = "add"
               PROVE  calls'[j].id \notin cancelled'
    BY Zenon
  <2>1. PICK k \in 1 .. Len(calls) : calls'[j] = calls[k]
    BY Zenon
  <2>2. calls[k].op = "add" /\ calls[k].id \notin cancelled
    BY Zenon, <2>1 DEF CancelKept
  <2>3. calls[k] = [op |-> "add", id |-> calls[k].id]
    BY <2>2, CallThere
  <2>4. CASE calls[k].id = id
    BY Zenon, <2>1, <2>2, <2>3, <2>4 DEF CancelInLoop
  <2>5. CASE calls[k].id # id
    BY Zenon, <1>1, <2>1, <2>2, <2>5
  <2> QED
    BY Zenon, <2>4, <2>5
<1>3. Numbered' /\ cancelled' \subseteq TimerIds
  <2>1. \A b \in Addrs : heap'[b] # None => heap'[b].seq <= created'
    BY <1>1 DEF CancelInLoop, Numbered, TypeOK
  <2>2. \A j \in 1 .. Len(calls') : calls'[j].id[2] <= created'
    BY Zenon, <1>1 DEF Numbered
  <2>3. \A d \in adding' \cup ids' \cup cancelled' : d[2] <= created'
    BY Zenon, <1>1 DEF Numbered
  <2> QED
    BY Zenon, <1>1, <2>1, <2>2, <2>3 DEF Numbered, TypeOK
<1>4. CASE Found(id)
  <2>1. /\ heap[a] # None /\ id = Id(a) /\ <<heap[a].expiration, a>> \in timers
        /\ id \in active
    BY Zenon, <1>4 DEF Found, SetsAgree
  <2>2. /\ timers' = timers \ {<<heap[a].expiration, a>>} /\ active' = active \ {id}
        /\ heap' = [heap EXCEPT ![a] = None] /\ canceling' = canceling
    BY Zenon, <1>4 DEF CancelInLoop
  <2>3. heap'[a] = None /\ \A b \in Addrs \ {a} : heap'[b] = heap[b]
    BY Zenon, <1>1, <2>2 DEF TypeOK
  <2>4. \A e \in timers' : e \in timers /\ e[2] \in Addrs \ {a}
    <3> SUFFICES ASSUME NEW e \in timers'
                 PROVE  e \in timers /\ e[2] \in Addrs \ {a}
      BY Zenon
    <3>1. e \in timers /\ e # <<heap[a].expiration, a>> /\ e[1] = heap[e[2]].expiration
      BY Zenon, <2>2 DEF SetsAgree
    <3>2. e[2] \in Addrs /\ e = <<e[1], e[2]>>
      BY <3>1 DEF TypeOK, Entries
    <3> QED
      BY Zenon, <3>1, <3>2
  <2>5. \A e \in expired : e[2] \in Addrs \ {a}
    BY <2>1 DEF NoDeletedTimerUsed, TypeOK, Entries
  <2>6. \A d \in active' : d \in active /\ d[1] \in Addrs \ {a}
    <3> SUFFICES ASSUME NEW d \in active'
                 PROVE  d \in active /\ d[1] \in Addrs \ {a}
      BY Zenon
    <3>1. d \in active /\ d # id /\ d = Id(d[1])
      BY Zenon, <2>2 DEF SetsAgree
    <3>2. d[1] \in Addrs
      BY <3>1 DEF TypeOK, TimerIds
    <3> QED
      BY Zenon, <2>1, <3>1, <3>2
  <2>7. TypeOK'
    <3>1. heap' \in [Addrs -> Timer \cup {None}]
      BY <1>1, <2>2 DEF TypeOK
    <3> QED
      BY Zenon, <1>1, <1>3, <2>2, <2>4, <2>6, <3>1 DEF TypeOK
  <2>8. SetsAgree'
    <3>1. \A e \in timers' : /\ heap'[e[2]] # None /\ e[1] = heap'[e[2]].expiration
                             /\ Id(e[2])' \in active'
      <4> SUFFICES ASSUME NEW e \in timers'
                   PROVE  /\ heap'[e[2]] # None /\ e[1] = heap'[e[2]].expiration
                          /\ <<e[2], heap'[e[2]].seq>> \in active'
        BY Zenon DEF Id
      <4>1. e \in timers /\ e[2] # a /\ heap'[e[2]] = heap[e[2]]
        BY Zenon, <2>3, <2>4
      <4>2. Id(e[2]) \in active /\ Id(e[2]) # id
        BY <2>1, <4>1 DEF SetsAgree, Id
      <4> QED
        BY SMTT(60), <2>2, <4>1, <4>2 DEF SetsAgree, Id
    <3>2. \A d \in active' : /\ heap'[d[1]] # None /\ d = Id(d[1])'
                             /\ <<heap'[d[1]].expiration, d[1]>> \in timers'
      <4> SUFFICES ASSUME NEW d \in active'
                   PROVE  /\ heap'[d[1]] # None /\ d = <<d[1], heap'[d[1]].seq>>
                          /\ <<heap'[d[1]].expiration, d[1]>> \in timers'
        BY Zenon DEF Id
      <4>1. d \in active /\ d[1] # a /\ heap'[d[1]] = heap[d[1]]
        BY Zenon, <2>3, <2>6
      <4>2. <<heap[d[1]].expiration, d[1]>> # <<heap[a].expiration, a>>
        BY <4>1
      <4> QED
        BY SMTT(60), <2>2, <4>1, <4>2 DEF SetsAgree, Id
    <3> QED
      BY Zenon, <3>1, <3>2 DEF SetsAgree
  <2>9. NoDeletedTimerUsed'
    <3>1. \A e \in expired' : heap'[e[2]] # None /\ \A o \in timers' : o[2] # e[2]
      BY Zenon, <1>1, <2>3, <2>4, <2>5 DEF NoDeletedTimerUsed
    <3>2. ASSUME NEW j \in 1 .. Len(calls'), calls'[j].op = "add"
          PROVE  /\ heap'[calls'[j].id[1]] # None /\ Id(calls[j].id[1])' = calls'[j].id
                 /\ \A e \in timers' \cup expired' : e[2] # calls'[j].id[1]
      <4>1. PICK k \in 1 .. Len(calls) : calls'[j] = calls[k]
        BY Zenon
      <4> DEFINE b == calls[k].id[1]
      <4>2. /\ heap[b] # None /\ Id(b) = calls[k].id /\ b \in Addrs
            /\ \A e \in timers \cup expired : e[2] # b
        BY Zenon, <3>2, <4>1, CallThere DEF NoDeletedTimerUsed
      <4>3. b # a
        <5>1. <<heap[a].expiration, a>>[2] = a
          OBVIOUS
        <5> QED
          BY Zenon, <2>1, <4>2, <5>1
      <4> QED
        BY ZenonT(30), <1>1, <2>3, <2>4, <4>1, <4>2, <4>3 DEF Id
    <3> QED
      BY Zenon, <3>1, <3>2 DEF NoDeletedTimerUsed
  <2>10. CancelKept'
    <3>1. CancelledLeaves'
      BY Zenon, <1>1, <2>2 DEF CancelKept, CancelledLeaves
    <3>2. \A e \in expired' : Id(e[2])' \in cancelled' => Id(e[2])' \in canceling'
      <4> SUFFICES ASSUME NEW e \in expired, <<e[2], heap'[e[2]].seq>> \in cancelled'
                   PROVE  <<e[2], heap'[e[2]].seq>> \in canceling'
        BY Zenon, <1>1 DEF Id
      <4>1. heap'[e[2]] = heap[e[2]] /\ e[2] # a
        BY Zenon, <2>3, <2>5
      <4>2. Id(e[2]) # id
        <5>1. Id(e[2])[1] = e[2] /\ id[1] = a
          BY Zenon, <2>1, Pairs DEF Id
        <5> QED
          BY Zenon, <4>1, <5>1
      <4>3. <<e[2], heap'[e[2]].seq>> = Id(e[2])
        BY Zenon, <4>1 DEF Id
      <4>4. Id(e[2]) \in cancelled
        BY ZenonT(30), <1>1, <2>2, <4>2, <4>3
      <4>5. Id(e[2]) \in canceling
        BY ZenonT(30), <4>4 DEF CancelKept
      <4> QED
        <5>1. Id(e[2]) \in canceling'
          BY Zenon, <2>2, <4>5
        <5> QED
          BY Zenon, <4>3, <5>1
    <3> QED
      BY Zenon, <1>1, <1>2, <3>1, <3>2 DEF CancelKept
  <2> QED
    BY Zenon, <1>3, <2>7, <2>8, <2>9, <2>10
<1>5. CASE ~Found(id)
  <2>1. /\ UNCHANGED <<timers, active, heap>>
        /\ canceling' = IF calling THEN canceling \cup {id} ELSE canceling
    BY Zenon, <1>5 DEF CancelInLoop
  <2>2. TypeOK'
    <3>1. canceling' \subseteq TimerIds
      BY Zenon, <2>1 DEF TypeOK
    <3> QED
      BY Zenon, <1>1, <1>3, <2>1, <3>1 DEF TypeOK
  <2>3. SetsAgree'
    BY Zenon, <2>1 DEF SetsAgree, Id
  <2>4. NoDeletedTimerUsed'
    <3> SUFFICES ASSUME NEW j \in 1 .. Len(calls'), calls'[j].op = "add"
                 PROVE  /\ heap'[calls'[j].id[1]] # None /\ Id(calls[j].id[1])' = calls'[j].id
                        /\ \A e \in timers' \cup expired' : e[2] # calls'[j].id[1]
      BY Zenon, <1>1, <2>1 DEF NoDeletedTimerUsed
    <3>1. PICK k \in 1 .. Len(calls) : calls'[j] = calls[k]
      BY Zenon
    <3> QED
      BY Zenon, <1>1, <2>1, <3>1 DEF NoDeletedTimerUsed, Id
  <2>5. CancelKept'
    <3>1. CancelledLeaves'
      BY Zenon, <1>1, <1>5, <2>1 DEF CancelKept, CancelledLeaves, Found
    <3>2. \A e \in expired' : Id(e[2])' \in cancelled' => Id(e[2])' \in canceling'
      BY Zenon, <1>1, <2>1 DEF CancelKept, Id
    <3> QED
      BY Zenon, <1>1, <1>2, <3>1, <3>2 DEF CancelKept
  <2> QED
    BY Zenon, <1>3, <2>2, <2>3, <2>4, <2>5
<1> QED
  BY Zenon, <1>4, <1>5

\* cancel() from a callback in the loop's thread.
LEMMA CancelNowKeeps ==
  ASSUME TimerInv, NEW id \in ids, CancelNow(id)
  PROVE  TimerInv'
<1> USE DEF TimerInv
<1>1. /\ CancelInLoop(id) /\ calls' = calls /\ asked' = asked \cup {id}
      /\ UNCHANGED <<reading, now, ran>>
  BY Zenon DEF CancelNow
<1>2. id \in TimerIds /\ id[2] <= created /\ asked' \subseteq TimerIds
  BY Zenon, <1>1 DEF TypeOK, Numbered
<1>3. AddsApart' /\ calls' \in Seq([op : {"add", "cancel"}, id : TimerIds])
  BY Zenon, <1>1 DEF AddsApart, TypeOK
<1>4. \A j \in 1 .. Len(calls') : \E k \in 1 .. Len(calls) : calls'[j] = calls[k]
  BY Zenon, <1>1
<1> QED
  BY Zenon, <1>1, <1>2, <1>3, <1>4, CancelInLoopKeeps

\* doPendingFunctors runs a queued cancel.
LEMMA RunCancelKeeps ==
  ASSUME TimerInv, RunCall, Head(calls).op = "cancel"
  PROVE  TimerInv'
<1> DEFINE id == Head(calls).id
<1> USE DEF TimerInv
<1>1. /\ calls # <<>> /\ calls' = Tail(calls) /\ CancelInLoop(id)
      /\ asked' = asked /\ UNCHANGED <<reading, now, ran>>
  BY Zenon DEF RunCall
<1>2. /\ Head(calls) = calls[1] /\ 1 \in 1 .. Len(calls) /\ AddsApart'
      /\ calls' \in Seq([op : {"add", "cancel"}, id : TimerIds])
      /\ \A j \in 1 .. Len(calls') : /\ j + 1 \in 1 .. Len(calls) /\ calls'[j] = calls[j + 1]
                                     /\ j + 1 # 1
  BY Zenon, <1>1, TailCalls
<1>3. id \in TimerIds /\ id[2] <= created /\ asked' \subseteq TimerIds
  BY Zenon, <1>1, <1>2, CallThere DEF Numbered, TypeOK
<1>4. \A j \in 1 .. Len(calls') : \E k \in 1 .. Len(calls) : calls'[j] = calls[k]
  BY Zenon, <1>2
<1> QED
  BY Zenon, <1>1, <1>2, <1>3, <1>4, CancelInLoopKeeps

\* handleRead: getExpired moves what has expired out of both sets.
LEMMA HandleReadKeeps ==
  ASSUME TimerInv, HandleRead
  PROVE  TimerInv'
<1> USE DEF TimerInv
<1>1. /\ expired' = {e \in timers : e[1] <= now} /\ due' = expired'
      /\ timers' = timers \ expired' /\ active' = active \ ActiveTimers(expired')
      /\ calling' = TRUE /\ canceling' = {} /\ readTime' = now
      /\ polled' = FALSE /\ readable' = FALSE
      /\ UNCHANGED <<heap, created, adding, ids, armed, calls, now, asked, cancelled, ran>>
  BY Zenon DEF HandleRead, memory, history
<1>2. expired' \subseteq timers /\ timers' \subseteq timers /\ active' \subseteq active
  BY Zenon, <1>1
<1>3. \A e \in timers : /\ e[2] \in Addrs /\ e = <<e[1], e[2]>> /\ heap[e[2]] # None
                        /\ e[1] = heap[e[2]].expiration /\ Id(e[2]) \in active
  BY DEF TypeOK, Entries, SetsAgree
<1>4. \A e, o \in timers : e[2] = o[2] => e = o
  BY <1>3
<1>5. TypeOK'
  BY Zenon, <1>1, <1>2 DEF TypeOK
<1>6. SetsAgree'
  <2>1. ASSUME NEW e \in timers'
        PROVE  Id(e[2]) \in active'
    <3>1. Id(e[2]) \in active /\ e \in timers /\ e \notin expired'
      BY Zenon, <1>1, <1>3
    <3>2. ASSUME NEW o \in expired', Id(o[2]) = Id(e[2])
          PROVE  FALSE
      <4>1. o[2] = e[2]
        BY <3>2 DEF Id
      <4> QED
        BY Zenon, <1>2, <1>4, <3>1, <3>2, <4>1
    <3> QED
      BY Zenon, <1>1, <3>1, <3>2 DEF ActiveTimers
  <2>2. ASSUME NEW d \in active'
        PROVE  <<heap[d[1]].expiration, d[1]>> \in timers'
    <3>1. d = Id(d[1]) /\ <<heap[d[1]].expiration, d[1]>> \in timers
      BY Zenon, <1>2 DEF SetsAgree
    <3>2. d \notin ActiveTimers(expired')
      BY Zenon, <1>1
    <3>3. <<heap[d[1]].expiration, d[1]>> \notin expired'
      BY <3>1, <3>2 DEF ActiveTimers
    <3> QED
      BY Zenon, <1>1, <3>1, <3>3
  <2> QED
    BY Zenon, <1>1, <1>2, <2>1, <2>2 DEF SetsAgree, Id
<1>7. NoDeletedTimerUsed'
  <2>1. \A e \in expired' : heap'[e[2]] # None /\ \A o \in timers' : o[2] # e[2]
    BY Zenon, <1>1, <1>2, <1>3, <1>4
  <2>2. ASSUME NEW j \in 1 .. Len(calls'), calls'[j].op = "add"
        PROVE  /\ heap'[calls'[j].id[1]] # None /\ Id(calls[j].id[1])' = calls'[j].id
               /\ \A e \in timers' \cup expired' : e[2] # calls'[j].id[1]
    BY Zenon, <1>1, <1>2, <2>2 DEF NoDeletedTimerUsed, Id
  <2> QED
    BY Zenon, <2>1, <2>2 DEF NoDeletedTimerUsed
<1>8. AddsApart' /\ Numbered'
  BY Zenon, <1>1 DEF AddsApart, Numbered
<1>9. CancelKept'
  <2>1. \A e \in expired' : Id(e[2]) \notin cancelled
    BY Zenon, <1>2, <1>3 DEF CancelKept, CancelledLeaves
  <2> QED
    BY Zenon, <1>1, <1>2, <2>1 DEF CancelKept, CancelledLeaves, Id
<1> QED
  BY Zenon, <1>5, <1>6, <1>7, <1>8, <1>9

\* reset(): expired timers are started again or deleted.
LEMMA ResetKeeps ==
  ASSUME TimerInv, Reset
  PROVE  TimerInv'
<1> DEFINE old == {e[2] : e \in expired}
           again == {a \in old : Repeats(a)}
           started == {<<readTime + heap[a].interval, a>> : a \in again}
           restarted(a) == [heap[a] EXCEPT !.expiration = readTime + heap[a].interval]
<1> USE DEF TimerInv
<1>1. /\ heap' = [a \in Addrs |-> IF a \in again THEN restarted(a)
                                  ELSE IF a \in old \ again THEN None ELSE heap[a]]
      /\ timers' = timers \cup started /\ active' = active \cup {Id(a) : a \in again}
      /\ IF timers' # {} THEN ResetTimerfd(Min({e[1] : e \in timers'}))
         ELSE UNCHANGED <<armed, readable>>
      /\ calling' = FALSE /\ expired' = {} /\ due = {}
      /\ UNCHANGED <<created, adding, ids, canceling, due, readTime, polled, calls, now, asked,
                     cancelled, ran>>
  BY Zenon DEF Reset, history
<1>2. \A a \in old : a \in Addrs /\ heap[a] # None /\ \A e \in timers : e[2] # a
  BY DEF TypeOK, Entries, NoDeletedTimerUsed
<1>3. \A a \in again : /\ a \in old /\ restarted(a) \in Timer /\ restarted(a) # None
                       /\ restarted(a).seq = heap[a].seq
                       /\ restarted(a).expiration = readTime + heap[a].interval
                       /\ readTime + heap[a].interval \in Nat /\ Id(a) \in TimerIds
  <2> SUFFICES ASSUME NEW a \in again
               PROVE  /\ a \in old /\ restarted(a) \in Timer /\ restarted(a) # None
                      /\ restarted(a).seq = heap[a].seq
                      /\ restarted(a).expiration = readTime + heap[a].interval
                      /\ readTime + heap[a].interval \in Nat /\ Id(a) \in TimerIds
    BY Zenon
  <2>1. a \in old /\ a \in Addrs /\ heap[a] # None
    BY Zenon, <1>2
  <2>2. heap[a] \in Timer /\ heap[a].interval \in Nat /\ Id(a) \in TimerIds
    BY Zenon, <2>1, TimerThere
  <2>3. readTime + heap[a].interval \in Nat
    BY <2>2 DEF TypeOK
  <2>4. restarted(a) \in Timer
    BY <2>2, <2>3 DEF Timer
  <2>5. restarted(a).seq = heap[a].seq /\ restarted(a).expiration = readTime + heap[a].interval
    BY <2>2 DEF Timer
  <2>6. None \notin Timer
    BY TimerConstants DEF Timer
  <2> QED
    BY Zenon, <2>1, <2>2, <2>3, <2>4, <2>5, <2>6
<1>4. \A a \in Addrs : /\ a \in again => heap'[a] = restarted(a)
                       /\ a \notin old => heap'[a] = heap[a]
                       /\ heap'[a] = None \/ a \in again \/ heap'[a] = heap[a]
  BY Zenon, <1>1
<1>5. \A e \in timers : e[2] \in Addrs /\ e[2] \notin old /\ heap'[e[2]] = heap[e[2]]
  <2>1. \A e \in timers : e[2] \in Addrs
    BY DEF TypeOK, Entries
  <2> QED
    BY Zenon, <1>2, <1>4, <2>1
<1>6. \A d \in active : d[1] \in Addrs /\ d[1] \notin old /\ heap'[d[1]] = heap[d[1]]
  <2> SUFFICES ASSUME NEW d \in active
               PROVE  d[1] \in Addrs /\ d[1] \notin old /\ heap'[d[1]] = heap[d[1]]
    BY Zenon
  <2>1. d[1] \in Addrs /\ <<heap[d[1]].expiration, d[1]>> \in timers
    BY DEF TypeOK, TimerIds, SetsAgree
  <2>2. <<heap[d[1]].expiration, d[1]>>[2] \notin old
    BY Zenon, <1>5, <2>1
  <2> QED
    BY Zenon, <1>4, <2>1, <2>2
<1>7. \A j \in 1 .. Len(calls) : calls[j].op = "add" =>
        /\ calls[j].id[1] \in Addrs /\ calls[j].id[1] \notin old
        /\ heap'[calls[j].id[1]] = heap[calls[j].id[1]]
  <2> SUFFICES ASSUME NEW j \in 1 .. Len(calls), calls[j].op = "add"
               PROVE  /\ calls[j].id[1] \in Addrs /\ calls[j].id[1] \notin old
                      /\ heap'[calls[j].id[1]] = heap[calls[j].id[1]]
    BY Zenon
  <2>1. calls[j].id[1] \in Addrs /\ \A e \in expired : e[2] # calls[j].id[1]
    BY Zenon, CallThere DEF NoDeletedTimerUsed
  <2>2. calls[j].id[1] \notin old
    BY Zenon, <2>1
  <2> QED
    BY Zenon, <1>4, <2>1, <2>2
<1> HIDE DEF old, again, started, restarted
<1>8. TypeOK'
  <2>1. heap' \in [Addrs -> Timer \cup {None}]
    <3>1. \A a \in Addrs : heap'[a] \in Timer \cup {None}
      BY Zenon, <1>3, <1>4 DEF TypeOK
    <3>2. DOMAIN heap' = Addrs /\ heap' = [a \in Addrs |-> heap'[a]]
      BY Zenon, <1>1
    <3> QED
      BY Zenon, <3>1, <3>2
  <2>2. timers' \subseteq Entries
    <3>1. \A a \in again : <<readTime + heap[a].interval, a>> \in Entries
      BY Zenon, <1>2, <1>3 DEF Entries
    <3> QED
      BY Zenon, <1>1, <3>1 DEF TypeOK, started
  <2>3. active' \subseteq TimerIds
    BY Zenon, <1>1, <1>3 DEF TypeOK
  <2>4. armed' \in Nat \cup {None} /\ readable' \in BOOLEAN
    <3>1. CASE timers' = {}
      BY Zenon, <1>1, <3>1 DEF TypeOK
    <3>2. CASE timers' # {}
      <4> DEFINE S == {e[1] : e \in timers'}
      <4>1. S \in SUBSET Nat /\ S # {}
        BY <2>2, <3>2 DEF Entries
      <4>2. Min(S) \in Nat
        BY Zenon, <4>1, Least
      <4> QED
        BY Zenon, <1>1, <3>2, <4>2, ResetTyped
    <3> QED
      BY Zenon, <3>1, <3>2
  <2> QED
    BY Zenon, <1>1, <2>1, <2>2, <2>3, <2>4 DEF TypeOK
<1>9. SetsAgree'
  <2>1. ASSUME NEW e \in timers'
        PROVE  /\ heap'[e[2]] # None /\ e[1] = heap'[e[2]].expiration
               /\ <<e[2], heap'[e[2]].seq>> \in active'
    <3>1. CASE e \in timers
      BY Zenon, <1>1, <1>5, <3>1 DEF SetsAgree, Id
    <3>2. CASE e \in started
      <4>1. PICK a \in again : e = <<readTime + heap[a].interval, a>>
        BY Zenon, <3>2 DEF started
      <4>2. e[1] = readTime + heap[a].interval /\ e[2] = a
        BY Zenon, <4>1
      <4>3. a \in Addrs /\ heap'[a] = restarted(a) /\ restarted(a).seq = heap[a].seq
        BY Zenon, <1>2, <1>3, <1>4
      <4>4. Id(a) \in active'
        BY Zenon, <1>1
      <4> QED
        BY Zenon, <1>3, <4>2, <4>3, <4>4 DEF Id
    <3> QED
      BY Zenon, <1>1, <3>1, <3>2
  <2>2. ASSUME NEW d \in active'
        PROVE  /\ heap'[d[1]] # None /\ d = <<d[1], heap'[d[1]].seq>>
               /\ <<heap'[d[1]].expiration, d[1]>> \in timers'
    <3>1. CASE d \in active
      BY Zenon, <1>1, <1>6, <3>1 DEF SetsAgree, Id
    <3>2. CASE d \in {Id(a) : a \in again}
      <4>1. PICK a \in again : d = Id(a)
        BY Zenon, <3>2
      <4>2. d = <<a, heap[a].seq>> /\ d[1] = a
        BY Zenon, <4>1 DEF Id
      <4>3. a \in Addrs /\ heap'[a] = restarted(a) /\ restarted(a).seq = heap[a].seq
        BY Zenon, <1>2, <1>3, <1>4
      <4>4. <<readTime + heap[a].interval, a>> \in timers'
        BY Zenon, <1>1 DEF started
      <4> QED
        BY Zenon, <1>3, <4>2, <4>3, <4>4
    <3> QED
      BY Zenon, <1>1, <3>1, <3>2
  <2> QED
    BY Zenon, <2>1, <2>2 DEF SetsAgree, Id
<1>10. NoDeletedTimerUsed'
  <2>1. ASSUME NEW j \in 1 .. Len(calls'), calls'[j].op = "add"
        PROVE  /\ heap'[calls'[j].id[1]] # None /\ Id(calls[j].id[1])' = calls'[j].id
               /\ \A e \in timers' \cup expired' : e[2] # calls'[j].id[1]
    <3>1. /\ heap[calls[j].id[1]] # None /\ Id(calls[j].id[1]) = calls[j].id
          /\ \A e \in timers : e[2] # calls[j].id[1]
      BY Zenon, <1>1, <2>1 DEF NoDeletedTimerUsed
    <3>2. ASSUME NEW e \in started
          PROVE  e[2] \in old
      <4>1. PICK a \in again : e = <<readTime + heap[a].interval, a>>
        BY Zenon DEF started
      <4>2. e[2] = a
        BY Zenon, <4>1
      <4> QED
        BY Zenon, <1>3, <4>2
    <3>3. heap'[calls[j].id[1]] = heap[calls[j].id[1]] /\ calls[j].id[1] \notin old
      BY Zenon, <1>1, <1>7, <2>1
    <3> QED
      BY Zenon, <1>1, <3>1, <3>2, <3>3 DEF Id
  <2> QED
    BY Zenon, <1>1, <2>1 DEF NoDeletedTimerUsed
<1>11. AddsApart'
  BY Zenon, <1>1 DEF AddsApart
<1>12. Numbered'
  <2>1. \A a \in Addrs : heap'[a] # None => heap'[a].seq <= created'
    BY Zenon, <1>1, <1>2, <1>3, <1>4 DEF Numbered
  <2> QED
    BY Zenon, <1>1, <2>1 DEF Numbered
<1>13. CancelKept'
  <2>1. \A a \in again : Id(a) \notin cancelled
    <3> SUFFICES ASSUME NEW a \in again
                 PROVE  Id(a) \notin cancelled
      BY Zenon
    <3>1. Id(a) \notin canceling
      BY Zenon DEF again, Repeats
    <3>2. PICK e \in expired : a = e[2]
      BY Zenon, <1>3 DEF old
    <3> QED
      BY Zenon, <3>1, <3>2 DEF CancelKept
  <2>2. CancelledLeaves'
    BY Zenon, <1>1, <2>1 DEF CancelKept, CancelledLeaves
  <2> QED
    BY Zenon, <1>1, <2>2 DEF CancelKept
<1> QED
  BY Zenon, <1>8, <1>9, <1>10, <1>11, <1>12, <1>13

\* Every step of TimerQueue keeps the invariant.
LEMMA TimerStep ==
  ASSUME TimerInv, [Next]_vars
  PROVE  TimerInv'
<1>1. CASE Next
  <2>1. CASE RunCall
    <3>1. Head(calls).op = "add" \/ Head(calls).op = "cancel"
      BY Zenon, <2>1 DEF RunCall
    <3> QED
      BY Zenon, <2>1, <3>1, RunAddKeeps, RunCancelKeeps
  <2> QED
    BY Zenon, <1>1, <2>1, QuietKeeps, CancelKeeps, AddTimerKeeps, AddTimerNowKeeps,
       CancelNowKeeps, HandleReadKeeps, ResetKeeps DEF Next, LoopStep
<1>2. CASE UNCHANGED vars
  BY Zenon, <1>2 DEF vars, memory, lists, reading, timerfd, history, TimerInv, TypeOK, SetsAgree,
     NoDeletedTimerUsed, AddsApart, Numbered, CancelKept, CancelledLeaves, Id
<1> QED
  BY Zenon, <1>1, <1>2

-----------------------------------------------------------------------------
(* The two of MCReactor *)

LEMMA TimerSteps ==
  ASSUME [MCNext]_MCvars
  PROVE  [Next]_vars
BY Zenon DEF MCNext, MCvars

LEMMA LoopSteps ==
  ASSUME [MCNext]_MCvars
  PROVE  [Loop!Next]_loopVars
BY Zenon DEF MCNext, MCvars

\* queueInLoop and doPendingFunctors, with any number of threads and functors: the
\* functors run once each, in the order they were queued, also those queued while
\* others run.
THEOREM FunctorsRunInOrder == MCSpec => RunsInOrder
<1>1. MCInit => Loop!TypeOK /\ Loop!Queue!QInit
  <2>1. MCInit => Loop!Init
    BY Zenon DEF MCInit
  <2>2. Loop!Init => functors \o pending = <<>> /\ executed = <<>>
    BY DEF Loop!Init
  <2> QED
    BY Zenon, <2>1, <2>2, LoopInit DEF Loop!Queue!QInit
<1>2. Loop!TypeOK /\ [MCNext]_MCvars => Loop!TypeOK'
  BY Zenon, LoopSteps, LoopTyped
<1>3. Loop!TypeOK /\ [MCNext]_MCvars => [Loop!Queue!QNext]_(Loop!Queue!qvars)
  BY Zenon, LoopSteps, LoopSimulates
<1> QED
  BY <1>1, <1>2, <1>3, PTL DEF MCSpec, RunsInOrder, Loop!RunsInOrder, Loop!Queue!QSpec

LEMMA ReactorInvariant == MCSpec => [](TimerInv /\ Loop!TypeOK)
<1>1. MCInit => TimerInv /\ Loop!TypeOK
  BY Zenon, TimerInit, LoopInit DEF MCInit
<1>2. TimerInv /\ Loop!TypeOK /\ [MCNext]_MCvars => (TimerInv /\ Loop!TypeOK)'
  BY Zenon, TimerSteps, TimerStep, LoopSteps, LoopTyped
<1> QED
  BY <1>1, <1>2, PTL DEF MCSpec

\* TimerQueue with any number of timers, calls and threads: timers_ and
\* activeTimers_ agree, and handleRead and the queued insertions use no deleted
\* timer, whatever the callbacks add and cancel.  EventLoop's flags and lists belong
\* to the phase its loop is in.
THEOREM ReactorSound == MCSpec => []Sound
<1>1. TimerInv /\ Loop!TypeOK => Sound
  BY Zenon DEF TimerInv, Sound
<1> QED
  BY <1>1, ReactorInvariant, PTL

\* cancelInLoop: a cancelled timer is not in the queue, and no queued insertion, no
\* reset() and no reuse of its address puts it back.
THEOREM CancelledStaysOut == MCSpec => []CancelledLeaves
<1>1. TimerInv => CancelledLeaves
  BY Zenon DEF TimerInv, CancelKept
<1> QED
  BY <1>1, ReactorInvariant, PTL
=============================================================================

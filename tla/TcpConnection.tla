---------------------------- MODULE TcpConnection ----------------------------
(***************************************************************************)
(* One TcpConnection: its state, its Channel and the registration of the    *)
(* Channel with the EPollPoller, the output buffer, the functors queued for *)
(* its loop, and the entry TcpServer keeps for it.  Threads other than the  *)
(* loop's call its operations in the steps of the code: read state_, set    *)
(* it, queue a functor.  The peer may close or reset the connection at any  *)
(* time.  A failed assert ends the process.                                 *)
(***************************************************************************)
EXTENDS Integers, Sequences, FiniteSets

CONSTANTS
  Threads,    \* threads other than the loop's
  Messages,   \* what is sent; each message is MessageLen bytes long
  MessageLen,
  LoopOps,    \* operations called in the loop's thread
  ThreadOps,  \* operations called in other threads
  MaxCalls,   \* bound: how many operations are called
  Destroys,   \* whether TcpServer is destroyed
  None

Ops == {"send", "shutdown", "forceClose", "forceCloseWithDelay", "startRead", "stopRead"}

ASSUME TcpConstants ==
  /\ MessageLen \in Nat \ {0} /\ MaxCalls \in Nat /\ Destroys \in BOOLEAN
  /\ LoopOps \subseteq Ops /\ ThreadOps \subseteq Ops
  /\ None \notin [op : Ops, msg : Messages, set : BOOLEAN]

VARIABLES
  state,      \* state_
  reading,    \* reading_
  events,     \* Channel::events_
  index,      \* Channel::index_
  todo,       \* callbacks handleEvent has still to make for the polled revents_
  output,     \* outputBuffer_: bytes, each a pair of message and position
  functors,   \* pendingFunctors_ of the loop
  delayed,    \* whether the timer of forceCloseWithDelay is set
  inMap,      \* TcpServer::connections_ has the connection
  pc,         \* what each thread is doing
  wire,       \* bytes written to the socket
  fin,        \* whether shutdownWrite() has been called
  peer,       \* "open", "closed", "reset", or "dead" once the error was read
  arrived,    \* whether there is something to read
  calls,      \* number of operations called
  unsent,     \* messages not yet sent
  taken,      \* history: bytes of the messages sendInLoop took on
  downs,      \* history: calls of connectionCallback_ for the end
  failed      \* source line of the assert that failed, 0 if none has

channel == <<events, index>>
buffers == <<output, wire, taken>>
socket == <<fin, peer, arrived>>
work == <<todo, functors, delayed, pc, calls, unsent>>
conn == <<state, reading, inMap, downs, failed>>
vars == <<conn, channel, buffers, socket, work>>

Idle == None

\* TcpServer::newConnection has queued connectEstablished.
Init ==
  /\ state = "kConnecting" /\ reading = TRUE /\ inMap = TRUE /\ downs = 0 /\ failed = 0
  /\ events = {} /\ index = "kNew"
  /\ output = <<>> /\ wire = <<>> /\ taken = <<>>
  /\ fin = FALSE /\ peer = "open" /\ arrived = FALSE
  /\ todo = {} /\ functors = <<[op |-> "established"]>> /\ delayed = FALSE
  /\ pc = [t \in Threads |-> Idle] /\ calls = 0 /\ unsent = Messages

-----------------------------------------------------------------------------
(* Channel and EPollPoller *)

\* Channel::update: a channel that is new or deleted is added again, also when
\* it asks for no event; one that is added is deleted when it asks for none.
Update(wanted) ==
  /\ events' = wanted
  /\ index' = IF index = "kAdded" /\ wanted = {} THEN "kDeleted" ELSE "kAdded"

\* What epoll_wait reports: HUP and ERR need not be asked for.
In == "read" \in events /\ (arrived \/ peer # "open")
Hup == peer \in {"reset", "dead"} \/ (peer = "closed" /\ fin)
Out == "write" \in events

\* handleEventWithGuard, for the events reported.
Callbacks(writable) ==
     (IF Hup /\ ~In THEN {"close"} ELSE {})
  \cup (IF peer = "reset" THEN {"error"} ELSE {})
  \cup (IF In THEN {"read"} ELSE {})
  \cup (IF Out /\ writable THEN {"write"} ELSE {})

Poll ==
  /\ failed = 0 /\ todo = {} /\ index = "kAdded"
  /\ \E writable \in (IF Hup THEN {TRUE} ELSE BOOLEAN) : todo' = Callbacks(writable)
  /\ todo' # {}
  /\ UNCHANGED <<conn, channel, buffers, socket, functors, delayed, pc, calls, unsent>>

-----------------------------------------------------------------------------
(* Operations in the loop *)

Bytes(m) == [i \in 1 .. MessageLen |-> <<m, i>>]

\* How many bytes write() takes, 0 for EWOULDBLOCK; it fails when the connection
\* is reset or shut down for writing.
Broken == fin \/ peer \in {"reset", "dead"}
Writes(n) == IF Broken THEN {0} ELSE 0 .. n

\* Mutant of WritesDirectly: what is in the buffer is overtaken.
WritesOvertaking == TRUE

\* Nothing is waiting, so sendInLoop writes at once.
WritesDirectly == "write" \notin events /\ output = <<>>

\* What was not written is left to handleWrite.
Asks(n) == n < MessageLen /\ "write" \notin events

SendInLoop(m) ==
  IF state = "kDisconnected" \/ (WritesDirectly /\ Broken)
  THEN UNCHANGED <<channel, buffers>>
  ELSE \E n \in (IF WritesDirectly THEN Writes(MessageLen) ELSE {0}) :
         /\ wire' = wire \o SubSeq(Bytes(m), 1, n)
         /\ output' = output \o SubSeq(Bytes(m), n + 1, MessageLen)
         /\ taken' = taken \o Bytes(m)
         /\ IF Asks(n)
            THEN Update(events \cup {"write"})
            ELSE UNCHANGED channel

\* Mutant of MayShutdown: the buffer is not waited for.
MayShutdownAlways(wanted) == TRUE

\* shutdownInLoop waits for the buffer to be written.
MayShutdown(wanted) == "write" \notin wanted

ShutdownInLoop(wanted) == fin' = (fin \/ MayShutdown(wanted))

Disconnected == state' = "kDisconnected"

Open == state \in {"kConnected", "kDisconnecting"}

\* handleClose: closeCallback_ is not called, so connections_ keeps the entry.
HandleClose ==
  IF Open
  THEN /\ Disconnected
       /\ Update({})
       /\ downs' = downs + 1
       /\ UNCHANGED <<reading, inMap, failed>>
  ELSE failed' = 402 /\ UNCHANGED <<state, reading, inMap, downs, channel>>

\* Mutant of Closable: forceCloseInLoop closes whatever the state.
ClosableAlways == TRUE

Closable == Open

ForceCloseInLoop == IF Closable THEN HandleClose ELSE UNCHANGED <<conn, channel>>

StartReadInLoop ==
  IF ~reading \/ "read" \notin events
  THEN Update(events \cup {"read"}) /\ reading' = TRUE
  ELSE UNCHANGED <<reading, channel>>

StopReadInLoop ==
  IF reading \/ "read" \in events
  THEN Update(events \ {"read"}) /\ reading' = FALSE
  ELSE UNCHANGED <<reading, channel>>

ConnectEstablished ==
  /\ state' = "kConnected" /\ Update(events \cup {"read"})
  /\ UNCHANGED <<reading, inMap, downs, failed, buffers, socket>>

\* connectDestroyed: Channel::remove asserts that no event is asked for.
ConnectDestroyed ==
  /\ IF state = "kConnected"
     THEN state' = "kDisconnected" /\ events' = {} /\ downs' = downs + 1
     ELSE UNCHANGED <<state, events, downs>>
  /\ IF events' = {} THEN index' = "kNew" /\ UNCHANGED failed
     ELSE failed' = 51 /\ UNCHANGED index
  /\ UNCHANGED <<reading, inMap, buffers, socket>>

-----------------------------------------------------------------------------
(* Steps of the loop *)

\* The connection has been destroyed.
Gone == ~inMap /\ index = "kNew"

\* What a functor does.
Perform(f) ==
  \/ f.op = "established" /\ ConnectEstablished
  \/ f.op = "send" /\ SendInLoop(f.msg) /\ UNCHANGED <<conn, socket>>
  \/ f.op = "shutdown" /\ ShutdownInLoop(events)
       /\ UNCHANGED <<conn, channel, buffers, peer, arrived>>
  \/ f.op = "forceClose" /\ ForceCloseInLoop /\ UNCHANGED <<buffers, socket>>
  \/ f.op = "startRead" /\ StartReadInLoop
       /\ UNCHANGED <<state, inMap, downs, failed, buffers, socket>>
  \/ f.op = "stopRead" /\ StopReadInLoop
       /\ UNCHANGED <<state, inMap, downs, failed, buffers, socket>>
  \/ f.op = "destroyed" /\ ConnectDestroyed

RunFunctor ==
  /\ failed = 0 /\ todo = {} /\ functors # <<>> /\ ~Gone
  /\ Perform(Head(functors))
  /\ functors' = Tail(functors)
  /\ UNCHANGED <<todo, delayed, pc, calls, unsent>>

\* handleEventWithGuard calls back for close, error, read and write, in this
\* order; each callback may call operations of the connection before the next.
Callback(c, before) ==
  /\ failed = 0 /\ c \in todo /\ todo \cap before = {}
  /\ todo' = todo \ {c}
  /\ UNCHANGED <<functors, delayed, pc, calls, unsent>>

CloseCallback ==
  Callback("close", {}) /\ HandleClose /\ UNCHANGED <<buffers, socket>>

\* handleError reads the error of the socket.
ErrorCallback ==
  /\ Callback("error", {"close"})
  /\ peer' = IF peer = "reset" THEN "dead" ELSE peer
  /\ UNCHANGED <<conn, channel, buffers, fin, arrived>>

\* handleRead: a message, the end of the stream, or an error.
ReadCallback ==
  /\ Callback("read", {"close", "error"})
  /\ \/ arrived /\ arrived' = FALSE /\ UNCHANGED <<conn, channel, fin, peer>>
     \/ ~arrived /\ peer \in {"closed", "dead"} /\ HandleClose /\ UNCHANGED socket
     \/ ~arrived /\ peer = "reset" /\ peer' = "dead" /\ UNCHANGED <<conn, channel, fin, arrived>>
  /\ UNCHANGED buffers

\* Mutant of ShutdownPending: a shutdown() that had to wait is forgotten.
ShutdownPendingNever == FALSE

\* When the buffer is empty handleWrite goes on with a shutdown() that waited.
ShutdownPending == state = "kDisconnecting"

\* handleWrite
WriteCallback ==
  /\ Callback("write", {"close", "error", "read"})
  /\ IF "write" \in events
     THEN \E n \in Writes(Len(output)) :
            /\ wire' = wire \o SubSeq(output, 1, n)
            /\ output' = SubSeq(output, n + 1, Len(output))
            /\ IF n > 0 /\ output' = <<>>
               THEN /\ Update(events \ {"write"})
                    /\ IF ShutdownPending THEN ShutdownInLoop(events')
                       ELSE UNCHANGED fin
               ELSE UNCHANGED <<channel, fin>>
     ELSE UNCHANGED <<channel, wire, output, fin>>
  /\ UNCHANGED <<conn, taken, peer, arrived>>

-----------------------------------------------------------------------------
(* Calls *)

\* The check of state_ each operation begins with.
Checks(op) ==
  CASE op \in {"send", "shutdown"} -> state = "kConnected"
    [] op \in {"forceClose", "forceCloseWithDelay"} -> Open
    [] OTHER -> state # "kConnecting"

Sets == {"shutdown", "forceClose", "forceCloseWithDelay"}

Counted(op, m) ==
  /\ failed = 0 /\ calls < MaxCalls /\ Checks(op)
  /\ calls' = calls + 1
  /\ IF op = "send" THEN m \in unsent /\ unsent' = unsent \ {m} ELSE UNCHANGED unsent

\* In the loop's thread everything but forceClose happens at once.
LoopCall(op, m) ==
  /\ Counted(op, m)
  /\ ~Gone
  /\ \/ op = "forceClose" /\ state' = "kDisconnecting"
          /\ functors' = Append(functors, [op |-> op])
          /\ UNCHANGED <<reading, inMap, downs, failed, channel, buffers, socket, delayed>>
     \/ op = "forceCloseWithDelay" /\ state' = "kDisconnecting" /\ delayed' = TRUE
          /\ UNCHANGED <<reading, inMap, downs, failed, channel, buffers, socket, functors>>
     \/ op = "shutdown" /\ state' = "kDisconnecting" /\ ShutdownInLoop(events)
          /\ UNCHANGED <<reading, inMap, downs, failed, channel, buffers, peer, arrived,
                         functors, delayed>>
     \/ op \in {"send", "startRead", "stopRead"} /\ Perform([op |-> op, msg |-> m])
          /\ UNCHANGED <<functors, delayed>>
  /\ UNCHANGED <<todo, pc>>

\* Another thread reads state_ ...
ThreadCheck(t, op, m) ==
  /\ pc[t] = Idle /\ inMap
  /\ Counted(op, m)
  /\ pc' = [pc EXCEPT ![t] = [op |-> op, msg |-> m, set |-> op \notin Sets]]
  /\ UNCHANGED <<conn, channel, buffers, socket, todo, functors, delayed>>

\* ... sets it ...
ThreadSet(t) ==
  /\ failed = 0 /\ pc[t] # Idle /\ ~pc[t].set
  /\ state' = "kDisconnecting"
  /\ pc' = [pc EXCEPT ![t].set = TRUE]
  /\ UNCHANGED <<reading, inMap, downs, failed, channel, buffers, socket, todo, functors,
                 delayed, calls, unsent>>

\* ... and queues the functor, or sets the timer.
ThreadQueue(t) ==
  /\ failed = 0 /\ pc[t] # Idle /\ pc[t].set
  /\ IF pc[t].op = "forceCloseWithDelay"
     THEN delayed' = TRUE /\ UNCHANGED functors
     ELSE functors' = Append(functors, [op |-> pc[t].op, msg |-> pc[t].msg]) /\ UNCHANGED delayed
  /\ pc' = [pc EXCEPT ![t] = Idle]
  /\ UNCHANGED <<conn, channel, buffers, socket, todo, calls, unsent>>

\* The timer of forceCloseWithDelay calls forceClose in the loop's thread.
DelayOver ==
  /\ failed = 0 /\ delayed /\ ~Gone
  /\ delayed' = FALSE
  /\ IF Open
     THEN state' = "kDisconnecting" /\ functors' = Append(functors, [op |-> "forceClose"])
     ELSE UNCHANGED <<state, functors>>
  /\ UNCHANGED <<reading, inMap, downs, failed, channel, buffers, socket, todo, pc, calls, unsent>>

\* ~TcpServer
Destroy ==
  /\ Destroys /\ failed = 0 /\ inMap
  /\ inMap' = FALSE
  /\ functors' = Append(functors, [op |-> "destroyed"])
  /\ UNCHANGED <<state, reading, downs, failed, channel, buffers, socket, todo, delayed, pc,
                 calls, unsent>>

-----------------------------------------------------------------------------
(* The peer *)

PeerStep(p, a) ==
  /\ failed = 0
  /\ peer' = p /\ arrived' = a
  /\ UNCHANGED <<conn, channel, buffers, fin, work>>

PeerSends == peer = "open" /\ ~arrived /\ PeerStep("open", TRUE)
PeerCloses == peer = "open" /\ PeerStep("closed", arrived)
PeerResets == peer \in {"open", "closed"} /\ PeerStep("reset", FALSE)

HandleEvent == CloseCallback \/ ErrorCallback \/ ReadCallback \/ WriteCallback

Next ==
  \/ Poll \/ HandleEvent \/ RunFunctor \/ DelayOver
  \/ \E op \in LoopOps, m \in Messages : LoopCall(op, m)
  \/ \E t \in Threads, op \in ThreadOps, m \in Messages : ThreadCheck(t, op, m)
  \/ \E t \in Threads : ThreadSet(t) \/ ThreadQueue(t)
  \/ Destroy
  \/ PeerSends \/ PeerCloses \/ PeerResets

Spec == Init /\ [][Next]_vars

\* The loop and the calling threads run; every turn of the loop runs the
\* functors, so polling does not keep them waiting for ever; the timer expires;
\* a peer that keeps the connection open takes what is sent, so the socket
\* becomes writable again and again and a write then takes something.
FairSpec ==
  /\ Spec
  /\ WF_vars(Poll \/ HandleEvent)
  /\ SF_vars(RunFunctor)
  /\ WF_vars(DelayOver)
  /\ \A t \in Threads : WF_vars(ThreadSet(t) \/ ThreadQueue(t))
  /\ SF_vars(Poll /\ "write" \in todo')
  /\ SF_vars(WriteCallback /\ wire' # wire)

-----------------------------------------------------------------------------
(* Properties *)

\* The values of the variables of TcpConnection.
TypeOK ==
  /\ state \in {"kConnecting", "kConnected", "kDisconnecting", "kDisconnected"}
  /\ index \in {"kNew", "kAdded", "kDeleted"} /\ events \subseteq {"read", "write"}
  /\ todo \subseteq {"close", "error", "read", "write"}
  /\ peer \in {"open", "closed", "reset", "dead"} /\ failed \in {0, 51, 402}
  /\ {reading, inMap, fin, arrived, delayed} \subseteq BOOLEAN
  /\ {output, wire, taken} \subseteq Seq(Messages \X (1 .. MessageLen))
  /\ downs \in Nat /\ calls \in 0 .. MaxCalls /\ unsent \subseteq Messages

\* The bytes of the messages sendInLoop took on, in that order and each once, are
\* what has been written followed by what is in the buffer, however the writes
\* of sendInLoop and handleWrite divide them.
StreamIntact == wire \o output = taken

\* The channel asks for writability exactly while there is something to write:
\* otherwise bytes would stay in the buffer, or the loop would spin.
WritingIffPending ==
  state \in {"kConnected", "kDisconnecting"} => ("write" \in events <=> output # <<>>)

\* shutdown() does not cut off what was accepted before it: the write side is
\* shut only when all of it is written, unless the connection is closed.
FlushedFirst == fin' /\ ~fin => output' = <<>> \/ state = "kDisconnected"

\* The user hears of the end of a connection once, when it becomes kDisconnected.
DownOnce == downs = (IF state = "kDisconnected" THEN 1 ELSE 0)

\* The asserts of handleClose (state_ is kConnected or kDisconnecting) and of
\* Channel::remove (no event is asked for) hold.
AssertsHold == failed = 0

\* shutdown() ends: the buffer is written and the write side shut, or the
\* connection is closed.
ShutdownCompletes == state = "kDisconnecting" ~> fin \/ state = "kDisconnected"

\* A connection the peer has closed or reset becomes kDisconnected.
CloseNoticed == peer # "open" /\ state = "kConnected" ~> state = "kDisconnected"
=============================================================================

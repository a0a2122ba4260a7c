----------------------------- MODULE Connector ------------------------------
(***************************************************************************)
(* The client: Connector, which opens a socket and waits until it is        *)
(* writable, TcpClient, which owns the Connector and the connection, and    *)
(* Client, whose start waits for the first connection.  The loop thread     *)
(* handles events (the channel, the retry timer, the end of a connection)   *)
(* and then the functors that were queued; another thread calls TcpClient.  *)
(* An assertion that fails ends the program.                                *)
(***************************************************************************)
EXTENDS Integers, Sequences, FiniteSets

CONSTANTS
  Scripts,            \* calls the other thread may make: sequences of "connect", "stop", "disconnect"
  Sends,              \* bound: calls of Client::send
  Refusals,           \* bound: attempts that fail and may be retried
  HardErrors,         \* bound: attempts that fail for good
  Closes,             \* bound: connections that end
  retry_,             \* TcpClient::retry_, set by enableRetry
  kInitRetryDelayMs, kMaxRetryDelayMs,
  NULL

ASSUME ConnectorConstants ==
  /\ Scripts \subseteq Seq({"connect", "stop", "disconnect"}) /\ retry_ \in BOOLEAN
  /\ {Sends, Refusals, HardErrors, Closes} \subseteq Nat
  /\ kInitRetryDelayMs \in Nat /\ kMaxRetryDelayMs \in Nat

VARIABLES
  \* Connector
  connect_, state, channel, retryDelayMs,
  \* TcpClient, with the connection as [fd, state]
  tcpConnect, connection,
  \* Client: its connection's fd, and whether latch2_ is open
  conn_, latch2,
  \* the loop: phase, events of this round, functors queued and being run, and
  \* retry timers set
  phase, active, queue, batch, timers,
  \* the other thread and its calls, sockets open, last socket, the failed
  \* assertion, bounds
  pc, script, open, sock, aborted, left

connector == <<connect_, state, channel, retryDelayMs>>
client == <<tcpConnect, connection, conn_, latch2>>
loop == <<phase, active, queue, batch, timers>>
caller == <<pc, script>>
world == <<open, sock, aborted, left>>
vars == <<connector, client, loop, caller, world>>

Init ==
  /\ connect_ = FALSE /\ state = "kDisconnected" /\ channel = NULL /\ retryDelayMs = kInitRetryDelayMs
  /\ tcpConnect = TRUE /\ connection = NULL /\ conn_ = NULL /\ latch2 = FALSE
  /\ phase = "poll" /\ active = {} /\ queue = <<>> /\ batch = <<>> /\ timers = 0
  /\ pc = "idle" /\ script \in Scripts /\ open = {} /\ sock = 0 /\ aborted = NULL
  /\ left = [send |-> Sends, refusal |-> Refusals, hard |-> HardErrors, close |-> Closes]

Takes(what) == left[what] > 0 /\ left' = [left EXCEPT ![what] = @ - 1]

-----------------------------------------------------------------------------
(* Connector, in the loop thread *)

Min2(a, b) == IF a < b THEN a ELSE b

\* The end of retry: a timer for startInLoop, if still wanted, and a longer delay.
\* Here and below, tm is the number of timers and delay the delay before.
SetRetry(cn, delay, tm) ==
  IF cn THEN timers' = tm + 1 /\ retryDelayMs' = Min2(delay * 2, kMaxRetryDelayMs)
  ELSE timers' = tm /\ retryDelayMs' = delay

Keep(delay, tm) == retryDelayMs' = delay /\ timers' = tm

\* connecting: the channel waits until the socket is writable.
connecting ==
  /\ sock' = sock + 1 /\ UNCHANGED left
  /\ IF channel # NULL THEN aborted' = "assert(!channel_)" /\ UNCHANGED <<state, channel, open>>
     ELSE /\ state' = "kConnecting" /\ channel' = [fd |-> sock', on |-> TRUE]
          /\ open' = open \cup {sock'} /\ UNCHANGED aborted

\* connect: the socket is connecting, or the attempt fails for now, or for good;
\* a socket that failed is closed at once.
connect(cn, delay, tm) ==
  \/ connecting /\ Keep(delay, tm)
  \/ /\ \/ Takes("refusal") /\ SetRetry(cn, delay, tm)
        \/ Takes("hard") /\ Keep(delay, tm)
     /\ state' = "kDisconnected" /\ UNCHANGED <<channel, open, sock, aborted>>

startInLoop(st, cn, delay, tm) ==
  CASE st # "kDisconnected" ->
         /\ aborted' = "assert(state_ == kDisconnected)" /\ Keep(delay, tm)
         /\ UNCHANGED <<state, channel, open, sock, left>>
    [] st = "kDisconnected" /\ cn -> connect(cn, delay, tm)
    [] OTHER -> state' = st /\ Keep(delay, tm) /\ UNCHANGED <<channel, open, sock, aborted, left>>

\* removeAndResetChannel: the channel leaves the poller now and is destroyed by a
\* functor.
removeAndResetChannel == channel' = [channel EXCEPT !.on = FALSE] /\ queue' = Append(queue, <<"resetChannel">>)

\* Mutant of retry: the socket is not closed.
RetryOpen == state' = "kDisconnected" /\ SetRetry(connect_, retryDelayMs, timers) /\ UNCHANGED open

retry == open' = open \ {channel.fd} /\ state' = "kDisconnected" /\ SetRetry(connect_, retryDelayMs, timers)

-----------------------------------------------------------------------------
(* Events *)

InPhase(p) == aborted = NULL /\ phase = p

\* The sources of events that poll may report; of a connection only its end
\* matters here.
Sources ==
  (IF channel # NULL /\ channel.on THEN {"channel"} ELSE {})
  \cup (IF timers > 0 THEN {"timer"} ELSE {}) \cup (IF connection # NULL /\ left.close > 0 THEN {"connection"} ELSE {})

\* poll returns with some events, or because a functor was queued.
Poll ==
  /\ InPhase("poll") /\ phase' = "events"
  /\ active' \in SUBSET Sources /\ (active' # {} \/ queue # <<>>)
  /\ UNCHANGED <<connector, client, queue, batch, timers, caller, world>>

Handles(source) == InPhase("events") /\ source \in active /\ active' = active \ {source}

\* handleError, or handleWrite on a socket with an error or connected to itself.
\* A socket that has an error is also writable, but then handleWrite finds
\* kDisconnected and does nothing.
ConnectFails ==
  /\ Handles("channel") /\ state = "kConnecting"
  /\ Takes("refusal") /\ removeAndResetChannel /\ retry
  /\ UNCHANGED <<connect_, client, phase, batch, caller, sock, aborted>>

\* Client::onConnection: the connection is kept and start may return.
onConnection(fd) == conn_' = fd /\ latch2' = TRUE

newConnection(fd) == connection' = [fd |-> fd, state |-> "kConnected"] /\ onConnection(fd)

\* handleWrite on a socket that is connected, which becomes a connection unless
\* stop was called.
handleWrite ==
  /\ Handles("channel") /\ state = "kConnecting"
  /\ removeAndResetChannel /\ state' = "kConnected"
  /\ IF connect_
     THEN newConnection(channel.fd) /\ UNCHANGED open
     ELSE open' = open \ {channel.fd} /\ UNCHANGED <<connection, conn_, latch2>>
  /\ UNCHANGED <<connect_, retryDelayMs, tcpConnect, phase, batch, timers, caller, sock, aborted, left>>

\* The timer set by retry.
TimerFires ==
  /\ Handles("timer")
  /\ startInLoop(state, connect_, retryDelayMs, timers - 1)
  /\ UNCHANGED <<connect_, client, phase, queue, batch, caller>>

\* Mutant of handleClose: the connection is not followed by another one.
CloseForGood ==
  /\ Handles("connection") /\ Takes("close")
  /\ conn_' = NULL /\ connection' = NULL
  /\ queue' = Append(queue, <<"connectDestroyed", connection.fd>>)
  /\ UNCHANGED <<connector, tcpConnect, latch2, phase, batch, timers, caller, open, sock, aborted>>

\* handleClose: Client::onConnection, then removeConnection up to its test of
\* retry_ and connect_.
handleClose ==
  /\ Handles("connection") /\ Takes("close")
  /\ conn_' = NULL /\ connection' = NULL
  /\ queue' = Append(queue, <<"connectDestroyed", connection.fd>>)
  /\ phase' = IF retry_ /\ tcpConnect THEN "restart" ELSE phase
  /\ UNCHANGED <<connector, tcpConnect, latch2, batch, timers, caller, open, sock, aborted>>

\* Mutant of restart: the state is left as it is.
RestartAsIs ==
  /\ InPhase("restart") /\ phase' = "events" /\ connect_' = TRUE
  /\ startInLoop(state, TRUE, kInitRetryDelayMs, timers)
  /\ UNCHANGED <<client, active, queue, batch, caller>>

\* The rest of removeConnection.
restart ==
  /\ InPhase("restart") /\ phase' = "events" /\ connect_' = TRUE
  /\ startInLoop("kDisconnected", TRUE, kInitRetryDelayMs, timers)
  /\ UNCHANGED <<client, active, queue, batch, caller>>

-----------------------------------------------------------------------------
(* Functors *)

doPendingFunctors ==
  /\ InPhase("events") /\ active = {}
  /\ phase' = (IF queue = <<>> THEN "poll" ELSE "functors") /\ batch' = queue /\ queue' = <<>>
  /\ UNCHANGED <<connector, client, active, timers, caller, world>>

\* The functor f is next; the last one ends the round.
Runs(f) ==
  /\ InPhase("functors") /\ Head(batch)[1] = f
  /\ batch' = Tail(batch) /\ phase' = IF Len(batch) = 1 THEN "poll" ELSE phase
  /\ UNCHANGED active

RunStart ==
  /\ Runs("startInLoop") /\ startInLoop(state, connect_, retryDelayMs, timers)
  /\ UNCHANGED <<connect_, client, queue, caller>>

stopInLoop ==
  /\ Runs("stopInLoop")
  /\ IF state = "kConnecting" THEN removeAndResetChannel /\ retry
     ELSE UNCHANGED <<state, channel, retryDelayMs, queue, timers, open>>
  /\ UNCHANGED <<connect_, client, caller, sock, aborted, left>>

resetChannel ==
  /\ Runs("resetChannel") /\ channel' = NULL
  /\ UNCHANGED <<connect_, state, retryDelayMs, client, queue, timers, caller, world>>

\* The last reference to the connection is gone, and its socket is closed.
connectDestroyed ==
  /\ Runs("connectDestroyed") /\ open' = open \ {Head(batch)[2]}
  /\ UNCHANGED <<connector, client, queue, timers, caller, sock, aborted, left>>

-----------------------------------------------------------------------------
(* The other thread *)

MayCall(f) ==
  /\ aborted = NULL /\ pc = "idle" /\ script # <<>> /\ Head(script) = f
  /\ pc' = f /\ script' = Tail(script)

CallConnect ==
  /\ MayCall("connect") /\ tcpConnect' = TRUE /\ connect_' = TRUE
  /\ UNCHANGED <<state, channel, retryDelayMs, connection, conn_, latch2, loop, world>>

CallStop ==
  /\ MayCall("stop") /\ tcpConnect' = FALSE /\ connect_' = FALSE
  /\ UNCHANGED <<state, channel, retryDelayMs, connection, conn_, latch2, loop, world>>

CallDisconnect ==
  /\ MayCall("disconnect") /\ tcpConnect' = FALSE
  /\ UNCHANGED <<connector, connection, conn_, latch2, loop, world>>

\* start and stop end by queueing their functor.
QueueFunctor ==
  /\ aborted = NULL /\ pc \in {"connect", "stop"} /\ pc' = "idle"
  /\ queue' = Append(queue, <<IF pc = "connect" THEN "startInLoop" ELSE "stopInLoop">>)
  /\ UNCHANGED <<connector, client, phase, active, batch, timers, script, world>>

\* disconnect shuts the connection down, holding the mutex.
ShutDown ==
  /\ aborted = NULL /\ pc = "disconnect" /\ pc' = "idle"
  /\ connection' = IF connection = NULL THEN NULL ELSE [connection EXCEPT !.state = "kDisconnecting"]
  /\ UNCHANGED <<connector, tcpConnect, conn_, latch2, loop, script, world>>

\* Client::send, after start returned: conn_ is tested, then used.
SendTest ==
  /\ aborted = NULL /\ pc = "idle" /\ latch2 /\ Takes("send")
  /\ pc' = IF conn_ = NULL THEN "idle" ELSE "send"
  /\ UNCHANGED <<connector, client, loop, script, open, sock, aborted>>

SendUse ==
  /\ aborted = NULL /\ pc = "send" /\ pc' = "idle"
  /\ aborted' = IF conn_ = NULL THEN "conn_ is NULL" ELSE NULL
  /\ UNCHANGED <<connector, client, loop, script, open, sock, left>>

LoopNext ==
  \/ Poll \/ ConnectFails \/ handleWrite \/ TimerFires \/ handleClose \/ restart
  \/ doPendingFunctors \/ RunStart \/ stopInLoop \/ resetChannel \/ connectDestroyed

CallerNext == CallConnect \/ CallStop \/ CallDisconnect \/ QueueFunctor \/ ShutDown \/ SendTest \/ SendUse

Next == LoopNext \/ CallerNext

Spec == Init /\ [][Next]_vars

\* Client::start is called, each call it makes ends, and the loop runs: its
\* functors, its timers, and the outcome of an attempt that the kernel reports.
FairSpec ==
  /\ Spec /\ WF_vars(CallConnect) /\ WF_vars(QueueFunctor) /\ WF_vars(ShutDown) /\ WF_vars(SendUse)
  /\ WF_vars(LoopNext)

-----------------------------------------------------------------------------
(* Properties *)

TypeOK ==
  /\ state \in {"kDisconnected", "kConnecting", "kConnected"}
  /\ channel = NULL \/ channel.fd \in 1 .. sock
  /\ retryDelayMs \in kInitRetryDelayMs .. kMaxRetryDelayMs
  /\ "channel" \in active => channel.on /\ state = "kConnecting"
  /\ phase \in {"poll", "events", "restart", "functors"} /\ (phase = "functors") = (batch # <<>>)
  /\ open \subseteq 1 .. sock /\ timers \in Nat

\* No assertion of Connector fails: an attempt, its retries, its timers and the
\* functors they queue never meet another attempt.
AssertionsHold == aborted \in {NULL, "conn_ is NULL"}

\* Sockets that a functor will close.
Dying ==
  LET q == batch \o queue
  IN {q[i][2] : i \in {j \in DOMAIN q : q[j][1] = "connectDestroyed"}}

\* No socket leaks: each open socket is waited for by the channel, belongs to the
\* connection, or is about to be closed, over all failures, retries and stops.
NoLeak ==
  aborted = NULL =>
    open = (IF channel # NULL /\ state = "kConnecting" THEN {channel.fd} ELSE {})
           \cup (IF connection # NULL THEN {connection.fd} ELSE {}) \cup Dying

\* A retry timer is only set while nothing else is under way: its startInLoop
\* cannot meet another attempt or a connection.
OneAttempt ==
  timers + (IF state = "kConnecting" THEN 1 ELSE 0) + (IF connection # NULL THEN 1 ELSE 0) <= 1

\* Client::start returns: latch2_ is opened, unless an attempt failed for good.
StartReturns == <>(latch2 \/ left.hard < HardErrors)

\* With enableRetry a connection that ends is followed by another one, unless an
\* attempt failed for good or disconnect or stop was called.
ConnectsAgain ==
  connection = NULL ~> connection # NULL \/ left.hard < HardErrors \/ ~ tcpConnect
=============================================================================

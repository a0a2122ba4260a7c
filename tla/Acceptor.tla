------------------------------ MODULE Acceptor ------------------------------
(***************************************************************************)
(* How the server gets its connections: TcpServer::start starts the I/O     *)
(* loops (EventLoopThreadPool) and listens, Acceptor::handleRead accepts    *)
(* one connection at a time, and TcpServer::newConnection gives it a name,  *)
(* an entry of connections_ and a loop.  A descriptor of a connection stays *)
(* open: its entry is never erased.  Other threads open and close           *)
(* descriptors (connections to Redis and MySQL).                            *)
(***************************************************************************)
EXTENDS Integers, SequencesExt, FiniteSetsExt

CONSTANTS
  Clients,      \* connections the kernel completes
  ThreadNums,   \* what ioThreadNumber of server.conf may be
  MaxFds,       \* descriptors the process may have open, beyond those it starts with
  MaxOthers     \* bound: descriptors other threads have open at a time

VARIABLES
  numThreads,    \* numThreads_, as setThreadNum left it
  loops,         \* loops_: how many I/O loops run
  listenning,
  backlog,       \* connections the kernel holds for accept
  next, nextConnId,
  connections,   \* connections_: for each name, the client and its loop
  functors,      \* connectEstablished queued for each I/O loop
  established,   \* history: how often each client's connection was established
  others,        \* descriptors of other threads
  aborted        \* LOG_FATAL has ended the process

started == <<numThreads, loops, listenning>>
server == <<started, next, nextConnId, connections>>
vars == <<server, backlog, functors, established, others, aborted>>

Init ==
  /\ numThreads \in ThreadNums /\ loops = 0 /\ listenning = FALSE /\ backlog = <<>>
  /\ next = 0 /\ nextConnId = 1 /\ connections = <<>>
  /\ functors = [l \in 1 .. numThreads |-> <<>>] /\ established = [c \in Clients |-> 0]
  /\ others = 0 /\ aborted = FALSE

-----------------------------------------------------------------------------
(* TcpServer::start *)

\* EventLoopThread::startLoop returns when the loop is there.
StartLoop ==
  /\ loops < numThreads /\ loops' = loops + 1
  /\ UNCHANGED <<numThreads, listenning, next, nextConnId, connections, backlog, functors,
                 established, others, aborted>>

\* Acceptor::listen comes after all of them.
Listen ==
  /\ ~listenning /\ loops = numThreads
  /\ listenning' = TRUE
  /\ UNCHANGED <<numThreads, loops, next, nextConnId, connections, backlog, functors,
                 established, others, aborted>>

-----------------------------------------------------------------------------
(* Accepting *)

\* Mutant of Following: the last loop is passed over.
FollowingLess(n) == IF n + 1 >= loops - 1 THEN 0 ELSE n + 1

\* getNextLoop: round robin.
Following(n) == IF n + 1 >= loops THEN 0 ELSE n + 1

\* newConnection.  Where there is no I/O loop, the connection is the base loop's
\* (loop 0), whose runInLoop runs connectEstablished at once.
NewConnection(c) ==
  LET loop == IF loops = 0 THEN 0 ELSE next + 1 IN
  /\ next' = IF loops = 0 THEN next ELSE Following(next)
  /\ nextConnId' = nextConnId + 1
  /\ connections' = [i \in DOMAIN connections \cup {nextConnId} |->
                       IF i = nextConnId THEN <<c, loop>> ELSE connections[i]]
  /\ IF loop = 0
     THEN established' = [established EXCEPT ![c] = @ + 1] /\ UNCHANGED functors
     ELSE functors' = [functors EXCEPT ![loop] = Append(@, c)] /\ UNCHANGED established

InUse == Cardinality(DOMAIN connections) + others

\* sockets::accept without a free descriptor: ::accept fails, the fcntl calls on -1
\* replace errno by EBADF before it is looked at, and that is an unexpected error.
\* The process ends; the EMFILE branch of handleRead is not reached.
AcceptFails ==
  /\ InUse >= MaxFds /\ aborted' = TRUE
  /\ UNCHANGED <<backlog, next, nextConnId, connections, functors, established>>

\* handleRead accepts one connection.
HandleRead ==
  /\ ~aborted /\ listenning /\ backlog # <<>>
  /\ \/ /\ InUse < MaxFds
        /\ backlog' = Tail(backlog) /\ NewConnection(Head(backlog))
        /\ UNCHANGED aborted
     \/ AcceptFails
  /\ UNCHANGED <<started, others>>

\* Loop l runs connectEstablished.
Establish(l) ==
  /\ ~aborted /\ functors[l] # <<>>
  /\ established' = [established EXCEPT ![Head(functors[l])] = @ + 1]
  /\ functors' = [functors EXCEPT ![l] = Tail(@)]
  /\ UNCHANGED <<server, backlog, others, aborted>>

-----------------------------------------------------------------------------
(* The rest of the world *)

Accepted == {connections[i][1] : i \in DOMAIN connections}
Waiting == ToSet(backlog)

ClientConnects(c) ==
  /\ ~aborted /\ listenning /\ c \notin Accepted \cup Waiting
  /\ backlog' = Append(backlog, c)
  /\ UNCHANGED <<server, functors, established, others, aborted>>

OpenOther ==
  /\ ~aborted /\ others < MaxOthers /\ InUse < MaxFds /\ others' = others + 1
  /\ UNCHANGED <<server, backlog, functors, established, aborted>>

CloseOther ==
  /\ ~aborted /\ others > 0 /\ others' = others - 1
  /\ UNCHANGED <<server, backlog, functors, established, aborted>>

Next ==
  \/ StartLoop \/ Listen \/ HandleRead
  \/ \E l \in DOMAIN functors : Establish(l)
  \/ \E c \in Clients : ClientConnects(c)
  \/ OpenOther \/ CloseOther

Spec == Init /\ [][Next]_vars

\* The loops run.
FairSpec ==
  /\ Spec /\ WF_vars(HandleRead)
  /\ \A l \in 1 .. Max(ThreadNums) : WF_vars(l \in DOMAIN functors /\ Establish(l))

-----------------------------------------------------------------------------
(* Properties *)

Load(l) == Cardinality({i \in DOMAIN connections : connections[i][2] = l})

\* The values of the variables of Acceptor.
TypeOK ==
  /\ numThreads \in ThreadNums /\ loops \in 0 .. numThreads /\ next \in 0 .. numThreads /\ nextConnId \in Nat \ {0}
  /\ DOMAIN connections = 1 .. nextConnId - 1
  /\ {listenning, aborted} \subseteq BOOLEAN /\ others \in 0 .. MaxOthers

\* The I/O threads share the connections evenly: no loop ever has two more than
\* another, however the connections arrive.
Balanced == \A k, l \in DOMAIN functors : Load(k) - Load(l) <= 1

\* Every connection that was accepted has one entry, under a name of its own, and
\* is established once, by the loop of its entry.
OneEntryEach ==
  /\ Cardinality(Accepted) = Cardinality(DOMAIN connections)
  /\ \A i \in DOMAIN connections :
       LET c == connections[i][1]
           queued == {l \in DOMAIN functors : c \in ToSet(functors[l])}
       IN  \/ established[c] = 0 /\ queued = {connections[i][2]}
           \/ established[c] = 1 /\ queued = {}

\* A client the kernel has connected is served, unless the process ends.
ClientsServed == \A c \in Clients : c \in Waiting ~> established[c] = 1 \/ aborted

\* "EMFILE: per-process lmit of open file desctiptor ... expected errors"
\* (SocketsOps.cc:127): an accept that finds no free descriptor does not end the
\* process.
FullIsExpected == ~aborted
=============================================================================

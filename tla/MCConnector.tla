---------------------------- MODULE MCConnector -----------------------------
(***************************************************************************)
(* Connector and Acceptor for TLC, in three scenarios: "retry",             *)
(* Client::start with enableRetry (the instance of the cfg), "ended", one   *)
(* attempt that the other thread ends with stop, disconnect or both, and    *)
(* "server", the Acceptor and its I/O loops.                                *)
(***************************************************************************)
EXTENDS Connector, FiniteSetsExt

CONSTANTS
  EndedSends, EndedRefusals, EndedCloses,
  Clients, ThreadNums, MaxFds, MaxOthers

VARIABLES
  scenario,
  numThreads, loops, listenning, backlog, next, nextConnId, connections, functors,
  established, others, fatal

ASSUME AcceptorConstants ==
  ThreadNums \subseteq Nat /\ ThreadNums # {} /\ {MaxFds, MaxOthers} \subseteq Nat

\* Client::start.
Once == {<<"connect">>}

Ends ==
  {<<"connect", "stop">>, <<"connect", "disconnect">>,
   <<"connect", "stop", "disconnect">>, <<"connect", "disconnect", "stop">>}

Ended == INSTANCE Connector WITH
  Scripts <- Ends, Sends <- EndedSends, Refusals <- EndedRefusals, Closes <- EndedCloses,
  retry_ <- FALSE

Server == INSTANCE Acceptor WITH aborted <- fatal

serverVars ==
  <<numThreads, loops, listenning, backlog, next, nextConnId, connections, functors,
    established, others, fatal>>

MCInit ==
  \/ scenario = "retry" /\ Init /\ Server!Init
  \/ scenario = "ended" /\ Ended!Init /\ Server!Init
  \/ scenario = "server" /\ Init /\ Server!Init

MCNext ==
  /\ \/ scenario = "retry" /\ Next /\ UNCHANGED serverVars
     \/ scenario = "ended" /\ Ended!Next /\ UNCHANGED serverVars
     \/ scenario = "server" /\ Server!Next /\ UNCHANGED vars
  /\ UNCHANGED scenario

\* The fairness of FairSpec, for Client::start, and that of the server's loops.
MCSpec ==
  /\ MCInit /\ [][MCNext]_<<vars, serverVars, scenario>>
  /\ WF_vars(scenario = "retry" /\ CallConnect) /\ WF_vars(scenario = "retry" /\ QueueFunctor)
  /\ WF_vars(scenario = "retry" /\ ShutDown) /\ WF_vars(scenario = "retry" /\ SendUse)
  /\ WF_vars(scenario = "retry" /\ LoopNext)
  /\ WF_serverVars(scenario = "server" /\ Server!HandleRead)
  /\ \A l \in 1 .. Max(ThreadNums) :
       WF_serverVars(scenario = "server" /\ l \in DOMAIN functors /\ Server!Establish(l))

\* No assertion of Connector fails while nobody calls stop.
RetryAssertionsHold == scenario = "retry" => AssertionsHold

\* No socket leaks, and a retry timer never meets another attempt.
OneSocket == TypeOK /\ NoLeak /\ OneAttempt

\* The server gives every connection it accepts one entry and one loop, and shares
\* them evenly between its loops.
ServerAccepts == Server!TypeOK /\ Server!Balanced /\ Server!OneEntryEach

\* Client::start returns unless an attempt failed for good, and with enableRetry
\* a connection that ends is followed by another one; the server establishes every
\* connection the kernel has completed, unless LOG_FATAL ends it.
ConnectionsCome ==
  /\ scenario = "retry" => StartReturns /\ ConnectsAgain
  /\ Server!ClientsServed
=============================================================================

------------------------------- MODULE MCTcp --------------------------------
(***************************************************************************)
(* TcpConnection for TLC in two scenarios: "server", the operations this    *)
(* server calls (LoopOps and ThreadOps of the cfg), and "any", every public *)
(* operation in every thread, with TcpServer destroyed at some point.       *)
(***************************************************************************)
EXTENDS TcpConnection

CONSTANTS AnyMessages, AnyCalls

VARIABLE scenario

Any == INSTANCE TcpConnection WITH
  Messages <- AnyMessages, LoopOps <- Ops, ThreadOps <- Ops, MaxCalls <- AnyCalls, Destroys <- TRUE

MCInit == (scenario = "server" /\ Init) \/ (scenario = "any" /\ Any!Init)

MCNext ==
  /\ (scenario = "server" /\ Next) \/ (scenario = "any" /\ Any!Next)
  /\ UNCHANGED scenario

\* The fairness of FairSpec, for the operations of the server.
Fair(t) == WF_vars(scenario = "server" /\ (ThreadSet(t) \/ ThreadQueue(t)))

MCSpec ==
  /\ MCInit /\ [][MCNext]_<<vars, scenario>>
  /\ WF_vars(scenario = "server" /\ (Poll \/ HandleEvent))
  /\ SF_vars(scenario = "server" /\ RunFunctor)
  /\ WF_vars(scenario = "server" /\ DelayOver)
  /\ \A t \in Threads : Fair(t)
  /\ SF_vars(scenario = "server" /\ Poll /\ "write" \in todo')
  /\ SF_vars(scenario = "server" /\ WriteCallback /\ wire' # wire)

\* IMServer sends, shuts down and closes in the loop's threads, sends in the threads
\* of its pool, never stops reading, and outlives its connections.
ServerOps ==
  /\ LoopOps \subseteq {"send", "shutdown", "forceClose", "forceCloseWithDelay"}
  /\ ThreadOps \subseteq {"send"} /\ Destroys = FALSE

\* The asserts of handleClose and of Channel::remove hold, the user hears of the
\* end of the connection once, and the channel asks for writability exactly while
\* there is something to write.
ServerConsistent ==
  scenario = "server" => TypeOK /\ AssertsHold /\ DownOnce /\ WritingIffPending

\* shutdown() does not cut off what was accepted before it.
ServerFinAfterFlush == [][scenario = "server" => FlushedFirst]_vars

\* shutdown() ends, and a connection the peer has closed or reset becomes
\* kDisconnected.
ServerEnds == scenario = "server" => ShutdownCompletes /\ CloseNoticed
=============================================================================

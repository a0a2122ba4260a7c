------------------------------ MODULE MCPools -------------------------------
(***************************************************************************)
(* Pools for TLC in three scenarios, and MysqlClient, one of its objects:   *)
(*   plain  all handlers, on pools that are large enough (the cfg's);       *)
(*   busy   twice as many threads as there are CacheConn;                   *)
(*   dry    handlers refuse requests and keep their connections, MySQL      *)
(*          closes connections and Redis fails;                             *)
(*   mysql  one Comm::Mysql, its operations in any order.                   *)
(***************************************************************************)
EXTENDS Pools, TLC

CONSTANTS Others, DryLinks, BusyConns, MaxCalls, MaxRows

VARIABLES
  scenario,
  bConnected, handle, result, iRows, cursor, iRowNum, row, FieldIndex, alive, crashed,
  calls, done, ret, got

sqlVars ==
  <<bConnected, handle, result, iRows, cursor, iRowNum, row, FieldIndex, alive, crashed,
    calls, done, ret, got>>

Sql == INSTANCE MysqlClient WITH link <- handle

Busy == INSTANCE Pools WITH
  Workers <- Workers \cup Others, Handlers <- {"Login", "SendHongbao", "Message"},
  Conns <- BusyConns

Dry == INSTANCE Pools WITH
  Links <- DryLinks, Conns <- BusyConns, Refusals <- TRUE, RedisFails <- TRUE, Drops <- TRUE

MCInit ==
  /\ Sql!Init
  /\ \/ scenario \in {"plain", "mysql"} /\ Init
     \/ scenario = "busy" /\ Busy!Init
     \/ scenario = "dry" /\ Dry!Init

MCNext ==
  /\ \/ scenario = "plain" /\ Next /\ UNCHANGED sqlVars
     \/ scenario = "busy" /\ Busy!Next /\ UNCHANGED sqlVars
     \/ scenario = "dry" /\ Dry!Next /\ UNCHANGED sqlVars
     \/ scenario = "mysql" /\ Sql!Next /\ UNCHANGED vars
  /\ UNCHANGED scenario

MCSpec == MCInit /\ [][MCNext]_<<vars, scenario, sqlVars>>

\* Threads and connections are alike; each scenario has a fixed set of them.
Symmetry ==
  Permutations(Workers \cup Others) \cup Permutations(Links) \cup Permutations(BusyConns)

\* No connection is in two hands, or in a hand and in its pool, also when
\* handlers have kept some; and while no request is refused none is lost.
AlwaysExclusive ==
  CASE scenario = "plain" -> TypeOK /\ Exclusive /\ NothingLost
    [] scenario = "busy" -> Busy!TypeOK /\ Busy!Exclusive /\ Busy!NothingLost
    [] scenario = "dry" -> Dry!TypeOK /\ Dry!Exclusive
    [] OTHER -> TRUE

\* The handlers go on: threads that hold a Mysql and wait for a CacheConn do not
\* all wait, and on pools that are large enough none uses a NULL connection.
HandlersGoOn ==
  CASE scenario = "plain" -> NoStandstill /\ NoNullUse
    [] scenario = "busy" -> Busy!NoStandstill
    [] OTHER -> TRUE

\* GetField answers with the row that was asked for, of the result that is stored.
SqlRows == Sql!SqlRows

\* A statement takes effect at most once, and exactly once when Execute returns 0;
\* ~Mysql leaves neither a result nor an open connection.
SqlEffects == Sql!SqlEffects
=============================================================================

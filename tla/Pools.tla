------------------------------- MODULE Pools --------------------------------
(***************************************************************************)
(* The two connection pools and the handlers of BaseBusiness that use them. *)
(* MysqlLinkPool never blocks: when it is used up, GetConnection returns    *)
(* NULL.  CachePool (one of the three: they are independent) waits on its   *)
(* condition variable.  The handlers run in the I/O threads, StopRobHongbao *)
(* in the thread of the main loop (workers).  Each critical section of a    *)
(* pool is one step.  A connection that a handler forgets to release is in  *)
(* no list and in no hand.                                                  *)
(***************************************************************************)
EXTENDS Integers, Sequences, FiniteSets, Functions

CONSTANTS
  Workers,     \* threads that run handlers
  Handlers,    \* the handlers they run
  Links,       \* Comm::Mysql objects; maxSize of them
  Conns,       \* CacheConn objects; m_max_conn_cnt of them
  MinConns,    \* MIN_CACHE_CONN_CNT
  Refusals,    \* whether SendHongbao and RobHongbao meet requests they refuse
  RedisFails,  \* whether a new connection to Redis may fail
  Drops,       \* whether MySQL may close connections
  NULL

\* "Message" is cacheMessage or sendCacheMessage.
ASSUME PoolConstants ==
  /\ Handlers \subseteq {"Register", "Login", "SendHongbao", "RobHongbao", "StopRobHongbao", "Message"}
  /\ IsFiniteSet(Links) /\ IsFiniteSet(Conns)
  /\ MinConns \in 1 .. Cardinality(Conns)
  /\ {Refusals, RedisFails, Drops} \subseteq BOOLEAN
  /\ NULL \notin Links \cup Conns

VARIABLES
  connList,    \* MysqlLinkPool::connList
  made,        \* the Mysql objects counted by curSize
  link,        \* state of each Mysql object's connection
  m_free_list, \* CachePool::m_free_list
  conns,       \* the CacheConn objects counted by m_cur_conn_cnt
  waiting,     \* workers blocked in m_lock.Wait()
  woken,       \* workers that were signalled and have not yet the mutex
  op, pc,      \* the handler each worker runs, and where it is
  ml, dup,     \* its Mysql, and the one of CheckDuplication
  cc           \* its pCacheConn

mysqlPool == <<connList, made, link>>
cachePool == <<m_free_list, conns, waiting, woken>>
hands == <<ml, dup, cc>>
vars == <<mysqlPool, cachePool, op, pc, hands>>

curSize == Cardinality(made)

\* "fresh" was never connected, "open" is usable, "broken" was closed by the
\* server unnoticed, "closed" is what a failing Ping() leaves.
LinkStates == {"fresh", "open", "broken", "closed"}
Steps == {"idle", "mysql", "check", "checked", "cache", "use", "end", "crashed"}

\* Both constructors: half of maxSize, and MIN_CACHE_CONN_CNT.
Init ==
  /\ connList \in Injection(1 .. Cardinality(Links) \div 2, Links)
  /\ made = Range(connList) /\ link = [l \in Links |-> "fresh"]
  /\ m_free_list \in Injection(1 .. MinConns, Conns)
  /\ conns = Range(m_free_list) /\ waiting = {} /\ woken = {}
  /\ op = [w \in Workers |-> NULL] /\ pc = [w \in Workers |-> "idle"]
  /\ ml = [w \in Workers |-> NULL] /\ dup = ml /\ cc = ml

-----------------------------------------------------------------------------
(* MysqlLinkPool *)

\* Mutant of GetConnection: the connection stays in the list.
GetConnectionKept(l) ==
  \/ /\ connList # <<>>
     /\ l = Head(connList)
     /\ link' = [link EXCEPT ![l] = IF @ = "open" THEN "fresh" ELSE "closed"]
     /\ UNCHANGED <<connList, made>>
  \/ /\ connList = <<>> /\ l \in Links \ made
     /\ made' = made \cup {l} /\ link' = [link EXCEPT ![l] = "fresh"]
     /\ UNCHANGED connList
  \/ /\ connList = <<>> /\ made = Links /\ l = NULL
     /\ UNCHANGED mysqlPool

\* The first of the list: one that answers the ping is deleted and made anew,
\* one that does not has been closed by Ping() and is returned.
GetConnection(l) ==
  \/ /\ connList # <<>>
     /\ l = Head(connList) /\ connList' = Tail(connList)
     /\ link' = [link EXCEPT ![l] = IF @ = "open" THEN "fresh" ELSE "closed"]
     /\ UNCHANGED made
  \/ /\ connList = <<>> /\ l \in Links \ made
     /\ made' = made \cup {l} /\ link' = [link EXCEPT ![l] = "fresh"]
     /\ UNCHANGED connList
  \/ /\ connList = <<>> /\ made = Links /\ l = NULL
     /\ UNCHANGED mysqlPool

ReleaseConnection(l) ==
  /\ connList' = IF l = NULL THEN connList ELSE Append(connList, l)
  /\ UNCHANGED <<made, link>>

\* Execute and Query connect, and connect again when the ping fails.
Execute(l) == link' = [link EXCEPT ![l] = "open"] /\ UNCHANGED <<connList, made>>

\* The server closes a connection.
Drop(l) ==
  /\ Drops /\ link[l] = "open"
  /\ link' = [link EXCEPT ![l] = "broken"]
  /\ UNCHANGED <<connList, made, cachePool, op, pc, hands>>

-----------------------------------------------------------------------------
(* CachePool *)

\* GetCacheConn holds the mutex until it waits or returns c.
GetCacheConn(w, c) ==
  /\ w \notin waiting
  /\ \/ /\ m_free_list # <<>>
        /\ c = Head(m_free_list) /\ m_free_list' = Tail(m_free_list)
        /\ UNCHANGED conns
     \/ /\ m_free_list = <<>> /\ c \in Conns \ conns
        /\ conns' = conns \cup {c} /\ UNCHANGED m_free_list
     \/ /\ m_free_list = <<>> /\ conns # Conns /\ RedisFails
        /\ c = NULL /\ UNCHANGED <<m_free_list, conns>>
  /\ woken' = woken \ {w} /\ UNCHANGED waiting

\* m_lock.Wait() in the loop of GetCacheConn.
WaitCacheConn(w) ==
  /\ pc[w] = "cache" /\ w \notin waiting
  /\ m_free_list = <<>> /\ conns = Conns
  /\ waiting' = waiting \cup {w} /\ woken' = woken \ {w}
  /\ UNCHANGED <<m_free_list, conns, mysqlPool, op, pc, hands>>

\* A condition variable may wake a thread that nobody signalled.
SpuriousWakeup(w) ==
  /\ w \in waiting
  /\ waiting' = waiting \ {w} /\ woken' = woken \cup {w}
  /\ UNCHANGED <<m_free_list, conns, mysqlPool, op, pc, hands>>

Signal ==
  \/ waiting = {} /\ UNCHANGED <<waiting, woken>>
  \/ \E w \in waiting : waiting' = waiting \ {w} /\ woken' = woken \cup {w}

\* Mutant of RelCacheConn: it does not signal.
RelCacheConnSilent(c) ==
  IF c = NULL THEN UNCHANGED cachePool
  ELSE /\ m_free_list' = Append(m_free_list, c)
       /\ UNCHANGED <<conns, waiting, woken>>

RelCacheConn(c) ==
  IF c = NULL THEN UNCHANGED cachePool
  ELSE /\ m_free_list' = IF c \in Range(m_free_list) THEN m_free_list
                         ELSE Append(m_free_list, c)
       /\ Signal
       /\ UNCHANGED conns

-----------------------------------------------------------------------------
(* The handlers *)

Goto(w, s) == pc' = [pc EXCEPT ![w] = s] /\ UNCHANGED op

\* The handler returns; what it still holds is forgotten.
Return(w) ==
  /\ op' = [op EXCEPT ![w] = NULL] /\ pc' = [pc EXCEPT ![w] = "idle"]
  /\ ml' = [ml EXCEPT ![w] = NULL] /\ cc' = [cc EXCEPT ![w] = NULL]
  /\ UNCHANGED dup

\* A message of a client, or the timer of a red packet, starts a handler.
Start(w, h) ==
  /\ pc[w] = "idle"
  /\ op' = [op EXCEPT ![w] = h]
  /\ pc' = [pc EXCEPT ![w] = IF h \in {"Register", "Login", "RobHongbao"} THEN "mysql" ELSE "cache"]
  /\ UNCHANGED <<mysqlPool, cachePool, hands>>

\* GetConnection in a handler: SendHongbao and StopRobHongbao give up without
\* one, and do not release pCacheConn; the others go on with NULL.
TakeMysql(w) ==
  /\ pc[w] = "mysql"
  /\ \E l \in Links \cup {NULL} :
       /\ GetConnection(l)
       /\ IF l = NULL /\ op[w] \in {"SendHongbao", "StopRobHongbao"} THEN Return(w)
          ELSE /\ ml' = [ml EXCEPT ![w] = l] /\ UNCHANGED <<dup, cc>>
               /\ Goto(w, CASE op[w] = "Register" -> "check"
                            [] op[w] = "Login" -> "checked"
                            [] op[w] = "RobHongbao" -> "cache"
                            [] OTHER -> "use")
  /\ UNCHANGED cachePool

\* GetCacheConn in a handler: SendHongbao returns without one, StopRobHongbao
\* and RobHongbao use it at once, the others pass over it.
TakeCache(w) ==
  /\ pc[w] = "cache"
  /\ \E c \in Conns \cup {NULL} :
       /\ GetCacheConn(w, c)
       /\ IF c = NULL /\ op[w] = "SendHongbao" THEN Return(w)
          ELSE /\ cc' = [cc EXCEPT ![w] = c] /\ UNCHANGED <<ml, dup>>
               /\ Goto(w, CASE c = NULL /\ op[w] \in {"RobHongbao", "StopRobHongbao"} -> "crashed"
                            [] op[w] \in {"SendHongbao", "StopRobHongbao"} -> "mysql"
                            [] op[w] = "RobHongbao" -> "use"
                            [] OTHER -> "end")
  /\ UNCHANGED mysqlPool

\* CheckDuplication takes a second connection while Register holds the first ...
CheckDuplication(w) ==
  /\ pc[w] = "check"
  /\ \E l \in Links \cup {NULL} :
       GetConnection(l) /\ dup' = [dup EXCEPT ![w] = l]
  /\ Goto(w, "checked")
  /\ UNCHANGED <<ml, cc, cachePool>>

\* ... and releases it: the name is repeated, or no connection was there, or
\* Register goes on to the insert.
CheckDuplicationEnd(w) ==
  /\ op[w] = "Register" /\ pc[w] = "checked"
  /\ dup' = [dup EXCEPT ![w] = NULL]
  /\ connList' = IF dup[w] = NULL THEN connList ELSE Append(connList, dup[w])
  /\ link' = IF dup[w] = NULL THEN link ELSE [link EXCEPT ![dup[w]] = "open"]
  /\ \/ Goto(w, "end")
     \/ dup[w] # NULL /\ Goto(w, "use")
  /\ UNCHANGED <<made, ml, cc, cachePool>>

\* Login: no connection, or the password does not match, or the session is
\* written next.
LoginQuery(w) ==
  /\ op[w] = "Login" /\ pc[w] = "checked"
  /\ \/ ml[w] = NULL /\ Goto(w, "end") /\ UNCHANGED mysqlPool
     \/ /\ ml[w] # NULL /\ Execute(ml[w])
        /\ \E s \in {"end", "cache"} : Goto(w, s)
  /\ UNCHANGED <<cachePool, hands>>

\* The statement of Register, SendHongbao, RobHongbao and StopRobHongbao, which
\* use ml unchecked.
Use(w) ==
  /\ pc[w] = "use"
  /\ IF ml[w] = NULL THEN Goto(w, "crashed") /\ UNCHANGED mysqlPool
     ELSE Execute(ml[w]) /\ Goto(w, "end")
  /\ UNCHANGED <<cachePool, hands>>

\* SendHongbao: not enough money; RobHongbao: expired, robbed already, or gone.
\* They return at once.
Refuse(w) ==
  /\ Refusals
  /\ op[w] \in {"SendHongbao", "RobHongbao"} /\ pc[w] = "use"
  /\ Return(w)
  /\ UNCHANGED <<mysqlPool, cachePool>>

\* RobHongbao does not get the lock.
LockFails(w) ==
  /\ op[w] = "RobHongbao" /\ pc[w] = "use"
  /\ Goto(w, "end")
  /\ UNCHANGED <<mysqlPool, cachePool, hands>>

\* RelCacheConn, first of the two releases at the end of a handler ...
ReleaseCache(w) ==
  /\ pc[w] = "end" /\ cc[w] # NULL
  /\ RelCacheConn(cc[w])
  /\ cc' = [cc EXCEPT ![w] = NULL] /\ UNCHANGED <<ml, dup>>
  /\ Goto(w, "end")
  /\ UNCHANGED mysqlPool

\* ... and ReleaseConnection.
ReleaseMysql(w) ==
  /\ pc[w] = "end" /\ cc[w] = NULL
  /\ ReleaseConnection(ml[w])
  /\ Return(w)
  /\ UNCHANGED cachePool

-----------------------------------------------------------------------------
(* The specification *)

WorkerStep(w) ==
  \/ TakeMysql(w) \/ TakeCache(w) \/ WaitCacheConn(w)
  \/ CheckDuplication(w) \/ CheckDuplicationEnd(w) \/ LoginQuery(w)
  \/ Use(w) \/ Refuse(w) \/ LockFails(w)
  \/ ReleaseCache(w) \/ ReleaseMysql(w)

\* The use of a NULL pointer ends the process.
Alive == \A w \in Workers : pc[w] # "crashed"

Next ==
  /\ Alive
  /\ \/ \E w \in Workers : \/ \E h \in Handlers : Start(w, h)
                           \/ WorkerStep(w)
                           \/ SpuriousWakeup(w)
     \/ \E l \in Links : Drop(l)

Spec == Init /\ [][Next]_vars

-----------------------------------------------------------------------------
(* Properties *)

TypeOK ==
  /\ made \subseteq Links /\ Range(connList) \subseteq made
  /\ link \in [Links -> LinkStates]
  /\ conns \subseteq Conns /\ Range(m_free_list) \subseteq conns
  /\ waiting \cup woken \subseteq {w \in Workers : pc[w] = "cache"} /\ waiting \cap woken = {}
  /\ op \in [Workers -> Handlers \cup {NULL}] /\ pc \in [Workers -> Steps]
  /\ ml \in [Workers -> made \cup {NULL}] /\ dup \in [Workers -> made \cup {NULL}]
  /\ cc \in [Workers -> conns \cup {NULL}]

HeldLinks == (Range(ml) \cup Range(dup)) \ {NULL}
HeldConns == Range(cc) \ {NULL}

\* No connection is in two hands, or in a hand and in its pool, or twice in its
\* pool: neither the nested connection of CheckDuplication nor the two releases
\* at the end of a handler hand one out twice.
Exclusive ==
  /\ IsInjective(connList) /\ IsInjective(m_free_list)
  /\ HeldLinks \cap Range(connList) = {} /\ HeldConns \cap Range(m_free_list) = {}
  /\ \A v, w \in Workers :
       /\ ml[v] # NULL => ml[v] # dup[w] /\ (ml[v] = ml[w] => v = w)
       /\ dup[v] # NULL => (dup[v] = dup[w] => v = w)
       /\ cc[v] # NULL => (cc[v] = cc[w] => v = w)

\* While no request is refused, the pools lose nothing: every connection that
\* curSize and m_cur_conn_cnt count is in its list or in the hands of a handler,
\* on every path through Register, Login, RobHongbao and the others.
NothingLost ==
  ~Refusals => /\ made = Range(connList) \cup HeldLinks
               /\ conns = Range(m_free_list) \cup HeldConns

\* No handler uses a Mysql or a CacheConn that it did not get: with two Mysql for
\* each thread, GetConnection does not return NULL, as Register and RobHongbao
\* assume.
NoNullUse == Alive

\* The threads never all stand still: those that hold a Mysql and wait for a
\* CacheConn do not wait for each other, so that while handlers are under way one
\* of them is not blocked.
NoStandstill ==
  (\E w \in Workers : pc[w] # "idle") => \E w \in Workers : pc[w] # "idle" /\ w \notin waiting

\* GetConnection replaces a connection that was closed (MysqlLinkPool.cc:75).
ClosedIsReplaced ==
  [][\A l \in Range(connList) \ Range(connList') : link[l] = "broken" => link'[l] = "fresh"]_vars
=============================================================================

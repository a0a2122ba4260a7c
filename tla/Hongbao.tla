------------------------------ MODULE Hongbao ------------------------------
(***************************************************************************)
(* The life of a red packet (hongbao): SendHongbao, RobHongbao and          *)
(* StopRobHongbao of BaseBusiness.cc with the RedisLock they use, the part  *)
(* of Login that caches a balance, and the two stores they share.           *)
(*                                                                          *)
(* One step is one command to Redis or MySQL with the local work around it: *)
(* between two commands of a handler any other thread may run.  The         *)
(* handlers run in the IO threads (Threads), StopRobHongbao in the timer    *)
(* queue of the main loop, which is one more thread.  Money is counted in   *)
(* cents.  Up to MaxFaults commands fail: the code ignores their results and *)
(* they have no effect.                                                     *)
(***************************************************************************)
EXTENDS Integers, FiniteSetsExt

CONSTANTS
  Users,          \* registered users
  Senders,        \* bound: the users that log in and send packets
  NumericSenders, \* users whose serialized packet stoi() reads as a past time
  Threads,        \* IO threads
  Amounts,        \* amounts a packet may be sent with
  Counts,         \* numbers of shares a packet may be sent with
  StartMoney,     \* balance of every user at the start
  MaxTime,        \* bound: the second that stands for all later ones
  StopDelay,      \* seconds from SendHongbao to StopRobHongbao (6 in the code)
  Packets,        \* bound: identities of the packets that may be sent
  MaxFaults,      \* bound: how many commands and GetConnection calls may fail
  HalfInt,        \* ints are -HalfInt .. HalfInt-1 (2^31 in the build)
  StrictSql,      \* whether MySQL rejects a negative money or stores 0
  None,           \* no value
  Stamp           \* a lock time stamp, 50001 seconds ahead of the clock

Keys == Users \X (0 .. MaxTime)
Sender(k) == k[1]

\* IM::SendHongbao; robitem is the list of those who took a share.
Packet ==
  [id : Packets, sender : Users, money : Nat, count : Nat, leftmoney : Nat,
   leftcount : Nat, robitem : SUBSET [name : Users, money : Nat]]

\* History of an accepted request: told once the response has named the key.
Request == [sender : Users, money : Nat, key : Keys \cup {None}, told : BOOLEAN]

ASSUME HongbaoConstants ==
  /\ Senders \subseteq Users /\ NumericSenders \subseteq Users
  /\ Amounts \subseteq Nat /\ Counts \subseteq Nat
  /\ HalfInt \in Nat \ {0} /\ \A m \in Amounts : m * 199 < HalfInt
  /\ StartMoney \in Nat /\ MaxTime \in Nat \ {0} /\ StopDelay \in Nat
  /\ MaxFaults \in Nat /\ StrictSql \in BOOLEAN
  /\ None # Stamp /\ Stamp \notin Packet
  /\ None \notin Nat \cup Users \cup Keys \cup Packet \cup Request

VARIABLES
  money,     \* MySQL: IMUser.money by user
  rows,      \* MySQL: the Hongbao table, one row per packet
  session,   \* Redis: the balance in <user>_session, None without a session
  packet,    \* Redis: the value of a packet key
  lock,      \* Redis: whether <key>_Lock exists
  pc,        \* where each IO thread is
  user,      \* the user a thread's request is for
  key,       \* the packet key a thread works on
  held,      \* the packet a thread has built or read
  share,     \* the cents a thread is about to store or to pay
  conn,      \* whether GetConnection gave the thread a connection
  timers,    \* main loop: scheduled StopRobHongbao calls
  stop,      \* main loop: the StopRobHongbao call in progress
  now,       \* the clock, in seconds; MaxTime stands for every later second
  faults,    \* how many commands have failed
  sent,      \* history: the packets SendHongbao has accepted
  grants,    \* history: how often each user was paid out of each packet
  paidOut,   \* history: cents paid to robbers out of each packet
  refunded,  \* history: cents given back to the sender of each packet
  taken,     \* history: packets a StopRobHongbao has read
  raced,     \* history: packets a robber wrote back after that
  lost,      \* history: packets with a rob or a stop whose SETEX or DEL failed
  ended      \* history: why the process ended last, None if it never did

mysql == <<money, rows>>
redis == <<session, packet, lock>>
local == <<pc, user, key, held, share, conn>>
history == <<sent, grants, paidOut, refunded, taken, raced, lost, ended>>
vars == <<mysql, redis, local, timers, stop, now, faults, history>>

-----------------------------------------------------------------------------
(* Packets and shares *)

\* The IM::SendHongbao a request becomes.
NewPacket(id, u, m, n) ==
  [id |-> id, sender |-> u, money |-> m, count |-> n,
   leftmoney |-> m, leftcount |-> n, robitem |-> {}]

\* leftmoney is a double in yuan: (int)(leftmoney*100) may come out one cent low.
ToCents(c) == {c} \cup (IF c > 0 THEN {c - 1} ELSE {})

\* The value of a product as an int.
WrapInt(x) == ((x + HalfInt) % (2 * HalfInt)) - HalfInt

\* C++ integer division by a positive number: towards zero.
Quotient(a, b) == IF a >= 0 THEN a \div b ELSE -((-a) \div b)

\* What getRandomMoney may return; rand() is seeded with the clock.
getRandomMoney(remain, left) ==
  IF left = 0 THEN {0}
  ELSE IF remain \div left = 1 THEN {1}
  ELSE IF left = 1 THEN {remain}
  ELSE {Quotient(Quotient(WrapInt(remain * r), 100), left) : r \in 1 .. 199}

\* Mutant of Robbed: set_leftmoney is forgotten.
RobbedKeepsMoney(p, u, s) ==
  [p EXCEPT !.leftcount = @ - 1, !.robitem = @ \cup {[name |-> u, money |-> s]}]

\* The packet after user u has taken s cents.
Robbed(p, u, s) ==
  [p EXCEPT !.leftmoney = @ - s, !.leftcount = @ - 1,
            !.robitem = @ \cup {[name |-> u, money |-> s]}]

HasRobbed(p, u) == \E i \in p.robitem : i.name = u

\* stoi() of the value of a packet key: the serialized packet is a number only
\* for some sender names, and a missing value never is.
StoiThrows(v) == v # Stamp /\ (v # None => v.sender \notin NumericSenders)
StoiIsPast(v) == v # Stamp /\ ~StoiThrows(v)

-----------------------------------------------------------------------------
(* Threads *)

\* n calls fail in a step.
Failures(n) ==
  /\ faults + n <= MaxFaults
  /\ faults' = faults + n

Failed(ok) == IF ok THEN 0 ELSE 1

\* A step with one call that may fail.
Outcome(ok) == Failures(Failed(ok))

Idle == "idle"

LockHolders == {"getpb", "setpb", "pay", "unlock"}

PCs == {Idle, "session", "deduct", "store", "insert", "schedule",
        "lockget", "getset"} \cup LockHolders

NoStop == [pc |-> Idle, key |-> None, value |-> None]

\* A thread goes to l and keeps the rest of its locals.
Goto(t, l) ==
  /\ pc' = [pc EXCEPT ![t] = l]
  /\ UNCHANGED <<user, key, held, share, conn>>

\* A handler returns.
Return(t) ==
  /\ pc' = [pc EXCEPT ![t] = Idle]
  /\ user' = [user EXCEPT ![t] = None]
  /\ key' = [key EXCEPT ![t] = None]
  /\ held' = [held EXCEPT ![t] = None]
  /\ share' = [share EXCEPT ![t] = 0]
  /\ conn' = [conn EXCEPT ![t] = TRUE]

\* The process ends and starts again: threads and timers are lost, the stores stay.
Restart(why) ==
  /\ pc' = [t \in Threads |-> Idle]
  /\ user' = [t \in Threads |-> None]
  /\ key' = [t \in Threads |-> None]
  /\ held' = [t \in Threads |-> None]
  /\ share' = [t \in Threads |-> 0]
  /\ conn' = [t \in Threads |-> TRUE]
  /\ timers' = {}
  /\ stop' = NoStop
  /\ ended' = why
  /\ UNCHANGED <<now, sent, grants, paidOut, refunded, taken, raced, lost>>

Init ==
  /\ money = [u \in Users |-> StartMoney]
  /\ rows = [id \in Packets |-> None]
  /\ session = [u \in Users |-> None]
  /\ packet = [k \in Keys |-> None]
  /\ lock = [k \in Keys |-> FALSE]
  /\ pc = [t \in Threads |-> Idle]
  /\ user = [t \in Threads |-> None]
  /\ key = [t \in Threads |-> None]
  /\ held = [t \in Threads |-> None]
  /\ share = [t \in Threads |-> 0]
  /\ conn = [t \in Threads |-> TRUE]
  /\ timers = {}
  /\ stop = NoStop
  /\ now = 0 /\ faults = 0
  /\ sent = [id \in Packets |-> None]
  /\ grants = [id \in Packets |-> [u \in Users |-> 0]]
  /\ paidOut = [id \in Packets |-> 0]
  /\ refunded = [id \in Packets |-> 0]
  /\ taken = {} /\ raced = {} /\ lost = {}
  /\ ended = None

-----------------------------------------------------------------------------
(* Login: the balance is copied into the session *)

\* select * from IMUser where name = ... and password = ...
LoginQuery(t, u) ==
  /\ pc[t] = Idle
  /\ pc' = [pc EXCEPT ![t] = "session"]
  /\ user' = [user EXCEPT ![t] = u]
  /\ share' = [share EXCEPT ![t] = money[u]]
  /\ UNCHANGED <<key, held, conn, mysql, redis, timers, stop, now, faults, history>>

\* SETEX <user>_session
LoginSession(t) ==
  /\ pc[t] = "session"
  /\ \E ok \in BOOLEAN :
       /\ Outcome(ok)
       /\ session' = IF ok THEN [session EXCEPT ![user[t]] = share[t]] ELSE session
  /\ Return(t)
  /\ UNCHANGED <<mysql, packet, lock, timers, stop, now, history>>

-----------------------------------------------------------------------------
(* SendHongbao *)

\* GET <user>_session, and the balance found there must exceed the amount;
\* a request that is refused here, or gets no connection, changes nothing.
SendCheck(t, u, m, n, id) ==
  /\ pc[t] = Idle
  /\ sent[id] = None
  /\ session[u] # None /\ session[u] - m >= 1
  /\ now < MaxTime
  /\ pc' = [pc EXCEPT ![t] = "deduct"]
  /\ user' = [user EXCEPT ![t] = u]
  /\ held' = [held EXCEPT ![t] = NewPacket(id, u, m, n)]
  /\ sent' = [sent EXCEPT ![id] = [sender |-> u, money |-> m,
                                   key |-> None, told |-> FALSE]]
  /\ UNCHANGED <<key, share, conn, mysql, redis, timers, stop, now, faults,
                 grants, paidOut, refunded, taken, raced, lost, ended>>

\* update IMUser set money=money-...; the column is unsigned.
SendDeduct(t) ==
  LET m == held[t].money
      u == user[t]
  IN  /\ pc[t] = "deduct"
      /\ \E ok \in BOOLEAN :
           /\ Outcome(ok)
           /\ money' = IF ~ok \/ (money[u] < m /\ StrictSql) THEN money
                       ELSE [money EXCEPT ![u] = IF @ < m THEN 0 ELSE @ - m]
      /\ Goto(t, "store")
      /\ UNCHANGED <<rows, redis, timers, stop, now, history>>

\* SETEX <sender>_<second>_HBcount: nothing keeps two packets of one second apart.
SendStore(t) ==
  LET k == <<user[t], now>>
  IN  /\ pc[t] = "store"
      /\ \E ok \in BOOLEAN :
           /\ Outcome(ok)
           /\ packet' = IF ok THEN [packet EXCEPT ![k] = held[t]] ELSE packet
      /\ pc' = [pc EXCEPT ![t] = "insert"]
      /\ key' = [key EXCEPT ![t] = k]
      /\ sent' = [sent EXCEPT ![held[t].id].key = k]
      /\ UNCHANGED <<user, held, share, conn, mysql, session, lock, timers, stop,
                     now, grants, paidOut, refunded, taken, raced, lost, ended>>

\* insert into Hongbao(hbkey, sender, money, ...)
SendInsert(t) ==
  /\ pc[t] = "insert"
  /\ \E ok \in BOOLEAN :
       /\ Outcome(ok)
       /\ rows' = IF ok
                  THEN [rows EXCEPT ![held[t].id] =
                          [key |-> key[t], leftcount |-> 0, roblog |-> {},
                           settled |-> FALSE]]
                  ELSE rows
  /\ Goto(t, "schedule")
  /\ UNCHANGED <<money, redis, timers, stop, now, history>>

\* GServer->runAfter(6, StopRobHongbao); the response tells the key.
SendSchedule(t) ==
  /\ pc[t] = "schedule"
  /\ timers' = timers \cup {[id |-> held[t].id, key |-> key[t],
                             due |-> now + StopDelay]}
  /\ sent' = [sent EXCEPT ![held[t].id].told = TRUE]
  /\ Return(t)
  /\ UNCHANGED <<mysql, redis, stop, now, faults, grants, paidOut, refunded,
                 taken, raced, lost, ended>>

-----------------------------------------------------------------------------
(* RobHongbao *)

\* Mutant of SetNx: SET instead of SETNX.
SetAlways(k) == TRUE

\* SETNX <key>_Lock sets the lock only if there is none.
SetNx(k) == ~lock[k]

\* RedisLock::tryLock: SETNX <key>_Lock
RobLock(t, u, k) ==
  /\ pc[t] = Idle
  /\ \E id \in Packets : sent[id] # None /\ sent[id].told /\ sent[id].key = k
  /\ user' = [user EXCEPT ![t] = u]
  /\ key' = [key EXCEPT ![t] = k]
  /\ \E c, ok \in BOOLEAN :
       /\ Failures(Failed(c) + Failed(ok))
       /\ conn' = [conn EXCEPT ![t] = c]
       /\ IF ok /\ SetNx(k)
          THEN /\ lock' = [lock EXCEPT ![k] = TRUE]
               /\ pc' = [pc EXCEPT ![t] = "getpb"]
          ELSE /\ pc' = [pc EXCEPT ![t] = "lockget"]
               /\ UNCHANGED lock
  /\ UNCHANGED <<held, share, mysql, session, packet, timers, stop, now, history>>

\* A read of the packet key: a failed GET looks like a missing key.
Read(k, ok) == IF ok THEN packet[k] ELSE None

\* RedisLock::lock after a failed tryLock: GET of the packet's own key, and
\* stoi() of what is there.
RobLockGet(t) ==
  /\ pc[t] = "lockget"
  /\ \E ok \in BOOLEAN :
       LET v == Read(key[t], ok)
       IN  /\ Outcome(ok)
           /\ \/ /\ StoiThrows(v)
                 /\ Restart("lock")
              \/ /\ StoiIsPast(v)
                 /\ Goto(t, "getset")
                 /\ UNCHANGED <<timers, stop, now, history>>
              \/ /\ v = Stamp
                 /\ Return(t)
                 /\ UNCHANGED <<timers, stop, now, history>>
  /\ UNCHANGED <<mysql, redis>>

\* GETSET of the packet's key with the new time stamp.
RobLockGetSet(t) ==
  /\ pc[t] = "getset"
  /\ \E ok \in BOOLEAN :
       LET v == Read(key[t], ok)
       IN  /\ Outcome(ok)
           /\ packet' = IF ok THEN [packet EXCEPT ![key[t]] = Stamp] ELSE packet
           /\ \/ /\ StoiThrows(v)
                 /\ Restart("lock")
              \/ /\ StoiIsPast(v)
                 /\ Goto(t, "getpb")
                 /\ UNCHANGED <<timers, stop, now, history>>
              \/ /\ v = Stamp
                 /\ Return(t)
                 /\ UNCHANGED <<timers, stop, now, history>>
  /\ UNCHANGED <<mysql, session, lock>>

\* The share is drawn from the packet just read.
RobGrant(t, p) ==
  \E c \in ToCents(p.leftmoney) : \E s \in getRandomMoney(c, p.leftcount) :
     /\ pc' = [pc EXCEPT ![t] = "setpb"]
     /\ held' = [held EXCEPT ![t] = Robbed(p, user[t], s)]
     /\ share' = [share EXCEPT ![t] = s]
     /\ UNCHANGED <<user, key, conn>>

\* The early returns of RobHongbao that unlock and change nothing.
Refused(p, u) == p = None \/ HasRobbed(p, u) \/ p.leftcount = 0

\* GET of the packet; a missing, an already robbed and an empty packet are
\* refused, a time stamp does not parse and ends the process.
RobGet(t) ==
  /\ pc[t] = "getpb"
  /\ \E ok \in BOOLEAN :
       LET p == Read(key[t], ok)
       IN  /\ Outcome(ok)
           /\ \/ /\ p = Stamp
                 /\ Restart("parse")
              \/ /\ p # Stamp
                 /\ IF Refused(p, user[t]) THEN Goto(t, "unlock") ELSE RobGrant(t, p)
                 /\ UNCHANGED <<timers, stop, now, history>>
  /\ UNCHANGED <<mysql, redis>>

\* SETEX of the packet with the new share in it.
RobStore(t) ==
  LET id == held[t].id
  IN  /\ pc[t] = "setpb"
      /\ \E ok \in BOOLEAN :
           /\ Outcome(ok)
           /\ packet' = IF ok THEN [packet EXCEPT ![key[t]] = held[t]] ELSE packet
           /\ lost' = IF ok THEN lost ELSE lost \cup {id}
      /\ raced' = IF id \in taken THEN raced \cup {id} ELSE raced
      /\ Goto(t, "pay")
      /\ UNCHANGED <<mysql, session, lock, timers, stop, now, sent, grants,
                     paidOut, refunded, taken, ended>>

\* Mutant of RobPay: the statement is sent again after it has succeeded.
RobPayAgain(t) ==
  LET id == held[t].id
  IN  /\ pc[t] = "pay"
      /\ \/ /\ ~conn[t]
            /\ Restart("nullconn")
            /\ UNCHANGED <<mysql, faults>>
         \/ /\ conn[t]
            /\ \E ok \in BOOLEAN :
                 /\ Outcome(ok) /\ Goto(t, IF ok THEN "pay" ELSE "unlock")
                 /\ IF ok
                    THEN /\ money' = [money EXCEPT ![user[t]] = @ + share[t]]
                         /\ grants' = [grants EXCEPT ![id][user[t]] = @ + 1]
                         /\ paidOut' = [paidOut EXCEPT ![id] = @ + share[t]]
                    ELSE UNCHANGED <<money, grants, paidOut>>
            /\ UNCHANGED <<rows, timers, stop, now, sent, refunded, taken, raced,
                           lost, ended>>
      /\ UNCHANGED redis

\* update IMUser set money=money+...; without a connection the call through
\* the null pointer ends the process.
RobPay(t) ==
  LET id == held[t].id
  IN  /\ pc[t] = "pay"
      /\ \/ /\ ~conn[t]
            /\ Restart("nullconn")
            /\ UNCHANGED <<mysql, faults>>
         \/ /\ conn[t]
            /\ \E ok \in BOOLEAN :
                 /\ Outcome(ok)
                 /\ IF ok
                    THEN /\ money' = [money EXCEPT ![user[t]] = @ + share[t]]
                         /\ grants' = [grants EXCEPT ![id][user[t]] = @ + 1]
                         /\ paidOut' = [paidOut EXCEPT ![id] = @ + share[t]]
                    ELSE UNCHANGED <<money, grants, paidOut>>
            /\ Goto(t, "unlock")
            /\ UNCHANGED <<rows, timers, stop, now, sent, refunded, taken, raced,
                           lost, ended>>
      /\ UNCHANGED redis

\* RedisLock::unlock: DEL <key>_Lock, and the handler returns.
RobUnlock(t) ==
  /\ pc[t] = "unlock"
  /\ \E ok \in BOOLEAN :
       /\ Outcome(ok)
       /\ lock' = IF ok THEN [lock EXCEPT ![key[t]] = FALSE] ELSE lock
  /\ Return(t)
  /\ UNCHANGED <<mysql, session, packet, timers, stop, now, history>>

-----------------------------------------------------------------------------
(* StopRobHongbao, called by the timer queue of the main loop *)

\* The earliest timer that is due fires: GET of the packet.
StopGet ==
  \E tm \in timers, ok \in BOOLEAN :
    LET p == Read(tm.key, ok)
    IN  /\ stop.pc = Idle
        /\ Outcome(ok)
        /\ tm.due <= now \/ now = MaxTime
        /\ \A other \in timers : tm.due <= other.due
        /\ \/ /\ p = Stamp
              /\ Restart("parse")
           \/ /\ p # Stamp
              /\ stop' = [pc |-> "del", key |-> tm.key, value |-> p]
              /\ timers' = timers \ {tm}
              /\ taken' = IF p = None THEN taken ELSE taken \cup {p.id}
              /\ UNCHANGED <<local, now, sent, grants, paidOut, refunded, raced,
                             lost, ended>>
        /\ UNCHANGED <<mysql, redis>>

\* DEL of the packet, without the lock robbers take.
StopDel ==
  /\ stop.pc = "del"
  /\ \E ok \in BOOLEAN :
       /\ Outcome(ok)
       /\ packet' = IF ok THEN [packet EXCEPT ![stop.key] = None] ELSE packet
       /\ lost' = IF ok \/ stop.value = None THEN lost ELSE lost \cup {stop.value.id}
  /\ stop' = [stop EXCEPT !.pc = "row"]
  /\ UNCHANGED <<mysql, session, lock, local, timers, now, sent, grants, paidOut,
                 refunded, taken, raced, ended>>

\* Mutants of RobLog, Refundable and Refund: the log of robbers is not written,
\* the last share is not given back, the whole packet is given back.
RobLogLost(p) == {}
RefundableMany(p) == p # None /\ p.leftcount > 1
RefundWhole(p) == p.money

\* What a missing packet parses to: every field 0.
LeftCount(p) == IF p = None THEN 0 ELSE p.leftcount
RobLog(p) == IF p = None THEN {} ELSE p.robitem
Refundable(p) == LeftCount(p) # 0
Refund(p) == p.leftmoney

\* update Hongbao ... where hbkey = key: every row of that key.  Without a
\* connection the function returns.
StopRow ==
  /\ stop.pc = "row"
  /\ \/ /\ Outcome(FALSE)
        /\ stop' = NoStop
        /\ UNCHANGED rows
     \/ /\ \E ok \in BOOLEAN :
             /\ Outcome(ok)
             /\ rows' = [id \in Packets |->
                           IF ok /\ rows[id] # None /\ rows[id].key = stop.key
                           THEN [rows[id] EXCEPT !.leftcount = LeftCount(stop.value),
                                                 !.roblog = RobLog(stop.value),
                                                 !.settled = TRUE]
                           ELSE rows[id]]
        /\ stop' = IF Refundable(stop.value)
                   THEN [stop EXCEPT !.pc = "refund"] ELSE NoStop
  /\ UNCHANGED <<money, redis, local, timers, now, history>>

\* update IMUser set money=money+leftmoney where name = sender
StopRefund ==
  LET p == stop.value
  IN  /\ stop.pc = "refund"
      /\ \E ok \in BOOLEAN :
           /\ Outcome(ok)
           /\ IF ok
              THEN /\ money' = [money EXCEPT ![p.sender] = @ + Refund(p)]
                   /\ refunded' = [refunded EXCEPT ![p.id] = @ + Refund(p)]
              ELSE UNCHANGED <<money, refunded>>
      /\ stop' = NoStop
      /\ UNCHANGED <<rows, redis, local, timers, now, sent, grants, paidOut,
                     taken, raced, lost, ended>>

-----------------------------------------------------------------------------

\* Bound: no packet is given its key in the second MaxTime, which stands for all
\* the later ones.
Tick ==
  /\ now < MaxTime
  /\ now + 1 = MaxTime => \A t \in Threads : pc[t] \notin {"deduct", "store"}
  /\ now' = now + 1
  /\ UNCHANGED <<mysql, redis, local, timers, stop, faults, history>>

\* The process may end at any point (bound: once, besides the ends the code
\* brings about itself).
Crash ==
  /\ ended = None
  /\ Restart("crash")
  /\ UNCHANGED <<mysql, redis, faults>>

SendStep(t) ==
  \/ \E u \in Senders, m \in Amounts, n \in Counts, id \in Packets :
       SendCheck(t, u, m, n, id)
  \/ SendDeduct(t) \/ SendStore(t) \/ SendInsert(t) \/ SendSchedule(t)

RobStep(t) ==
  \/ \E u \in Users, k \in Keys : RobLock(t, u, k)
  \/ RobLockGet(t) \/ RobLockGetSet(t) \/ RobGet(t)
  \/ RobStore(t) \/ RobPay(t) \/ RobUnlock(t)

LoginStep(t) == (\E u \in Senders : LoginQuery(t, u)) \/ LoginSession(t)

StopStep == StopGet \/ StopDel \/ StopRow \/ StopRefund

Next ==
  \/ \E t \in Threads : SendStep(t) \/ RobStep(t) \/ LoginStep(t)
  \/ StopStep
  \/ Tick
  \/ Crash

Spec == Init /\ [][Next]_vars

-----------------------------------------------------------------------------
(* Properties *)

Row ==
  [key : Keys, leftcount : Nat, roblog : SUBSET [name : Users, money : Nat],
   settled : BOOLEAN]

StoresOK ==
  /\ money \in [Users -> Nat]
  /\ rows \in [Packets -> Row \cup {None}]
  /\ session \in [Users -> Nat \cup {None}]
  /\ packet \in [Keys -> Packet \cup {None, Stamp}]
  /\ lock \in [Keys -> BOOLEAN]

LocalsOK ==
  /\ pc \in [Threads -> PCs]
  /\ user \in [Threads -> Users \cup {None}]
  /\ key \in [Threads -> Keys \cup {None}]
  /\ held \in [Threads -> Packet \cup {None}]
  /\ share \in [Threads -> Nat]
  /\ conn \in [Threads -> BOOLEAN]

LoopOK ==
  /\ timers \subseteq [id : Packets, key : Keys, due : Nat]
  /\ stop \in [pc : {Idle, "del", "row", "refund"}, key : Keys \cup {None},
               value : Packet \cup {None}]
  /\ now \in 0 .. MaxTime /\ faults \in 0 .. MaxFaults

HistoryOK ==
  /\ sent \in [Packets -> Request \cup {None}]
  /\ grants \in [Packets -> [Users -> Nat]]
  /\ paidOut \in [Packets -> Nat]
  /\ refunded \in [Packets -> Nat]
  /\ taken \subseteq Packets /\ raced \subseteq Packets /\ lost \subseteq Packets
  /\ ended \in {None, "crash", "lock", "parse", "nullconn"}

\* Every variable has its type; in particular no balance, share or number of
\* shares left is ever negative.
TypeOK == StoresOK /\ LocalsOK /\ LoopOK /\ HistoryOK

\* At most one thread is between lock() and unlock() of RedisLock for a key,
\* as long as stoi() cannot read that packet as an expired time stamp.
LockExclusion ==
  \A t1, t2 \in Threads :
    (/\ pc[t1] \in LockHolders /\ pc[t2] \in LockHolders
     /\ key[t1] = key[t2] /\ Sender(key[t1]) \notin NumericSenders) => t1 = t2

\* The packets RedisLock protects and whose SETEX and DEL commands succeeded.
Protected(id) ==
  sent[id] # None /\ sent[id].sender \notin NumericSenders /\ id \notin lost

\* RobHongbao pays a user at most once out of a packet, through any number of
\* concurrent requests, restarts and repeated keys.
PaidOnce ==
  \A id \in Packets, u \in Users : Protected(id) => grants[id][u] <= 1

\* What robbers are paid and what StopRobHongbao gives back never exceed the
\* money of the packet, unless a robber wrote the packet back after
\* StopRobHongbao had read it.
PayoutBounded ==
  \A id \in Packets :
    Protected(id) /\ id \notin raced => paidOut[id] + refunded[id] <= sent[id].money

\* Every copy of a packet, stored or in a handler, accounts for its money and
\* its shares, lists a robber once, and holds at most the cent lost in the
\* conversion to int once its shares are gone.
RecordBalanced ==
  \A p \in ({packet[k] : k \in Keys} \cup {held[t] : t \in Threads} \cup {stop.value})
          \ {None, Stamp} :
    /\ p.leftmoney + MapThenSumSet(LAMBDA i : i.money, p.robitem) = p.money
    /\ p.leftcount + Cardinality(p.robitem) = p.count
    /\ \A i, j \in p.robitem : i.name = j.name => i = j
    /\ p.leftcount = 0 /\ p.count > 0 => p.leftmoney <= 1

\* Packets that were given the same key as id.
Collided(id) ==
  \E other \in Packets \ {id} : sent[other] # None /\ sent[other].key = sent[id].key

\* Once StopRobHongbao has written the row of a packet it did read, every user
\* paid out of the packet is in its roblog, unless the rob was stored after that
\* read, the SETEX of the rob was lost, or two packets shared the key.
RowCompleteUnlessRaced ==
  \A id \in Packets, u \in Users :
    (/\ Protected(id) /\ id \in taken \ raced /\ ~Collided(id)
     /\ rows[id] # None /\ grants[id][u] > 0)
      => (rows[id].settled => \E i \in rows[id].roblog : i.name = u)

\* When SendHongbao subtracts the money of a packet ("check mysql moneny"), the
\* balance in MySQL covers it.
DeductionCovered ==
  \A t \in Threads : pc[t] = "deduct" => money[user[t]] >= held[t].money

-----------------------------------------------------------------------------
(* Liveness: the loops run every request and every timer to its end. *)

Progress(t) ==
  \/ LoginSession(t)
  \/ SendDeduct(t) \/ SendStore(t) \/ SendInsert(t) \/ SendSchedule(t)
  \/ RobLockGet(t) \/ RobLockGetSet(t) \/ RobGet(t)
  \/ RobStore(t) \/ RobPay(t) \/ RobUnlock(t)

FairSpec ==
  /\ Spec
  /\ \A t \in Threads : WF_vars(Progress(t))
  /\ WF_vars(StopStep) /\ WF_vars(Tick)

\* The money of a packet whose StopRobHongbao is scheduled is eventually all
\* with the robbers and the sender, but for the cent a conversion may lose,
\* unless the process ends first.
AllAccounted ==
  \A id \in Packets :
    (\E tm \in timers : tm.id = id)
      ~> \/ ended # None
         \/ sent[id] # None /\ paidOut[id] + refunded[id] >= sent[id].money - 1

=============================================================================

---------------------------- MODULE HongbaoShape ----------------------------
(* Every step of Hongbao keeps TypeOK and Shape, and keeps Locked; most steps *)
(* leave the packets alone.                                                    *)
EXTENDS HongbaoInv, TLAPS

-----------------------------------------------------------------------------
(* Shares *)

LEMMA QuotientBound ==
  ASSUME NEW a \in Nat, NEW b \in Nat, b >= 2, NEW c \in Nat, a <= 2 * c
  PROVE  Quotient(a, b) \in 0 .. c
<1> DEFINE q == a \div b
<1>1. q \in Int /\ a = b * q + (a % b) /\ a % b \in 0 .. (b - 1)
  OBVIOUS
<1>2. q >= 0
  <2> SUFFICES ASSUME q <= -1 PROVE FALSE
    BY <1>1
  <2>1. b * q <= -b
    BY <1>1
  <2> QED
    BY <1>1, <2>1
<1>3. 2 * q <= b * q
  BY <1>1, <1>2
<1> QED
  BY <1>1, <1>2, <1>3 DEF Quotient

\* What getRandomMoney draws is between 0 and the cents that are left, as long as
\* the product does not overflow an int.
LEMMA RandomMoneyBound ==
  ASSUME NEW c \in Nat, NEW n \in Nat, n # 0, c * 199 < HalfInt,
         NEW s \in getRandomMoney(c, n)
  PROVE  s \in 0 .. c
<1> USE HongbaoConstants
<1>1. CASE c \div n = 1
  BY <1>1 DEF getRandomMoney
<1>2. CASE n = 1
  BY <1>2 DEF getRandomMoney
<1>3. CASE c \div n # 1 /\ n # 1
  <2>1. PICK r \in 1 .. 199 : s = Quotient(Quotient(WrapInt(c * r), 100), n)
    BY <1>3 DEF getRandomMoney
  <2>2. c * r \in Nat /\ c * r <= c * 199
    OBVIOUS
  <2>3. WrapInt(c * r) = c * r
    BY <2>2 DEF WrapInt
  <2>4. Quotient(c * r, 100) \in 0 .. (2 * c)
    BY <2>2 DEF Quotient
  <2> QED
    BY <2>1, <2>3, <2>4, <1>3, QuotientBound
<1> QED
  BY <1>1, <1>2, <1>3

-----------------------------------------------------------------------------
(* Records and counters *)

\* Adding to one entry of a map of naturals gives a map of naturals.
LEMMA AddedNat ==
  ASSUME NEW S, NEW f \in [S -> Nat], NEW x \in S, NEW n \in Nat
  PROVE  [f EXCEPT ![x] = @ + n] \in [S -> Nat]
OBVIOUS

\* The same for a map of maps of naturals.
LEMMA AddedNested ==
  ASSUME NEW S, NEW T, NEW f \in [S -> [T -> Nat]], NEW x \in S, NEW y \in T
  PROVE  [f EXCEPT ![x][y] = @ + 1] \in [S -> [T -> Nat]]
OBVIOUS

LEMMA PacketFields ==
  \A p \in Packet : /\ p.id \in Packets /\ p.sender \in Users /\ p.money \in Nat
                    /\ p.count \in Nat /\ p.leftmoney \in Nat /\ p.leftcount \in Nat
                    /\ p.robitem \in SUBSET [name : Users, money : Nat]
                    /\ p # None /\ p # Stamp
BY HongbaoConstants DEF Packet

LEMMA RequestFields ==
  \A r \in Request : /\ r.sender \in Users /\ r.money \in Nat
                     /\ r.key \in Keys \cup {None} /\ r.told \in BOOLEAN /\ r # None
BY HongbaoConstants DEF Request

LEMMA NoneNotKey == None \notin Keys
BY HongbaoConstants

LEMMA NewPacketType ==
  ASSUME NEW id \in Packets, NEW u \in Users, NEW m \in Nat, NEW n \in Nat
  PROVE  NewPacket(id, u, m, n) \in Packet
BY DEF NewPacket, Packet

LEMMA RobbedType ==
  ASSUME NEW p \in Packet, NEW u \in Users, NEW s \in 0 .. p.leftmoney, p.leftcount # 0
  PROVE  Robbed(p, u, s) \in Packet
<1>1. p.leftmoney - s \in Nat /\ p.leftcount - 1 \in Nat
  BY PacketFields
<1>2. p.robitem \cup {[name |-> u, money |-> s]} \in SUBSET [name : Users, money : Nat]
  BY PacketFields
<1> QED
  BY Zenon, <1>1, <1>2 DEF Robbed, Packet

\* The fields of a packet after a share was taken.
LEMMA RobbedFields ==
  ASSUME NEW p \in Packet, NEW u \in Users, NEW s
  PROVE  /\ Robbed(p, u, s).id = p.id /\ Robbed(p, u, s).sender = p.sender
         /\ Robbed(p, u, s).leftmoney = p.leftmoney - s
         /\ HasRobbed(Robbed(p, u, s), u)
         /\ \A v : HasRobbed(p, v) => HasRobbed(Robbed(p, u, s), v)
<1>1. /\ Robbed(p, u, s).id = p.id /\ Robbed(p, u, s).sender = p.sender
      /\ Robbed(p, u, s).leftmoney = p.leftmoney - s
      /\ Robbed(p, u, s).robitem = p.robitem \cup {[name |-> u, money |-> s]}
  BY DEF Robbed, Packet
<1>2. [name |-> u, money |-> s].name = u
  OBVIOUS
<1> QED
  BY Zenon, <1>1, <1>2 DEF HasRobbed

-----------------------------------------------------------------------------
(* Types and locals *)

LEMMA OutcomeType ==
  ASSUME faults \in 0 .. MaxFaults, NEW ok \in BOOLEAN, Outcome(ok)
  PROVE  faults' \in 0 .. MaxFaults
BY HongbaoConstants DEF Outcome, Failures, Failed

\* A thread may go to a label whose locals are there.
LEMMA GotoReady ==
  ASSUME LocalsOK, HandlersReady, NEW t \in Threads, NEW l \in PCs, Goto(t, l),
         l # Idle => user[t] \in Users,
         l \in Sending \cup Robbing => held[t] # None /\ Fits(held[t]),
         l \in Keyed => key[t] \in Keys
  PROVE  LocalsOK' /\ HandlersReady'
<1>1. LocalsOK'
  BY DEF LocalsOK, Goto
<1>2. HandlersReady'
  BY DEF LocalsOK, HandlersReady, Goto, Fits
<1> QED
  BY <1>1, <1>2

LEMMA ReturnReady ==
  ASSUME LocalsOK, HandlersReady, NEW t \in Threads, Return(t)
  PROVE  LocalsOK' /\ HandlersReady'
<1>1. LocalsOK'
  BY DEF LocalsOK, Return, PCs
<1>2. HandlersReady'
  BY DEF LocalsOK, HandlersReady, Return, Fits, Sending, Robbing, Keyed, LockHolders, Idle
<1> QED
  BY <1>1, <1>2

\* A restart leaves no handler and no StopRobHongbao half way.
LEMMA RestartReady ==
  ASSUME LoopOK, HistoryOK, NEW why \in {"crash", "lock", "parse", "nullconn"},
         Restart(why), faults' \in 0 .. MaxFaults
  PROVE  LocalsOK' /\ LoopOK' /\ HistoryOK' /\ HandlersReady' /\ StopReady'
<1>1. LocalsOK'
  BY DEF LocalsOK, Restart, PCs
<1>2. LoopOK'
  BY DEF LoopOK, Restart, NoStop
<1>3. HistoryOK'
  BY DEF HistoryOK, Restart
<1>4. HandlersReady'
  BY DEF HandlersReady, Restart, Sending, Robbing, Keyed, LockHolders, Idle
<1>5. StopReady'
  BY DEF StopReady, Restart, NoStop, Idle
<1> QED
  BY <1>1, <1>2, <1>3, <1>4, <1>5

\* Handlers that only lose packets from Redis or leave it alone keep PacketsFit.
LEMMA SamePacketsFit ==
  ASSUME PacketsFit, packet' = packet
  PROVE  PacketsFit'
BY DEF PacketsFit, Live, Fits

\* The locals of a thread inside a handler.
LEMMA LocalsThere ==
  ASSUME TypeOK, Shape, NEW t \in Threads
  PROVE  /\ pc[t] # Idle => user[t] \in Users
         /\ pc[t] \in Sending \cup Robbing => held[t] \in Packet /\ Fits(held[t])
         /\ pc[t] \in Keyed => key[t] \in Keys
BY DEF TypeOK, LocalsOK, Shape, HandlersReady

LEMMA StoredPacket ==
  ASSUME TypeOK, Shape, NEW k \in Keys, Live(k)
  PROVE  packet[k] \in Packet /\ Fits(packet[k])
BY DEF TypeOK, StoresOK, Shape, PacketsFit, Live

-----------------------------------------------------------------------------
(* Every step keeps TypeOK and Shape *)

LEMMA LoginShape ==
  ASSUME TypeOK, Shape, NEW t \in Threads, LoginStep(t)
  PROVE  TypeOK' /\ Shape'
<1>1. CASE \E u \in Senders : LoginQuery(t, u)
  <2>1. PICK u \in Senders : LoginQuery(t, u)
    BY <1>1
  <2>2. u \in Users /\ money[u] \in Nat
    BY HongbaoConstants DEF TypeOK, StoresOK
  <2>3. LocalsOK'
    BY <2>1, <2>2 DEF LoginQuery, TypeOK, LocalsOK, PCs
  <2>4. HandlersReady'
    BY <2>1, <2>2 DEF LoginQuery, TypeOK, LocalsOK, Shape, HandlersReady, Fits,
                      Sending, Robbing, Keyed, LockHolders
  <2>5. PacketsFit' /\ StopReady' /\ StoresOK' /\ LoopOK' /\ HistoryOK'
    BY <2>1, SamePacketsFit DEF LoginQuery, TypeOK, StoresOK, LoopOK, HistoryOK, Shape,
                 StopReady, mysql, redis, history
  <2> QED
    BY <2>3, <2>4, <2>5 DEF TypeOK, Shape
<1>2. CASE LoginSession(t)
  <2>1. user[t] \in Users /\ share[t] \in Nat
    BY <1>2, LocalsThere DEF LoginSession, Idle, TypeOK, LocalsOK
  <2>2. StoresOK'
    BY <1>2, <2>1 DEF LoginSession, TypeOK, StoresOK, mysql
  <2>3. LocalsOK' /\ HandlersReady'
    BY <1>2, ReturnReady DEF LoginSession, TypeOK, Shape
  <2>4. LoopOK'
    BY Zenon, <1>2, OutcomeType DEF LoginSession, TypeOK, LoopOK
  <2>5. PacketsFit' /\ StopReady' /\ HistoryOK'
    BY Zenon, <1>2, SamePacketsFit DEF LoginSession, TypeOK, HistoryOK, Shape, StopReady, history
  <2> QED
    BY <2>2, <2>3, <2>4, <2>5 DEF TypeOK, Shape
<1> QED
  BY <1>1, <1>2 DEF LoginStep

LEMMA SendCheckShape ==
  ASSUME TypeOK, Shape, NEW t \in Threads, NEW u \in Senders, NEW m \in Amounts,
         NEW n \in Counts, NEW id \in Packets, SendCheck(t, u, m, n, id)
  PROVE  TypeOK' /\ Shape'
<1> USE DEF SendCheck
<1>1. u \in Users /\ m \in Nat /\ n \in Nat /\ m * 199 < HalfInt
  BY Zenon, HongbaoConstants
<1>2. NewPacket(id, u, m, n) \in Packet /\ Fits(NewPacket(id, u, m, n))
  BY Zenon, <1>1, NewPacketType DEF NewPacket, Fits
<1>3. LocalsOK'
  BY Zenon, <1>1, <1>2 DEF TypeOK, LocalsOK, PCs
<1>4. HandlersReady'
  BY SMTT(60), <1>1, <1>2, PacketFields DEF TypeOK, LocalsOK, Shape, HandlersReady, Fits,
     Sending, Robbing, Keyed, LockHolders
<1>5. [sender |-> u, money |-> m, key |-> None, told |-> FALSE] \in Request
  BY Zenon, <1>1 DEF Request
<1>6. HistoryOK'
  BY Zenon, <1>5 DEF TypeOK, HistoryOK
<1>7. PacketsFit' /\ StopReady' /\ StoresOK' /\ LoopOK'
  BY Zenon, SamePacketsFit DEF TypeOK, StoresOK, LoopOK, Shape, StopReady, mysql, redis
<1> QED
  BY Zenon, <1>3, <1>4, <1>6, <1>7 DEF TypeOK, Shape

LEMMA SendDeductShape ==
  ASSUME TypeOK, Shape, NEW t \in Threads, SendDeduct(t)
  PROVE  TypeOK' /\ Shape'
<1> USE DEF SendDeduct
<1>1. user[t] \in Users /\ held[t] \in Packet /\ Fits(held[t])
  BY Zenon, LocalsThere DEF Sending, Idle
<1>2. money' \in [Users -> Nat]
  BY SMTT(90), <1>1, PacketFields DEF TypeOK, StoresOK
<1>3. LocalsOK' /\ HandlersReady'
  BY Zenon, <1>1, GotoReady, PacketFields DEF TypeOK, Shape, PCs, Keyed, LockHolders
<1>4. LoopOK'
  BY ZenonT(30), OutcomeType DEF TypeOK, LoopOK
<1>5. PacketsFit' /\ StopReady' /\ StoresOK' /\ HistoryOK'
  BY <1>2, SamePacketsFit DEF TypeOK, StoresOK, HistoryOK, Shape, StopReady, redis, history
<1> QED
  BY Zenon, <1>3, <1>4, <1>5 DEF TypeOK, Shape

LEMMA SendStoreShape ==
  ASSUME TypeOK, Shape, NEW t \in Threads, SendStore(t), sent[held[t].id] # None
  PROVE  TypeOK' /\ Shape'
<1> DEFINE k == <<user[t], now>>
<1> USE DEF SendStore
<1>1. user[t] \in Users /\ held[t] \in Packet /\ Fits(held[t])
  BY LocalsThere DEF Sending, Idle
<1>2. k \in Keys
  BY <1>1 DEF Keys, TypeOK, LoopOK
<1>3. StoresOK'
  BY <1>1, <1>2 DEF TypeOK, StoresOK, mysql
<1>4. LocalsOK'
  BY <1>2 DEF TypeOK, LocalsOK, PCs
<1>5. HandlersReady'
  BY <1>1, <1>2 DEF TypeOK, LocalsOK, Shape, HandlersReady, Fits,
     Sending, Robbing, Keyed, LockHolders, Idle
<1>6. sent' \in [Packets -> Request \cup {None}]
  BY ZenonT(30), <1>1, <1>2, PacketFields DEF TypeOK, HistoryOK, Request
<1>7. HistoryOK'
  BY <1>6 DEF TypeOK, HistoryOK
<1>8. PacketsFit'
  BY <1>1, <1>2 DEF TypeOK, StoresOK, Shape, PacketsFit, Live, Fits
<1>9. LoopOK' /\ StopReady'
  BY OutcomeType DEF TypeOK, LoopOK, Shape, StopReady
<1> QED
  BY <1>3, <1>4, <1>5, <1>7, <1>8, <1>9 DEF TypeOK, Shape

LEMMA SendInsertShape ==
  ASSUME TypeOK, Shape, NEW t \in Threads, SendInsert(t)
  PROVE  TypeOK' /\ Shape'
<1> USE DEF SendInsert
<1>1. user[t] \in Users /\ held[t] \in Packet /\ Fits(held[t]) /\ key[t] \in Keys
  BY LocalsThere DEF Sending, Keyed, Idle
<1>2. [key |-> key[t], leftcount |-> 0, roblog |-> {}, settled |-> FALSE] \in Row
  BY <1>1 DEF Row
<1>3. rows' \in [Packets -> Row \cup {None}]
  BY <1>1, <1>2, PacketFields DEF TypeOK, StoresOK
<1>4. LocalsOK' /\ HandlersReady'
  BY <1>1, GotoReady, PacketFields DEF TypeOK, Shape, PCs
<1>5. LoopOK'
  BY ZenonT(30), OutcomeType DEF TypeOK, LoopOK
<1>6. PacketsFit' /\ StopReady' /\ StoresOK' /\ HistoryOK'
  BY <1>3, SamePacketsFit DEF TypeOK, StoresOK, HistoryOK, Shape, StopReady, redis, history
<1> QED
  BY <1>4, <1>5, <1>6 DEF TypeOK, Shape

LEMMA SendScheduleShape ==
  ASSUME TypeOK, Shape, NEW t \in Threads, SendSchedule(t), sent[held[t].id] # None
  PROVE  TypeOK' /\ Shape'
<1> USE DEF SendSchedule
<1>1. held[t] \in Packet /\ key[t] \in Keys
  BY LocalsThere DEF Sending, Keyed
<1>2. [id |-> held[t].id, key |-> key[t], due |-> now + StopDelay]
        \in [id : Packets, key : Keys, due : Nat]
  BY <1>1, PacketFields, HongbaoConstants DEF TypeOK, LoopOK
<1>3. LoopOK'
  BY <1>2 DEF TypeOK, LoopOK
<1>4. LocalsOK' /\ HandlersReady'
  BY ReturnReady DEF TypeOK, Shape
<1>5. sent' \in [Packets -> Request \cup {None}]
  BY ZenonT(30), <1>1, PacketFields DEF TypeOK, HistoryOK, Request
<1>6. PacketsFit' /\ StopReady' /\ StoresOK' /\ HistoryOK'
  BY <1>5, SamePacketsFit DEF TypeOK, StoresOK, HistoryOK, Shape, StopReady, mysql, redis
<1> QED
  BY <1>3, <1>4, <1>6 DEF TypeOK, Shape

LEMMA RobLockShape ==
  ASSUME TypeOK, Shape, NEW t \in Threads, NEW u \in Users, NEW k \in Keys,
         RobLock(t, u, k)
  PROVE  TypeOK' /\ Shape'
<1> USE DEF RobLock
<1>1. faults' \in 0 .. MaxFaults
  BY SMTT(90), HongbaoConstants DEF TypeOK, LoopOK, Failures, Failed
<1>2. lock' \in [Keys -> BOOLEAN] /\ conn' \in [Threads -> BOOLEAN]
  BY ZenonT(30) DEF TypeOK, StoresOK, LocalsOK
<1>3. pc' \in [Threads -> PCs]
      /\ \A o \in Threads \ {t} : pc'[o] = pc[o]
      /\ pc'[t] \in {"getpb", "lockget"}
  BY SMTT(90) DEF TypeOK, LocalsOK, PCs, LockHolders
<1>4. LocalsOK'
  BY Zenon, <1>2, <1>3 DEF TypeOK, LocalsOK
<1>5. HandlersReady'
  <2>1. /\ user'[t] = u /\ key'[t] = k /\ held' = held
        /\ \A o \in Threads \ {t} : user'[o] = user[o] /\ key'[o] = key[o]
    BY Zenon DEF TypeOK, LocalsOK
  <2>2. pc'[t] \notin Sending \cup Robbing
    BY Zenon, <1>3 DEF Sending, Robbing
  <2> HIDE DEF RobLock
  <2> QED
    BY ZenonT(30), <1>3, <2>1, <2>2 DEF Shape, HandlersReady, Fits
<1>6. PacketsFit' /\ StopReady' /\ StoresOK' /\ LoopOK' /\ HistoryOK'
  BY ZenonT(30), <1>1, <1>2, SamePacketsFit DEF TypeOK, StoresOK, LoopOK, HistoryOK, Shape, StopReady,
     mysql, history
<1> QED
  BY <1>4, <1>5, <1>6 DEF TypeOK, Shape

\* The steps of a handler that either ends the process, goes on or returns, and
\* at most overwrites the packet of its key with a time stamp.
LEMMA LockGetShape ==
  ASSUME TypeOK, Shape, NEW t \in Threads, RobLockGet(t) \/ RobLockGetSet(t)
  PROVE  TypeOK' /\ Shape'
<1>1. user[t] \in Users /\ key[t] \in Keys
  BY Zenon, LocalsThere DEF RobLockGet, RobLockGetSet, Keyed, Idle
<1>2. faults' \in 0 .. MaxFaults
  BY Zenon, OutcomeType DEF RobLockGet, RobLockGetSet, TypeOK, LoopOK
<1>3. packet' = packet \/ packet' = [packet EXCEPT ![key[t]] = Stamp]
  BY ZenonT(30) DEF RobLockGet, RobLockGetSet, redis
<1>4. StoresOK' /\ PacketsFit'
  BY ZenonT(30), <1>1, <1>3 DEF RobLockGet, RobLockGetSet, TypeOK, StoresOK, Shape, PacketsFit, Live,
     Fits, mysql, redis
<1>5. \/ Restart("lock")
      \/ /\ Goto(t, "getset") \/ Goto(t, "getpb") \/ Return(t)
         /\ UNCHANGED <<timers, stop, now, history>>
  BY ZenonT(30) DEF RobLockGet, RobLockGetSet
<1>6. CASE Restart("lock")
  BY <1>2, <1>4, <1>6, RestartReady DEF TypeOK, Shape
<1>7. CASE /\ Goto(t, "getset") \/ Goto(t, "getpb") \/ Return(t)
           /\ UNCHANGED <<timers, stop, now, history>>
  <2>1. LocalsOK' /\ HandlersReady'
    BY Zenon, <1>1, <1>7, GotoReady, ReturnReady DEF TypeOK, Shape, PCs, LockHolders, Sending, Robbing
  <2>2. LoopOK' /\ HistoryOK' /\ StopReady'
    BY <1>2, <1>7 DEF TypeOK, LoopOK, HistoryOK, Shape, StopReady, history
  <2> QED
    BY Zenon, <1>4, <2>1, <2>2 DEF TypeOK, Shape
<1> QED
  BY Zenon, <1>5, <1>6, <1>7

\* The share a thread draws, and the packet it is about to store.
LEMMA GrantFacts ==
  ASSUME TypeOK, NEW t \in Threads, user[t] \in Users, NEW p \in Packet, Fits(p),
         p.leftcount # 0, RobGrant(t, p)
  PROVE  \E s \in 0 .. p.leftmoney :
           /\ pc' = [pc EXCEPT ![t] = "setpb"]
           /\ held' = [held EXCEPT ![t] = Robbed(p, user[t], s)]
           /\ share' = [share EXCEPT ![t] = s]
           /\ UNCHANGED <<user, key, conn>>
<1>1. PICK c \in ToCents(p.leftmoney) : \E s \in getRandomMoney(c, p.leftcount) :
           /\ pc' = [pc EXCEPT ![t] = "setpb"]
           /\ held' = [held EXCEPT ![t] = Robbed(p, user[t], s)]
           /\ share' = [share EXCEPT ![t] = s]
           /\ UNCHANGED <<user, key, conn>>
  BY Zenon DEF RobGrant
<1>2. c \in 0 .. p.leftmoney /\ c * 199 < HalfInt
  BY PacketFields, HongbaoConstants DEF ToCents, Fits
<1>3. \A s \in getRandomMoney(c, p.leftcount) : s \in 0 .. p.leftmoney
  BY <1>2, RandomMoneyBound, PacketFields
<1> QED
  BY Zenon, <1>1, <1>3

\* What RobGet does: the process ends, the request is refused, or a share of
\* a stored packet is drawn.
LEMMA RobGetCases ==
  ASSUME TypeOK, Shape, NEW t \in Threads, RobGet(t)
  PROVE  /\ user[t] \in Users /\ key[t] \in Keys /\ pc[t] = "getpb"
         /\ faults' \in 0 .. MaxFaults
         /\ UNCHANGED <<mysql, redis>>
         /\ \/ Restart("parse")
            \/ /\ UNCHANGED <<timers, stop, now, history>>
               /\ \/ Goto(t, "unlock")
                  \/ /\ Live(key[t]) /\ ~HasRobbed(packet[key[t]], user[t])
                     /\ packet[key[t]].leftcount # 0
                     /\ RobGrant(t, packet[key[t]])
<1>1. user[t] \in Users /\ key[t] \in Keys /\ pc[t] = "getpb"
  BY Zenon, LocalsThere DEF RobGet, Keyed, LockHolders, Idle
<1>2. PICK ok \in BOOLEAN :
        LET p == Read(key[t], ok)
        IN  /\ Outcome(ok)
            /\ \/ Restart("parse")
               \/ /\ p # Stamp
                  /\ IF Refused(p, user[t]) THEN Goto(t, "unlock") ELSE RobGrant(t, p)
                  /\ UNCHANGED <<timers, stop, now, history>>
  BY Zenon DEF RobGet
<1>3. faults' \in 0 .. MaxFaults
  BY Zenon, <1>2, OutcomeType DEF TypeOK, LoopOK
<1>4. CASE Refused(Read(key[t], ok), user[t])
  BY Zenon, <1>1, <1>2, <1>3, <1>4 DEF RobGet
<1>5. CASE ~Refused(Read(key[t], ok), user[t])
  <2>1. ok
    BY Zenon, <1>5 DEF Refused, Read
  <2>2. Read(key[t], ok) = packet[key[t]]
    BY Zenon, <2>1 DEF Read
  <2> QED
    BY Zenon, <1>1, <1>2, <1>3, <1>5, <2>2 DEF RobGet, Refused, Live
<1> QED
  BY Zenon, <1>4, <1>5

LEMMA RobGetShape ==
  ASSUME TypeOK, Shape, NEW t \in Threads, RobGet(t)
  PROVE  TypeOK' /\ Shape'
<1>1. /\ user[t] \in Users /\ key[t] \in Keys /\ faults' \in 0 .. MaxFaults
      /\ UNCHANGED <<mysql, redis>>
  BY Zenon, RobGetCases
<1>2. StoresOK' /\ PacketsFit'
  BY Zenon, <1>1, SamePacketsFit DEF TypeOK, StoresOK, Shape, mysql, redis
<1>3. CASE Restart("parse")
  BY Zenon, <1>1, <1>2, <1>3, RestartReady DEF TypeOK, Shape
<1>4. CASE UNCHANGED <<timers, stop, now, history>>
  <2>1. LoopOK' /\ HistoryOK' /\ StopReady'
    BY Zenon, <1>1, <1>4 DEF TypeOK, LoopOK, HistoryOK, Shape, StopReady, history
  <2>2. CASE Goto(t, "unlock")
    BY Zenon, <1>1, <1>2, <2>1, <2>2, GotoReady DEF TypeOK, Shape, PCs, LockHolders, Sending, Robbing
  <2>3. CASE /\ Live(key[t]) /\ packet[key[t]].leftcount # 0
             /\ RobGrant(t, packet[key[t]])
    <3> DEFINE p == packet[key[t]]
    <3>1. p \in Packet /\ Fits(p)
      BY Zenon, <1>1, <2>3, StoredPacket
    <3>2. PICK s \in 0 .. p.leftmoney :
             /\ pc' = [pc EXCEPT ![t] = "setpb"]
             /\ held' = [held EXCEPT ![t] = Robbed(p, user[t], s)]
             /\ share' = [share EXCEPT ![t] = s]
             /\ UNCHANGED <<user, key, conn>>
      BY Zenon, <1>1, <2>3, <3>1, GrantFacts
    <3>3. Robbed(p, user[t], s) \in Packet
      BY ZenonT(30), <1>1, <2>3, <3>1, RobbedType
    <3>4. Fits(Robbed(p, user[t], s))
      BY SMTT(90), <1>1, <3>1, RobbedFields, PacketFields, HongbaoConstants DEF Fits
    <3>5. s \in Nat
      BY <3>1, PacketFields
    <3>6. LocalsOK'
      BY Zenon, <3>2, <3>3, <3>5 DEF TypeOK, LocalsOK, PCs, LockHolders
    <3>7. HandlersReady'
      BY <1>1, <3>2, <3>3, <3>4, PacketFields DEF TypeOK, LocalsOK, Shape, HandlersReady,
         Fits, Robbing, Keyed, LockHolders, Idle
    <3> QED
      BY Zenon, <1>2, <2>1, <3>6, <3>7 DEF TypeOK, Shape
  <2> QED
    BY Zenon, <1>4, <2>2, <2>3, RobGetCases, RestartReady, <1>3
<1> QED
  BY Zenon, <1>3, <1>4, RobGetCases

LEMMA RobStoreShape ==
  ASSUME TypeOK, Shape, NEW t \in Threads, RobStore(t)
  PROVE  TypeOK' /\ Shape'
<1> USE DEF RobStore
<1>1. user[t] \in Users /\ held[t] \in Packet /\ Fits(held[t]) /\ key[t] \in Keys
  BY Zenon, LocalsThere DEF Robbing, Keyed, LockHolders, Idle
<1>2. StoresOK'
  BY Zenon, <1>1 DEF TypeOK, StoresOK, mysql
<1>3. PacketsFit'
  BY <1>1 DEF TypeOK, StoresOK, Shape, PacketsFit, Live, Fits
<1>4. LocalsOK' /\ HandlersReady'
  BY Zenon, <1>1, GotoReady, PacketFields DEF TypeOK, Shape, PCs, LockHolders
<1>5. LoopOK' /\ StopReady'
  BY Zenon, OutcomeType DEF TypeOK, LoopOK, Shape, StopReady
<1>6. HistoryOK'
  BY Zenon, <1>1, PacketFields DEF TypeOK, HistoryOK
<1> QED
  BY Zenon, <1>2, <1>3, <1>4, <1>5, <1>6 DEF TypeOK, Shape

LEMMA RobPayShape ==
  ASSUME TypeOK, Shape, NEW t \in Threads, RobPay(t)
  PROVE  TypeOK' /\ Shape'
<1> USE DEF RobPay
<1>1. /\ user[t] \in Users /\ held[t] \in Packet /\ Fits(held[t]) /\ key[t] \in Keys
      /\ share[t] \in Nat /\ held[t].id \in Packets
  BY Zenon, LocalsThere, PacketFields DEF Robbing, Keyed, LockHolders, Idle, TypeOK, LocalsOK
<1>2. faults' \in 0 .. MaxFaults
  BY ZenonT(30), OutcomeType DEF TypeOK, LoopOK
<1>3. StoresOK' /\ PacketsFit'
  BY SMTT(60), <1>1, SamePacketsFit DEF TypeOK, StoresOK, Shape, mysql, redis
<1>4. CASE ~conn[t]
  BY Zenon, <1>2, <1>3, <1>4, RestartReady DEF TypeOK, Shape
<1>5. CASE conn[t]
  <2>1. LocalsOK' /\ HandlersReady'
    BY Zenon, <1>1, <1>5, GotoReady DEF TypeOK, Shape, PCs, LockHolders, Sending, Robbing
  <2>2. LoopOK' /\ StopReady'
    BY Zenon, <1>2, <1>5 DEF TypeOK, LoopOK, Shape, StopReady
  <2>3. grants' \in [Packets -> [Users -> Nat]] /\ paidOut' \in [Packets -> Nat]
    <3>1. /\ grants \in [Packets -> [Users -> Nat]] /\ paidOut \in [Packets -> Nat]
          /\ grants[held[t].id] \in [Users -> Nat]
      BY Zenon, <1>1 DEF TypeOK, HistoryOK
    <3>2. CASE UNCHANGED <<grants, paidOut>>
      BY Zenon, <3>1, <3>2
    <3>3. CASE /\ grants' = [grants EXCEPT ![held[t].id][user[t]] = @ + 1]
               /\ paidOut' = [paidOut EXCEPT ![held[t].id] = @ + share[t]]
      <4> HIDE DEF RobPay
      <4>1. [grants EXCEPT ![held[t].id][user[t]] = @ + 1] \in [Packets -> [Users -> Nat]]
        <5>1. held[t].id \in Packets /\ user[t] \in Users
          BY Zenon, <1>1
        <5> QED
          BY <3>1, <5>1, AddedNested
      <4>2. [paidOut EXCEPT ![held[t].id] = @ + share[t]] \in [Packets -> Nat]
        BY Zenon, <1>1, <3>1, AddedNat
      <4> QED
        BY ZenonT(30), <3>3, <4>1, <4>2
    <3> QED
      BY Zenon, <1>5, <3>2, <3>3
  <2>4. HistoryOK'
    BY Zenon, <1>5, <2>3 DEF TypeOK, HistoryOK
  <2> QED
    BY Zenon, <1>3, <2>1, <2>2, <2>4 DEF TypeOK, Shape
<1> QED
  BY Zenon, <1>4, <1>5

LEMMA RobUnlockShape ==
  ASSUME TypeOK, Shape, NEW t \in Threads, RobUnlock(t)
  PROVE  TypeOK' /\ Shape'
<1> USE DEF RobUnlock
<1>1. StoresOK'
  BY Zenon DEF TypeOK, StoresOK, mysql
<1>2. LocalsOK' /\ HandlersReady'
  BY SMTT(30), ReturnReady DEF TypeOK, Shape
<1>3. LoopOK'
  BY ZenonT(30), OutcomeType DEF TypeOK, LoopOK
<1>4. PacketsFit' /\ StopReady' /\ HistoryOK'
  BY ZenonT(30), SamePacketsFit DEF TypeOK, HistoryOK, Shape, StopReady, history
<1> QED
  BY Zenon, <1>1, <1>2, <1>3, <1>4 DEF TypeOK, Shape

\* What StopGet does: the process ends, or the packet of a timer is read.
LEMMA StopGetCases ==
  ASSUME TypeOK, StopGet
  PROVE  /\ faults' \in 0 .. MaxFaults /\ stop.pc = Idle
         /\ UNCHANGED <<mysql, redis>>
         /\ \/ Restart("parse")
            \/ \E tm \in timers, p \in Packet \cup {None} :
                 /\ p = packet[tm.key] \/ p = None
                 /\ stop' = [pc |-> "del", key |-> tm.key, value |-> p]
                 /\ timers' = timers \ {tm}
                 /\ taken' = IF p = None THEN taken ELSE taken \cup {p.id}
                 /\ UNCHANGED <<local, now, sent, grants, paidOut, refunded, raced,
                                lost, ended>>
<1>1. PICK tm \in timers, ok \in BOOLEAN :
        /\ Outcome(ok) /\ stop.pc = Idle /\ UNCHANGED <<mysql, redis>>
        /\ \/ Restart("parse")
           \/ /\ Read(tm.key, ok) # Stamp
              /\ stop' = [pc |-> "del", key |-> tm.key, value |-> Read(tm.key, ok)]
              /\ timers' = timers \ {tm}
              /\ taken' = IF Read(tm.key, ok) = None THEN taken
                          ELSE taken \cup {Read(tm.key, ok).id}
              /\ UNCHANGED <<local, now, sent, grants, paidOut, refunded, raced,
                             lost, ended>>
  BY Zenon DEF StopGet
<1>2. faults' \in 0 .. MaxFaults
  BY <1>1, OutcomeType DEF TypeOK, LoopOK
<1>3. tm.key \in Keys
  BY Zenon DEF TypeOK, LoopOK
<1>4. Read(tm.key, ok) = packet[tm.key] \/ Read(tm.key, ok) = None
  BY Zenon DEF Read
<1>5. Read(tm.key, ok) # Stamp => Read(tm.key, ok) \in Packet \cup {None}
  BY Zenon, <1>3, <1>4 DEF TypeOK, StoresOK
<1> QED
  BY Zenon, <1>1, <1>2, <1>4, <1>5

LEMMA StopGetShape ==
  ASSUME TypeOK, Shape, StopGet
  PROVE  TypeOK' /\ Shape'
<1>1. faults' \in 0 .. MaxFaults /\ UNCHANGED <<mysql, redis>>
  BY Zenon, StopGetCases
<1>2. StoresOK' /\ PacketsFit'
  BY Zenon, <1>1, SamePacketsFit DEF TypeOK, StoresOK, Shape, mysql, redis
<1>3. CASE Restart("parse")
  BY Zenon, <1>1, <1>2, <1>3, RestartReady DEF TypeOK, Shape
<1>4. CASE \E tm \in timers, p \in Packet \cup {None} :
             /\ stop' = [pc |-> "del", key |-> tm.key, value |-> p]
             /\ timers' = timers \ {tm}
             /\ taken' = IF p = None THEN taken ELSE taken \cup {p.id}
             /\ UNCHANGED <<local, now, sent, grants, paidOut, refunded, raced,
                            lost, ended>>
  <2>1. PICK tm \in timers, p \in Packet \cup {None} :
             /\ stop' = [pc |-> "del", key |-> tm.key, value |-> p]
             /\ timers' = timers \ {tm}
             /\ taken' = IF p = None THEN taken ELSE taken \cup {p.id}
             /\ UNCHANGED <<local, now, sent, grants, paidOut, refunded, raced,
                            lost, ended>>
    BY Zenon, <1>4
  <2>2. tm.key \in Keys
    BY DEF TypeOK, LoopOK
  <2>3. LocalsOK' /\ HandlersReady'
    BY <2>1 DEF TypeOK, LocalsOK, Shape, HandlersReady, Fits, local
  <2>4. LoopOK' /\ StopReady'
    BY <1>1, <2>1, <2>2 DEF TypeOK, LoopOK, StopReady
  <2>5. HistoryOK'
    BY Zenon, <2>1, PacketFields DEF TypeOK, HistoryOK
  <2> QED
    BY Zenon, <1>2, <2>3, <2>4, <2>5 DEF TypeOK, Shape
<1> QED
  BY Zenon, <1>3, <1>4, StopGetCases

\* The value and the key of a StopRobHongbao in progress.
LEMMA StopThere ==
  ASSUME TypeOK, Shape
  PROVE  /\ stop.pc # Idle => stop.key \in Keys
         /\ stop.value \in Packet \cup {None}
         /\ stop.pc = "refund" => stop.value \in Packet
         /\ stop = [pc |-> stop.pc, key |-> stop.key, value |-> stop.value]
BY DEF TypeOK, LoopOK, Shape, StopReady

LEMMA StopDelShape ==
  ASSUME TypeOK, Shape, StopDel
  PROVE  TypeOK' /\ Shape'
<1> USE DEF StopDel
<1>1. stop.key \in Keys /\ stop.value \in Packet \cup {None}
  BY StopThere DEF Idle
<1>2. StoresOK' /\ PacketsFit'
  BY <1>1 DEF TypeOK, StoresOK, Shape, PacketsFit, Live, Fits, mysql
<1>3. LocalsOK' /\ HandlersReady'
  BY DEF TypeOK, LocalsOK, Shape, HandlersReady, Fits, local
<1>4. stop' = [pc |-> "row", key |-> stop.key, value |-> stop.value]
  BY StopThere
<1>5. LoopOK' /\ StopReady'
  BY <1>1, <1>4, OutcomeType DEF TypeOK, LoopOK, StopReady
<1>6. HistoryOK'
  BY Zenon, <1>1, PacketFields DEF TypeOK, HistoryOK
<1> QED
  BY <1>2, <1>3, <1>5, <1>6 DEF TypeOK, Shape

LEMMA StopRowShape ==
  ASSUME TypeOK, Shape, StopRow
  PROVE  TypeOK' /\ Shape'
<1> USE DEF StopRow
<1>1. stop.key \in Keys /\ stop.value \in Packet \cup {None}
  BY Zenon, StopThere DEF Idle
<1>2. LeftCount(stop.value) \in Nat
      /\ RobLog(stop.value) \in SUBSET [name : Users, money : Nat]
  BY Zenon, <1>1, PacketFields DEF LeftCount, RobLog
<1>3. \A r \in Row : [r EXCEPT !.leftcount = LeftCount(stop.value),
                               !.roblog = RobLog(stop.value), !.settled = TRUE] \in Row
  BY ZenonT(30), <1>2 DEF Row
<1>4. rows' \in [Packets -> Row \cup {None}]
  BY ZenonT(30), <1>3 DEF TypeOK, StoresOK
<1>5. StoresOK' /\ PacketsFit'
  BY Zenon, <1>4, SamePacketsFit DEF TypeOK, StoresOK, Shape, redis
<1>6. LocalsOK' /\ HandlersReady'
  BY Zenon DEF TypeOK, LocalsOK, Shape, HandlersReady, Fits, local
<1>7. \/ stop' = NoStop
      \/ /\ stop' = [pc |-> "refund", key |-> stop.key, value |-> stop.value]
         /\ stop.value # None
  BY Zenon, StopThere DEF Refundable, LeftCount
<1>8. LoopOK' /\ StopReady'
  <2>1. faults' \in 0 .. MaxFaults
    BY Zenon, OutcomeType DEF TypeOK, LoopOK
  <2>2. CASE stop' = NoStop
    BY Zenon, <2>1, <2>2 DEF TypeOK, LoopOK, StopReady, NoStop, Idle
  <2>3. CASE /\ stop' = [pc |-> "refund", key |-> stop.key, value |-> stop.value]
             /\ stop.value # None
    BY Zenon, <1>1, <2>1, <2>3 DEF TypeOK, LoopOK, StopReady
  <2> QED
    BY Zenon, <1>7, <2>2, <2>3
<1>9. HistoryOK'
  BY Zenon DEF TypeOK, HistoryOK, history
<1> QED
  BY Zenon, <1>5, <1>6, <1>8, <1>9 DEF TypeOK, Shape

LEMMA StopRefundShape ==
  ASSUME TypeOK, Shape, StopRefund
  PROVE  TypeOK' /\ Shape'
<1> USE DEF StopRefund
<1>1. stop.value \in Packet
  BY Zenon, StopThere
<1>2. /\ stop.value.id \in Packets /\ stop.value.sender \in Users
      /\ Refund(stop.value) \in Nat
  BY Zenon, <1>1, PacketFields DEF Refund
<1>3. StoresOK' /\ PacketsFit'
  BY <1>2, SamePacketsFit DEF TypeOK, StoresOK, Shape, redis
<1>4. LocalsOK' /\ HandlersReady'
  BY ZenonT(30) DEF TypeOK, LocalsOK, Shape, HandlersReady, Fits, local
<1>5. LoopOK' /\ StopReady'
  BY Zenon, OutcomeType DEF TypeOK, LoopOK, StopReady, NoStop, Idle
<1>6. HistoryOK'
  BY <1>2 DEF TypeOK, HistoryOK
<1> QED
  BY Zenon, <1>3, <1>4, <1>5, <1>6 DEF TypeOK, Shape

LEMMA TickCrashShape ==
  ASSUME TypeOK, Shape, Tick \/ Crash
  PROVE  TypeOK' /\ Shape'
<1>1. StoresOK' /\ PacketsFit'
  BY SamePacketsFit DEF Tick, Crash, TypeOK, StoresOK, Shape, mysql, redis
<1>2. CASE Tick
  <2>1. LocalsOK' /\ HandlersReady'
    BY ZenonT(30), <1>2 DEF Tick, TypeOK, LocalsOK, Shape, HandlersReady, Fits, local
  <2>2. LoopOK' /\ StopReady' /\ HistoryOK'
    BY SMTT(60), <1>2, HongbaoConstants DEF Tick, TypeOK, LoopOK, HistoryOK, Shape, StopReady, history
  <2> QED
    BY Zenon, <1>1, <2>1, <2>2 DEF TypeOK, Shape
<1>3. CASE Crash
  <2>1. faults' \in 0 .. MaxFaults
    BY <1>3 DEF Crash, TypeOK, LoopOK
  <2> QED
    BY Zenon, <1>1, <1>3, <2>1, RestartReady DEF Crash, TypeOK, Shape
<1> QED
  BY ZenonT(30), <1>2, <1>3

-----------------------------------------------------------------------------
(* Most steps leave the packets alone *)

SameLocals(t) ==
  /\ pc'[t] = pc[t] /\ user'[t] = user[t] /\ key'[t] = key[t]
  /\ held'[t] = held[t] /\ share'[t] = share[t]

\* A send goes on with the packet it has.
Onward(t) ==
  /\ user'[t] = user[t] /\ key'[t] = key[t] /\ held'[t] = held[t]
  /\ \/ pc[t] = "deduct" /\ pc'[t] = "store"
     \/ pc[t] = "insert" /\ pc'[t] = "schedule"

SameRequests ==
  \A id \in Packets :
    /\ sent'[id] = None <=> sent[id] = None
    /\ sent'[id].sender = sent[id].sender /\ sent'[id].money = sent[id].money
    /\ sent'[id].key = sent[id].key

\* No packet is made, changed, paid or refunded; copies of it may be dropped.
Calm ==
  /\ \A t \in Threads :
       SameLocals(t) \/ Onward(t) \/ pc'[t] \notin Sending \cup Robbing
  /\ \A k \in Keys : packet'[k] = packet[k] \/ packet'[k] \in {None, Stamp}
  /\ \/ stop'.value = None
     \/ /\ stop'.value = stop.value /\ stop'.key = stop.key
        /\ stop.pc = "del" => stop'.pc = "del"
  /\ SameRequests
  /\ UNCHANGED <<grants, paidOut, refunded, taken, raced, lost>>

LEMMA CalmOwned ==
  ASSUME TypeOK, Shape, Owned, Calm
  PROVE  Owned'
<1> USE DEF Owned, Copy, SameRequests
<1>0. \A t \in Threads : pc[t] \in Sending \cup Robbing => held[t].id \in Packets
  BY Zenon, LocalsThere, PacketFields
<1>a. \A t \in Threads :
        /\ pc'[t] \in Sending =>
             /\ pc[t] \in Sending /\ held'[t] = held[t] /\ user'[t] = user[t]
             /\ pc'[t] \in {"deduct", "store"} => pc[t] \in {"deduct", "store"}
        /\ pc'[t] \in Robbing =>
             pc[t] \in Robbing /\ held'[t] = held[t] /\ key'[t] = key[t]
  BY DEF Calm, SameLocals, Onward, Sending, Robbing
<1>b. SameRequests
  BY Zenon DEF Calm
<1>1. StoredOwned'
  <2> SUFFICES ASSUME NEW k \in Keys, Live(k)'
               PROVE  /\ Copy(packet[k])' /\ packet'[k].sender = Sender(k)
                      /\ sent'[packet'[k].id].key = k
    BY DEF StoredOwned
  <2>1. packet'[k] = packet[k] /\ Live(k)
    BY DEF Calm, Live
  <2>2. packet[k].id \in Packets
    BY Zenon, <2>1, StoredPacket, PacketFields
  <2> QED
    BY SMTT(60), <1>b, <2>1, <2>2 DEF StoredOwned
<1>2. SendOwned'
  <2> SUFFICES ASSUME NEW t \in Threads, pc'[t] \in Sending
               PROVE  /\ Copy(held[t])' /\ held'[t].sender = user'[t]
                      /\ pc'[t] \in {"deduct", "store"} =>
                           /\ sent'[held'[t].id].key = None
                           /\ held'[t].leftmoney = sent'[held'[t].id].money
    BY DEF SendOwned, Sending
  <2>1. /\ pc[t] \in Sending /\ held'[t] = held[t] /\ user'[t] = user[t]
        /\ pc'[t] \in {"deduct", "store"} => pc[t] \in {"deduct", "store"}
    BY Zenon, <1>a
  <2>2. held[t].id \in Packets
    BY Zenon, <1>0, <2>1
  <2> QED
    BY SMTT(60), <1>b, <2>1, <2>2 DEF SendOwned
<1>3. RobOwned'
  BY SMTT(60), <1>0, <1>a, <1>b DEF RobOwned
<1>4. SendsDistinct'
  BY Zenon, <1>a DEF SendsDistinct
<1>5. StopOwned'
  <2>1. stop.value # None => stop.value.id \in Packets
    BY StopThere, PacketFields
  <2> QED
    BY <2>1 DEF Calm, StopOwned
<1>6. Fresh'
  BY DEF Calm, Fresh, Unstored
<1> QED
  BY <1>1, <1>2, <1>3, <1>4, <1>5, <1>6

LEMMA CalmListed ==
  ASSUME TypeOK, Shape, Listed, Calm
  PROVE  Listed'
<1> USE DEF Listed
<1>0. \A t \in Threads : pc[t] \in Robbing => held[t].id \in Packets
  BY LocalsThere, PacketFields
<1>1. \A id \in Packets : Protected(id)' <=> Protected(id)
  BY DEF Calm, SameRequests, Protected
<1>2. \A k \in Keys : Live(k)' =>
        packet'[k] = packet[k] /\ Live(k) /\ packet[k].id \in Packets
  BY StoredPacket, PacketFields DEF Calm, Live
<1>3. \A t \in Threads : pc'[t] \in Robbing => SameLocals(t)
  BY DEF Calm, Onward, Robbing
<1>4. grants' = grants
  BY DEF Calm
<1>5. StoredListed'
  BY <1>1, <1>2, <1>4 DEF StoredListed, HasRobbed
<1>6. RobberListed'
  BY <1>0, <1>1, <1>3, <1>4 DEF RobberListed, HasRobbed, SameLocals
<1>7. DrawnListed'
  BY <1>0, <1>1, <1>3, <1>4 DEF DrawnListed, HasRobbed, SameLocals, Robbing
<1>8. PayeeListed'
  BY <1>0, <1>1, <1>2, <1>3 DEF PayeeListed, HasRobbed, SameLocals, Robbing
<1>9. PaidOnce'
  BY <1>1, <1>4 DEF PaidOnce
<1> QED
  BY <1>5, <1>6, <1>7, <1>8, <1>9

LEMMA CalmFunded ==
  ASSUME TypeOK, Shape, Funded, Calm
  PROVE  Funded'
<1> USE DEF Funded
<1>0. \A t \in Threads : pc[t] \in Robbing => held[t].id \in Packets
  BY LocalsThere, PacketFields
<1>1. \A id \in Packets : /\ Sound(id)' <=> Sound(id)
                          /\ Spent(id)' = Spent(id) /\ sent'[id].money = sent[id].money
  BY DEF Calm, SameRequests, Protected, Sound, Spent
<1>2. \A k \in Keys : Live(k)' =>
        packet'[k] = packet[k] /\ Live(k) /\ packet[k].id \in Packets
  BY StoredPacket, PacketFields DEF Calm, Live
<1>3. \A t \in Threads : pc'[t] \in Robbing => SameLocals(t)
  BY DEF Calm, Onward, Robbing
<1>4. /\ taken' = taken
      /\ stop'.value # None => /\ stop'.value = stop.value /\ stop.value.id \in Packets
                               /\ stop.pc = "del" => stop'.pc = "del"
  BY StopThere, PacketFields DEF Calm
<1>5. StoredFunded'
  BY Zenon, <1>1, <1>2, <1>4 DEF StoredFunded
<1>6. DrawnFunded'
  BY SMTT(60), <1>0, <1>1, <1>3, <1>4 DEF DrawnFunded, SameLocals, Robbing
<1>7. PayFunded'
  BY ZenonT(60), <1>0, <1>1, <1>3 DEF PayFunded, SameLocals, Robbing
<1>8. PayStoredFunded'
  <2> SUFFICES ASSUME NEW t \in Threads, NEW k \in Keys, pc'[t] = "pay", Live(k)',
                      packet'[k].id = held'[t].id, Sound(held[t].id)'
               PROVE  Spent(held[t].id)' + share'[t] + packet'[k].leftmoney
                        <= sent'[held'[t].id].money
    BY DEF PayStoredFunded
  <2>1. pc[t] = "pay" /\ held'[t] = held[t] /\ share'[t] = share[t]
    BY <1>3 DEF SameLocals, Robbing
  <2>2. held[t].id \in Packets
    BY <1>0, <2>1 DEF Robbing
  <2>3. Sound(held[t].id) /\ Spent(held[t].id)' = Spent(held[t].id)
    BY Zenon, <1>1, <2>1, <2>2 DEF Sound, Spent, Protected
  <2> QED
    BY <1>1, <1>2, <2>1, <2>2, <2>3 DEF PayStoredFunded
<1>9. StopFunded'
  BY <1>1, <1>4 DEF StopFunded
<1>10. PayStopFunded'
  BY SMTT(60), <1>0, <1>1, <1>3, <1>4 DEF PayStopFunded, SameLocals, Robbing
<1>11. PayoutBounded'
  BY Zenon, <1>1 DEF PayoutBounded, Sound, Spent
<1> QED
  BY Zenon, <1>5, <1>6, <1>7, <1>8, <1>9, <1>10, <1>11

\* After a restart every thread is idle and nothing of a packet has changed.
LEMMA RestartCalm ==
  ASSUME TypeOK, NEW why, Restart(why),
         \A k \in Keys : packet'[k] = packet[k] \/ packet'[k] \in {None, Stamp}
  PROVE  Calm
BY DEF Restart, Calm, SameRequests, NoStop, Idle, Sending, Robbing, TypeOK

LEMMA ReturnCalm ==
  ASSUME TypeOK, NEW t \in Threads, Return(t)
  PROVE  \A o \in Threads : SameLocals(o) \/ pc'[o] \notin Sending \cup Robbing
BY DEF Return, SameLocals, Idle, Sending, Robbing, TypeOK, LocalsOK

LEMMA GotoCalm ==
  ASSUME TypeOK, NEW t \in Threads, NEW l, l \notin Sending \cup Robbing, Goto(t, l)
  PROVE  \A o \in Threads : SameLocals(o) \/ pc'[o] \notin Sending \cup Robbing
BY ZenonT(30) DEF Goto, SameLocals, TypeOK, LocalsOK

LEMMA LoginCalm ==
  ASSUME TypeOK, NEW t \in Threads, LoginStep(t)
  PROVE  Calm
<1>1. \A o \in Threads : SameLocals(o) \/ pc'[o] \notin Sending \cup Robbing
  <2>1. CASE LoginSession(t)
    BY <2>1, ReturnCalm DEF LoginSession
  <2>2. CASE \E u \in Senders : LoginQuery(t, u)
    BY <2>2 DEF LoginQuery, SameLocals, Sending, Robbing, TypeOK, LocalsOK
  <2> QED
    BY ZenonT(30), <2>1, <2>2 DEF LoginStep
<1> QED
  BY ZenonT(30), <1>1 DEF LoginStep, LoginQuery, LoginSession, Calm, SameRequests, redis, history

LEMMA SendCalm ==
  ASSUME TypeOK, Shape, Owned, NEW t \in Threads,
         SendDeduct(t) \/ SendInsert(t) \/ SendSchedule(t)
  PROVE  Calm
<1>1. CASE SendDeduct(t) \/ SendInsert(t)
  <2>1. \A o \in Threads : SameLocals(o) \/ Onward(o)
    <3>1. \A o \in Threads \ {t} : SameLocals(o)
      BY ZenonT(30), <1>1 DEF SendDeduct, SendInsert, Goto, SameLocals, TypeOK, LocalsOK
    <3>2. CASE SendDeduct(t)
      <4>1. pc[t] = "deduct" /\ Goto(t, "store")
        BY Zenon, <3>2 DEF SendDeduct
      <4> QED
        BY Zenon, <3>1, <4>1 DEF Goto, Onward, TypeOK, LocalsOK
    <3>3. CASE SendInsert(t)
      BY Zenon, <3>1, <3>3 DEF SendInsert, Goto, Onward, TypeOK, LocalsOK
    <3> QED
      BY ZenonT(30), <1>1, <3>2, <3>3
  <2> QED
    BY Zenon, <1>1, <2>1 DEF SendDeduct, SendInsert, Calm, SameRequests, redis, history
<1>2. CASE SendSchedule(t)
  <2>1. \A o \in Threads : SameLocals(o) \/ pc'[o] \notin Sending \cup Robbing
    BY Zenon, <1>2, ReturnCalm DEF SendSchedule
  <2>2. held[t] \in Packet /\ held[t].id \in Packets
    BY Zenon, <1>2, LocalsThere, PacketFields DEF SendSchedule, Sending
  <2>3. sent[held[t].id] \in Request
    BY ZenonT(30), <1>2, <2>2 DEF SendSchedule, Owned, SendOwned, Copy, Sending, TypeOK, HistoryOK
  <2>4. SameRequests
    <3>1. SUFFICES ASSUME NEW id \in Packets
                   PROVE  /\ sent'[id] = None <=> sent[id] = None
                          /\ sent'[id].sender = sent[id].sender
                          /\ sent'[id].money = sent[id].money
                          /\ sent'[id].key = sent[id].key
      BY DEF SameRequests
    <3>2. CASE id # held[t].id
      BY Zenon, <1>2, <3>2 DEF SendSchedule, TypeOK, HistoryOK
    <3>3. CASE id = held[t].id
      <4>1. sent'[id] = [sent[id] EXCEPT !.told = TRUE]
        BY Zenon, <1>2, <3>3 DEF SendSchedule, TypeOK, HistoryOK
      <4>2. sent'[id] \in Request
        BY Zenon, <2>3, <3>3, <4>1 DEF Request
      <4> QED
        BY Zenon, <2>3, <3>3, <4>1, <4>2, RequestFields DEF Request
    <3> QED
      BY <3>2, <3>3
  <2> QED
    BY <1>2, <2>1, <2>4 DEF SendSchedule, Calm, redis
<1> QED
  BY Zenon, <1>1, <1>2

LEMMA LockCalm ==
  ASSUME TypeOK, Shape, NEW t \in Threads,
         \/ \E u \in Users, k \in Keys : RobLock(t, u, k)
         \/ RobLockGet(t) \/ RobLockGetSet(t) \/ RobUnlock(t)
  PROVE  Calm
<1>1. CASE \E u \in Users, k \in Keys : RobLock(t, u, k)
  <2>1. \A o \in Threads : SameLocals(o) \/ pc'[o] \notin Sending \cup Robbing
    <3>1. PICK u \in Users, k \in Keys : RobLock(t, u, k)
      BY Zenon, <1>1
    <3> SUFFICES ASSUME NEW o \in Threads
                 PROVE  SameLocals(o) \/ pc'[o] \notin Sending \cup Robbing
      OBVIOUS
    <3>2. CASE o = t
      <4>1. pc'[t] \in {"getpb", "lockget"}
        BY ZenonT(60), <3>1 DEF RobLock, TypeOK, LocalsOK
      <4> QED
        BY SMTT(30), <3>2, <4>1 DEF Sending, Robbing
    <3>3. CASE o # t
      <4>1. pc'[o] = pc[o]
        BY ZenonT(60), <3>1, <3>3 DEF RobLock, TypeOK, LocalsOK
      <4> QED
        BY ZenonT(30), <3>1, <3>3, <4>1 DEF RobLock, SameLocals, TypeOK, LocalsOK
    <3> QED
      BY Zenon, <3>2, <3>3
  <2> QED
    BY ZenonT(30), <1>1, <2>1 DEF RobLock, Calm, SameRequests, history
<1>2. CASE RobLockGet(t) \/ RobLockGetSet(t)
  <2>1. key[t] \in Keys
    BY Zenon, <1>2, LocalsThere DEF RobLockGet, RobLockGetSet, Keyed
  <2>2. \A k \in Keys : packet'[k] = packet[k] \/ packet'[k] \in {None, Stamp}
    BY Zenon, <1>2, <2>1 DEF RobLockGet, RobLockGetSet, redis, TypeOK, StoresOK
  <2>3. \/ Restart("lock")
        \/ /\ Goto(t, "getset") \/ Goto(t, "getpb") \/ Return(t)
           /\ UNCHANGED <<timers, stop, now, history>>
    BY Zenon, <1>2 DEF RobLockGet, RobLockGetSet
  <2>4. CASE Restart("lock")
    BY Zenon, <2>2, <2>4, RestartCalm
  <2>5. CASE /\ Goto(t, "getset") \/ Goto(t, "getpb") \/ Return(t)
             /\ UNCHANGED <<timers, stop, now, history>>
    <3>1. \A o \in Threads : SameLocals(o) \/ pc'[o] \notin Sending \cup Robbing
      BY Zenon, <2>5, GotoCalm, ReturnCalm DEF Sending, Robbing
    <3> QED
      BY Zenon, <2>2, <2>5, <3>1 DEF Calm, SameRequests, history
  <2> QED
    BY Zenon, <2>3, <2>4, <2>5
<1>3. CASE RobUnlock(t)
  <2>1. \A o \in Threads : SameLocals(o) \/ pc'[o] \notin Sending \cup Robbing
    BY ZenonT(30), <1>3, ReturnCalm DEF RobUnlock
  <2> QED
    BY ZenonT(30), <1>3, <2>1 DEF RobUnlock, Calm, SameRequests, history
<1> QED
  BY SMTT(30), <1>1, <1>2, <1>3

LEMMA LoopCalm ==
  ASSUME TypeOK, Shape, StopRow \/ Tick \/ Crash
  PROVE  Calm
<1>1. CASE StopRow
  <2>1. \A o \in Threads : SameLocals(o)
    BY Zenon, <1>1 DEF StopRow, SameLocals, local
  <2>2. \/ stop'.value = None
        \/ /\ stop'.value = stop.value /\ stop'.key = stop.key
           /\ stop.pc = "del" => stop'.pc = "del"
    <3>1. CASE stop' = NoStop
      BY Zenon, <3>1 DEF NoStop
    <3>2. CASE stop' = [stop EXCEPT !.pc = "refund"]
      BY ZenonT(30), <1>1, <3>2, StopThere DEF StopRow
    <3> QED
      BY Zenon, <1>1, <3>1, <3>2 DEF StopRow
  <2> QED
    BY Zenon, <1>1, <2>1, <2>2 DEF StopRow, Calm, SameRequests, redis, history
<1>2. CASE Tick
  BY ZenonT(30), <1>2 DEF Tick, Calm, SameLocals, SameRequests, redis, local, history
<1>3. CASE Crash
  BY ZenonT(30), <1>3, RestartCalm DEF Crash, redis
<1> QED
  BY Zenon, <1>1, <1>2, <1>3

-----------------------------------------------------------------------------
(* Every step keeps Locked *)

\* Threads stay inside the lock, leave it by the end of the process, or enter
\* it for a packet that the lock does not protect.
LEMMA HoldersKeep ==
  ASSUME TypeOK, Locked, lock' = lock,
         \A t \in Threads : pc'[t] \in LockHolders =>
           /\ key'[t] = key[t]
           /\ pc[t] \in LockHolders \/ Sender(key[t]) \in NumericSenders
  PROVE  Locked'
BY DEF Locked, LockExclusion, Sender

\* A thread that moves to a place outside the lock.
LEMMA OutsideLock ==
  ASSUME TypeOK, NEW t \in Threads, NEW at, NEW k, at \notin LockHolders,
         pc' = [pc EXCEPT ![t] = at],
         key' = key \/ key' = [key EXCEPT ![t] = k]
  PROVE  \A o \in Threads : pc'[o] \in LockHolders => o # t /\ pc[o] = pc'[o] /\ key'[o] = key[o]
BY DEF TypeOK, LocalsOK

LEMMA LoginSendLocked ==
  ASSUME TypeOK, Shape, Locked, NEW t \in Threads, LoginStep(t) \/ SendStep(t)
  PROVE  Locked'
<1>1. lock' = lock
  BY ZenonT(30) DEF LoginStep, LoginQuery, LoginSession, SendStep, SendCheck, SendDeduct, SendStore,
     SendInsert, SendSchedule, redis
<1>2. \A o \in Threads : pc'[o] \in LockHolders => o # t /\ pc[o] = pc'[o] /\ key'[o] = key[o]
  <2>0. {Idle, "session", "deduct", "store", "insert", "schedule"} \cap LockHolders = {}
    BY DEF Idle, LockHolders
  <2>1. CASE \E u \in Senders : LoginQuery(t, u)
    <3>1. pc' = [pc EXCEPT ![t] = "session"] /\ key' = key
      BY Zenon, <2>1 DEF LoginQuery
    <3> QED
      BY Zenon, <2>0, <3>1, OutsideLock
  <2>2. CASE LoginSession(t)
    <3>1. pc' = [pc EXCEPT ![t] = Idle] /\ key' = [key EXCEPT ![t] = None]
      BY Zenon, <2>2 DEF LoginSession, Return
    <3> QED
      BY Zenon, <2>0, <3>1, OutsideLock
  <2>3. CASE \E u \in Senders, m \in Amounts, n \in Counts, id \in Packets :
               SendCheck(t, u, m, n, id)
    <3>1. pc' = [pc EXCEPT ![t] = "deduct"] /\ key' = key
      BY Zenon, <2>3 DEF SendCheck
    <3> QED
      BY Zenon, <2>0, <3>1, OutsideLock
  <2>4. CASE SendDeduct(t)
    <3>1. pc' = [pc EXCEPT ![t] = "store"] /\ key' = key
      BY Zenon, <2>4 DEF SendDeduct, Goto
    <3> QED
      BY Zenon, <2>0, <3>1, OutsideLock
  <2>5. CASE SendStore(t)
    <3>1. pc' = [pc EXCEPT ![t] = "insert"] /\ key' = [key EXCEPT ![t] = <<user[t], now>>]
      BY Zenon, <2>5 DEF SendStore
    <3> QED
      BY Zenon, <2>0, <3>1, OutsideLock
  <2>6. CASE SendInsert(t)
    <3>1. pc' = [pc EXCEPT ![t] = "schedule"] /\ key' = key
      BY Zenon, <2>6 DEF SendInsert, Goto
    <3> QED
      BY Zenon, <2>0, <3>1, OutsideLock
  <2>7. CASE SendSchedule(t)
    <3>1. pc' = [pc EXCEPT ![t] = Idle] /\ key' = [key EXCEPT ![t] = None]
      BY Zenon, <2>7 DEF SendSchedule, Return
    <3> QED
      BY Zenon, <2>0, <3>1, OutsideLock
  <2> QED
    BY Zenon, <2>1, <2>2, <2>3, <2>4, <2>5, <2>6, <2>7 DEF LoginStep, SendStep
<1> QED
  BY Zenon, <1>1, <1>2, HoldersKeep

LEMMA RestartLocked ==
  ASSUME TypeOK, Locked, lock' = lock, NEW why, Restart(why)
  PROVE  Locked'
<1>1. \A t \in Threads : pc'[t] \notin LockHolders
  BY DEF Restart, Idle, LockHolders
<1> QED
  BY <1>1, HoldersKeep

LEMMA RobLockLocked ==
  ASSUME TypeOK, Shape, Locked, NEW t \in Threads, NEW u \in Users, NEW k \in Keys,
         RobLock(t, u, k)
  PROVE  Locked'
<1> USE DEF RobLock
<1>1. \A o \in Threads \ {t} : pc'[o] = pc[o] /\ key'[o] = key[o]
  BY Zenon DEF TypeOK, LocalsOK
<1>2. key'[t] = k
  BY Zenon DEF TypeOK, LocalsOK
<1>3. CASE lock' = [lock EXCEPT ![k] = TRUE] /\ SetNx(k)
  <2>1. lock'[k] /\ ~lock[k] /\ \A j \in Keys : lock[j] => lock'[j]
    BY Zenon, <1>3 DEF SetNx, TypeOK, StoresOK
  <2>2. \A o \in Threads : pc[o] \in LockHolders => key[o] \in Keys
    BY Zenon, LocalsThere DEF Keyed
  <2>3. \A o \in Threads \ {t} :
          pc[o] \in LockHolders /\ Sender(key[o]) \notin NumericSenders => key[o] # k
    BY <2>1 DEF Locked
  <2>4. LockExclusion'
    <3> HIDE DEF RobLock
    <3> QED
      BY ZenonT(30), <1>1, <1>2, <2>3 DEF Locked, LockExclusion
  <2>5. \A o \in Threads : pc'[o] \in LockHolders /\ Sender(key'[o]) \notin NumericSenders
                             => lock'[key'[o]]
    <3> HIDE DEF RobLock
    <3> QED
      BY ZenonT(30), <1>1, <1>2, <2>1, <2>2 DEF Locked
  <2> QED
    BY Zenon, <2>4, <2>5 DEF Locked
<1>4. CASE lock' = lock /\ pc' = [pc EXCEPT ![t] = "lockget"]
  <2>1. pc'[t] \notin LockHolders
    BY Zenon, <1>4 DEF TypeOK, LocalsOK, LockHolders
  <2> QED
    BY Zenon, <1>1, <1>4, <2>1, HoldersKeep
<1> QED
  BY Zenon, <1>3, <1>4

\* Only a packet whose bytes read as a past time lets a thread in past the lock.
LEMMA LockGetLocked ==
  ASSUME TypeOK, Shape, Owned, Locked, NEW t \in Threads, RobLockGet(t) \/ RobLockGetSet(t)
  PROVE  Locked'
<1>1. key[t] \in Keys /\ pc[t] \notin LockHolders
  BY ZenonT(30), LocalsThere DEF RobLockGet, RobLockGetSet, Keyed, LockHolders
<1>2. lock' = lock
  BY ZenonT(30) DEF RobLockGet, RobLockGetSet, redis
<1>3. CASE Restart("lock")
  BY Zenon, <1>2, <1>3, RestartLocked
<1>4. CASE Goto(t, "getset") \/ Return(t)
  BY Zenon, <1>2, <1>4, HoldersKeep DEF Goto, Return, Idle, LockHolders, TypeOK, LocalsOK
<1>5. CASE RobLockGetSet(t) /\ Goto(t, "getpb")
           /\ \E ok \in BOOLEAN : StoiIsPast(Read(key[t], ok))
  <2>1. PICK ok \in BOOLEAN : StoiIsPast(Read(key[t], ok))
    BY <1>5
  <2>2. /\ Read(key[t], ok) # None /\ Read(key[t], ok) # Stamp
        /\ Read(key[t], ok).sender \in NumericSenders
    BY Zenon, <2>1 DEF StoiIsPast, StoiThrows
  <2>3. Live(key[t]) /\ packet[key[t]].sender \in NumericSenders
    BY Zenon, <2>2 DEF Read, Live
  <2>4. Sender(key[t]) \in NumericSenders
    BY Zenon, <1>1, <2>3 DEF Owned, StoredOwned
  <2> QED
    BY Zenon, <1>2, <1>5, <2>4, HoldersKeep DEF Goto, TypeOK, LocalsOK
<1> QED
  BY Zenon, <1>3, <1>4, <1>5 DEF RobLockGet, RobLockGetSet

LEMMA RobLocked ==
  ASSUME TypeOK, Shape, Locked, NEW t \in Threads, RobGet(t) \/ RobStore(t) \/ RobPay(t)
  PROVE  Locked'
<1>1. pc[t] \in LockHolders /\ lock' = lock
  BY Zenon DEF RobGet, RobStore, RobPay, LockHolders, redis
<1>2. \/ \E why \in {"parse", "nullconn"} : Restart(why)
      \/ key' = key /\ \A o \in Threads \ {t} : pc'[o] = pc[o]
  <2>1. CASE RobGet(t)
    <3>1. CASE Goto(t, "unlock")
      BY Zenon, <3>1 DEF Goto, TypeOK, LocalsOK
    <3>2. CASE RobGrant(t, packet[key[t]])
      BY Zenon, <3>2 DEF RobGrant, TypeOK, LocalsOK
    <3> QED
      BY Zenon, <2>1, <3>1, <3>2, RobGetCases
  <2>2. CASE RobStore(t) \/ RobPay(t)
    BY Zenon, <2>2 DEF RobStore, RobPay, Goto, TypeOK, LocalsOK
  <2> QED
    BY Zenon, <2>1, <2>2
<1>3. CASE key' = key /\ \A o \in Threads \ {t} : pc'[o] = pc[o]
  BY Zenon, <1>1, <1>3, HoldersKeep
<1> QED
  BY Zenon, <1>1, <1>2, <1>3, RestartLocked

LEMMA RobUnlockLocked ==
  ASSUME TypeOK, Shape, Locked, NEW t \in Threads, RobUnlock(t)
  PROVE  Locked'
<1> USE DEF RobUnlock
<1>1. pc[t] \in LockHolders /\ key[t] \in Keys
  BY Zenon, LocalsThere DEF LockHolders, Keyed
<1>2. \A o \in Threads : pc[o] \in LockHolders => key[o] \in Keys
  BY Zenon, LocalsThere DEF Keyed
<1>3. \A o \in Threads : pc'[o] \in LockHolders =>
        o # t /\ pc[o] = pc'[o] /\ key'[o] = key[o]
  BY Zenon DEF Return, Idle, LockHolders, TypeOK, LocalsOK
<1>4. \A k \in Keys : k # key[t] => lock'[k] = lock[k]
  BY Zenon, <1>1 DEF TypeOK, StoresOK
<1>5. \A o \in Threads : pc'[o] \in LockHolders /\ Sender(key'[o]) \notin NumericSenders
        => key[o] # key[t] /\ key[o] \in Keys /\ lock[key[o]]
  BY Zenon, <1>1, <1>2, <1>3 DEF Locked, LockExclusion
<1> QED
  BY Zenon, <1>3, <1>4, <1>5 DEF Locked, LockExclusion

LEMMA LoopLocked ==
  ASSUME TypeOK, Locked, StopStep \/ Tick \/ Crash
  PROVE  Locked'
<1>1. lock' = lock
  BY Zenon, StopGetCases DEF StopStep, StopDel, StopRow, StopRefund, Tick, Crash, redis
<1>2. \/ \E why \in {"parse", "crash"} : Restart(why)
      \/ pc' = pc /\ key' = key
  BY Zenon, StopGetCases DEF StopStep, StopDel, StopRow, StopRefund, Tick, Crash, local
<1>3. CASE pc' = pc /\ key' = key
  BY <1>1, <1>3, HoldersKeep
<1> QED
  BY Zenon, <1>1, <1>2, <1>3, RestartLocked
=============================================================================

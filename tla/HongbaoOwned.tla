---------------------------- MODULE HongbaoOwned ----------------------------
(* Every step of Hongbao keeps Owned and Listed. *)
EXTENDS HongbaoShape

-----------------------------------------------------------------------------
(* The steps that make, change, pay or refund a packet keep Owned *)

LEMMA SendCheckOwned ==
  ASSUME TypeOK, Shape, Owned, NEW t \in Threads, NEW u \in Senders, NEW m \in Amounts,
         NEW n \in Counts, NEW id \in Packets, SendCheck(t, u, m, n, id)
  PROVE  Owned'
<1> DEFINE p == NewPacket(id, u, m, n)
<1> USE DEF SendCheck
<1>1. u \in Users /\ m \in Nat /\ n \in Nat
  BY HongbaoConstants
<1>2. p \in Packet /\ p.id = id /\ p.sender = u /\ p.leftmoney = m
  BY Zenon, <1>1, NewPacketType DEF NewPacket
<1>3. /\ \A o \in Threads \ {t} : pc'[o] = pc[o] /\ held'[o] = held[o] /\ user'[o] = user[o]
      /\ pc'[t] = "deduct" /\ held'[t] = p /\ user'[t] = u
      /\ key' = key
  BY DEF TypeOK, LocalsOK
<1>4. /\ \A i \in Packets \ {id} : sent'[i] = sent[i]
      /\ sent[id] = None
      /\ sent'[id].sender = u /\ sent'[id].money = m /\ sent'[id].key = None
  BY Zenon DEF TypeOK, HistoryOK
<1>5. sent'[id] # None
  <2>1. [sender |-> u, money |-> m, key |-> None, told |-> FALSE] \in Request
    BY SMTT(30), <1>1 DEF Request
  <2> QED
    BY Zenon, <2>1, RequestFields DEF TypeOK, HistoryOK
<1>6. \A o \in Threads : pc[o] \in Sending \cup Robbing =>
        held[o].id \in Packets \ {id} /\ o # t
  <2> SUFFICES ASSUME NEW o \in Threads, pc[o] \in Sending \cup Robbing
               PROVE  held[o].id \in Packets \ {id} /\ o # t
    OBVIOUS
  <2>1. o # t
    BY DEF Idle, Sending, Robbing
  <2>2. held[o].id \in Packets
    BY LocalsThere, PacketFields
  <2>3. Copy(held[o])
    BY Zenon DEF Owned, SendOwned, RobOwned
  <2> QED
    BY Zenon, <1>4, <2>1, <2>2, <2>3 DEF Copy
<1>7. StoredOwned'
  <2>1. \A k \in Keys : Live(k) => packet[k].id \in Packets \ {id}
    BY SMTT(30), <1>4, StoredPacket, PacketFields DEF Owned, StoredOwned, Copy
  <2> QED
    BY <1>4, <2>1 DEF Owned, StoredOwned, Copy, Live, redis
<1>8. SendOwned'
  <2> SUFFICES ASSUME NEW o \in Threads
               PROVE  /\ pc'[o] \in Sending => Copy(held[o])' /\ held'[o].sender = user'[o]
                      /\ pc'[o] \in {"deduct", "store"} =>
                           /\ sent'[held'[o].id].key = None
                           /\ held'[o].leftmoney = sent'[held'[o].id].money
    BY Zenon DEF SendOwned
  <2>1. CASE o = t
    <3>1. /\ held'[o].id = id /\ held'[o].sender = u /\ held'[o].leftmoney = m
          /\ user'[o] = u
      BY Zenon, <1>2, <1>3, <2>1
    <3>2. Copy(held[o])'
      BY Zenon, <1>4, <1>5, <3>1 DEF Copy
    <3> QED
      BY Zenon, <1>4, <3>1, <3>2
  <2>2. CASE o # t
    <3>1. pc'[o] = pc[o] /\ held'[o] = held[o] /\ user'[o] = user[o]
      BY Zenon, <1>3, <2>2
    <3>2. pc[o] \in Sending => sent'[held[o].id] = sent[held[o].id]
      BY Zenon, <1>4, <1>6
    <3>3. pc[o] \in {"deduct", "store"} => pc[o] \in Sending
      BY Zenon DEF Sending
    <3>4. pc[o] \in Sending => Copy(held[o]) /\ held[o].sender = user[o]
      BY Zenon DEF Owned, SendOwned
    <3>5. pc'[o] \in Sending => Copy(held[o])' /\ held'[o].sender = user'[o]
      BY Zenon, <3>1, <3>2, <3>4 DEF Copy
    <3>6. pc[o] \in {"deduct", "store"} =>
            sent[held[o].id].key = None /\ held[o].leftmoney = sent[held[o].id].money
      BY Zenon DEF Owned, SendOwned
    <3>7. pc'[o] \in {"deduct", "store"} =>
            sent'[held'[o].id].key = None /\ held'[o].leftmoney = sent'[held'[o].id].money
      BY Zenon, <3>1, <3>2, <3>3, <3>6
    <3> QED
      BY Zenon, <3>5, <3>7
  <2> QED
    BY Zenon, <2>1, <2>2
<1>9. RobOwned'
  <2> SUFFICES ASSUME NEW o \in Threads, pc'[o] \in Robbing
               PROVE  /\ Copy(held[o])' /\ held'[o].sender = Sender(key'[o])
                      /\ sent'[held'[o].id].key = key'[o]
    BY Zenon DEF RobOwned
  <2>1. o # t
    BY <1>3 DEF Robbing
  <2>2. pc'[o] = pc[o] /\ held'[o] = held[o] /\ key'[o] = key[o]
    BY Zenon, <1>3, <2>1
  <2>3. sent'[held[o].id] = sent[held[o].id]
    BY Zenon, <1>4, <1>6, <2>2
  <2>4. Copy(held[o]) /\ held[o].sender = Sender(key[o]) /\ sent[held[o].id].key = key[o]
    BY Zenon, <2>2 DEF Owned, RobOwned
  <2> QED
    BY Zenon, <2>2, <2>3, <2>4 DEF Copy
<1>10. SendsDistinct'
  BY <1>2, <1>3, <1>6 DEF Owned, SendsDistinct
<1>11. StopOwned'
  <2>1. stop.value # None => stop.value.id \in Packets \ {id}
    BY Zenon, <1>4, StopThere, PacketFields DEF Owned, StopOwned, Copy
  <2> QED
    BY Zenon, <1>4, <2>1 DEF Owned, StopOwned, Copy
<1>12. Fresh'
  BY Zenon, <1>4 DEF Owned, Fresh, Unstored
<1> QED
  BY Zenon, <1>7, <1>8, <1>9, <1>10, <1>11, <1>12 DEF Owned

\* What SendStore does.
LEMMA SendStoreFacts ==
  ASSUME TypeOK, Shape, Owned, NEW t \in Threads, SendStore(t)
  PROVE  LET k == <<user[t], now>>
             id == held[t].id
         IN  /\ k \in Keys /\ Sender(k) = user[t] /\ user[t] \in Users
             /\ held[t] \in Packet /\ id \in Packets
             /\ pc[t] = "store" /\ pc'[t] = "insert"
             /\ \A o \in Threads \ {t} : pc'[o] = pc[o] /\ key'[o] = key[o]
             /\ UNCHANGED <<user, held, share, stop, grants, paidOut, refunded, taken,
                            raced, lost>>
             /\ packet' = packet \/ packet'[k] = held[t]
             /\ \A j \in Keys \ {k} : packet'[j] = packet[j]
             /\ \A i \in Packets \ {id} : sent'[i] = sent[i]
             /\ sent[id] # None /\ sent[id].key = None
             /\ sent'[id] # None /\ sent'[id].key = k
             /\ sent'[id].sender = sent[id].sender /\ sent'[id].money = sent[id].money
<1> DEFINE k == <<user[t], now>>
           id == held[t].id
<1> USE DEF SendStore
<1>1. user[t] \in Users /\ held[t] \in Packet /\ id \in Packets
  BY Zenon, LocalsThere, PacketFields DEF Sending, Idle
<1>2. k \in Keys /\ Sender(k) = user[t]
  BY ZenonT(30), <1>1 DEF Keys, TypeOK, LoopOK, Sender
<1>3. sent[id] \in Request /\ sent[id].key = None
  BY <1>1 DEF Owned, SendOwned, Copy, Sending, TypeOK, HistoryOK
<1>4. sent' = [sent EXCEPT ![id] = [sent[id] EXCEPT !.key = k]]
  BY Zenon
<1>5. [sent[id] EXCEPT !.key = k] \in Request
  BY ZenonT(30), <1>2, <1>3 DEF Request
<1>6. /\ sent[id] # None /\ sent[id].key = None
      /\ sent'[id] # None /\ sent'[id].key = k
      /\ sent'[id].sender = sent[id].sender /\ sent'[id].money = sent[id].money
  <2>1. sent'[id] = [sent[id] EXCEPT !.key = k]
    BY Zenon, <1>1, <1>4 DEF TypeOK, HistoryOK
  <2> QED
    BY SMTT(90), <1>3, <1>5, <2>1, RequestFields DEF Request
<1>7. \A i \in Packets \ {id} : sent'[i] = sent[i]
  BY <1>4 DEF TypeOK, HistoryOK
<1>8. /\ packet' = packet \/ packet'[k] = held[t]
      /\ \A j \in Keys \ {k} : packet'[j] = packet[j]
  BY <1>2 DEF TypeOK, StoresOK
<1>9. /\ pc[t] = "store" /\ pc'[t] = "insert"
      /\ \A o \in Threads \ {t} : pc'[o] = pc[o] /\ key'[o] = key[o]
  BY DEF TypeOK, LocalsOK
<1> QED
  BY Zenon, <1>1, <1>2, <1>6, <1>7, <1>8, <1>9

LEMMA SendStoreOwned ==
  ASSUME TypeOK, Shape, Owned, NEW t \in Threads, SendStore(t)
  PROVE  Owned'
<1> DEFINE k == <<user[t], now>>
           id == held[t].id
<1>1. /\ k \in Keys /\ Sender(k) = user[t] /\ held[t] \in Packet /\ id \in Packets
      /\ pc[t] = "store" /\ pc'[t] = "insert"
      /\ \A o \in Threads \ {t} : pc'[o] = pc[o] /\ key'[o] = key[o]
      /\ UNCHANGED <<user, held, stop, grants, paidOut, refunded, taken>>
  BY SendStoreFacts
<1>2. /\ packet' = packet \/ packet'[k] = held[t]
      /\ \A j \in Keys \ {k} : packet'[j] = packet[j]
  BY Zenon, SendStoreFacts
<1>3. /\ \A i \in Packets \ {id} : sent'[i] = sent[i]
      /\ sent[id] # None /\ sent[id].key = None
      /\ sent'[id] # None /\ sent'[id].key = k /\ sent'[id].sender = sent[id].sender
  BY Zenon, SendStoreFacts
<1>4. Copy(held[t]) /\ held[t].sender = user[t]
  BY <1>1 DEF Owned, SendOwned, Sending
<1>5. \A o \in Threads \ {t} : pc[o] \in Sending \cup Robbing => held[o].id \in Packets \ {id}
  <2> SUFFICES ASSUME NEW o \in Threads \ {t}, pc[o] \in Sending \cup Robbing
               PROVE  held[o].id \in Packets \ {id}
    OBVIOUS
  <2>1. held[o].id \in Packets
    BY LocalsThere, PacketFields
  <2>2. CASE pc[o] \in Sending
    BY <1>1, <2>1, <2>2 DEF Owned, SendsDistinct, Sending
  <2>3. CASE pc[o] \in Robbing
    <3>1. key[o] \in Keys
      BY <2>3, LocalsThere DEF Robbing, Keyed, LockHolders
    <3>2. sent[held[o].id].key = key[o]
      BY Zenon, <2>3 DEF Owned, RobOwned
    <3> QED
      BY <1>3, <2>1, <3>1, <3>2, NoneNotKey
  <2> QED
    BY <2>2, <2>3
<1>6. \A j \in Keys : Live(j) => packet[j].id \in Packets \ {id}
  BY ZenonT(30), <1>3, StoredPacket, PacketFields, NoneNotKey DEF Owned, StoredOwned
<1>7. StoredOwned'
  <2> SUFFICES ASSUME NEW j \in Keys, Live(j)'
               PROVE  /\ Copy(packet[j])' /\ packet'[j].sender = Sender(j)
                      /\ sent'[packet'[j].id].key = j
    BY Zenon DEF StoredOwned
  <2>1. CASE packet'[j] = packet[j]
    <3>1. Live(j)
      BY Zenon, <2>1 DEF Live
    <3> QED
      BY SMTT(90), <1>3, <1>6, <2>1, <3>1 DEF Owned, StoredOwned, Copy
  <2>2. CASE j = k /\ packet'[j] = held[t]
    BY ZenonT(30), <1>1, <1>3, <1>4, <2>2 DEF Copy
  <2> QED
    BY <1>2, <2>1, <2>2
<1>8. SendOwned'
  <2> SUFFICES ASSUME NEW o \in Threads
               PROVE  /\ pc'[o] \in Sending => Copy(held[o])' /\ held'[o].sender = user'[o]
                      /\ pc'[o] \in {"deduct", "store"} =>
                           /\ sent'[held'[o].id].key = None
                           /\ held'[o].leftmoney = sent'[held'[o].id].money
    BY Zenon DEF SendOwned
  <2>1. CASE o = t
    <3>1. held'[t] = held[t] /\ user'[t] = user[t]
      BY Zenon, <1>1
    <3>2. Copy(held[t])' /\ held'[t].sender = user'[t]
      BY Zenon, <1>3, <1>4, <3>1 DEF Copy
    <3>3. pc'[t] \notin {"deduct", "store"}
      BY <1>1
    <3> QED
      BY Zenon, <2>1, <3>2, <3>3
  <2>2. CASE o # t
    <3>1. pc'[o] = pc[o] /\ held'[o] = held[o] /\ user'[o] = user[o]
      BY Zenon, <1>1, <2>2
    <3>2. pc[o] \in Sending => sent'[held[o].id] = sent[held[o].id]
      BY Zenon, <1>3, <1>5, <2>2
    <3>3. pc[o] \in {"deduct", "store"} => pc[o] \in Sending
      BY Zenon DEF Sending
    <3>4. pc[o] \in Sending => Copy(held[o]) /\ held[o].sender = user[o]
      BY Zenon DEF Owned, SendOwned
    <3>5. pc'[o] \in Sending => Copy(held[o])' /\ held'[o].sender = user'[o]
      BY Zenon, <3>1, <3>2, <3>4 DEF Copy
    <3>6. pc[o] \in {"deduct", "store"} =>
            sent[held[o].id].key = None /\ held[o].leftmoney = sent[held[o].id].money
      BY Zenon DEF Owned, SendOwned
    <3>7. pc'[o] \in {"deduct", "store"} =>
            sent'[held'[o].id].key = None /\ held'[o].leftmoney = sent'[held'[o].id].money
      BY Zenon, <3>1, <3>2, <3>3, <3>6
    <3> QED
      BY Zenon, <3>5, <3>7
  <2> QED
    BY Zenon, <2>1, <2>2
<1>9. RobOwned'
  <2> SUFFICES ASSUME NEW o \in Threads, pc'[o] \in Robbing
               PROVE  /\ Copy(held[o])' /\ held'[o].sender = Sender(key'[o])
                      /\ sent'[held'[o].id].key = key'[o]
    BY Zenon DEF RobOwned
  <2>1. o # t
    BY <1>1 DEF Robbing
  <2>2. pc'[o] = pc[o] /\ held'[o] = held[o] /\ key'[o] = key[o]
    BY Zenon, <1>1, <2>1
  <2>3. sent'[held[o].id] = sent[held[o].id]
    BY Zenon, <1>3, <1>5, <2>1, <2>2
  <2>4. Copy(held[o]) /\ held[o].sender = Sender(key[o]) /\ sent[held[o].id].key = key[o]
    BY Zenon, <2>2 DEF Owned, RobOwned
  <2> QED
    BY Zenon, <2>2, <2>3, <2>4 DEF Copy
<1>10. SendsDistinct'
  <2>1. \A o \in Threads : pc'[o] \in Sending => pc[o] \in Sending /\ held'[o] = held[o]
    <3> SUFFICES ASSUME NEW o \in Threads, pc'[o] \in Sending
                 PROVE  pc[o] \in Sending /\ held'[o] = held[o]
      OBVIOUS
    <3>1. CASE o = t
      BY <1>1, <3>1 DEF Sending
    <3>2. CASE o # t
      BY Zenon, <1>1, <3>2
    <3> QED
      BY Zenon, <3>1, <3>2
  <2> QED
    BY ZenonT(30), <2>1 DEF Owned, SendsDistinct
<1>11. StopOwned'
  <2>1. stop.value # None => stop.value.id \in Packets \ {id}
    BY Zenon, <1>1, <1>3, StopThere, PacketFields DEF Owned, StopOwned, Fresh, Unstored
  <2> QED
    BY Zenon, <1>1, <1>3, <2>1 DEF Owned, StopOwned, Copy
<1>12. Fresh'
  BY ZenonT(30), <1>1, <1>3, NoneNotKey DEF Owned, Fresh, Unstored
<1> QED
  BY Zenon, <1>7, <1>8, <1>9, <1>10, <1>11, <1>12 DEF Owned

\* The step that draws a share, as a fact about the packet read.
Draws(t, p, s) ==
  /\ pc[t] = "getpb" /\ pc'[t] = "setpb"
  /\ user[t] \in Users /\ key[t] \in Keys
  /\ Live(key[t]) /\ p = packet[key[t]] /\ p \in Packet
  /\ ~HasRobbed(p, user[t])
  /\ s \in 0 .. p.leftmoney
  /\ held'[t] = Robbed(p, user[t], s) /\ share'[t] = s
  /\ held'[t].id = p.id /\ held'[t].sender = p.sender
  /\ held'[t].leftmoney = p.leftmoney - s
  /\ \A o \in Threads \ {t} : pc'[o] = pc[o] /\ held'[o] = held[o] /\ share'[o] = share[o]
  /\ UNCHANGED <<user, key, packet, stop, sent, grants, paidOut, refunded, taken,
                 raced, lost>>

LEMMA RobGetDraws ==
  ASSUME TypeOK, Shape, NEW t \in Threads, RobGet(t)
  PROVE  Calm \/ \E p, s : Draws(t, p, s)
<1>1. /\ user[t] \in Users /\ key[t] \in Keys /\ pc[t] = "getpb"
      /\ UNCHANGED <<mysql, redis>>
  BY RobGetCases
<1>2. CASE Restart("parse")
  BY Zenon, <1>1, <1>2, RestartCalm DEF redis
<1>3. CASE UNCHANGED <<timers, stop, now, history>> /\ Goto(t, "unlock")
  <2>1. \A o \in Threads : SameLocals(o) \/ pc'[o] \notin Sending \cup Robbing
    BY Zenon, <1>3, GotoCalm DEF Sending, Robbing
  <2> QED
    BY Zenon, <1>1, <1>3, <2>1 DEF Calm, SameRequests, redis, history
<1>4. CASE /\ UNCHANGED <<timers, stop, now, history>>
           /\ Live(key[t]) /\ ~HasRobbed(packet[key[t]], user[t])
           /\ packet[key[t]].leftcount # 0
           /\ RobGrant(t, packet[key[t]])
  <2> DEFINE p == packet[key[t]]
  <2>1. p \in Packet /\ Fits(p)
    BY Zenon, <1>1, <1>4, StoredPacket
  <2>2. PICK s \in 0 .. p.leftmoney :
           /\ pc' = [pc EXCEPT ![t] = "setpb"]
           /\ held' = [held EXCEPT ![t] = Robbed(p, user[t], s)]
           /\ share' = [share EXCEPT ![t] = s]
           /\ UNCHANGED <<user, key, conn>>
    BY Zenon, <1>1, <1>4, <2>1, GrantFacts
  <2>3. /\ held'[t] = Robbed(p, user[t], s) /\ share'[t] = s /\ pc'[t] = "setpb"
        /\ \A o \in Threads \ {t} : pc'[o] = pc[o] /\ held'[o] = held[o] /\ share'[o] = share[o]
    BY ZenonT(30), <2>2 DEF TypeOK, LocalsOK
  <2>4. /\ held'[t].id = p.id /\ held'[t].sender = p.sender
        /\ held'[t].leftmoney = p.leftmoney - s
    BY <1>1, <2>1, <2>3, RobbedFields
  <2>5. Draws(t, p, s)
    BY Zenon, <1>1, <1>4, <2>1, <2>2, <2>3, <2>4 DEF Draws, redis, history
  <2> QED
    BY Zenon, <2>5
<1> QED
  BY Zenon, <1>2, <1>3, <1>4, RobGetCases

LEMMA DrawsOwned ==
  ASSUME TypeOK, Shape, Owned, NEW t \in Threads, NEW p, NEW s, Draws(t, p, s)
  PROVE  Owned'
<1>1. Copy(p) /\ p.sender = Sender(key[t]) /\ sent[p.id].key = key[t]
  BY Zenon DEF Draws, Owned, StoredOwned
<1>2. StoredOwned' /\ StopOwned' /\ Fresh'
  BY ZenonT(30) DEF Draws, Owned, StoredOwned, StopOwned, Fresh, Unstored, Copy, Live
<1>3. SendOwned' /\ SendsDistinct'
  <2>1. /\ pc'[t] \notin Sending /\ pc'[t] \notin {"deduct", "store"}
        /\ user' = user /\ sent' = sent
        /\ \A o \in Threads \ {t} : pc'[o] = pc[o] /\ held'[o] = held[o]
    BY Zenon DEF Draws, Sending
  <2>2. SendOwned'
    BY ZenonT(90), <2>1 DEF Owned, SendOwned, Copy
  <2>3. SendsDistinct'
    BY ZenonT(30), <2>1 DEF Owned, SendsDistinct
  <2> QED
    BY Zenon, <2>2, <2>3
<1>4. /\ held'[t].id = p.id /\ held'[t].sender = p.sender
      /\ \A o \in Threads \ {t} : pc'[o] = pc[o] /\ held'[o] = held[o]
      /\ key' = key /\ sent' = sent
  BY Zenon DEF Draws
<1>5. RobOwned'
  BY ZenonT(30), <1>1, <1>4 DEF Owned, RobOwned, Copy
<1> QED
  BY Zenon, <1>2, <1>3, <1>5 DEF Owned

\* The SETEX of a rob: it is written, or the packet counts as lost.
Stores(t) ==
  LET id == held[t].id
  IN  /\ pc[t] = "setpb" /\ pc'[t] = "pay"
      /\ user[t] \in Users /\ key[t] \in Keys /\ held[t] \in Packet /\ id \in Packets
      /\ \A o \in Threads \ {t} : pc'[o] = pc[o]
      /\ \/ packet'[key[t]] = held[t] /\ lost' = lost
         \/ packet' = packet /\ lost' = lost \cup {id}
      /\ \A k \in Keys \ {key[t]} : packet'[k] = packet[k]
      /\ raced' = IF id \in taken THEN raced \cup {id} ELSE raced
      /\ UNCHANGED <<user, key, held, share, stop, sent, grants, paidOut, refunded, taken>>

LEMMA RobStoreStores ==
  ASSUME TypeOK, Shape, NEW t \in Threads, RobStore(t)
  PROVE  Stores(t)
<1> USE DEF RobStore
<1>1. user[t] \in Users /\ key[t] \in Keys /\ held[t] \in Packet /\ held[t].id \in Packets
  BY Zenon, LocalsThere, PacketFields DEF Robbing, Keyed, LockHolders, Idle
<1>2. /\ \/ packet'[key[t]] = held[t] /\ lost' = lost
         \/ packet' = packet /\ lost' = lost \cup {held[t].id}
      /\ \A k \in Keys \ {key[t]} : packet'[k] = packet[k]
  BY Zenon, <1>1 DEF TypeOK, StoresOK
<1>3. pc'[t] = "pay" /\ \A o \in Threads \ {t} : pc'[o] = pc[o]
  BY DEF Goto, TypeOK, LocalsOK
<1> QED
  BY Zenon, <1>1, <1>2, <1>3 DEF Stores, Goto

LEMMA StoresOwned ==
  ASSUME TypeOK, Shape, Owned, NEW t \in Threads, Stores(t)
  PROVE  Owned'
<1>1. /\ Copy(held[t]) /\ held[t].sender = Sender(key[t])
      /\ sent[held[t].id].key = key[t]
  BY ZenonT(30) DEF Stores, Owned, RobOwned, Robbing
<1>2. StoredOwned'
  BY ZenonT(60), <1>1 DEF Stores, Owned, StoredOwned, Copy, Live
<1>3. SendOwned' /\ SendsDistinct'
  <2>1. /\ pc'[t] \notin Sending /\ pc'[t] \notin {"deduct", "store"}
        /\ user' = user /\ sent' = sent /\ held' = held
        /\ \A o \in Threads \ {t} : pc'[o] = pc[o]
    BY Zenon DEF Stores, Sending
  <2>2. SendOwned'
    BY ZenonT(30), <2>1 DEF Owned, SendOwned, Copy
  <2>3. SendsDistinct'
    BY ZenonT(30), <2>1 DEF Owned, SendsDistinct
  <2> QED
    BY Zenon, <2>2, <2>3
<1>4. RobOwned'
  BY Zenon, <1>1 DEF Stores, Owned, RobOwned, Copy
<1>5. StopOwned' /\ Fresh'
  BY Zenon DEF Stores, Owned, StopOwned, Fresh, Unstored, Copy
<1> QED
  BY Zenon, <1>2, <1>3, <1>4, <1>5 DEF Owned

\* The payment of a share.
Pays(t) ==
  LET id == held[t].id
  IN  /\ pc[t] = "pay" /\ pc'[t] = "unlock"
      /\ user[t] \in Users /\ key[t] \in Keys /\ held[t] \in Packet /\ id \in Packets
      /\ \A o \in Threads \ {t} : pc'[o] = pc[o]
      /\ \A i \in Packets, u \in Users :
           grants'[i][u] = IF i = id /\ u = user[t] THEN grants[i][u] + 1 ELSE grants[i][u]
      /\ \A i \in Packets :
           paidOut'[i] = IF i = id THEN paidOut[i] + share[t] ELSE paidOut[i]
      /\ UNCHANGED <<user, key, held, share, packet, stop, sent, refunded, taken, raced,
                     lost>>

LEMMA RobPayPays ==
  ASSUME TypeOK, Shape, NEW t \in Threads, RobPay(t)
  PROVE  Calm \/ Pays(t)
<1> USE DEF RobPay
<1>1. user[t] \in Users /\ key[t] \in Keys /\ held[t] \in Packet /\ held[t].id \in Packets
  BY Zenon, LocalsThere, PacketFields DEF Robbing, Keyed, LockHolders, Idle
<1>2. CASE ~conn[t]
  BY Zenon, <1>2, RestartCalm DEF redis
<1>3. CASE conn[t] /\ UNCHANGED <<money, grants, paidOut>>
  <2>1. \A o \in Threads : SameLocals(o) \/ pc'[o] \notin Sending \cup Robbing
    BY Zenon, <1>3, GotoCalm DEF Sending, Robbing
  <2> QED
    BY Zenon, <1>3, <2>1 DEF Calm, SameRequests, redis
<1>4. CASE /\ conn[t]
           /\ grants' = [grants EXCEPT ![held[t].id][user[t]] = @ + 1]
           /\ paidOut' = [paidOut EXCEPT ![held[t].id] = @ + share[t]]
  <2>1. \A i \in Packets, u \in Users :
          grants'[i][u] = IF i = held[t].id /\ u = user[t] THEN grants[i][u] + 1
                          ELSE grants[i][u]
    <3>1. /\ grants \in [Packets -> [Users -> Nat]]
          /\ \A i \in Packets : grants[i] \in [Users -> Nat]
      BY Zenon DEF TypeOK, HistoryOK
    <3> QED
      BY Zenon, <1>1, <1>4, <3>1
  <2>2. \A i \in Packets :
           paidOut'[i] = IF i = held[t].id THEN paidOut[i] + share[t] ELSE paidOut[i]
    BY Zenon, <1>4 DEF TypeOK, HistoryOK
  <2>3. pc'[t] = "unlock" /\ \A o \in Threads \ {t} : pc'[o] = pc[o]
    BY Zenon, <1>4 DEF Goto, TypeOK, LocalsOK
  <2> QED
    BY Zenon, <1>1, <1>4, <2>1, <2>2, <2>3 DEF Pays, Goto, redis
<1> QED
  BY Zenon, <1>2, <1>3, <1>4

LEMMA PaysOwned ==
  ASSUME TypeOK, Shape, Owned, NEW t \in Threads, Pays(t)
  PROVE  Owned'
<1>1. sent[held[t].id] # None /\ sent[held[t].id].key # None
  <2>1. pc[t] \in Robbing /\ key[t] \in Keys
    BY Zenon DEF Pays, Robbing
  <2> QED
    BY Zenon, <2>1, NoneNotKey DEF Owned, RobOwned, Copy
<1>2. StoredOwned' /\ StopOwned'
  BY Zenon DEF Pays, Owned, StoredOwned, StopOwned, Copy, Live
<1>3. SendOwned' /\ SendsDistinct'
  <2>1. /\ pc'[t] \notin Sending /\ pc'[t] \notin {"deduct", "store"}
        /\ user' = user /\ sent' = sent /\ held' = held
        /\ \A o \in Threads \ {t} : pc'[o] = pc[o]
    BY Zenon DEF Pays, Sending
  <2>2. SendOwned'
    BY ZenonT(30), <2>1 DEF Owned, SendOwned, Copy
  <2>3. SendsDistinct'
    BY ZenonT(30), <2>1 DEF Owned, SendsDistinct
  <2> QED
    BY Zenon, <2>2, <2>3
<1>4. RobOwned'
  <2>1. /\ pc'[t] \notin Robbing /\ key' = key /\ sent' = sent /\ held' = held
        /\ \A o \in Threads \ {t} : pc'[o] = pc[o]
    BY Zenon DEF Pays, Robbing
  <2> QED
    BY ZenonT(30), <2>1 DEF Owned, RobOwned, Copy
<1>5. Fresh'
  <2>1. /\ UNCHANGED <<sent, taken, refunded>>
        /\ \A i \in Packets : i # held[t].id =>
             paidOut'[i] = paidOut[i] /\ \A u \in Users : grants'[i][u] = grants[i][u]
    BY Zenon DEF Pays
  <2>2. \A i \in Packets : Unstored(i)' => Unstored(i) /\ i # held[t].id
    BY Zenon, <1>1, <2>1 DEF Unstored
  <2> QED
    <3> SUFFICES ASSUME NEW i \in Packets, Unstored(i)'
                 PROVE  /\ i \notin taken' /\ paidOut'[i] = 0 /\ refunded'[i] = 0
                        /\ \A u \in Users : grants'[i][u] = 0
      BY Zenon DEF Fresh
    <3>1. Unstored(i) /\ i # held[t].id
      BY Zenon, <2>2
    <3>2. /\ i \notin taken /\ paidOut[i] = 0 /\ refunded[i] = 0
          /\ \A u \in Users : grants[i][u] = 0
      BY Zenon, <3>1 DEF Owned, Fresh
    <3> QED
      BY Zenon, <2>1, <3>1, <3>2
<1> QED
  BY Zenon, <1>2, <1>3, <1>4, <1>5 DEF Owned

\* StopRobHongbao reads a packet ...
Reads(k, p) ==
  /\ k \in Keys /\ Live(k) /\ p = packet[k] /\ p \in Packet
  /\ stop.pc = Idle /\ stop'.pc = "del" /\ stop'.key = k /\ stop'.value = p
  /\ taken' = taken \cup {p.id}
  /\ UNCHANGED <<pc, user, key, held, share, packet, sent, grants, paidOut, refunded,
                 raced, lost>>

\* ... deletes it, or the packet counts as lost ...
Deletes ==
  LET p == stop.value
  IN  /\ p \in Packet /\ stop.pc = "del" /\ stop.key \in Keys
      /\ stop'.pc = "row" /\ stop'.key = stop.key /\ stop'.value = p
      /\ \/ packet'[stop.key] = None /\ lost' = lost
         \/ packet' = packet /\ lost' = lost \cup {p.id}
      /\ \A k \in Keys \ {stop.key} : packet'[k] = packet[k]
      /\ UNCHANGED <<pc, user, key, held, share, sent, grants, paidOut, refunded, taken,
                     raced>>

\* ... and gives the rest of its money back.
Refunds ==
  LET p == stop.value
  IN  /\ p \in Packet /\ stop.pc = "refund" /\ stop'.value = None
      /\ \A i \in Packets :
           refunded'[i] = IF i = p.id THEN refunded[i] + p.leftmoney ELSE refunded[i]
      /\ UNCHANGED <<pc, user, key, held, share, packet, sent, grants, paidOut, taken,
                     raced, lost>>

LEMMA StopGetReads ==
  ASSUME TypeOK, StopGet
  PROVE  Calm \/ \E k, p : Reads(k, p)
<1>1. stop.pc = Idle /\ UNCHANGED <<mysql, redis>>
  BY Zenon, StopGetCases
<1>2. CASE Restart("parse")
  BY Zenon, <1>1, <1>2, RestartCalm DEF redis
<1>3. CASE \E tm \in timers, p \in Packet \cup {None} :
             /\ p = packet[tm.key] \/ p = None
             /\ stop' = [pc |-> "del", key |-> tm.key, value |-> p]
             /\ timers' = timers \ {tm}
             /\ taken' = IF p = None THEN taken ELSE taken \cup {p.id}
             /\ UNCHANGED <<local, now, sent, grants, paidOut, refunded, raced,
                            lost, ended>>
  <2>1. PICK tm \in timers, p \in Packet \cup {None} :
             /\ p = packet[tm.key] \/ p = None
             /\ stop' = [pc |-> "del", key |-> tm.key, value |-> p]
             /\ taken' = IF p = None THEN taken ELSE taken \cup {p.id}
             /\ UNCHANGED <<local, sent, grants, paidOut, refunded, raced, lost>>
    BY Zenon, <1>3
  <2>2. tm.key \in Keys
    BY SMTT(30) DEF TypeOK, LoopOK
  <2>3. CASE p = None
    BY ZenonT(30), <1>1, <2>1, <2>3 DEF Calm, SameLocals, SameRequests, local, redis
  <2>4. CASE p # None
    <3>1. p \in Packet /\ p = packet[tm.key] /\ Live(tm.key)
      BY <2>1, <2>4, PacketFields DEF Live
    <3>2. Reads(tm.key, p)
      BY Zenon, <1>1, <2>1, <2>2, <2>4, <3>1 DEF Reads, local, redis
    <3> QED
      BY <3>2
  <2> QED
    BY Zenon, <2>3, <2>4
<1> QED
  BY Zenon, <1>2, <1>3, StopGetCases

LEMMA StopDelDeletes ==
  ASSUME TypeOK, Shape, StopDel
  PROVE  Calm \/ Deletes
<1> USE DEF StopDel
<1>1. stop.key \in Keys /\ stop.value \in Packet \cup {None}
  BY StopThere DEF Idle
<1>2. stop'.pc = "row" /\ stop'.key = stop.key /\ stop'.value = stop.value
  BY StopThere
<1>3. \A k \in Keys \ {stop.key} : packet'[k] = packet[k]
  BY DEF TypeOK, StoresOK
<1>4. packet' = packet \/ packet'[stop.key] = None
  BY Zenon, <1>1 DEF TypeOK, StoresOK
<1>5. CASE stop.value = None
  <2>1. \A k \in Keys : packet'[k] = packet[k] \/ packet'[k] \in {None, Stamp}
    BY <1>3, <1>4
  <2>2. lost' = lost
    BY Zenon, <1>5
  <2> QED
    BY Zenon, <1>2, <1>5, <2>1, <2>2 DEF Calm, SameLocals, SameRequests, local
<1>6. CASE stop.value # None
  <2>1. \/ packet'[stop.key] = None /\ lost' = lost
        \/ packet' = packet /\ lost' = lost \cup {stop.value.id}
    BY Zenon, <1>1, <1>6 DEF TypeOK, StoresOK
  <2> QED
    BY Zenon, <1>1, <1>2, <1>3, <1>6, <2>1 DEF Deletes, local
<1> QED
  BY <1>5, <1>6

LEMMA StopRefundRefunds ==
  ASSUME TypeOK, Shape, StopRefund
  PROVE  Calm \/ Refunds
<1> USE DEF StopRefund
<1>1. stop.value \in Packet /\ stop'.value = None
  BY Zenon, StopThere DEF NoStop
<1>2. CASE UNCHANGED <<money, refunded>>
  BY Zenon, <1>1, <1>2 DEF Calm, SameLocals, SameRequests, local, redis
<1>3. CASE refunded' = [refunded EXCEPT ![stop.value.id] = @ + Refund(stop.value)]
  <2>1. \A i \in Packets : refunded'[i] = IF i = stop.value.id
                             THEN refunded[i] + stop.value.leftmoney ELSE refunded[i]
    BY Zenon, <1>3 DEF Refund, TypeOK, HistoryOK
  <2> QED
    BY Zenon, <1>1, <2>1 DEF Refunds, local, redis
<1> QED
  BY Zenon, <1>2, <1>3

LEMMA StopOwnedStep ==
  ASSUME TypeOK, Shape, Owned, (\E k, p : Reads(k, p)) \/ Deletes \/ Refunds
  PROVE  Owned'
<1>1. SendOwned' /\ SendsDistinct' /\ RobOwned'
  <2>1. UNCHANGED <<pc, user, key, held, sent>>
    BY DEF Reads, Deletes, Refunds
  <2> QED
    BY Zenon, <2>1 DEF Owned, SendOwned, SendsDistinct, RobOwned, Copy
<1>2. CASE \E k, p : Reads(k, p)
  <2>1. PICK k, p : Reads(k, p)
    BY Zenon, <1>2
  <2>2. Copy(p) /\ sent[p.id].key = k /\ k # None /\ p.id \in Packets
    BY Zenon, <2>1, PacketFields, NoneNotKey DEF Reads, Owned, StoredOwned
  <2>3. StoredOwned' /\ StopOwned'
    BY Zenon, <2>1, <2>2 DEF Reads, Owned, StoredOwned, StopOwned, Copy, Live
  <2>4. Fresh'
    BY Zenon, <2>1, <2>2 DEF Reads, Owned, Fresh, Unstored, Copy
  <2> QED
    BY Zenon, <1>1, <2>3, <2>4 DEF Owned
<1>3. CASE Deletes
  <2>1. StoredOwned'
    BY ZenonT(60), <1>3 DEF Deletes, Owned, StoredOwned, Copy, Live
  <2>2. StopOwned' /\ Fresh'
    BY Zenon, <1>3 DEF Deletes, Owned, StopOwned, Fresh, Unstored, Copy
  <2> QED
    BY ZenonT(30), <1>1, <2>1, <2>2 DEF Owned
<1>4. CASE Refunds
  <2>1. /\ sent[stop.value.id] # None /\ sent[stop.value.id].key # None
    BY Zenon, <1>4, StopThere, NoneNotKey, PacketFields
       DEF Refunds, Owned, StopOwned, Copy, Idle
  <2>2. StoredOwned' /\ StopOwned'
    BY Zenon, <1>4 DEF Refunds, Owned, StoredOwned, StopOwned, Copy, Live
  <2>3. Fresh'
    BY Zenon, <1>4, <2>1 DEF Refunds, Owned, Fresh, Unstored
  <2> QED
    BY <1>1, <2>2, <2>3 DEF Owned
<1> QED
  BY Zenon, <1>2, <1>3, <1>4

-----------------------------------------------------------------------------
(* The same steps keep Listed *)

\* Whoever is inside the lock for the key of a packet that is being robbed is the
\* robber.
LEMMA OneRobber ==
  ASSUME TypeOK, Shape, Owned, Locked, NEW t1 \in Threads, NEW t2 \in Threads,
         pc[t1] \in LockHolders, pc[t2] \in Robbing, Protected(held[t2].id),
         key[t1] = sent[held[t2].id].key
  PROVE  t1 = t2
<1>1. Copy(held[t2]) /\ held[t2].sender = Sender(key[t2]) /\ key[t1] = key[t2]
  BY DEF Owned, RobOwned
<1>2. Sender(key[t1]) \notin NumericSenders
  BY Zenon, <1>1 DEF Copy, Protected
<1> QED
  BY <1>1, <1>2 DEF Locked, LockExclusion, Robbing, LockHolders

\* A new packet: nothing refers to it yet.
LEMMA SendCheckFacts ==
  ASSUME TypeOK, Shape, Owned, NEW t \in Threads, NEW u \in Senders, NEW m \in Amounts,
         NEW n \in Counts, NEW id \in Packets, SendCheck(t, u, m, n, id)
  PROVE  /\ \A o \in Threads : pc'[o] \in Robbing =>
              o # t /\ pc[o] = pc'[o] /\ held'[o] = held[o] /\ user'[o] = user[o]
              /\ held[o].id \in Packets \ {id}
         /\ \A k \in Keys : Live(k) => packet[k].id \in Packets \ {id}
         /\ stop.value # None => stop.value.id \in Packets \ {id}
         /\ \A i \in Packets \ {id} : sent'[i] = sent[i]
         /\ sent'[id].money = m /\ m \in Nat
         /\ paidOut[id] = 0 /\ refunded[id] = 0 /\ \A v \in Users : grants[id][v] = 0
         /\ UNCHANGED <<share, packet, stop, grants, paidOut, refunded, taken, raced, lost>>
<1> USE DEF SendCheck
<1>1. \A i \in Packets \ {id} : sent'[i] = sent[i]
  BY Zenon DEF TypeOK, HistoryOK
<1>2. \A o \in Threads : pc'[o] \in Robbing =>
        o # t /\ pc[o] = pc'[o] /\ held'[o] = held[o] /\ user'[o] = user[o]
  BY Zenon DEF TypeOK, LocalsOK, Robbing
<1>3. \A o \in Threads : pc[o] \in Robbing => held[o].id \in Packets \ {id}
  BY Zenon, LocalsThere, PacketFields DEF Owned, RobOwned, Copy
<1>4. \A k \in Keys : Live(k) => packet[k].id \in Packets \ {id}
  BY Zenon, StoredPacket, PacketFields DEF Owned, StoredOwned, Copy
<1>5. stop.value # None => stop.value.id \in Packets \ {id}
  BY Zenon, StopThere, PacketFields DEF Owned, StopOwned, Copy
<1>6. sent'[id].money = m /\ m \in Nat
  BY Zenon, HongbaoConstants DEF TypeOK, HistoryOK
<1>7. paidOut[id] = 0 /\ refunded[id] = 0 /\ \A v \in Users : grants[id][v] = 0
  BY DEF Owned, Fresh, Unstored
<1> QED
  BY Zenon, <1>1, <1>2, <1>3, <1>4, <1>5, <1>6, <1>7 DEF redis

LEMMA SendCheckListed ==
  ASSUME TypeOK, Shape, Owned, Listed, NEW t \in Threads, NEW u \in Senders,
         NEW m \in Amounts, NEW n \in Counts, NEW id \in Packets, SendCheck(t, u, m, n, id)
  PROVE  Listed'
<1> USE DEF Listed
<1>1. \A o \in Threads : pc'[o] \in Robbing =>
         pc[o] = pc'[o] /\ held'[o] = held[o] /\ user'[o] = user[o]
         /\ held[o].id \in Packets \ {id}
  BY Zenon, SendCheckFacts
<1>2. /\ \A k \in Keys : Live(k) => packet[k].id \in Packets \ {id}
      /\ UNCHANGED <<packet, grants>>
  BY Zenon, SendCheckFacts
<1>3. \A i \in Packets \ {id} : Protected(i)' <=> Protected(i)
  <2>1. \A i \in Packets \ {id} : sent'[i] = sent[i]
    BY Zenon DEF SendCheck, TypeOK, HistoryOK
  <2>2. UNCHANGED <<packet, lost>>
    BY Zenon, SendCheckFacts
  <2> QED
    BY Zenon, <2>1, <2>2 DEF Protected
<1>4. StoredListed'
  BY Zenon, <1>2, <1>3 DEF StoredListed, Live, HasRobbed
<1>5. RobberListed'
  BY ZenonT(60), <1>1, <1>2, <1>3 DEF RobberListed, HasRobbed
<1>6. DrawnListed'
  BY <1>1, <1>2, <1>3 DEF DrawnListed, HasRobbed, Robbing
<1>7. PayeeListed'
  BY <1>1, <1>2, <1>3 DEF PayeeListed, Live, HasRobbed, Robbing
<1>8. PaidOnce'
  <2>1. \A v \in Users : grants[id][v] = 0
    BY Zenon DEF SendCheck, Owned, Fresh, Unstored
  <2>2. \A v \in Users : grants'[id][v] <= 1
    BY <1>2, <2>1
  <2>3. \A i \in Packets \ {id}, v \in Users : Protected(i)' => grants'[i][v] <= 1
    BY Zenon, <1>2, <1>3 DEF PaidOnce
  <2> QED
    BY Zenon, <2>2, <2>3 DEF PaidOnce
<1> QED
  BY Zenon, <1>4, <1>5, <1>6, <1>7, <1>8

\* The packet that SendStore writes, seen from the other threads.
LEMMA SendStoreOthers ==
  ASSUME TypeOK, Shape, Owned, NEW t \in Threads, SendStore(t)
  PROVE  LET id == held[t].id
         IN  /\ \A o \in Threads : pc'[o] \in Robbing =>
                  pc[o] = pc'[o] /\ held[o].id \in Packets \ {id}
             /\ \A k \in Keys : Live(k)' =>
                  /\ packet'[k] = packet[k] \/ packet'[k] = held[t]
                  /\ packet'[k] = packet[k] => Live(k) /\ packet[k].id \in Packets
             /\ stop.value # None => stop.value.id \in Packets \ {id}
             /\ \A i \in Packets : Protected(i)' <=> Protected(i)
             /\ \A i \in Packets : sent'[i].money = sent[i].money
             /\ id \notin taken /\ paidOut[id] = 0 /\ refunded[id] = 0
             /\ \A v \in Users : grants[id][v] = 0
             /\ id \in Packets /\ held[t] \in Packet /\ held[t].leftmoney = sent[id].money
<1> DEFINE id == held[t].id
<1>1. /\ pc[t] = "store" /\ pc'[t] = "insert" /\ id \in Packets /\ held[t] \in Packet
      /\ \A o \in Threads \ {t} : pc'[o] = pc[o] /\ key'[o] = key[o]
      /\ sent[id] # None /\ sent[id].key = None
  BY Zenon, SendStoreFacts
<1>2. \A o \in Threads : pc'[o] \in Robbing => pc[o] = pc'[o] /\ o # t
  BY <1>1 DEF Robbing
<1>3. \A o \in Threads : pc[o] \in Robbing => held[o].id \in Packets \ {id}
  <2> SUFFICES ASSUME NEW o \in Threads, pc[o] \in Robbing
               PROVE  held[o].id \in Packets \ {id}
    OBVIOUS
  <2>1. held[o].id \in Packets /\ key[o] \in Keys
    BY LocalsThere, PacketFields DEF Robbing, Keyed, LockHolders
  <2>2. sent[held[o].id].key = key[o]
    BY DEF Owned, RobOwned
  <2> QED
    BY <1>1, <2>1, <2>2, HongbaoConstants
<1>4. \A k \in Keys : Live(k)' =>
         /\ packet'[k] = packet[k] \/ packet'[k] = held[t]
         /\ packet'[k] = packet[k] => Live(k) /\ packet[k].id \in Packets
  BY Zenon, SendStoreFacts, StoredPacket, PacketFields DEF Live
<1>5. id \notin taken /\ paidOut[id] = 0 /\ refunded[id] = 0
      /\ \A v \in Users : grants[id][v] = 0
  BY <1>1 DEF Owned, Fresh, Unstored
<1>6. stop.value # None => stop.value.id \in Packets \ {id}
  BY <1>5, StopThere, PacketFields DEF Owned, StopOwned
<1>7. \A i \in Packets : Protected(i)' <=> Protected(i)
  BY ZenonT(30), SendStoreFacts DEF Protected
<1>8. \A i \in Packets : sent'[i].money = sent[i].money
  BY Zenon, SendStoreFacts
<1>9. held[t].leftmoney = sent[id].money
  BY <1>1 DEF Owned, SendOwned
<1> QED
  BY ZenonT(30), <1>1, <1>2, <1>3, <1>4, <1>5, <1>6, <1>7, <1>8, <1>9

LEMMA SendStoreListed ==
  ASSUME TypeOK, Shape, Owned, Listed, NEW t \in Threads, SendStore(t)
  PROVE  Listed'
<1> USE DEF Listed
<1>1. UNCHANGED <<user, held, grants>>
  BY Zenon, SendStoreFacts
<1>2. StoredListed'
  <2> SUFFICES ASSUME NEW k \in Keys, NEW u \in Users, Live(k)',
                      Protected(packet[k].id)', grants'[packet'[k].id][u] > 0
               PROVE  HasRobbed(packet[k], u)'
    BY DEF StoredListed
  <2>1. CASE packet'[k] = packet[k]
    <3>1. Live(k) /\ packet[k].id \in Packets
      BY Zenon, <2>1, SendStoreOthers
    <3>2. Protected(packet[k].id)
      BY Zenon, <2>1, <3>1, SendStoreOthers
    <3> QED
      BY Zenon, <1>1, <2>1, <3>1, <3>2 DEF StoredListed, HasRobbed
  <2>2. CASE packet'[k] = held[t]
    <3>1. grants[held[t].id][u] = 0
      BY ZenonT(30), SendStoreOthers
    <3> QED
      BY SMTT(90), <1>1, <2>2, <3>1
  <2> QED
    BY <2>1, <2>2, SendStoreOthers
<1>3. \A o \in Threads : pc'[o] \in Robbing =>
        pc[o] = pc'[o] /\ held[o].id \in Packets \ {held[t].id}
  BY Zenon, SendStoreOthers
<1>4. \A i \in Packets : Protected(i)' <=> Protected(i)
  BY Zenon, SendStoreOthers
<1>5. RobberListed'
  BY Zenon, <1>1, <1>3, <1>4 DEF RobberListed, HasRobbed
<1>6. DrawnListed'
  BY ZenonT(60), <1>1, <1>3, <1>4 DEF DrawnListed, HasRobbed, Robbing
<1>7. PayeeListed'
  <2> SUFFICES ASSUME NEW o \in Threads, NEW k \in Keys, pc'[o] = "pay", Live(k)',
                      packet'[k].id = held'[o].id, Protected(held[o].id)'
               PROVE  HasRobbed(packet[k], user[o])'
    BY Zenon DEF PayeeListed
  <2>1. pc[o] = "pay" /\ held[o].id \in Packets \ {held[t].id} /\ held'[o] = held[o]
    BY Zenon, <1>1, <1>3 DEF Robbing
  <2>2. packet'[k] = packet[k] /\ Live(k)
    BY Zenon, <2>1, SendStoreOthers
  <2> QED
    BY Zenon, <1>1, <1>4, <2>1, <2>2 DEF PayeeListed, HasRobbed
<1>8. PaidOnce'
  BY Zenon, <1>1, <1>4 DEF PaidOnce
<1> QED
  BY Zenon, <1>2, <1>5, <1>6, <1>7, <1>8

LEMMA DrawsListed ==
  ASSUME TypeOK, Shape, Owned, Locked, Listed, NEW t \in Threads, NEW p, NEW s,
         Draws(t, p, s)
  PROVE  Listed'
<1> USE DEF Listed
<1>1. /\ UNCHANGED <<user, packet, grants>> /\ pc'[t] = "setpb" /\ p.id \in Packets
      /\ \A o \in Threads \ {t} : pc'[o] = pc[o] /\ held'[o] = held[o]
      /\ held'[t] = Robbed(p, user[t], s) /\ held'[t].id = p.id
      /\ user[t] \in Users /\ p \in Packet
  BY Zenon, PacketFields DEF Draws
<1>2. \A i : Protected(i)' <=> Protected(i)
  BY Zenon DEF Draws, Protected
<1>3. \A v \in Users : Protected(p.id) /\ grants[p.id][v] > 0 => HasRobbed(p, v)
  BY Zenon DEF Draws, StoredListed
<1>4. Protected(p.id) => grants[p.id][user[t]] = 0
  <2>1. ~HasRobbed(p, user[t]) /\ grants[p.id][user[t]] \in Nat
    BY ZenonT(30), <1>1 DEF Draws, TypeOK, HistoryOK
  <2> QED
    <3>1. Protected(p.id) => ~(grants[p.id][user[t]] > 0)
      BY Zenon, <1>1, <1>3, <2>1
    <3> QED
      BY <2>1, <3>1
<1>5. /\ HasRobbed(held'[t], user[t])
      /\ \A v \in Users : HasRobbed(p, v) => HasRobbed(held'[t], v)
  BY <1>1, RobbedFields
<1>6. StoredListed'
  BY Zenon, <1>1, <1>2 DEF StoredListed, Live, HasRobbed
<1>7. RobberListed'
  <2> SUFFICES ASSUME NEW o \in Threads, pc'[o] \in Robbing, Protected(held[o].id)'
               PROVE  grants'[held'[o].id][user'[o]] = 0 /\ HasRobbed(held[o], user[o])'
    BY Zenon DEF RobberListed
  <2>1. CASE o = t
    BY ZenonT(30), <1>1, <1>2, <1>4, <1>5, <2>1 DEF HasRobbed
  <2>2. CASE o # t
    BY Zenon, <1>1, <1>2, <2>2 DEF RobberListed, HasRobbed
  <2> QED
    BY Zenon, <2>1, <2>2
<1>8. DrawnListed'
  <2> SUFFICES ASSUME NEW o \in Threads, NEW v \in Users, pc'[o] = "setpb",
                      Protected(held[o].id)', grants'[held'[o].id][v] > 0
               PROVE  HasRobbed(held[o], v)'
    BY Zenon DEF DrawnListed
  <2>1. CASE o = t
    BY ZenonT(30), <1>1, <1>2, <1>3, <1>5, <2>1 DEF HasRobbed
  <2>2. CASE o # t
    BY <1>1, <1>2, <2>2 DEF DrawnListed, HasRobbed
  <2> QED
    BY Zenon, <2>1, <2>2
<1>9. PayeeListed'
  BY ZenonT(60), <1>1, <1>2 DEF PayeeListed, Live, HasRobbed
<1>10. PaidOnce'
  BY Zenon, <1>1, <1>2 DEF PaidOnce
<1> QED
  BY Zenon, <1>6, <1>7, <1>8, <1>9, <1>10

LEMMA StoresListed ==
  ASSUME TypeOK, Shape, Owned, Locked, Listed, NEW t \in Threads, Stores(t)
  PROVE  Listed'
<1> DEFINE id == held[t].id
<1> USE DEF Listed
<1>1. /\ UNCHANGED <<user, key, held, grants>> /\ pc[t] = "setpb" /\ pc'[t] = "pay"
      /\ id \in Packets /\ key[t] \in Keys /\ user[t] \in Users
      /\ \A o \in Threads \ {t} : pc'[o] = pc[o]
  BY Zenon DEF Stores
<1>2. \A i : Protected(i)' => Protected(i)
  BY Zenon DEF Stores, Protected
<1>3. \A k \in Keys : Live(k)' /\ Protected(packet[k].id)' =>
        \/ packet'[k] = packet[k] /\ Live(k) /\ (k = key[t] => packet[k].id # id)
        \/ packet'[k] = held[t] /\ k = key[t]
  <2> SUFFICES ASSUME NEW k \in Keys, Live(k)', Protected(packet[k].id)'
               PROVE  \/ packet'[k] = packet[k] /\ Live(k) /\ (k = key[t] => packet[k].id # id)
                      \/ packet'[k] = held[t] /\ k = key[t]
    BY Zenon
  <2>1. CASE packet'[key[t]] = held[t]
    BY Zenon, <2>1 DEF Stores, Live
  <2>2. CASE packet' = packet /\ lost' = lost \cup {id}
    BY Zenon, <2>2 DEF Live, Protected
  <2> QED
    BY Zenon, <2>1, <2>2 DEF Stores
<1>4. \A o \in Threads : pc'[o] \in Robbing => pc[o] \in Robbing
  BY Zenon, <1>1 DEF Robbing
<1>5. StoredListed'
  <2> SUFFICES ASSUME NEW k \in Keys, NEW u \in Users, Live(k)',
                      Protected(packet[k].id)', grants'[packet'[k].id][u] > 0
               PROVE  HasRobbed(packet[k], u)'
    BY Zenon DEF StoredListed
  <2>1. CASE packet'[k] = packet[k] /\ Live(k)
    BY Zenon, <1>1, <1>2, <2>1 DEF StoredListed, HasRobbed
  <2>2. CASE packet'[k] = held[t]
    BY Zenon, <1>1, <1>2, <2>2 DEF DrawnListed, HasRobbed
  <2> QED
    BY Zenon, <1>3, <2>1, <2>2
<1>6. RobberListed'
  BY Zenon, <1>1, <1>2, <1>4 DEF RobberListed, HasRobbed
<1>7. DrawnListed'
  BY Zenon, <1>1, <1>2 DEF DrawnListed, HasRobbed
<1>8. PayeeListed'
  <2> SUFFICES ASSUME NEW o \in Threads, NEW k \in Keys, pc'[o] = "pay", Live(k)',
                      packet'[k].id = held'[o].id, Protected(held[o].id)'
               PROVE  HasRobbed(packet[k], user[o])'
    BY Zenon DEF PayeeListed
  <2>1. Protected(held[o].id) /\ pc[o] \in Robbing
    BY Zenon, <1>1, <1>2, <1>4 DEF Robbing
  <2>2. CASE packet'[k] = held[t]
    <3>1. held[o].id = id
      BY Zenon, <1>1, <2>2
    <3>2. sent[id].key = key[t]
      BY Zenon, <1>1 DEF Owned, RobOwned, Robbing
    <3>3. o = t
      BY Zenon, <1>1, <2>1, <3>1, <3>2, OneRobber DEF LockHolders
    <3> QED
      BY Zenon, <1>1, <2>1, <2>2, <3>3 DEF RobberListed, HasRobbed
  <2>3. CASE packet'[k] = packet[k] /\ Live(k) /\ (k = key[t] => packet[k].id # id)
    <3>1. CASE o = t
      <4>1. sent[packet[k].id].key = k /\ sent[id].key = key[t]
        BY ZenonT(30), <1>1, <2>3 DEF Owned, StoredOwned, RobOwned, Robbing
      <4> QED
        BY Zenon, <1>1, <2>3, <3>1, <4>1
    <3>2. CASE o # t
      BY <1>1, <2>1, <2>3, <3>2 DEF PayeeListed, HasRobbed
    <3> QED
      BY Zenon, <3>1, <3>2
  <2> QED
    BY Zenon, <1>1, <1>3, <2>2, <2>3
<1>9. PaidOnce'
  BY Zenon, <1>1, <1>2 DEF PaidOnce
<1> QED
  BY ZenonT(30), <1>5, <1>6, <1>7, <1>8, <1>9

LEMMA PaysListed ==
  ASSUME TypeOK, Shape, Owned, Locked, Listed, NEW t \in Threads, Pays(t)
  PROVE  Listed'
<1> DEFINE id == held[t].id
<1> USE DEF Listed
<1>1. /\ UNCHANGED <<user, key, held, packet>> /\ pc[t] = "pay" /\ pc'[t] = "unlock"
      /\ id \in Packets /\ key[t] \in Keys /\ user[t] \in Users
      /\ \A o \in Threads \ {t} : pc'[o] = pc[o]
  BY Zenon DEF Pays
<1>2. \A i : Protected(i)' <=> Protected(i)
  BY Zenon DEF Pays, Protected
<1>3. \A i \in Packets, u \in Users :
        grants'[i][u] = IF i = id /\ u = user[t] THEN grants[i][u] + 1 ELSE grants[i][u]
  BY Zenon DEF Pays
<1>4. \A o \in Threads : pc'[o] \in Robbing => o # t /\ pc[o] = pc'[o]
  BY Zenon, <1>1 DEF Robbing
<1>5. \A o \in Threads : pc'[o] \in Robbing /\ Protected(held[o].id) =>
        held[o].id \in Packets /\ held[o].id # id /\ user[o] \in Users
  <2> SUFFICES ASSUME NEW o \in Threads, pc'[o] \in Robbing, Protected(held[o].id)
               PROVE  held[o].id \in Packets /\ held[o].id # id /\ user[o] \in Users
    BY Zenon
  <2>1. held[o].id \in Packets /\ user[o] \in Users
    BY Zenon, <1>4, LocalsThere, PacketFields DEF Robbing, Idle
  <2>2. sent[id].key = key[t]
    BY Zenon, <1>1 DEF Owned, RobOwned, Robbing
  <2>3. held[o].id = id => t = o
    BY Zenon, <1>1, <1>4, <2>2, OneRobber DEF LockHolders
  <2> QED
    BY Zenon, <1>4, <2>1, <2>3
<1>a. \A o \in Threads : pc'[o] \in Robbing /\ Protected(held[o].id) =>
        \A u \in Users : grants'[held[o].id][u] = grants[held[o].id][u]
  BY ZenonT(30), <1>3, <1>5
<1>6. StoredListed'
  <2> SUFFICES ASSUME NEW k \in Keys, NEW u \in Users, Live(k),
                      Protected(packet[k].id), grants'[packet[k].id][u] > 0
               PROVE  HasRobbed(packet[k], u)
    BY ZenonT(30), <1>1, <1>2 DEF StoredListed, Live, HasRobbed
  <2>1. packet[k].id \in Packets
    BY Zenon, StoredPacket, PacketFields
  <2>2. CASE packet[k].id = id /\ u = user[t]
    BY Zenon, <1>1, <2>2 DEF PayeeListed
  <2>3. CASE ~(packet[k].id = id /\ u = user[t])
    BY ZenonT(30), <1>3, <2>1, <2>3 DEF StoredListed
  <2> QED
    BY Zenon, <2>2, <2>3
<1>7. RobberListed'
  BY ZenonT(30), <1>1, <1>2, <1>4, <1>5, <1>a DEF RobberListed, HasRobbed
<1>8. DrawnListed'
  <2> SUFFICES ASSUME NEW o \in Threads, NEW u \in Users, pc'[o] = "setpb",
                      Protected(held[o].id)', grants'[held'[o].id][u] > 0
               PROVE  HasRobbed(held'[o], u)
    BY Zenon DEF DrawnListed, HasRobbed
  <2>1. pc'[o] \in Robbing
    BY Zenon DEF Robbing
  <2>2. held' = held
    BY Zenon DEF Pays
  <2>3. pc[o] = "setpb" /\ Protected(held[o].id)
    BY Zenon, <1>2, <1>4, <2>1, <2>2
  <2>4. grants[held[o].id][u] > 0
    BY Zenon, <1>a, <2>1, <2>2, <2>3
  <2> QED
    BY Zenon, <2>2, <2>3, <2>4 DEF DrawnListed
<1>9. PayeeListed'
  BY <1>1, <1>2, <1>4 DEF PayeeListed, Live, HasRobbed, Robbing
<1>10. PaidOnce'
  <2> SUFFICES ASSUME NEW i \in Packets, NEW u \in Users, Protected(i)
               PROVE  grants'[i][u] <= 1
    BY Zenon, <1>2 DEF PaidOnce
  <2>1. CASE i = id /\ u = user[t]
    <3>1. grants[i][u] = 0
      BY Zenon, <1>1, <2>1 DEF RobberListed, Robbing
    <3> QED
      <4>1. grants'[i][u] = grants[i][u] + 1
        BY Zenon, <1>3, <2>1
      <4> QED
        BY <3>1, <4>1
  <2>2. CASE ~(i = id /\ u = user[t])
    BY <1>3, <2>2 DEF PaidOnce
  <2> QED
    BY Zenon, <2>1, <2>2
<1> QED
  BY <1>6, <1>7, <1>8, <1>9, <1>10

LEMMA StopListedStep ==
  ASSUME TypeOK, Shape, Listed, (\E k, p : Reads(k, p)) \/ Deletes \/ Refunds
  PROVE  Listed'
<1> USE DEF Listed
<1>1. UNCHANGED <<pc, user, held, grants>>
  BY Zenon DEF Reads, Deletes, Refunds
<1>2. \A i : Protected(i)' => Protected(i)
  BY Zenon DEF Reads, Deletes, Refunds, Protected
<1>3. \A k \in Keys : Live(k)' => packet'[k] = packet[k] /\ Live(k)
  BY Zenon DEF Reads, Deletes, Refunds, Live
<1>4. StoredListed'
  BY Zenon, <1>1, <1>2, <1>3 DEF StoredListed, HasRobbed
<1>5. RobberListed' /\ DrawnListed'
  BY Zenon, <1>1, <1>2 DEF RobberListed, DrawnListed, HasRobbed
<1>6. PayeeListed'
  BY Zenon, <1>1, <1>2, <1>3 DEF PayeeListed, HasRobbed
<1>7. PaidOnce'
  BY <1>1, <1>2 DEF PaidOnce
<1> QED
  BY Zenon, <1>4, <1>5, <1>6, <1>7
=============================================================================

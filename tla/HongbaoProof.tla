---------------------------- MODULE HongbaoProof ----------------------------
(* Every step of Hongbao keeps Funded; the invariance of IInv, and the         *)
(* properties of Hongbao it gives.                                             *)
EXTENDS HongbaoOwned

-----------------------------------------------------------------------------
(* The same steps keep Funded *)

LEMMA Amounts0 ==
  ASSUME TypeOK
  PROVE  /\ \A id \in Packets : Spent(id) \in Nat
         /\ \A t \in Threads : share[t] \in Nat
BY DEF TypeOK, HistoryOK, LocalsOK, Spent

LEMMA SendCheckFunded ==
  ASSUME TypeOK, Shape, Owned, Funded, NEW t \in Threads, NEW u \in Senders,
         NEW m \in Amounts, NEW n \in Counts, NEW id \in Packets, SendCheck(t, u, m, n, id)
  PROVE  Funded'
<1> USE DEF Funded
<1>1. \A o \in Threads : pc'[o] \in Robbing =>
         pc[o] = pc'[o] /\ held'[o] = held[o] /\ held[o].id \in Packets \ {id}
  BY Zenon, SendCheckFacts
<1>2. /\ \A k \in Keys : Live(k) => packet[k].id \in Packets \ {id}
      /\ stop.value # None => stop.value.id \in Packets \ {id}
      /\ UNCHANGED <<packet, stop, share, taken>>
  BY Zenon, SendCheckFacts
<1>3. \A i \in Packets \ {id} : /\ Sound(i)' <=> Sound(i)
                                /\ sent'[i].money = sent[i].money
  BY SendCheckFacts DEF Sound, Protected
<1>4. \A i \in Packets : Spent(i)' = Spent(i)
  BY Zenon, SendCheckFacts DEF Spent
<1>5. StoredFunded'
  BY Zenon, <1>2, <1>3, <1>4 DEF StoredFunded, Live
<1>6. DrawnFunded' /\ PayFunded'
  BY <1>1, <1>2, <1>3, <1>4 DEF DrawnFunded, PayFunded, Robbing
<1>7. PayStoredFunded'
  BY <1>1, <1>2, <1>3, <1>4 DEF PayStoredFunded, Live, Robbing
<1>8. StopFunded'
  BY Zenon, <1>2, <1>3, <1>4 DEF StopFunded
<1>9. PayStopFunded'
  BY <1>1, <1>2, <1>3, <1>4 DEF PayStopFunded, Robbing
<1>10. PayoutBounded'
  <2> SUFFICES ASSUME NEW i \in Packets, Sound(i)'
               PROVE  Spent(i)' <= sent'[i].money
    BY DEF PayoutBounded, Sound, Spent
  <2>1. CASE i = id
    <3>1. Spent(id) = 0 /\ sent'[id].money \in Nat
      BY SMTT(30), SendCheckFacts DEF Spent
    <3> QED
      BY <1>4, <2>1, <3>1
  <2>2. CASE i # id
    BY Zenon, <1>3, <1>4, <2>2 DEF PayoutBounded, Sound, Spent
  <2> QED
    BY Zenon, <2>1, <2>2
<1> QED
  BY Zenon, <1>5, <1>6, <1>7, <1>8, <1>9, <1>10

LEMMA SendStoreFunded ==
  ASSUME TypeOK, Shape, Owned, Funded, NEW t \in Threads, SendStore(t)
  PROVE  Funded'
<1> DEFINE id == held[t].id
<1> USE DEF Funded
<1>1. UNCHANGED <<held, share, stop, taken, raced>>
  BY Zenon, SendStoreFacts
<1>2. \A i \in Packets : /\ Sound(i)' <=> Sound(i) /\ Spent(i)' = Spent(i)
                         /\ sent'[i].money = sent[i].money
  <2>1. UNCHANGED <<paidOut, refunded>>
    BY Zenon, SendStoreFacts
  <2> QED
    BY <1>1, <2>1, SendStoreOthers DEF Sound, Spent
<1>3. \A o \in Threads : pc'[o] \in Robbing =>
        pc[o] = pc'[o] /\ held[o].id \in Packets \ {id}
  BY SendStoreOthers
<1>4. \A k \in Keys : Live(k)' =>
        \/ packet'[k] = packet[k] /\ Live(k) /\ packet[k].id \in Packets
        \/ packet'[k] = held[t]
  BY SendStoreOthers
<1>5. /\ stop.value # None => stop.value.id \in Packets \ {id}
      /\ id \in Packets /\ held[t].leftmoney = sent[id].money /\ sent[id].money \in Nat
  BY SendStoreOthers, PacketFields
<1>6. Spent(id) = 0
  BY SendStoreOthers DEF Spent
<1>7. StoredFunded'
  <2> SUFFICES ASSUME NEW k \in Keys, Live(k)', Sound(packet[k].id)'
               PROVE  /\ Spent(packet[k].id)' + packet'[k].leftmoney
                           <= sent'[packet'[k].id].money
                      /\ stop'.value # None /\ stop'.value.id = packet'[k].id
                           => stop'.pc = "del"
    BY Zenon DEF StoredFunded
  <2>1. CASE packet'[k] = packet[k] /\ Live(k) /\ packet[k].id \in Packets
    <3>1. Spent(packet[k].id)' = Spent(packet'[k].id)
      BY Zenon, <1>2, <2>1 DEF Spent
    <3>2. Sound(packet[k].id)
      BY Zenon, <1>2, <2>1
    <3> QED
      BY Zenon, <1>1, <1>2, <2>1, <3>1, <3>2 DEF StoredFunded
  <2>2. CASE packet'[k] = held[t]
    <3>1. Spent(packet[k].id)' = Spent(id)
      BY Zenon, <1>1, <1>2, <1>5, <2>2 DEF Spent
    <3> QED
      BY <1>1, <1>2, <1>5, <1>6, <2>2, <3>1
  <2> QED
    BY Zenon, <1>4, <2>1, <2>2
<1>8. DrawnFunded' /\ PayFunded'
  BY ZenonT(30), <1>1, <1>2, <1>3 DEF DrawnFunded, PayFunded, Robbing
<1>9. PayStoredFunded'
  <2>1. \A o \in Threads, k \in Keys :
          pc'[o] = "pay" /\ Live(k)' /\ packet'[k].id = held'[o].id =>
            /\ pc[o] = "pay" /\ packet'[k] = packet[k] /\ Live(k)
            /\ held[o].id \in Packets /\ held'[o] = held[o] /\ share'[o] = share[o]
    BY Zenon, <1>1, <1>3, <1>4 DEF Robbing
  <2> QED
    BY <1>2, <2>1 DEF PayStoredFunded
<1>10. StopFunded'
  BY Zenon, <1>1, <1>2, <1>5 DEF StopFunded
<1>11. PayStopFunded'
  BY Zenon, <1>1, <1>2, <1>3, <1>5 DEF PayStopFunded, Robbing
<1>12. PayoutBounded'
  BY Zenon, <1>2 DEF PayoutBounded, Sound, Spent
<1> QED
  BY Zenon, <1>7, <1>8, <1>9, <1>10, <1>11, <1>12

LEMMA DrawsFunded ==
  ASSUME TypeOK, Shape, Owned, Funded, NEW t \in Threads, NEW p, NEW s, Draws(t, p, s)
  PROVE  Funded'
<1> USE DEF Funded
<1>1. /\ UNCHANGED <<packet, stop, taken, sent>> /\ pc'[t] = "setpb"
      /\ p.id \in Packets /\ p.leftmoney \in Nat /\ s \in 0 .. p.leftmoney
      /\ \A o \in Threads \ {t} :
           pc'[o] = pc[o] /\ held'[o] = held[o] /\ share'[o] = share[o]
      /\ held'[t].id = p.id /\ held'[t].leftmoney = p.leftmoney - s /\ share'[t] = s
      /\ p = packet[key[t]] /\ Live(key[t]) /\ key[t] \in Keys
  BY Zenon, PacketFields DEF Draws
<1>2. \A i : Sound(i)' <=> Sound(i)
  BY Zenon DEF Draws, Sound, Protected
<1>3. \A i : Spent(i)' = Spent(i)
  BY ZenonT(30) DEF Draws, Spent
<1>4. StoredFunded' /\ StopFunded' /\ PayoutBounded'
  BY ZenonT(30), <1>1, <1>2, <1>3 DEF StoredFunded, StopFunded, PayoutBounded, Sound, Spent, Live
<1>5. PayFunded' /\ PayStoredFunded' /\ PayStopFunded'
  BY ZenonT(30), <1>1, <1>2, <1>3 DEF PayFunded, PayStoredFunded, PayStopFunded, Live
<1>6. DrawnFunded'
  <2> SUFFICES ASSUME NEW o \in Threads, pc'[o] = "setpb", Sound(held[o].id)',
                      held'[o].id \notin taken'
               PROVE  Spent(held'[o].id) + held'[o].leftmoney + share'[o]
                        <= sent[held'[o].id].money
    BY ZenonT(30), <1>1, <1>3 DEF DrawnFunded, Spent
  <2>1. CASE o = t
    <3>1. Spent(p.id) + p.leftmoney <= sent[p.id].money
      BY Zenon, <1>1, <1>2, <2>1 DEF StoredFunded
    <3>2. Spent(p.id) \in Nat
      BY Zenon, <1>1, Amounts0
    <3> QED
      BY SMTT(90), <1>1, <2>1, <3>1, <3>2
  <2>2. CASE o # t
    BY Zenon, <1>1, <1>2, <2>2 DEF DrawnFunded
  <2> QED
    BY Zenon, <2>1, <2>2
<1> QED
  BY Zenon, <1>4, <1>5, <1>6

LEMMA StoresFunded ==
  ASSUME TypeOK, Shape, Owned, Locked, Funded, NEW t \in Threads, Stores(t)
  PROVE  Funded'
<1> DEFINE id == held[t].id
<1> USE DEF Funded
<1>1. /\ UNCHANGED <<key, held, share, stop, sent, taken>>
      /\ pc[t] = "setpb" /\ pc'[t] = "pay" /\ id \in Packets /\ key[t] \in Keys
      /\ \A o \in Threads \ {t} : pc'[o] = pc[o]
  BY Zenon DEF Stores
<1>2. \A i : /\ Sound(i)' => Sound(i) /\ Protected(i)
             /\ Spent(i)' = Spent(i)
  BY Zenon DEF Stores, Sound, Protected, Spent
<1>3. Sound(id)' => id \notin taken
  BY Zenon DEF Stores, Sound
<1>4. \A k \in Keys : Live(k)' /\ Sound(packet[k].id)' =>
        \/ packet'[k] = packet[k] /\ Live(k) /\ (k = key[t] => packet[k].id # id)
        \/ packet'[k] = held[t] /\ k = key[t]
  <2> SUFFICES ASSUME NEW k \in Keys, Live(k)', Sound(packet[k].id)'
               PROVE  \/ packet'[k] = packet[k] /\ Live(k) /\ (k = key[t] => packet[k].id # id)
                      \/ packet'[k] = held[t] /\ k = key[t]
    BY Zenon
  <2>1. CASE packet'[key[t]] = held[t]
    BY Zenon, <2>1 DEF Stores, Live
  <2>2. CASE packet' = packet /\ lost' = lost \cup {id}
    BY Zenon, <2>2 DEF Live, Sound, Protected
  <2> QED
    BY Zenon, <2>1, <2>2 DEF Stores
<1>5. Sound(id)' => Spent(id) + held[t].leftmoney + share[t] <= sent[id].money
  BY Zenon, <1>1, <1>2, <1>3 DEF DrawnFunded
<1>6. /\ Spent(id) \in Nat /\ held[t].leftmoney \in Nat /\ share[t] \in Nat
      /\ sent[id].money \in Nat
  <2>1. sent[id] \in Request
    BY Zenon, <1>1 DEF Owned, RobOwned, Robbing, Copy, TypeOK, HistoryOK
  <2> QED
    BY Zenon, <1>1, <2>1, RequestFields, PacketFields, Amounts0 DEF Stores
<1>7. stop.value # None /\ Sound(id)' => stop.value.id # id
  BY Zenon, <1>3 DEF Owned, StopOwned
<1>8. StoredFunded'
  <2> SUFFICES ASSUME NEW k \in Keys, Live(k)', Sound(packet[k].id)'
               PROVE  /\ Spent(packet'[k].id) + packet'[k].leftmoney
                           <= sent[packet'[k].id].money
                      /\ stop.value # None /\ stop.value.id = packet'[k].id
                           => stop.pc = "del"
    BY Zenon, <1>1, <1>2 DEF StoredFunded, Spent
  <2>1. CASE packet'[k] = packet[k] /\ Live(k)
    BY ZenonT(30), <1>2, <2>1 DEF StoredFunded, Sound, Protected
  <2>2. CASE packet'[k] = held[t]
    <3>1. Sound(id)'
      BY Zenon, <1>1, <2>2
    <3> QED
      BY <1>5, <1>6, <1>7, <2>2, <3>1
  <2> QED
    BY Zenon, <1>4, <2>1, <2>2
<1>9. DrawnFunded'
  <2>1. \A o \in Threads : pc'[o] = "setpb" => pc[o] = "setpb"
    BY Zenon, <1>1
  <2> QED
    BY Zenon, <1>1, <1>2, <2>1 DEF DrawnFunded
<1>10. PayFunded'
  <2> SUFFICES ASSUME NEW o \in Threads, pc'[o] = "pay", Sound(held[o].id)'
               PROVE  Spent(held[o].id) + share[o] <= sent[held[o].id].money
    BY ZenonT(30), <1>1, <1>2 DEF PayFunded
  <2>1. CASE o = t
    BY <1>1, <1>5, <1>6, <2>1
  <2>2. CASE o # t
    BY Zenon, <1>1, <1>2, <2>2 DEF PayFunded
  <2> QED
    BY Zenon, <2>1, <2>2
<1>11. PayStoredFunded'
  <2> SUFFICES ASSUME NEW o \in Threads, NEW k \in Keys, pc'[o] = "pay", Live(k)',
                      packet'[k].id = held[o].id, Sound(held[o].id)'
               PROVE  Spent(held[o].id) + share[o] + packet'[k].leftmoney
                        <= sent[held[o].id].money
    BY Zenon, <1>1, <1>2 DEF PayStoredFunded
  <2>0. Sound(packet[k].id)'
    BY Zenon, <1>1 DEF Sound, Protected
  <2>1. CASE packet'[k] = held[t]
    <3>1. held[o].id = id /\ Protected(held[o].id) /\ pc[o] \in Robbing
      BY Zenon, <1>1, <1>2, <2>1 DEF Robbing
    <3>2. sent[id].key = key[t]
      BY Zenon, <1>1 DEF Owned, RobOwned, Robbing
    <3>3. o = t
      BY Zenon, <1>1, <3>1, <3>2, OneRobber DEF LockHolders
    <3> QED
      BY <1>1, <1>5, <1>6, <2>1, <3>3
  <2>2. CASE packet'[k] = packet[k] /\ Live(k) /\ (k = key[t] => packet[k].id # id)
    <3>1. CASE o = t
      <4>1. sent[packet[k].id].key = k /\ sent[id].key = key[t]
        BY Zenon, <1>1, <2>2 DEF Owned, StoredOwned, RobOwned, Robbing
      <4> QED
        BY Zenon, <1>1, <2>2, <3>1, <4>1
    <3>2. CASE o # t
      BY Zenon, <1>1, <1>2, <2>2, <3>2 DEF PayStoredFunded
    <3> QED
      BY Zenon, <3>1, <3>2
  <2> QED
    BY Zenon, <1>4, <2>0, <2>1, <2>2
<1>12. StopFunded'
  BY Zenon, <1>1, <1>2 DEF StopFunded
<1>13. PayStopFunded'
  <2> SUFFICES ASSUME NEW o \in Threads, stop.value # None, Sound(stop.value.id)',
                      pc'[o] = "pay", held[o].id = stop.value.id
               PROVE  Spent(held[o].id) + share[o] + stop.value.leftmoney
                        <= sent[held[o].id].money
    BY Zenon, <1>1, <1>2 DEF PayStopFunded, Sound, Protected
  <2>1. o # t
    <3>1. o = t => Sound(id)'
      BY Zenon, <1>1
    <3> QED
      BY Zenon, <1>7, <3>1
  <2> QED
    BY Zenon, <1>1, <1>2, <2>1 DEF PayStopFunded
<1>14. PayoutBounded'
  BY Zenon, <1>1, <1>2 DEF PayoutBounded, Sound, Spent
<1> QED
  BY ZenonT(30), <1>8, <1>9, <1>10, <1>11, <1>12, <1>13, <1>14

LEMMA PaysFunded ==
  ASSUME TypeOK, Shape, Owned, Locked, Funded, NEW t \in Threads, Pays(t)
  PROVE  Funded'
<1> DEFINE id == held[t].id
<1> USE DEF Funded
<1>1. /\ UNCHANGED <<key, held, share, packet, stop, sent, taken>>
      /\ pc[t] = "pay" /\ pc'[t] = "unlock" /\ id \in Packets /\ key[t] \in Keys
      /\ \A o \in Threads \ {t} : pc'[o] = pc[o]
  BY Zenon DEF Pays
<1>2. \A i : Sound(i)' <=> Sound(i)
  BY Zenon DEF Pays, Sound, Protected
<1>3. \A i \in Packets : Spent(i)' = IF i = id THEN Spent(i) + share[t] ELSE Spent(i)
  BY DEF Pays, Spent, TypeOK, HistoryOK, LocalsOK
<1>4. \A o \in Threads : pc'[o] \in Robbing => o # t /\ pc[o] = pc'[o]
  BY Zenon, <1>1 DEF Robbing
<1>5. \A o \in Threads : pc'[o] \in Robbing /\ Sound(held[o].id) =>
        held[o].id \in Packets /\ held[o].id # id
  <2> SUFFICES ASSUME NEW o \in Threads, pc'[o] \in Robbing, Protected(held[o].id)
               PROVE  held[o].id \in Packets /\ held[o].id # id
    BY Zenon DEF Sound
  <2>1. held[o].id \in Packets
    BY Zenon, <1>4, LocalsThere, PacketFields
  <2>2. sent[id].key = key[t]
    BY Zenon, <1>1 DEF Owned, RobOwned, Robbing
  <2>3. held[o].id = id => t = o
    BY Zenon, <1>1, <1>4, <2>2, OneRobber DEF LockHolders
  <2> QED
    BY Zenon, <1>4, <2>1, <2>3
<1>6. Spent(id) \in Nat /\ share[t] \in Nat
  BY Zenon, <1>1, Amounts0
<1>7. StoredFunded'
  <2> SUFFICES ASSUME NEW k \in Keys, Live(k), Sound(packet[k].id)
               PROVE  /\ Spent(packet[k].id)' + packet[k].leftmoney
                           <= sent[packet[k].id].money
                      /\ stop.value # None /\ stop.value.id = packet[k].id
                           => stop.pc = "del"
    BY Zenon, <1>1, <1>2 DEF StoredFunded, Live
  <2>1. packet[k].id \in Packets /\ packet[k].leftmoney \in Nat
    BY Zenon, StoredPacket, PacketFields
  <2>2. Spent(packet[k].id)' = IF packet[k].id = id THEN Spent(id) + share[t]
                               ELSE Spent(packet[k].id)
    BY Zenon, <1>1, <1>3, <2>1 DEF Spent
  <2> QED
    BY Zenon, <1>1, <2>2 DEF StoredFunded, PayStoredFunded
<1>8. DrawnFunded' /\ PayFunded'
  BY ZenonT(30), <1>1, <1>2, <1>3, <1>4, <1>5 DEF DrawnFunded, PayFunded, Robbing
<1>9. PayStoredFunded'
  BY Zenon, <1>1, <1>2, <1>3, <1>4, <1>5 DEF PayStoredFunded, Live, Robbing
<1>10. StopFunded'
  <2> SUFFICES ASSUME stop.value # None, Sound(stop.value.id)
               PROVE  Spent(stop.value.id)' + stop.value.leftmoney
                        <= sent[stop.value.id].money
    BY Zenon, <1>1, <1>2 DEF StopFunded
  <2>1. stop.value.id \in Packets
    BY Zenon, StopThere, PacketFields
  <2>2. Spent(stop.value.id)' = IF stop.value.id = id THEN Spent(id) + share[t]
                                ELSE Spent(stop.value.id)
    BY Zenon, <1>1, <1>3, <2>1 DEF Spent
  <2> QED
    BY Zenon, <1>1, <2>2 DEF StopFunded, PayStopFunded
<1>11. PayStopFunded'
  BY Zenon, <1>1, <1>2, <1>3, <1>4, <1>5 DEF PayStopFunded, Robbing
<1>12. PayoutBounded'
  <2> SUFFICES ASSUME NEW i \in Packets, Sound(i)
               PROVE  Spent(i)' <= sent[i].money
    BY Zenon, <1>1, <1>2 DEF PayoutBounded, Sound, Spent
  <2>1. CASE i = id
    BY Zenon, <1>1, <1>3, <2>1 DEF PayFunded
  <2>2. CASE i # id
    BY Zenon, <1>3, <2>2 DEF PayoutBounded, Sound, Spent
  <2> QED
    BY Zenon, <2>1, <2>2
<1> QED
  BY Zenon, <1>7, <1>8, <1>9, <1>10, <1>11, <1>12

LEMMA StopFundedStep ==
  ASSUME TypeOK, Shape, Owned, Funded, (\E k, p : Reads(k, p)) \/ Deletes
  PROVE  Funded'
<1> USE DEF Funded
<1>1. UNCHANGED <<pc, held, share, sent, paidOut, refunded>> /\ taken \subseteq taken'
  BY Zenon DEF Reads, Deletes
<1>2. \A i : (Sound(i)' => Sound(i)) /\ Spent(i)' = Spent(i)
  BY Zenon DEF Reads, Deletes, Sound, Protected, Spent
<1>3. \A k \in Keys : Live(k)' => packet'[k] = packet[k] /\ Live(k)
  BY Zenon DEF Reads, Deletes, Live
<1>4. DrawnFunded' /\ PayFunded'
  BY Zenon, <1>1, <1>2 DEF DrawnFunded, PayFunded
<1>5. PayStoredFunded'
  BY Zenon, <1>1, <1>2, <1>3 DEF PayStoredFunded
<1>6. PayoutBounded'
  BY <1>1, <1>2 DEF PayoutBounded, Sound, Spent
<1>7. CASE \E k, p : Reads(k, p)
  <2>1. PICK k, p : Reads(k, p)
    BY Zenon, <1>7
  <2>2. StoredFunded'
    BY ZenonT(30), <1>1, <1>2, <1>3, <2>1 DEF StoredFunded, Reads
  <2>3. StopFunded'
    BY <1>1, <1>2, <2>1 DEF StopFunded, StoredFunded, Reads
  <2>4. PayStopFunded'
    BY Zenon, <1>1, <1>2, <2>1 DEF PayStopFunded, PayStoredFunded, Reads
  <2> QED
    BY Zenon, <1>4, <1>5, <1>6, <2>2, <2>3, <2>4
<1>8. CASE Deletes
  <2>1. StopFunded' /\ PayStopFunded'
    BY Zenon, <1>1, <1>2, <1>8 DEF StopFunded, PayStopFunded, Deletes
  <2>2. \A k \in Keys : Live(k)' /\ Sound(packet[k].id)' => stop.value.id # packet[k].id
    <3> SUFFICES ASSUME NEW k \in Keys, Live(k)', Sound(packet[k].id)',
                        stop.value.id = packet[k].id
                 PROVE  FALSE
      BY Zenon
    <3>1. packet'[k] = packet[k] /\ Live(k) /\ stop.value # None
      BY Zenon, <1>3, <1>8, PacketFields DEF Deletes
    <3>2. k = stop.key
      BY Zenon, <3>1 DEF Owned, StoredOwned, StopOwned
    <3>3. packet'[k] # None
      BY Zenon DEF Live
    <3>4. stop.value.id \in lost'
      BY ZenonT(30), <1>8, <3>2, <3>3 DEF Deletes
    <3> QED
      BY Zenon, <3>1, <3>4 DEF Sound, Protected
  <2>3. StoredFunded'
    BY <1>1, <1>2, <1>3, <1>8, <2>2 DEF StoredFunded, Deletes
  <2> QED
    BY <1>4, <1>5, <1>6, <2>1, <2>3
<1> QED
  BY Zenon, <1>7, <1>8

LEMMA RefundsFunded ==
  ASSUME TypeOK, Shape, Owned, Funded, Refunds
  PROVE  Funded'
<1> DEFINE id == stop.value.id
<1> USE DEF Funded
<1>1. /\ UNCHANGED <<pc, held, share, packet, sent, taken>> /\ stop'.value = None
      /\ id \in Packets /\ id \in taken /\ stop.value # None
      /\ stop.pc = "refund" /\ stop.value.leftmoney \in Nat
  BY Zenon, PacketFields DEF Refunds, Owned, StopOwned
<1>2. \A i : Sound(i)' <=> Sound(i)
  BY ZenonT(30) DEF Refunds, Sound, Protected
<1>3. \A i \in Packets :
        Spent(i)' = IF i = id THEN Spent(i) + stop.value.leftmoney ELSE Spent(i)
  BY <1>1 DEF Refunds, Spent, TypeOK, HistoryOK
<1>4. \A o \in Threads : pc[o] \in Robbing => held[o].id \in Packets
  BY Zenon, LocalsThere, PacketFields
<1>5. \A k \in Keys : Live(k) /\ Sound(packet[k].id) =>
        packet[k].id \in Packets /\ packet[k].id # id
  BY Zenon, <1>1, StoredPacket, PacketFields DEF StoredFunded
<1>6. StoredFunded'
  BY Zenon, <1>1, <1>2, <1>3, <1>5 DEF StoredFunded, Live
<1>7. DrawnFunded'
  BY ZenonT(30), <1>1, <1>2, <1>3, <1>4 DEF DrawnFunded, Robbing
<1>8. PayFunded'
  <2> SUFFICES ASSUME NEW o \in Threads, pc[o] = "pay", Sound(held[o].id)
               PROVE  Spent(held[o].id)' + share[o] <= sent[held[o].id].money
    BY Zenon, <1>1, <1>2 DEF PayFunded
  <2>1. held[o].id \in Packets /\ Spent(held[o].id) \in Nat /\ share[o] \in Nat
    BY Zenon, <1>4, Amounts0 DEF Robbing
  <2>2. Spent(held[o].id)' = IF held[o].id = id
          THEN Spent(held[o].id) + stop.value.leftmoney ELSE Spent(held[o].id)
    BY Zenon, <1>1, <1>3, <2>1 DEF Spent
  <2> QED
    BY SMTT(90), <1>1, <2>1, <2>2 DEF PayFunded, PayStopFunded
<1>9. PayStoredFunded'
  BY Zenon, <1>1, <1>2, <1>3, <1>5 DEF PayStoredFunded, Live
<1>10. StopFunded' /\ PayStopFunded'
  BY Zenon, <1>1 DEF StopFunded, PayStopFunded
<1>11. PayoutBounded'
  <2> SUFFICES ASSUME NEW i \in Packets, Sound(i)
               PROVE  Spent(i)' <= sent[i].money
    BY Zenon, <1>1, <1>2 DEF PayoutBounded, Sound, Spent
  <2>1. CASE i = id
    BY Zenon, <1>1, <1>3, <2>1 DEF StopFunded
  <2>2. CASE i # id
    BY <1>3, <2>2 DEF PayoutBounded, Sound, Spent
  <2> QED
    BY Zenon, <2>1, <2>2
<1> QED
  BY ZenonT(30), <1>6, <1>7, <1>8, <1>9, <1>10, <1>11

-----------------------------------------------------------------------------
(* The inductive invariant *)

LEMMA InitIInv == Init => IInv
<1> SUFFICES ASSUME Init PROVE IInv
  OBVIOUS
<1> USE DEF Init
<1>1. StoresOK
  BY HongbaoConstants DEF StoresOK
<1>2. LocalsOK
  BY DEF LocalsOK, PCs
<1>3. LoopOK
  BY HongbaoConstants DEF LoopOK, NoStop
<1>4. HistoryOK
  BY DEF HistoryOK
<1>5. Shape
  BY DEF Shape, HandlersReady, PacketsFit, StopReady, Live, NoStop, Idle, Sending, Robbing,
     Keyed, LockHolders
<1>6. StoredOwned /\ SendOwned /\ RobOwned /\ SendsDistinct /\ StopOwned
  BY DEF StoredOwned, SendOwned, RobOwned, SendsDistinct, StopOwned, Live, NoStop, Idle,
     Sending, Robbing
<1>7. Fresh
  BY DEF Fresh
<1>8. Locked
  BY DEF Locked, LockExclusion, LockHolders, Idle
<1>9. Listed
  BY DEF Listed, StoredListed, RobberListed, DrawnListed, PayeeListed, PaidOnce, Live,
     Robbing, Idle
<1>10. Funded
  BY DEF Funded, StoredFunded, DrawnFunded, PayFunded, PayStoredFunded, StopFunded,
     PayStopFunded, PayoutBounded, Protected, Live, NoStop, Idle
<1> QED
  BY SMTT(30), <1>1, <1>2, <1>3, <1>4, <1>5, <1>6, <1>7, <1>8, <1>9, <1>10 DEF IInv, TypeOK, Owned

LEMMA SendIInv ==
  ASSUME IInv, NEW t \in Threads, SendStep(t)
  PROVE  IInv'
<1> USE DEF IInv
<1>0. Locked'
  BY LoginSendLocked
<1>1. CASE \E u \in Senders, m \in Amounts, n \in Counts, id \in Packets :
             SendCheck(t, u, m, n, id)
  <2>1. PICK u \in Senders, m \in Amounts, n \in Counts, id \in Packets :
               SendCheck(t, u, m, n, id)
    BY <1>1
  <2> QED
    BY Zenon, <1>0, <2>1, SendCheckShape, SendCheckOwned, SendCheckListed, SendCheckFunded
<1>2. CASE SendStore(t)
  <2>1. sent[held[t].id] # None
    BY <1>2 DEF SendStore, Owned, SendOwned, Copy, Sending
  <2> QED
    BY ZenonT(30), <1>0, <1>2, <2>1, SendStoreShape, SendStoreOwned, SendStoreListed, SendStoreFunded
<1>3. CASE SendDeduct(t) \/ SendInsert(t) \/ SendSchedule(t)
  <2>1. SendSchedule(t) => sent[held[t].id] # None
    BY DEF SendSchedule, Owned, SendOwned, Copy, Sending
  <2>2. TypeOK' /\ Shape'
    BY Zenon, <1>3, <2>1, SendDeductShape, SendInsertShape, SendScheduleShape
  <2>3. Calm
    BY Zenon, <1>3, SendCalm
  <2> QED
    BY ZenonT(30), <1>0, <2>2, <2>3, CalmOwned, CalmListed, CalmFunded
<1> QED
  BY <1>1, <1>2, <1>3 DEF SendStep

LEMMA RobIInv ==
  ASSUME IInv, NEW t \in Threads, RobStep(t)
  PROVE  IInv'
<1> USE DEF IInv
<1>1. CASE \/ \E u \in Users, k \in Keys : RobLock(t, u, k)
           \/ RobLockGet(t) \/ RobLockGetSet(t) \/ RobUnlock(t)
  <2>1. TypeOK' /\ Shape'
    BY Zenon, <1>1, RobLockShape, LockGetShape, RobUnlockShape
  <2>2. Locked'
    BY Zenon, <1>1, RobLockLocked, LockGetLocked, RobUnlockLocked
  <2>3. Calm
    BY Zenon, <1>1, LockCalm
  <2> QED
    BY <2>1, <2>2, <2>3, CalmOwned, CalmListed, CalmFunded
<1>2. CASE RobGet(t)
  <2>1. TypeOK' /\ Shape' /\ Locked'
    BY Zenon, <1>2, RobGetShape, RobLocked
  <2>2. CASE Calm
    BY <2>1, <2>2, CalmOwned, CalmListed, CalmFunded
  <2>3. CASE \E p, s : Draws(t, p, s)
    BY Zenon, <2>1, <2>3, DrawsOwned, DrawsListed, DrawsFunded
  <2> QED
    BY Zenon, <1>2, <2>2, <2>3, RobGetDraws
<1>3. CASE RobStore(t)
  <2>1. TypeOK' /\ Shape' /\ Locked'
    BY Zenon, <1>3, RobStoreShape, RobLocked
  <2> QED
    BY <1>3, <2>1, RobStoreStores, StoresOwned, StoresListed, StoresFunded
<1>4. CASE RobPay(t)
  <2>1. TypeOK' /\ Shape' /\ Locked'
    BY ZenonT(30), <1>4, RobPayShape, RobLocked
  <2>2. CASE Calm
    BY <2>1, <2>2, CalmOwned, CalmListed, CalmFunded
  <2>3. CASE Pays(t)
    BY <2>1, <2>3, PaysOwned, PaysListed, PaysFunded
  <2> QED
    BY <1>4, <2>2, <2>3, RobPayPays
<1> QED
  BY Zenon, <1>1, <1>2, <1>3, <1>4 DEF RobStep

LEMMA StopIInv ==
  ASSUME IInv, StopStep
  PROVE  IInv'
<1> USE DEF IInv
<1>1. TypeOK' /\ Shape' /\ Locked'
  BY StopGetShape, StopDelShape, StopRowShape, StopRefundShape, LoopLocked DEF StopStep
<1>2. CASE Calm
  BY Zenon, <1>1, <1>2, CalmOwned, CalmListed, CalmFunded
<1>3. CASE (\E k, p : Reads(k, p)) \/ Deletes
  BY <1>1, <1>3, StopOwnedStep, StopListedStep, StopFundedStep
<1>4. CASE Refunds
  BY Zenon, <1>1, <1>4, StopOwnedStep, StopListedStep, RefundsFunded
<1> QED
  BY ZenonT(30), <1>2, <1>3, <1>4, StopGetReads, StopDelDeletes, LoopCalm, StopRefundRefunds DEF StopStep

LEMMA NextIInv == IInv /\ [Next]_vars => IInv'
<1> SUFFICES ASSUME IInv, [Next]_vars PROVE IInv'
  OBVIOUS
<1>1. ASSUME NEW t \in Threads, LoginStep(t) PROVE IInv'
  <2>1. Calm /\ Locked' /\ TypeOK' /\ Shape'
    BY Zenon, <1>1, LoginCalm, LoginSendLocked, LoginShape DEF IInv
  <2> QED
    BY Zenon, <2>1, CalmOwned, CalmListed, CalmFunded DEF IInv
<1>2. CASE Tick \/ Crash
  <2>1. Calm /\ Locked' /\ TypeOK' /\ Shape'
    BY ZenonT(30), <1>2, LoopCalm, LoopLocked, TickCrashShape DEF IInv
  <2> QED
    BY Zenon, <2>1, CalmOwned, CalmListed, CalmFunded DEF IInv
<1>3. CASE UNCHANGED vars
  <2> USE <1>3 DEF vars, mysql, redis, local, history
  <2>1. TypeOK' /\ Shape'
    BY ZenonT(60) DEF IInv, TypeOK, StoresOK, LocalsOK, LoopOK, HistoryOK, Shape, HandlersReady,
       PacketsFit, StopReady, Live, Fits
  <2>2. Locked'
    BY Zenon, HoldersKeep DEF IInv
  <2>3. Calm
    BY Zenon DEF Calm, SameLocals, SameRequests
  <2> QED
    BY SMTT(30), <2>1, <2>2, <2>3, CalmOwned, CalmListed, CalmFunded DEF IInv
<1> QED
  BY Zenon, <1>1, <1>2, <1>3, SendIInv, RobIInv, StopIInv DEF Next

\* Every reachable state of the red packet handlers satisfies the inductive
\* invariant.
THEOREM Invariance == Spec => []IInv
BY InitIInv, NextIInv, PTL DEF Spec

\* Balances, shares and the number of shares left never become negative, and
\* every handler finds the locals it uses.
THEOREM TypeCorrect == Spec => []TypeOK
<1>1. IInv => TypeOK
  BY Zenon DEF IInv
<1> QED
  BY <1>1, Invariance, PTL

\* RedisLock lets one thread at a time into RobHongbao's critical section for a
\* key, for every packet stoi() cannot read as an expired time stamp.
THEOREM MutualExclusion == Spec => []LockExclusion
<1>1. IInv => LockExclusion
  BY Zenon DEF IInv, Locked
<1> QED
  BY <1>1, Invariance, PTL

\* RobHongbao pays a user at most once out of a packet.
THEOREM NoDoublePayment == Spec => []PaidOnce
<1>1. IInv => PaidOnce
  BY Zenon DEF IInv, Listed
<1> QED
  BY <1>1, Invariance, PTL

\* Robbers and the refund together never get more than the packet holds, unless
\* a rob races with StopRobHongbao.
THEOREM NoOverpayment == Spec => []PayoutBounded
<1>1. IInv => PayoutBounded
  BY DEF IInv, Funded
<1> QED
  BY <1>1, Invariance, PTL
=============================================================================

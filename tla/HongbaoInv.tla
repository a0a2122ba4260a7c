----------------------------- MODULE HongbaoInv -----------------------------
(***************************************************************************)
(* The inductive invariant of Hongbao.  It has five parts, each resting on   *)
(* the ones before:                                                         *)
(* Shape (the locals a handler uses at a label are there), Owned (a copy of *)
(* a packet has its sender, and one key), Locked (a holder's lock is set    *)
(* and is its own), Listed (a stored packet names everyone who was paid)    *)
(* and Funded (money paid, about to be paid and still in the packet fit in  *)
(* the money sent).                                                         *)
(***************************************************************************)
EXTENDS Hongbao

Sending == {"deduct", "store", "insert", "schedule"}
Robbing == {"setpb", "pay"}
Keyed == {"insert", "schedule", "lockget", "getset"} \cup LockHolders

\* A key with a packet under it.
Live(k) == packet[k] \notin {None, Stamp}

Fits(p) == p.leftmoney * 199 < HalfInt

HandlersReady ==
  \A t \in Threads :
    /\ pc[t] # Idle => user[t] \in Users
    /\ pc[t] \in Sending \cup Robbing => held[t] # None /\ Fits(held[t])
    /\ pc[t] \in Keyed => key[t] \in Keys

PacketsFit == \A k \in Keys : Live(k) => Fits(packet[k])

StopReady ==
  /\ stop.pc # Idle => stop.key \in Keys
  /\ stop.pc = "refund" => stop.value # None

Shape == HandlersReady /\ PacketsFit /\ StopReady

\* A copy of a packet that SendHongbao accepted.
Copy(p) == sent[p.id] # None /\ sent[p.id].sender = p.sender

\* A packet no SETEX has been tried for.
Unstored(id) == sent[id] = None \/ sent[id].key = None

StoredOwned ==
  \A k \in Keys : Live(k) =>
    /\ Copy(packet[k]) /\ packet[k].sender = Sender(k)
    /\ sent[packet[k].id].key = k

SendOwned ==
  \A t \in Threads :
    /\ pc[t] \in Sending => Copy(held[t]) /\ held[t].sender = user[t]
    /\ pc[t] \in {"deduct", "store"} =>
         /\ sent[held[t].id].key = None
         /\ held[t].leftmoney = sent[held[t].id].money

RobOwned ==
  \A t \in Threads : pc[t] \in Robbing =>
    /\ Copy(held[t]) /\ held[t].sender = Sender(key[t])
    /\ sent[held[t].id].key = key[t]

SendsDistinct ==
  \A t1, t2 \in Threads :
    pc[t1] \in Sending /\ pc[t2] \in Sending /\ held[t1].id = held[t2].id => t1 = t2

StopOwned ==
  stop.value # None =>
    /\ Copy(stop.value) /\ sent[stop.value.id].key = stop.key
    /\ stop.value.id \in taken

Fresh ==
  \A id \in Packets : Unstored(id) =>
    /\ id \notin taken /\ paidOut[id] = 0 /\ refunded[id] = 0
    /\ \A u \in Users : grants[id][u] = 0

Owned == /\ StoredOwned /\ SendOwned /\ RobOwned /\ SendsDistinct
         /\ StopOwned /\ Fresh

Locked ==
  /\ \A t \in Threads :
       pc[t] \in LockHolders /\ Sender(key[t]) \notin NumericSenders => lock[key[t]]
  /\ LockExclusion

StoredListed ==
  \A k \in Keys, u \in Users :
    (Live(k) /\ Protected(packet[k].id) /\ grants[packet[k].id][u] > 0)
      => HasRobbed(packet[k], u)

RobberListed ==
  \A t \in Threads : pc[t] \in Robbing /\ Protected(held[t].id) =>
    /\ grants[held[t].id][user[t]] = 0
    /\ HasRobbed(held[t], user[t])

DrawnListed ==
  \A t \in Threads, u \in Users :
    (pc[t] = "setpb" /\ Protected(held[t].id) /\ grants[held[t].id][u] > 0)
      => HasRobbed(held[t], u)

PayeeListed ==
  \A t \in Threads, k \in Keys :
    (/\ pc[t] = "pay" /\ Live(k) /\ packet[k].id = held[t].id
     /\ Protected(held[t].id)) => HasRobbed(packet[k], user[t])

Listed == StoredListed /\ RobberListed /\ DrawnListed /\ PayeeListed /\ PaidOnce

Sound(id) == Protected(id) /\ id \notin raced
Spent(id) == paidOut[id] + refunded[id]

StoredFunded ==
  \A k \in Keys : Live(k) /\ Sound(packet[k].id) =>
    /\ Spent(packet[k].id) + packet[k].leftmoney <= sent[packet[k].id].money
    /\ stop.value # None /\ stop.value.id = packet[k].id => stop.pc = "del"

DrawnFunded ==
  \A t \in Threads :
    pc[t] = "setpb" /\ Sound(held[t].id) /\ held[t].id \notin taken =>
      Spent(held[t].id) + held[t].leftmoney + share[t] <= sent[held[t].id].money

PayFunded ==
  \A t \in Threads : pc[t] = "pay" /\ Sound(held[t].id) =>
    Spent(held[t].id) + share[t] <= sent[held[t].id].money

PayStoredFunded ==
  \A t \in Threads, k \in Keys :
    (/\ pc[t] = "pay" /\ Live(k) /\ packet[k].id = held[t].id
     /\ Sound(held[t].id)) =>
      Spent(held[t].id) + share[t] + packet[k].leftmoney <= sent[held[t].id].money

StopFunded ==
  stop.value # None /\ Sound(stop.value.id) =>
    Spent(stop.value.id) + stop.value.leftmoney <= sent[stop.value.id].money

PayStopFunded ==
  \A t \in Threads :
    (/\ stop.value # None /\ Sound(stop.value.id)
     /\ pc[t] = "pay" /\ held[t].id = stop.value.id) =>
      Spent(held[t].id) + share[t] + stop.value.leftmoney <= sent[held[t].id].money

Funded == /\ StoredFunded /\ DrawnFunded /\ PayFunded /\ PayStoredFunded
          /\ StopFunded /\ PayStopFunded /\ PayoutBounded

IInv == TypeOK /\ Shape /\ Owned /\ Locked /\ Listed /\ Funded

=============================================================================

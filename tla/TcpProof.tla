------------------------------ MODULE TcpProof ------------------------------
(***************************************************************************)
(* Proofs about TcpConnection: the stream is intact whatever operations are *)
(* called in whatever threads, and the operations IMServer calls keep the   *)
(* asserts and shut down after the buffer is written.                       *)
(***************************************************************************)
EXTENDS MCTcp, SequenceTheorems, TLAPS

-----------------------------------------------------------------------------
(* Sequences *)

LEMMA Divided ==
  ASSUME NEW S, NEW s \in Seq(S), NEW n \in 0 .. Len(s)
  PROVE  /\ SubSeq(s, 1, n) \in Seq(S) /\ SubSeq(s, n + 1, Len(s)) \in Seq(S)
         /\ SubSeq(s, 1, n) \o SubSeq(s, n + 1, Len(s)) = s
         /\ SubSeq(s, n + 1, Len(s)) = <<>> <=> n = Len(s)
         /\ n = 0 => SubSeq(s, 1, n) = <<>> /\ SubSeq(s, n + 1, Len(s)) = s
<1>1. Len(s) \in Nat /\ n \in Nat /\ n <= Len(s)
  BY LenProperties
<1>2. /\ SubSeq(s, 1, n) \in Seq(S) /\ Len(SubSeq(s, 1, n)) = n
      /\ \A i \in 1 .. n : SubSeq(s, 1, n)[i] = s[i]
  BY <1>1
<1>3. /\ SubSeq(s, n + 1, Len(s)) \in Seq(S) /\ Len(SubSeq(s, n + 1, Len(s))) = Len(s) - n
      /\ \A i \in 1 .. Len(s) - n : SubSeq(s, n + 1, Len(s))[i] = s[n + i]
  BY <1>1
<1> DEFINE p == SubSeq(s, 1, n)
           q == SubSeq(s, n + 1, Len(s))
<1>4. /\ p \o q \in Seq(S) /\ Len(p \o q) = Len(p) + Len(q)
      /\ \A i \in 1 .. Len(p) + Len(q) : (p \o q)[i] = IF i <= Len(p) THEN p[i] ELSE q[i - Len(p)]
  BY Zenon, <1>2, <1>3, ConcatProperties
<1>p. p \in Seq(S) /\ Len(p) = n /\ \A i \in 1 .. n : p[i] = s[i]
  BY Zenon, <1>2
<1>q. q \in Seq(S) /\ Len(q) = Len(s) - n /\ \A i \in 1 .. Len(s) - n : q[i] = s[n + i]
  BY Zenon, <1>3
<1> HIDE DEF p, q
<1>5. p \o q = s
  <2>1. Len(p \o q) = Len(s)
    BY <1>1, <1>4, <1>p, <1>q
  <2>2. ASSUME NEW i \in 1 .. Len(p \o q)
        PROVE  (p \o q)[i] = s[i]
    <3>1. CASE i <= n
      <4>1. i \in 1 .. n /\ i \in 1 .. Len(p) + Len(q)
        BY <1>1, <1>p, <1>q, <2>1, <3>1
      <4> QED
        BY Zenon, <1>4, <1>p, <3>1, <4>1
    <3>2. CASE ~(i <= n)
      <4>1. i - n \in 1 .. Len(s) - n /\ n + (i - n) = i /\ i \in 1 .. Len(p) + Len(q)
        BY <1>1, <1>p, <1>q, <2>1, <3>2
      <4> QED
        BY Zenon, <1>4, <1>p, <1>q, <3>2, <4>1
    <3> QED
      BY <3>1, <3>2
  <2> QED
    BY Zenon, <1>4, <2>1, <2>2, SeqEqual
<1>6. q = <<>> <=> n = Len(s)
  <2>1. q = <<>> => Len(q) = 0
    BY EmptySeq
  <2>2. q # <<>> => Len(q) \in Nat \ {0}
    BY Zenon, <1>q, EmptySeq
  <2> QED
    BY <1>1, <1>q, <2>1, <2>2
<1>7. n = 0 => SubSeq(s, 1, n) = <<>> /\ SubSeq(s, n + 1, Len(s)) = s
  <2> SUFFICES ASSUME n = 0
               PROVE  SubSeq(s, 1, n) = <<>> /\ SubSeq(s, n + 1, Len(s)) = s
    OBVIOUS
  <2>1. SubSeq(s, 1, n) = <<>>
    BY <1>2, EmptySeq
  <2>2. \A i \in 1 .. Len(s) : SubSeq(s, n + 1, Len(s))[i] = s[i]
    BY <1>1, <1>3
  <2> QED
    BY <1>1, <1>3, <2>1, <2>2, SeqEqual
<1> QED
  BY Zenon, <1>2, <1>3, <1>5, <1>6, <1>7 DEF p, q

-----------------------------------------------------------------------------
(* Types and the stream *)

Byte == Messages \X (1 .. MessageLen)
Functor == [op : {"established", "forceClose", "destroyed"}] \cup [op : Ops, msg : Messages]
Call == [op : Ops, msg : Messages, set : BOOLEAN]

\* The lines of the asserts that may fail.
Lines == {0, 51, 402}

ConnOK ==
  /\ state \in {"kConnecting", "kConnected", "kDisconnecting", "kDisconnected"}
  /\ reading \in BOOLEAN /\ inMap \in BOOLEAN /\ downs \in Nat /\ failed \in Lines

ChannelOK == index \in {"kNew", "kAdded", "kDeleted"} /\ events \subseteq {"read", "write"}

BuffersOK == output \in Seq(Byte) /\ wire \in Seq(Byte) /\ taken \in Seq(Byte) /\ StreamIntact

SocketOK == peer \in {"open", "closed", "reset", "dead"} /\ fin \in BOOLEAN /\ arrived \in BOOLEAN

WorkOK ==
  /\ todo \subseteq {"close", "error", "read", "write"}
  /\ functors \in Seq(Functor) /\ delayed \in BOOLEAN
  /\ pc \in [Threads -> Call \cup {None}]
  /\ calls \in 0 .. MaxCalls /\ unsent \subseteq Messages

\* What every step keeps, whatever operations are called: types, and the bytes
\* taken on are those written followed by those in the buffer.
TcpInv == ConnOK /\ ChannelOK /\ BuffersOK /\ SocketOK /\ WorkOK

LEMMA Associative == \A a, b, c \in Seq(Byte) : (a \o b) \o c = a \o (b \o c)
BY SMTT(30), ConcatAssociative

\* Two pieces may change places when one of them is empty.
LEMMA Interleaved ==
  \A a, b, c, d \in Seq(Byte) :
    b = <<>> \/ c = <<>> => (a \o c) \o (b \o d) = (a \o b) \o (c \o d)
<1> SUFFICES ASSUME NEW a \in Seq(Byte), NEW b \in Seq(Byte), NEW c \in Seq(Byte), NEW d \in Seq(Byte),
                    b = <<>> \/ c = <<>>
             PROVE  (a \o c) \o (b \o d) = (a \o b) \o (c \o d)
  OBVIOUS
<1>1. (a \o c) \o <<>> = a \o c /\ <<>> \o d = d /\ a \o <<>> = a
  BY ConcatEmptySeq, ConcatProperties
<1>2. (a \o c) \o d = a \o (c \o d)
  BY ZenonT(60), Associative
<1>3. (a \o b) \o d = a \o (b \o d)
  BY ZenonT(60), Associative
<1>4. CASE b = <<>>
  BY Zenon, <1>1, <1>2, <1>4
<1>5. CASE c = <<>>
  BY Zenon, <1>1, <1>3, <1>5
<1> QED
  BY <1>4, <1>5

LEMMA TcpInvTyped ==
  ASSUME TcpInv
  PROVE  TypeOK /\ StreamIntact
<1>1. {reading, inMap, fin, arrived, delayed} \subseteq BOOLEAN
  BY Zenon DEF TcpInv, ConnOK, SocketOK, WorkOK
<1>2. {output, wire, taken} \subseteq Seq(Messages \X (1 .. MessageLen))
  BY Zenon DEF TcpInv, BuffersOK, Byte
<1> QED
  BY Zenon, <1>1, <1>2 DEF TcpInv, ConnOK, ChannelOK, BuffersOK, SocketOK, WorkOK, TypeOK, Lines

LEMMA TcpInit ==
  ASSUME Init
  PROVE  TcpInv
<1>1. ConnOK /\ ChannelOK /\ SocketOK
  BY DEF Init, ConnOK, ChannelOK, SocketOK, Lines
<1>2. BuffersOK
  <2>1. <<>> \in Seq(Byte) /\ <<>> \o <<>> = <<>>
    BY EmptySeq, ConcatEmptySeq
  <2> QED
    BY Zenon, <2>1 DEF Init, BuffersOK, StreamIntact
<1>3. WorkOK
  <2>1. functors \in Seq(Functor)
    BY DEF Init, Functor
  <2>2. 0 \in 0 .. MaxCalls
    BY TcpConstants
  <2> QED
    BY Zenon, <2>1, <2>2 DEF Init, WorkOK, Idle
<1> QED
  BY Zenon, <1>1, <1>2, <1>3 DEF TcpInv

\* handleClose
LEMMA HandleCloseTyped ==
  ASSUME ConnOK, ChannelOK, HandleClose
  PROVE  ConnOK' /\ ChannelOK'
<1>1. CASE Open
  BY <1>1 DEF HandleClose, Disconnected, Update, ConnOK, ChannelOK
<1>2. CASE ~Open
  <2>1. failed' \in Lines
    BY <1>2 DEF HandleClose, Lines
  <2>2. UNCHANGED <<state, reading, inMap, downs, channel>>
    BY SMT, <1>2 DEF HandleClose
  <2> QED
    BY Zenon, <2>1, <2>2 DEF ConnOK, ChannelOK, channel
<1> QED
  BY <1>1, <1>2

\* The bytes of a message.
LEMMA BytesTyped ==
  ASSUME NEW m \in Messages
  PROVE  Bytes(m) \in Seq(Byte) /\ Len(Bytes(m)) = MessageLen
BY TcpConstants DEF Bytes, Byte

\* sendInLoop writes a first part of the message at once only when nothing waits in
\* the buffer, and appends the rest to the buffer.
LEMMA SendInLoopKeeps ==
  ASSUME ChannelOK, BuffersOK, NEW m \in Messages, SendInLoop(m)
  PROVE  ChannelOK' /\ BuffersOK'
<1>1. CASE UNCHANGED <<channel, buffers>>
  BY Zenon, <1>1 DEF channel, buffers, ChannelOK, BuffersOK, StreamIntact
<1>2. CASE \E n \in (IF WritesDirectly THEN Writes(MessageLen) ELSE {0}) :
             /\ wire' = wire \o SubSeq(Bytes(m), 1, n)
             /\ output' = output \o SubSeq(Bytes(m), n + 1, MessageLen)
             /\ taken' = taken \o Bytes(m)
             /\ IF Asks(n)
                THEN Update(events \cup {"write"})
                ELSE UNCHANGED channel
  <2>1. PICK n \in (IF WritesDirectly THEN Writes(MessageLen) ELSE {0}) :
             /\ wire' = wire \o SubSeq(Bytes(m), 1, n)
             /\ output' = output \o SubSeq(Bytes(m), n + 1, MessageLen)
             /\ taken' = taken \o Bytes(m)
             /\ IF Asks(n)
                THEN Update(events \cup {"write"})
                ELSE UNCHANGED channel
    BY Zenon, <1>2
  <2>2. n \in 0 .. Len(Bytes(m)) /\ (WritesDirectly \/ n = 0)
    BY BytesTyped, TcpConstants DEF Writes
  <2> DEFINE p == SubSeq(Bytes(m), 1, n)
             q == SubSeq(Bytes(m), n + 1, MessageLen)
  <2>3. p \in Seq(Byte) /\ q \in Seq(Byte) /\ p \o q = Bytes(m) /\ (n = 0 => p = <<>>)
    BY Zenon, <2>2, BytesTyped, Divided
  <2>4. wire' = wire \o p /\ output' = output \o q /\ taken' = (wire \o output) \o (p \o q)
    BY Zenon, <2>1, <2>3 DEF BuffersOK, StreamIntact
  <2>5. output = <<>> \/ p = <<>>
    BY Zenon, <2>2, <2>3 DEF WritesDirectly
  <2> HIDE DEF p, q
  <2>6. wire \in Seq(Byte) /\ output \in Seq(Byte) /\ wire \o output \in Seq(Byte)
    BY Zenon, ConcatProperties DEF BuffersOK
  <2>8. (wire \o p) \o (output \o q) = (wire \o output) \o (p \o q)
    <3>1. \A b, c, d \in Seq(Byte) :
            b = <<>> \/ c = <<>> => (wire \o c) \o (b \o d) = (wire \o b) \o (c \o d)
      BY Zenon, <2>6, Interleaved
    <3>2. \A c, d \in Seq(Byte) :
            output = <<>> \/ c = <<>> => (wire \o c) \o (output \o d) = (wire \o output) \o (c \o d)
      BY Zenon, <2>6, <3>1
    <3>3. \A d \in Seq(Byte) :
            (wire \o p) \o (output \o d) = (wire \o output) \o (p \o d)
      BY Zenon, <2>3, <2>5, <3>2
    <3> QED
      BY Zenon, <2>3, <3>3
  <2>9. BuffersOK'
    BY Zenon, <2>3, <2>4, <2>6, <2>8, ConcatProperties DEF BuffersOK, StreamIntact
  <2>10. ChannelOK'
    BY <2>1 DEF ChannelOK, Update, channel
  <2> QED
    BY Zenon, <2>9, <2>10
<1> QED
  BY Zenon, <1>1, <1>2 DEF SendInLoop

\* What a functor does.
LEMMA PerformKeeps ==
  ASSUME ConnOK, ChannelOK, BuffersOK, SocketOK,
         NEW f, f.op = "send" => f.msg \in Messages, Perform(f)
  PROVE  ConnOK' /\ ChannelOK' /\ BuffersOK' /\ SocketOK'
<1> USE DEF conn, channel, buffers, socket
<1>1. CASE f.op = "established" /\ ConnectEstablished
  BY <1>1 DEF ConnectEstablished, Update, ConnOK, ChannelOK, BuffersOK, SocketOK, StreamIntact
<1>2. CASE f.op = "send" /\ SendInLoop(f.msg) /\ UNCHANGED <<conn, socket>>
  <2>1. ChannelOK' /\ BuffersOK'
    BY Zenon, <1>2, SendInLoopKeeps
  <2> QED
    BY Zenon, <1>2, <2>1 DEF ConnOK, SocketOK
<1>3. CASE /\ f.op = "shutdown" /\ ShutdownInLoop(events)
           /\ UNCHANGED <<conn, channel, buffers, peer, arrived>>
  BY <1>3 DEF ShutdownInLoop, MayShutdown, ConnOK, ChannelOK, BuffersOK, SocketOK, StreamIntact
<1>4. CASE f.op = "forceClose" /\ ForceCloseInLoop /\ UNCHANGED <<buffers, socket>>
  <2>1. ConnOK' /\ ChannelOK'
    <3>1. CASE HandleClose
      BY Zenon, <3>1, HandleCloseTyped
    <3>2. CASE UNCHANGED <<conn, channel>>
      BY Zenon, <3>2 DEF ConnOK, ChannelOK
    <3> QED
      BY Zenon, <1>4, <3>1, <3>2 DEF ForceCloseInLoop
  <2> QED
    BY Zenon, <1>4, <2>1 DEF BuffersOK, SocketOK, StreamIntact
<1>5. CASE /\ f.op = "startRead" /\ StartReadInLoop
           /\ UNCHANGED <<state, inMap, downs, failed, buffers, socket>>
  <2>1. ConnOK' /\ ChannelOK'
    <3>1. reading' \in BOOLEAN /\ ChannelOK'
      BY <1>5 DEF StartReadInLoop, Update, ConnOK, ChannelOK
    <3> QED
      BY Zenon, <1>5, <3>1 DEF ConnOK
  <2> QED
    BY Zenon, <1>5, <2>1 DEF BuffersOK, SocketOK, StreamIntact
<1>6. CASE /\ f.op = "stopRead" /\ StopReadInLoop
           /\ UNCHANGED <<state, inMap, downs, failed, buffers, socket>>
  <2>1. ConnOK' /\ ChannelOK'
    <3>1. reading' \in BOOLEAN /\ ChannelOK'
      BY <1>6 DEF StopReadInLoop, Update, ConnOK, ChannelOK
    <3> QED
      BY Zenon, <1>6, <3>1 DEF ConnOK
  <2> QED
    BY Zenon, <1>6, <2>1 DEF BuffersOK, SocketOK, StreamIntact
<1>7. CASE f.op = "destroyed" /\ ConnectDestroyed
  <2>1. ConnOK' /\ ChannelOK'
    <3>1. /\ state' \in {"kConnecting", "kConnected", "kDisconnecting", "kDisconnected"}
          /\ downs' \in Nat /\ events' \subseteq {"read", "write"}
      <4>1. downs + 1 \in Nat
        BY DEF ConnOK
      <4>2. \/ state' = "kDisconnected" /\ events' = {} /\ downs' = downs + 1
            \/ state' = state /\ events' = events /\ downs' = downs
        BY Zenon, <1>7 DEF ConnectDestroyed
      <4> QED
        BY Zenon, <4>1, <4>2 DEF ConnOK, ChannelOK
    <3>2. failed' \in Lines /\ index' \in {"kNew", "kAdded", "kDeleted"}
      BY <1>7 DEF ConnectDestroyed, ConnOK, ChannelOK, Lines
    <3> QED
      BY Zenon, <1>7, <3>1, <3>2 DEF ConnectDestroyed, ConnOK, ChannelOK
  <2> QED
    BY Zenon, <1>7, <2>1 DEF ConnectDestroyed, BuffersOK, SocketOK, StreamIntact
<1> QED
  BY Zenon, <1>1, <1>2, <1>3, <1>4, <1>5, <1>6, <1>7 DEF Perform

-----------------------------------------------------------------------------
(* The steps keep TcpInv *)

LEMMA PollKeeps ==
  ASSUME TcpInv, Poll
  PROVE  TcpInv'
<1>1. PICK writable \in BOOLEAN : todo' = Callbacks(writable)
  BY Zenon DEF Poll
<1>2. todo' \subseteq {"close", "error", "read", "write"}
  BY <1>1 DEF Callbacks
<1> QED
  BY Zenon, <1>2
  DEF Poll, TcpInv, ConnOK, ChannelOK, BuffersOK, SocketOK, WorkOK, StreamIntact,
      conn, channel, buffers, socket

LEMMA CallbackTyped ==
  ASSUME WorkOK, NEW c, NEW before, Callback(c, before)
  PROVE  WorkOK'
BY Zenon DEF Callback, WorkOK

LEMMA CloseErrorKeep ==
  ASSUME TcpInv, CloseCallback \/ ErrorCallback
  PROVE  TcpInv'
<1> USE DEF conn, channel, buffers, socket
<1>1. WorkOK'
  BY Zenon, CallbackTyped DEF TcpInv, CloseCallback, ErrorCallback
<1>2. CASE CloseCallback
  <2>1. ConnOK' /\ ChannelOK'
    BY Zenon, <1>2, HandleCloseTyped DEF TcpInv, CloseCallback
  <2> QED
    BY Zenon, <1>1, <1>2, <2>1 DEF TcpInv, CloseCallback, BuffersOK, SocketOK, StreamIntact
<1>3. CASE ErrorCallback
  BY Zenon, <1>1, <1>3
  DEF TcpInv, ErrorCallback, ConnOK, ChannelOK, BuffersOK, SocketOK, StreamIntact
<1> QED
  BY Zenon, <1>2, <1>3

LEMMA ReadKeeps ==
  ASSUME TcpInv, ReadCallback
  PROVE  TcpInv'
<1> USE DEF conn, channel, buffers, socket
<1>1. WorkOK' /\ BuffersOK'
  BY Zenon, CallbackTyped DEF TcpInv, ReadCallback, BuffersOK, StreamIntact
<1>2. CASE HandleClose /\ UNCHANGED socket
  <2>1. ConnOK' /\ ChannelOK'
    BY Zenon, <1>2, HandleCloseTyped DEF TcpInv
  <2> QED
    BY Zenon, <1>1, <1>2, <2>1 DEF TcpInv, SocketOK
<1>3. CASE arrived' = FALSE /\ UNCHANGED <<conn, channel, fin, peer>>
  BY Zenon, <1>1, <1>3 DEF TcpInv, ConnOK, ChannelOK, SocketOK
<1>4. CASE peer' = "dead" /\ UNCHANGED <<conn, channel, fin, arrived>>
  BY Zenon, <1>1, <1>4 DEF TcpInv, ConnOK, ChannelOK, SocketOK
<1> QED
  BY Zenon, <1>2, <1>3, <1>4 DEF ReadCallback

\* handleWrite writes a first part of the buffer and keeps the rest.
LEMMA WriteKeeps ==
  ASSUME TcpInv, WriteCallback
  PROVE  TcpInv'
<1> USE DEF conn, channel
<1>1. WorkOK' /\ ConnOK'
  BY Zenon, CallbackTyped DEF TcpInv, WriteCallback, ConnOK
<1>2. ChannelOK'
  <2>1. UNCHANGED channel \/ Update(events \ {"write"})
    BY Zenon DEF WriteCallback
  <2> QED
    BY <2>1 DEF TcpInv, ChannelOK, Update
<1>3. SocketOK'
  <2>1. fin' \in BOOLEAN
    <3>1. fin' = fin \/ ShutdownInLoop(events')
      BY Zenon DEF WriteCallback
    <3> QED
      BY Zenon, <3>1 DEF ShutdownInLoop, TcpInv, SocketOK
  <2> QED
    BY Zenon, <2>1 DEF WriteCallback, TcpInv, SocketOK
<1>4. BuffersOK'
  <2>1. CASE UNCHANGED <<wire, output>>
    BY Zenon, <2>1 DEF WriteCallback, TcpInv, BuffersOK, StreamIntact
  <2>2. CASE \E n \in Writes(Len(output)) :
               /\ wire' = wire \o SubSeq(output, 1, n)
               /\ output' = SubSeq(output, n + 1, Len(output))
    <3>1. PICK n \in Writes(Len(output)) :
               /\ wire' = wire \o SubSeq(output, 1, n)
               /\ output' = SubSeq(output, n + 1, Len(output))
      BY Zenon, <2>2
    <3>2. output \in Seq(Byte) /\ wire \in Seq(Byte) /\ wire \o output = taken
      BY Zenon DEF TcpInv, BuffersOK, StreamIntact
    <3>3. n \in 0 .. Len(output)
      BY <3>2, LenProperties DEF Writes
    <3> DEFINE p == SubSeq(output, 1, n)
               q == SubSeq(output, n + 1, Len(output))
    <3>4. p \in Seq(Byte) /\ q \in Seq(Byte) /\ p \o q = output
      BY Zenon, <3>2, <3>3, Divided
    <3>5. wire' = wire \o p /\ output' = q
      BY Zenon, <3>1
    <3> HIDE DEF p, q
    <3>6. (wire \o p) \o q = wire \o (p \o q)
      BY Zenon, <3>2, <3>4, Associative
    <3>7. wire \o p \in Seq(Byte) /\ taken' = taken /\ taken \in Seq(Byte)
      BY Zenon, <3>2, <3>4, ConcatProperties DEF WriteCallback, TcpInv, BuffersOK
    <3> QED
      BY Zenon, <3>2, <3>4, <3>5, <3>6, <3>7 DEF BuffersOK, StreamIntact
  <2> QED
    BY Zenon, <2>1, <2>2 DEF WriteCallback
<1> QED
  BY Zenon, <1>1, <1>2, <1>3, <1>4 DEF TcpInv

LEMMA FunctorSends ==
  ASSUME NEW f \in Functor, f.op = "send"
  PROVE  f.msg \in Messages
BY DEF Functor

LEMMA RunFunctorKeeps ==
  ASSUME TcpInv, RunFunctor
  PROVE  TcpInv'
<1>1. functors \in Seq(Functor) /\ functors # <<>>
  BY Zenon DEF TcpInv, WorkOK, RunFunctor
<1>2. Head(functors) \in Functor /\ Tail(functors) \in Seq(Functor)
  BY Zenon, <1>1, HeadTailProperties
<1>3. ConnOK' /\ ChannelOK' /\ BuffersOK' /\ SocketOK'
  BY Zenon, <1>2, FunctorSends, PerformKeeps DEF TcpInv, RunFunctor
<1> QED
  BY Zenon, <1>2, <1>3 DEF TcpInv, WorkOK, RunFunctor

LEMMA CountedTyped ==
  ASSUME WorkOK, NEW op, NEW m, Counted(op, m)
  PROVE  calls' \in 0 .. MaxCalls /\ unsent' \subseteq Messages
<1>1. calls' \in 0 .. MaxCalls
  BY TcpConstants DEF WorkOK, Counted
<1>2. unsent' \subseteq Messages
  BY Zenon DEF WorkOK, Counted
<1> QED
  BY <1>1, <1>2

\* Functors without a message.
LEMMA AppendTyped ==
  ASSUME functors \in Seq(Functor),
         NEW f \in {[op |-> "forceClose"], [op |-> "destroyed"]}
  PROVE  Append(functors, f) \in Seq(Functor)
<1>1. f \in Functor
  BY DEF Functor
<1> QED
  BY Zenon, <1>1, AppendProperties

LEMMA LoopCallKeeps ==
  ASSUME TcpInv, NEW op \in Ops, NEW m \in Messages, LoopCall(op, m)
  PROVE  TcpInv'
<1> USE DEF conn, channel, buffers, socket
<1>1. /\ ConnOK /\ ChannelOK /\ BuffersOK /\ SocketOK /\ WorkOK
      /\ calls' \in 0 .. MaxCalls /\ unsent' \subseteq Messages /\ UNCHANGED <<todo, pc>>
  BY Zenon, CountedTyped DEF TcpInv, LoopCall
<1>2. CASE /\ op = "forceClose" /\ state' = "kDisconnecting"
           /\ functors' = Append(functors, [op |-> op])
           /\ UNCHANGED <<reading, inMap, downs, failed, channel, buffers, socket, delayed>>
  <2>1. functors' \in Seq(Functor)
    BY Zenon, <1>1, <1>2, AppendTyped DEF WorkOK
  <2> QED
    BY Zenon, <1>1, <1>2, <2>1
    DEF TcpInv, ConnOK, ChannelOK, BuffersOK, SocketOK, WorkOK, StreamIntact
<1>3. CASE /\ op = "forceCloseWithDelay" /\ state' = "kDisconnecting" /\ delayed' = TRUE
           /\ UNCHANGED <<reading, inMap, downs, failed, channel, buffers, socket, functors>>
  BY Zenon, <1>1, <1>3
  DEF TcpInv, ConnOK, ChannelOK, BuffersOK, SocketOK, WorkOK, StreamIntact
<1>4. CASE /\ op = "shutdown" /\ state' = "kDisconnecting" /\ ShutdownInLoop(events)
           /\ UNCHANGED <<reading, inMap, downs, failed, channel, buffers, peer, arrived,
                          functors, delayed>>
  <2>1. SocketOK'
    BY Zenon, <1>1, <1>4 DEF SocketOK, ShutdownInLoop
  <2> QED
    BY Zenon, <1>1, <1>4, <2>1
    DEF TcpInv, ConnOK, ChannelOK, BuffersOK, WorkOK, StreamIntact
<1>5. CASE /\ Perform([op |-> op, msg |-> m])
           /\ UNCHANGED <<functors, delayed>>
  <2>1. ConnOK' /\ ChannelOK' /\ BuffersOK' /\ SocketOK'
    <3>1. [op |-> op, msg |-> m].msg \in Messages
      OBVIOUS
    <3> QED
      BY Zenon, <1>1, <1>5, <3>1, PerformKeeps
  <2> QED
    BY Zenon, <1>1, <1>5, <2>1 DEF TcpInv, WorkOK
<1> QED
  BY Zenon, <1>2, <1>3, <1>4, <1>5 DEF LoopCall

LEMMA ThreadCheckKeeps ==
  ASSUME TcpInv, NEW t \in Threads, NEW op \in Ops, NEW m \in Messages, ThreadCheck(t, op, m)
  PROVE  TcpInv'
<1>1. calls' \in 0 .. MaxCalls /\ unsent' \subseteq Messages
  BY Zenon, CountedTyped DEF TcpInv, ThreadCheck
<1>2. pc' \in [Threads -> Call \cup {None}]
  <2>1. [op |-> op, msg |-> m, set |-> op \notin Sets] \in Call
    BY Zenon DEF Call
  <2> HIDE DEF Call
  <2> QED
    BY <2>1 DEF TcpInv, WorkOK, ThreadCheck
<1> QED
  BY Zenon, <1>1, <1>2
  DEF ThreadCheck, TcpInv, ConnOK, ChannelOK, BuffersOK, SocketOK, WorkOK, StreamIntact,
      conn, channel, buffers, socket

LEMMA ThreadSetKeeps ==
  ASSUME TcpInv, NEW t \in Threads, ThreadSet(t)
  PROVE  TcpInv'
<1>1. pc' \in [Threads -> Call \cup {None}]
  <2>1. pc[t] \in Call
    BY Zenon DEF TcpInv, WorkOK, ThreadSet, Idle
  <2>2. [pc[t] EXCEPT !.set = TRUE] \in Call
    BY <2>1 DEF Call
  <2>3. pc' = [pc EXCEPT ![t] = [pc[t] EXCEPT !.set = TRUE]]
    BY DEF ThreadSet
  <2> QED
    BY Zenon, <2>2, <2>3 DEF TcpInv, WorkOK
<1> QED
  BY Zenon, <1>1
  DEF ThreadSet, TcpInv, ConnOK, ChannelOK, BuffersOK, SocketOK, WorkOK, StreamIntact,
      channel, buffers, socket

LEMMA ThreadQueueKeeps ==
  ASSUME TcpInv, NEW t \in Threads, ThreadQueue(t)
  PROVE  TcpInv'
<1>1. pc[t] \in Call
  BY Zenon DEF TcpInv, WorkOK, ThreadQueue, Idle
<1>2. pc' \in [Threads -> Call \cup {None}]
  BY Zenon DEF TcpInv, WorkOK, ThreadQueue, Idle
<1>3. functors' \in Seq(Functor) /\ delayed' \in BOOLEAN
  <2>1. [op |-> pc[t].op, msg |-> pc[t].msg] \in Functor
    BY <1>1 DEF Call, Functor
  <2>2. Append(functors, [op |-> pc[t].op, msg |-> pc[t].msg]) \in Seq(Functor)
    BY Zenon, <2>1, AppendProperties DEF TcpInv, WorkOK
  <2> QED
    BY Zenon, <2>2 DEF TcpInv, WorkOK, ThreadQueue
<1> QED
  BY ZenonT(60), <1>2, <1>3
  DEF ThreadQueue, TcpInv, ConnOK, ChannelOK, BuffersOK, SocketOK, WorkOK, StreamIntact,
      conn, channel, buffers, socket

LEMMA DelayOverKeeps ==
  ASSUME TcpInv, DelayOver
  PROVE  TcpInv'
<1>1. functors' \in Seq(Functor)
  BY Zenon, AppendTyped DEF TcpInv, WorkOK, DelayOver
<1> QED
  BY ZenonT(60), <1>1
  DEF DelayOver, TcpInv, ConnOK, ChannelOK, BuffersOK, SocketOK, WorkOK, StreamIntact,
      channel, buffers, socket

LEMMA DestroyKeeps ==
  ASSUME TcpInv, Destroy
  PROVE  TcpInv'
<1>1. functors' \in Seq(Functor)
  BY Zenon, AppendTyped DEF TcpInv, WorkOK, Destroy
<1> QED
  BY ZenonT(60), <1>1
  DEF Destroy, TcpInv, ConnOK, ChannelOK, BuffersOK, SocketOK, WorkOK, StreamIntact,
      channel, buffers, socket

LEMMA PeerKeeps ==
  ASSUME TcpInv, PeerSends \/ PeerCloses \/ PeerResets
  PROVE  TcpInv'
<1>1. PICK p \in {"open", "closed", "reset"}, a \in BOOLEAN : PeerStep(p, a)
  BY Zenon DEF PeerSends, PeerCloses, PeerResets, TcpInv, SocketOK
<1> QED
  BY ZenonT(60), <1>1
  DEF PeerStep, TcpInv, ConnOK, ChannelOK, BuffersOK, SocketOK, WorkOK, StreamIntact,
      conn, channel, buffers, work

LEMMA TcpKeeps ==
  ASSUME TcpInv, [Next]_vars
  PROVE  TcpInv'
<1>1. CASE UNCHANGED vars
  BY ZenonT(60), <1>1
  DEF TcpInv, ConnOK, ChannelOK, BuffersOK, SocketOK, WorkOK, StreamIntact,
      vars, conn, channel, buffers, socket, work
<1>2. ASSUME NEW op \in LoopOps, NEW m \in Messages, LoopCall(op, m)
      PROVE  TcpInv'
  BY Zenon, <1>2, LoopCallKeeps, TcpConstants
<1>3. ASSUME NEW t \in Threads, NEW op \in ThreadOps, NEW m \in Messages, ThreadCheck(t, op, m)
      PROVE  TcpInv'
  BY Zenon, <1>3, ThreadCheckKeeps, TcpConstants
<1> QED
  BY Zenon, <1>1, <1>2, <1>3, PollKeeps, CloseErrorKeep, ReadKeeps, WriteKeeps,
     RunFunctorKeeps, DelayOverKeeps, ThreadSetKeeps, ThreadQueueKeeps, DestroyKeeps, PeerKeeps
  DEF Next, HandleEvent

\* The bytes sendInLoop took on reach the socket in that order and each once,
\* whatever operations are called in whatever threads: the parts sendInLoop writes
\* at once and those it leaves to handleWrite are never mixed, lost or repeated.
THEOREM BytesInOrder == Spec => []StreamIntact
<1>1. Init => TcpInv
  BY TcpInit
<1>2. TcpInv /\ [Next]_vars => TcpInv'
  BY TcpKeeps
<1>3. TcpInv => StreamIntact
  BY TcpInvTyped
<1> QED
  BY <1>1, <1>2, <1>3, PTL DEF Spec

-----------------------------------------------------------------------------
(* The connections of the server *)

\* Before connectEstablished nothing has happened; until it is closed the
\* connection reads, so that a peer's end is always read and never reported as a
\* hang-up alone; once it is closed its channel is off.
Phases ==
  /\ state = "kConnecting" =>
       /\ index = "kNew" /\ events = {} /\ output = <<>> /\ ~delayed /\ todo = {}
       /\ functors = <<[op |-> "established"]>> /\ \A t \in Threads : pc[t] = None
  /\ Open => index = "kAdded" /\ "read" \in events
  /\ state = "kDisconnected" => index = "kDeleted" /\ events = {} /\ "read" \notin todo

\* No closing callback is due, threads only send, and the functors send or close.
Calm ==
  /\ "close" \notin todo
  /\ \A t \in Threads : pc[t] # None => pc[t].op = "send" /\ pc[t].set
  /\ state # "kConnecting" =>
       \A i \in 1 .. Len(functors) : functors[i].op \in {"send", "forceClose"}

ServerSafe == AssertsHold /\ DownOnce /\ WritingIffPending /\ Phases /\ Calm

ServerInv == TcpInv /\ ServerSafe

LEMMA ServerInit ==
  ASSUME Init
  PROVE  ServerInv
<1>1. AssertsHold /\ DownOnce
  BY DEF Init, AssertsHold, DownOnce
<1>2. WritingIffPending
  BY Zenon DEF Init, WritingIffPending
<1>3. Phases
  BY Zenon DEF Init, Phases, Open, Idle
<1>4. Calm
  BY Zenon DEF Init, Calm, Idle
<1> QED
  BY Zenon, <1>1, <1>2, <1>3, <1>4, TcpInit DEF ServerInv, ServerSafe

\* handleClose, of a connection that is open.
LEMMA CloseEnds ==
  ASSUME ServerSafe, Open, HandleClose
  PROVE  /\ state' = "kDisconnected" /\ index' = "kDeleted" /\ events' = {}
         /\ downs' = 1 /\ failed' = 0
<1>1. index = "kAdded" /\ failed = 0 /\ downs = 0
  BY DEF ServerSafe, Phases, AssertsHold, DownOnce, Open
<1> QED
  BY <1>1 DEF HandleClose, Disconnected, Update

\* A step after which the connection is closed.
LEMMA ClosedSafe ==
  ASSUME state' = "kDisconnected", index' = "kDeleted", events' = {}, downs' = 1, failed' = 0,
         "read" \notin todo', Calm'
  PROVE  ServerSafe'
BY DEF ServerSafe, AssertsHold, DownOnce, WritingIffPending, Phases, Open

\* sendInLoop
LEMMA SendInLoopSafe ==
  ASSUME TcpInv, ServerSafe, NEW m \in Messages, SendInLoop(m), state # "kConnecting"
  PROVE  /\ Open => index' = "kAdded" /\ "read" \in events'
                    /\ ("write" \in events' <=> output' # <<>>)
         /\ state = "kDisconnected" => index' = "kDeleted" /\ events' = {}
<1>1. CASE UNCHANGED <<channel, buffers>>
  BY Zenon, <1>1 DEF channel, buffers, ServerSafe, Phases, WritingIffPending, Open
<1>2. CASE /\ state # "kDisconnected"
           /\ \E n \in (IF WritesDirectly THEN Writes(MessageLen) ELSE {0}) :
                /\ output' = output \o SubSeq(Bytes(m), n + 1, MessageLen)
                /\ IF Asks(n)
                   THEN Update(events \cup {"write"})
                   ELSE UNCHANGED channel
  <2>1. PICK n \in (IF WritesDirectly THEN Writes(MessageLen) ELSE {0}) :
                /\ output' = output \o SubSeq(Bytes(m), n + 1, MessageLen)
                /\ IF Asks(n)
                   THEN Update(events \cup {"write"})
                   ELSE UNCHANGED channel
    BY Zenon, <1>2
  <2>2. Open
    BY Zenon, <1>2 DEF Open, TcpInv, ConnOK
  <2>3. /\ index = "kAdded" /\ "read" \in events /\ ("write" \in events <=> output # <<>>)
    BY Zenon, <2>2 DEF ServerSafe, Phases, WritingIffPending, Open
  <2>4. n \in 0 .. Len(Bytes(m)) /\ (WritesDirectly \/ n = 0) /\ Len(Bytes(m)) = MessageLen
    BY BytesTyped, TcpConstants DEF Writes
  <2> DEFINE q == SubSeq(Bytes(m), n + 1, MessageLen)
  <2>5. q \in Seq(Byte) /\ (q = <<>> <=> n = MessageLen)
    BY Zenon, <2>4, BytesTyped, Divided
  <2>6. output' = output \o q
    BY Zenon, <2>1
  <2> HIDE DEF q
  <2>7. output \in Seq(Byte)
    BY Zenon DEF TcpInv, BuffersOK
  <2>8. output' = <<>> <=> output = <<>> /\ q = <<>>
    <3>1. output \o q = <<>> => output = <<>> /\ q = <<>>
      BY SMTT(30), <2>5, <2>7, ConcatSimplifications
    <3>2. <<>> \o <<>> = <<>>
      BY EmptySeq, ConcatEmptySeq
    <3> QED
      BY Zenon, <2>6, <3>1, <3>2
  <2>9. n < MessageLen <=> n # MessageLen
    BY <2>4, TcpConstants
  <2>10. CASE "write" \in events
    <3>1. UNCHANGED channel
      BY Zenon, <2>1, <2>10 DEF Asks
    <3> QED
      BY Zenon, <2>2, <2>3, <2>8, <2>10, <3>1 DEF channel, Open
  <2>11. CASE "write" \notin events /\ n # MessageLen
    <3>1. Update(events \cup {"write"})
      BY Zenon, <2>1, <2>9, <2>11 DEF Asks
    <3>2. events' = events \cup {"write"} /\ index' = "kAdded"
      BY <3>1 DEF Update
    <3> QED
      BY Zenon, <2>2, <2>3, <2>5, <2>8, <2>11, <3>2 DEF Open
  <2>12. CASE "write" \notin events /\ n = MessageLen
    <3>1. UNCHANGED channel
      BY Zenon, <2>1, <2>9, <2>12 DEF Asks
    <3> QED
      BY Zenon, <2>2, <2>3, <2>5, <2>8, <2>12, <3>1 DEF channel, Open
  <2> QED
    BY Zenon, <2>10, <2>11, <2>12
<1> QED
  BY Zenon, <1>1, <1>2 DEF SendInLoop

\* A step that leaves state, channel and buffer alone.
LEMMA StillSafe ==
  ASSUME ServerSafe, UNCHANGED <<state, events, index, output, downs, failed>>,
         state = "kConnecting" => UNCHANGED <<todo, functors, delayed, pc>>,
         state = "kDisconnected" => "read" \notin todo', Calm'
  PROVE  ServerSafe'
<1>1. AssertsHold' /\ DownOnce' /\ WritingIffPending'
  BY Zenon DEF ServerSafe, AssertsHold, DownOnce, WritingIffPending
<1>2. Phases'
  <2>1. state = "kConnecting" =>
          /\ index' = "kNew" /\ events' = {} /\ output' = <<>> /\ ~delayed' /\ todo' = {}
          /\ functors' = <<[op |-> "established"]>> /\ \A t \in Threads : pc'[t] = None
    BY Zenon DEF ServerSafe, Phases
  <2>2. Open => index' = "kAdded" /\ "read" \in events'
    BY Zenon DEF ServerSafe, Phases
  <2>3. state = "kDisconnected" => index' = "kDeleted" /\ events' = {}
    BY Zenon DEF ServerSafe, Phases
  <2> QED
    BY Zenon, <2>1, <2>2, <2>3 DEF Phases, Open
<1> QED
  BY Zenon, <1>1, <1>2 DEF ServerSafe

\* While the connection reads, a hang-up comes with something to read.
LEMMA PollSafe ==
  ASSUME ServerInv, Poll
  PROVE  ServerSafe'
<1>1. PICK writable \in BOOLEAN : todo' = Callbacks(writable)
  BY Zenon DEF Poll
<1>2. state # "kConnecting" /\ state # "kDisconnected"
  BY DEF ServerInv, ServerSafe, Phases, Poll
<1>3. "read" \in events
  BY Zenon, <1>2 DEF ServerInv, ServerSafe, Phases, Open, TcpInv, ConnOK
<1>4. Hup => In
  BY Zenon, <1>3 DEF Hup, In
<1>5. "close" \notin todo'
  BY <1>1, <1>4 DEF Callbacks
<1>6. Calm'
  BY Zenon, <1>5 DEF ServerInv, ServerSafe, Calm, Poll, conn
<1> QED
  BY Zenon, <1>2, <1>6, StillSafe DEF ServerInv, Poll, conn, channel, buffers

LEMMA CallbackCalm ==
  ASSUME ServerInv, NEW c, NEW before, Callback(c, before)
  PROVE  state # "kConnecting" /\ (state' # "kConnecting" => Calm')
<1>1. state # "kConnecting"
  BY Zenon DEF ServerInv, ServerSafe, Phases, Callback
<1> QED
  BY Zenon, <1>1 DEF ServerInv, ServerSafe, Calm, Callback

LEMMA CloseErrorSafe ==
  ASSUME ServerInv, CloseCallback \/ ErrorCallback
  PROVE  ServerSafe'
<1>1. ErrorCallback
  BY Zenon DEF ServerInv, ServerSafe, Calm, CloseCallback, Callback
<1>2. state # "kConnecting" /\ UNCHANGED <<state, events, index, output, downs, failed>> /\ Calm'
  BY Zenon, <1>1, CallbackCalm DEF ErrorCallback, conn, channel, buffers
<1>3. state = "kDisconnected" => "read" \notin todo'
  BY Zenon, <1>1 DEF ErrorCallback, Callback, ServerInv, ServerSafe, Phases
<1> QED
  BY Zenon, <1>2, <1>3, StillSafe DEF ServerInv

LEMMA ReadSafe ==
  ASSUME ServerInv, ReadCallback
  PROVE  ServerSafe'
<1>1. Callback("read", {"close", "error"})
  BY Zenon DEF ReadCallback
<1>2. "read" \in todo /\ "read" \notin todo' /\ Open
  <2>1. "read" \in todo /\ todo' = todo \ {"read"}
    BY Zenon, <1>1 DEF Callback
  <2>2. state # "kDisconnected" /\ state # "kConnecting"
    BY Zenon, <2>1 DEF ServerInv, ServerSafe, Phases
  <2> QED
    BY Zenon, <2>1, <2>2 DEF ServerInv, TcpInv, ConnOK, Open
<1>3. CASE UNCHANGED <<conn, channel>>
  <2>1. UNCHANGED <<state, events, index, output, downs, failed>>
    BY Zenon, <1>3 DEF ReadCallback, conn, channel, buffers
  <2>2. state # "kConnecting" /\ Calm'
    BY Zenon, <1>1, <2>1, CallbackCalm
  <2> QED
    BY Zenon, <1>2, <2>1, <2>2, StillSafe DEF ServerInv
<1>4. CASE HandleClose
  <2>1. /\ state' = "kDisconnected" /\ index' = "kDeleted" /\ events' = {}
        /\ downs' = 1 /\ failed' = 0
    BY Zenon, <1>2, <1>4, CloseEnds DEF ServerInv
  <2>2. Calm'
    BY Zenon, <1>1, <2>1, CallbackCalm
  <2> QED
    BY Zenon, <1>2, <2>1, <2>2, ClosedSafe
<1> QED
  BY Zenon, <1>3, <1>4 DEF ReadCallback

\* A step that leaves the state alone and keeps the channel of an open connection
\* added, reading, and writing exactly while the buffer holds something.
LEMMA OpenSafe ==
  ASSUME ServerSafe, Open, Open', UNCHANGED <<downs, failed>>, Calm',
         index' = "kAdded", "read" \in events', "write" \in events' <=> output' # <<>>
  PROVE  ServerSafe'
<1>1. state' # "kConnecting" /\ state' # "kDisconnected" /\ state # "kDisconnected"
  BY Zenon DEF Open
<1>2. AssertsHold' /\ DownOnce' /\ WritingIffPending'
  BY Zenon, <1>1 DEF ServerSafe, AssertsHold, DownOnce, WritingIffPending
<1>3. Phases'
  BY Zenon, <1>1 DEF Phases
<1> QED
  BY Zenon, <1>2, <1>3 DEF ServerSafe

\* handleWrite stops writing when, and only when, it has emptied the buffer.
LEMMA WriteSafe ==
  ASSUME ServerInv, WriteCallback
  PROVE  ServerSafe'
<1>1. Callback("write", {"close", "error", "read"}) /\ UNCHANGED <<state, downs, failed>>
  BY Zenon DEF WriteCallback, conn
<1>2. state # "kConnecting" /\ Calm'
  BY Zenon, <1>1, CallbackCalm
<1>3. CASE "write" \notin events
  <2>1. UNCHANGED <<state, events, index, output, downs, failed>>
    BY Zenon, <1>1, <1>3 DEF WriteCallback, channel
  <2>2. state = "kDisconnected" => "read" \notin todo'
    BY Zenon, <1>1 DEF Callback, ServerInv, ServerSafe, Phases
  <2> QED
    BY Zenon, <1>2, <2>1, <2>2, StillSafe DEF ServerInv
<1>4. CASE "write" \in events
  <2>1. Open /\ Open' /\ index = "kAdded" /\ "read" \in events /\ output # <<>>
    <3>1. state # "kDisconnected"
      BY Zenon, <1>4 DEF ServerInv, ServerSafe, Phases
    <3>2. Open
      BY Zenon, <1>2, <3>1 DEF ServerInv, TcpInv, ConnOK, Open
    <3> QED
      BY Zenon, <1>1, <1>4, <3>2 DEF ServerInv, ServerSafe, Phases, WritingIffPending, Open
  <2>2. PICK n \in Writes(Len(output)) :
          /\ output' = SubSeq(output, n + 1, Len(output))
          /\ IF n > 0 /\ output' = <<>>
             THEN Update(events \ {"write"})
             ELSE UNCHANGED channel
    BY Zenon, <1>4 DEF WriteCallback, channel
  <2>3. output \in Seq(Byte)
    BY Zenon DEF ServerInv, TcpInv, BuffersOK
  <2>4. n \in 0 .. Len(output)
    BY <2>3, LenProperties DEF Writes
  <2>5. n = 0 => output' = output
    BY Zenon, <2>2, <2>3, <2>4, Divided
  <2>6. n = 0 \/ n > 0
    BY <2>3, <2>4, LenProperties
  <2>7. CASE n > 0 /\ output' = <<>>
    <3>1. Update(events \ {"write"})
      BY Zenon, <2>2, <2>7
    <3>2. events' = events \ {"write"} /\ "read" \in events' /\ index' = "kAdded"
      BY <2>1, <3>1 DEF Update
    <3>3. "write" \notin events'
      BY Zenon, <3>2
    <3> QED
      BY Zenon, <1>1, <1>2, <2>1, <2>7, <3>2, <3>3, OpenSafe DEF ServerInv
  <2>8. CASE ~(n > 0 /\ output' = <<>>)
    <3>1. UNCHANGED channel /\ output' # <<>>
      BY Zenon, <2>1, <2>2, <2>5, <2>6, <2>8
    <3> QED
      BY Zenon, <1>1, <1>2, <1>4, <2>1, <3>1, OpenSafe DEF ServerInv, channel
  <2> QED
    BY Zenon, <2>7, <2>8
<1> QED
  BY Zenon, <1>3, <1>4

\* What the functors do, when one is run and when one is added.
LEMMA TailOps ==
  ASSUME NEW s \in Seq(Functor), s # <<>>, NEW S, \A i \in 1 .. Len(s) : s[i].op \in S
  PROVE  Head(s).op \in S /\ \A i \in 1 .. Len(Tail(s)) : Tail(s)[i].op \in S
<1>1. Len(s) \in Nat /\ Len(s) >= 1
  BY LenProperties, EmptySeq
<1>2. /\ Head(s) = s[1] /\ Len(Tail(s)) = Len(s) - 1
      /\ \A i \in 1 .. Len(s) - 1 : Tail(s)[i] = s[i + 1]
  BY <1>1
<1>3. \A i \in 1 .. Len(s) - 1 : i + 1 \in 1 .. Len(s)
  BY <1>1
<1>4. 1 \in 1 .. Len(s)
  BY <1>1
<1> QED
  BY Zenon, <1>2, <1>3, <1>4

LEMMA AppendOps ==
  ASSUME NEW s \in Seq(Functor), NEW f \in Functor, NEW S, f.op \in S,
         \A i \in 1 .. Len(s) : s[i].op \in S
  PROVE  \A i \in 1 .. Len(Append(s, f)) : Append(s, f)[i].op \in S
<1>1. /\ Len(s) \in Nat /\ Len(Append(s, f)) = Len(s) + 1
      /\ \A i \in 1 .. Len(s) : Append(s, f)[i] = s[i]
      /\ Append(s, f)[Len(s) + 1] = f
  BY AppendProperties, LenProperties
<1>2. \A i \in 1 .. Len(s) + 1 : i \in 1 .. Len(s) \/ i = Len(s) + 1
  BY <1>1
<1> QED
  BY Zenon, <1>1, <1>2

LEMMA RunFunctorSafe ==
  ASSUME ServerInv, RunFunctor
  PROVE  ServerSafe'
<1> DEFINE f == Head(functors)
<1>1. functors \in Seq(Functor) /\ functors # <<>>
  BY Zenon DEF ServerInv, TcpInv, WorkOK, RunFunctor
<1>2. /\ Perform(f) /\ functors' = Tail(functors) /\ UNCHANGED <<todo, delayed, pc>>
      /\ todo = {}
  BY Zenon DEF RunFunctor
<1>3. f \in Functor
  BY Zenon, <1>1, HeadTailProperties
<1> HIDE DEF f
<1>4. CASE state = "kConnecting"
  <2>1. f.op = "established" /\ functors' = <<>>
    <3>1. functors = <<[op |-> "established"]>>
      BY Zenon, <1>4 DEF ServerInv, ServerSafe, Phases
    <3> QED
      BY <1>2, <3>1 DEF f
  <2>2. ConnectEstablished
    BY <1>2, <2>1 DEF Perform
  <2>3. /\ state' = "kConnected" /\ index' = "kAdded" /\ events' = {"read"}
        /\ UNCHANGED <<downs, failed, output>> /\ output = <<>>
    <3>1. events = {} /\ index = "kNew" /\ output = <<>>
      BY Zenon, <1>4 DEF ServerInv, ServerSafe, Phases
    <3> QED
      BY <2>2, <3>1 DEF ConnectEstablished, Update, buffers
  <2>4. "close" \notin todo' /\ \A t \in Threads : pc'[t] # None => pc'[t].op = "send" /\ pc'[t].set
    BY Zenon, <1>2 DEF ServerInv, ServerSafe, Calm
  <2>5. \A i \in 1 .. Len(functors') : functors'[i].op \in {"send", "forceClose"}
    BY <2>1
  <2>6. Calm'
    BY Zenon, <2>4, <2>5 DEF Calm
  <2>7. AssertsHold' /\ DownOnce' /\ WritingIffPending'
    <3>1. downs = 0 /\ failed = 0
      BY <1>4 DEF ServerInv, ServerSafe, AssertsHold, DownOnce
    <3> QED
      BY <2>3, <3>1 DEF AssertsHold, DownOnce, WritingIffPending
  <2>8. Phases'
    BY <2>3 DEF Phases, Open
  <2> QED
    BY Zenon, <2>6, <2>7, <2>8 DEF ServerSafe
<1>5. CASE state # "kConnecting"
  <2>1. \A i \in 1 .. Len(functors) : functors[i].op \in {"send", "forceClose"}
    BY Zenon, <1>5 DEF ServerInv, ServerSafe, Calm
  <2>2. /\ f.op \in {"send", "forceClose"}
        /\ \A i \in 1 .. Len(functors') : functors'[i].op \in {"send", "forceClose"}
    BY Zenon, <1>1, <1>2, <2>1, TailOps DEF f
  <2>3. Calm' /\ "read" \notin todo'
    BY Zenon, <1>2, <2>2 DEF ServerInv, ServerSafe, Calm
  <2>4. CASE f.op = "send"
    <3>1. SendInLoop(f.msg) /\ UNCHANGED <<conn, socket>>
      BY <1>2, <2>4 DEF Perform
    <3>2. f.msg \in Messages
      BY Zenon, <1>3, <2>4, FunctorSends
    <3>3. /\ Open => index' = "kAdded" /\ "read" \in events'
                     /\ ("write" \in events' <=> output' # <<>>)
          /\ state = "kDisconnected" => index' = "kDeleted" /\ events' = {}
      BY Zenon, <1>5, <3>1, <3>2, SendInLoopSafe DEF ServerInv
    <3>4. CASE Open
      BY Zenon, <2>3, <3>1, <3>3, <3>4, OpenSafe DEF ServerInv, conn, Open
    <3>5. CASE state = "kDisconnected"
      <4>1. downs = 1 /\ failed = 0
        BY <3>5 DEF ServerInv, ServerSafe, AssertsHold, DownOnce
      <4> QED
        BY Zenon, <2>3, <3>1, <3>3, <3>5, <4>1, ClosedSafe DEF conn
    <3> QED
      BY Zenon, <1>5, <3>4, <3>5 DEF ServerInv, TcpInv, ConnOK, Open
  <2>5. CASE f.op = "forceClose"
    <3>1. ForceCloseInLoop /\ UNCHANGED <<buffers, socket>>
      BY <1>2, <2>5 DEF Perform
    <3>2. CASE Open
      <4>1. HandleClose
        BY Zenon, <3>1, <3>2 DEF ForceCloseInLoop, Closable
      <4> QED
        BY Zenon, <2>3, <3>2, <4>1, CloseEnds, ClosedSafe DEF ServerInv
    <3>3. CASE ~Open
      <4>1. UNCHANGED <<state, events, index, output, downs, failed>>
        BY Zenon, <3>1, <3>3 DEF ForceCloseInLoop, Closable, conn, channel, buffers
      <4> QED
        BY Zenon, <1>5, <2>3, <4>1, StillSafe DEF ServerInv
    <3> QED
      BY Zenon, <3>2, <3>3
  <2> QED
    BY Zenon, <2>2, <2>4, <2>5
<1> QED
  BY Zenon, <1>4, <1>5

\* A call in the loop's thread: the connection is open and stays open.
LEMMA LoopCallSafe ==
  ASSUME ServerInv, NEW op \in {"send", "shutdown", "forceClose", "forceCloseWithDelay"},
         NEW m \in Messages, LoopCall(op, m)
  PROVE  ServerSafe'
<1>1. Open
  <2>1. Checks(op)
    BY Zenon DEF LoopCall, Counted
  <2> QED
    BY <2>1 DEF Checks, Open
<1>2. /\ index = "kAdded" /\ "read" \in events /\ ("write" \in events <=> output # <<>>)
      /\ \A i \in 1 .. Len(functors) : functors[i].op \in {"send", "forceClose"}
  BY Zenon, <1>1 DEF ServerInv, ServerSafe, Phases, WritingIffPending, Calm, Open
<1>3. UNCHANGED <<todo, pc>>
  BY Zenon DEF LoopCall
<1>4. ASSUME \A i \in 1 .. Len(functors') : functors'[i].op \in {"send", "forceClose"}
      PROVE  Calm'
  BY Zenon, <1>3, <1>4 DEF ServerInv, ServerSafe, Calm
<1>5. CASE /\ op = "forceClose" /\ state' = "kDisconnecting"
           /\ functors' = Append(functors, [op |-> op])
           /\ UNCHANGED <<reading, inMap, downs, failed, channel, buffers, socket, delayed>>
  <2>1. [op |-> "forceClose"] \in Functor /\ [op |-> "forceClose"].op \in {"send", "forceClose"}
    BY DEF Functor
  <2>2. functors \in Seq(Functor)
    BY Zenon DEF ServerInv, TcpInv, WorkOK
  <2>3. \A i \in 1 .. Len(functors') : functors'[i].op \in {"send", "forceClose"}
    BY Zenon, <1>2, <1>5, <2>1, <2>2, AppendOps
  <2> QED
    BY Zenon, <1>1, <1>2, <1>4, <1>5, <2>3, OpenSafe DEF ServerInv, channel, buffers, Open
<1>6. CASE /\ state' = "kDisconnecting"
           /\ UNCHANGED <<downs, failed, channel, buffers, functors>>
  BY Zenon, <1>1, <1>2, <1>4, <1>6, OpenSafe DEF ServerInv, channel, buffers, Open
<1>7. CASE /\ op = "send" /\ Perform([op |-> op, msg |-> m])
           /\ UNCHANGED <<functors, delayed>>
  <2>1. SendInLoop(m) /\ UNCHANGED <<conn, socket>>
    BY <1>7 DEF Perform
  <2>2. state # "kConnecting"
    BY Zenon, <1>1 DEF Open
  <2>3. index' = "kAdded" /\ "read" \in events' /\ ("write" \in events' <=> output' # <<>>)
    BY Zenon, <1>1, <2>1, <2>2, SendInLoopSafe DEF ServerInv
  <2> QED
    BY Zenon, <1>1, <1>2, <1>4, <1>7, <2>1, <2>3, OpenSafe DEF ServerInv, conn, Open
<1> QED
  BY Zenon, <1>5, <1>6, <1>7 DEF LoopCall

\* Threads call send only, and only while the connection is open.
LEMMA ThreadCheckSafe ==
  ASSUME ServerInv, NEW t \in Threads, NEW m \in Messages, ThreadCheck(t, "send", m)
  PROVE  ServerSafe'
<1>1. state = "kConnected"
  <2>1. Checks("send")
    BY Zenon DEF ThreadCheck, Counted
  <2> QED
    BY <2>1 DEF Checks
<1>2. pc' = [pc EXCEPT ![t] = [op |-> "send", msg |-> m, set |-> "send" \notin Sets]]
  BY Zenon DEF ThreadCheck
<1>3. \A u \in Threads : pc'[u] # None => pc'[u].op = "send" /\ pc'[u].set
  <2> SUFFICES ASSUME NEW u \in Threads, pc'[u] # None
               PROVE  pc'[u].op = "send" /\ pc'[u].set
    OBVIOUS
  <2>1. pc \in [Threads -> Call \cup {None}]
    BY Zenon DEF ServerInv, TcpInv, WorkOK
  <2>2. CASE u = t
    <3>1. "send" \notin Sets
      BY DEF Sets
    <3>2. pc'[u] = [op |-> "send", msg |-> m, set |-> "send" \notin Sets]
      BY Zenon, <1>2, <2>1, <2>2
    <3>3. pc'[u] = [op |-> "send", msg |-> m, set |-> TRUE]
      BY Zenon, <3>1, <3>2
    <3> QED
      BY <3>3
  <2>3. CASE u # t
    <3>1. pc'[u] = pc[u]
      BY Zenon, <1>2, <2>1, <2>3
    <3> QED
      BY Zenon, <3>1 DEF ServerInv, ServerSafe, Calm
  <2> QED
    BY Zenon, <2>2, <2>3
<1>4. Calm'
  BY Zenon, <1>3 DEF ServerInv, ServerSafe, Calm, ThreadCheck, conn
<1>5. /\ UNCHANGED <<state, events, index, output, downs, failed>>
      /\ state # "kConnecting" /\ state # "kDisconnected"
  BY Zenon, <1>1 DEF ThreadCheck, conn, channel, buffers
<1> QED
  BY Zenon, <1>4, <1>5, StillSafe DEF ServerInv

LEMMA ThreadQueueSafe ==
  ASSUME ServerInv, NEW t \in Threads, ThreadQueue(t)
  PROVE  ServerSafe'
<1>1. pc \in [Threads -> Call \cup {None}] /\ functors \in Seq(Functor)
  BY Zenon DEF ServerInv, TcpInv, WorkOK
<1>2. pc[t] # None /\ pc[t] \in Call /\ pc[t].op = "send"
  BY Zenon, <1>1 DEF ServerInv, ServerSafe, Calm, ThreadQueue, Idle
<1>3. state # "kConnecting"
  BY Zenon, <1>2 DEF ServerInv, ServerSafe, Phases
<1>4. functors' = Append(functors, [op |-> pc[t].op, msg |-> pc[t].msg])
  BY <1>2 DEF ThreadQueue
<1>5. \A i \in 1 .. Len(functors') : functors'[i].op \in {"send", "forceClose"}
  <2> DEFINE f == [op |-> pc[t].op, msg |-> pc[t].msg]
  <2>1. f \in Functor /\ f.op \in {"send", "forceClose"}
    BY <1>2 DEF Call, Functor
  <2>2. functors' = Append(functors, f)
    BY Zenon, <1>4
  <2> HIDE DEF f
  <2>3. \A i \in 1 .. Len(functors) : functors[i].op \in {"send", "forceClose"}
    BY Zenon, <1>3 DEF ServerInv, ServerSafe, Calm
  <2> QED
    BY Zenon, <1>1, <2>1, <2>2, <2>3, AppendOps
<1>6. \A u \in Threads : pc'[u] # None => pc'[u].op = "send" /\ pc'[u].set
  <2>1. pc' = [pc EXCEPT ![t] = None]
    BY Zenon DEF ThreadQueue, Idle
  <2>2. \A u \in Threads : pc'[u] = None \/ pc'[u] = pc[u]
    BY Zenon, <1>1, <2>1
  <2> QED
    BY Zenon, <2>2 DEF ServerInv, ServerSafe, Calm
<1>7. Calm'
  BY Zenon, <1>5, <1>6 DEF ServerInv, ServerSafe, Calm, ThreadQueue
<1>8. UNCHANGED <<state, events, index, output, downs, failed, todo>>
  BY Zenon DEF ThreadQueue, conn, channel, buffers
<1>9. state = "kDisconnected" => "read" \notin todo'
  BY Zenon, <1>8 DEF ServerInv, ServerSafe, Phases
<1> QED
  BY Zenon, <1>3, <1>7, <1>8, <1>9, StillSafe DEF ServerInv

LEMMA DelayOverSafe ==
  ASSUME ServerInv, DelayOver
  PROVE  ServerSafe'
<1>1. state # "kConnecting"
  BY Zenon DEF DelayOver, ServerInv, ServerSafe, Phases
<1>2. \A i \in 1 .. Len(functors) : functors[i].op \in {"send", "forceClose"}
  BY Zenon, <1>1 DEF ServerInv, ServerSafe, Calm
<1>3. UNCHANGED <<todo, pc, downs, failed, events, index, output>>
  BY Zenon DEF DelayOver, channel, buffers
<1>4. CASE Open
  <2>1. [op |-> "forceClose"] \in Functor /\ [op |-> "forceClose"].op \in {"send", "forceClose"}
    BY DEF Functor
  <2>2. functors \in Seq(Functor) /\ functors' = Append(functors, [op |-> "forceClose"])
        /\ state' = "kDisconnecting"
    BY Zenon, <1>4 DEF ServerInv, TcpInv, WorkOK, DelayOver
  <2>3. \A i \in 1 .. Len(functors') : functors'[i].op \in {"send", "forceClose"}
    BY Zenon, <1>2, <2>1, <2>2, AppendOps
  <2>4. Calm'
    BY Zenon, <1>3, <2>3 DEF ServerInv, ServerSafe, Calm
  <2>5. index = "kAdded" /\ "read" \in events /\ ("write" \in events <=> output # <<>>)
    BY Zenon, <1>4 DEF ServerInv, ServerSafe, Phases, WritingIffPending, Open
  <2> QED
    BY Zenon, <1>3, <1>4, <2>2, <2>4, <2>5, OpenSafe DEF ServerInv, Open
<1>5. CASE ~Open
  <2>1. UNCHANGED <<state, functors>>
    BY Zenon, <1>5 DEF DelayOver
  <2>2. Calm'
    BY Zenon, <1>3, <2>1 DEF ServerInv, ServerSafe, Calm
  <2>3. state = "kDisconnected" => "read" \notin todo'
    BY Zenon, <1>3 DEF ServerInv, ServerSafe, Phases
  <2> QED
    BY Zenon, <1>1, <1>3, <2>1, <2>2, <2>3, StillSafe DEF ServerInv
<1> QED
  BY Zenon, <1>4, <1>5

LEMMA PeerSafe ==
  ASSUME ServerInv, PeerSends \/ PeerCloses \/ PeerResets
  PROVE  ServerSafe'
<1>1. UNCHANGED <<state, events, index, output, downs, failed, todo, functors, delayed, pc>>
  BY Zenon DEF PeerSends, PeerCloses, PeerResets, PeerStep, conn, channel, buffers, work
<1>2. Calm'
  BY Zenon, <1>1 DEF ServerInv, ServerSafe, Calm
<1>3. state = "kDisconnected" => "read" \notin todo'
  BY Zenon, <1>1 DEF ServerInv, ServerSafe, Phases
<1> QED
  BY Zenon, <1>1, <1>2, <1>3, StillSafe DEF ServerInv

LEMMA ServerKeeps ==
  ASSUME ServerOps, ServerInv, [Next]_vars
  PROVE  ServerInv'
<1>1. TcpInv'
  BY Zenon, TcpKeeps DEF ServerInv
<1>2. ServerSafe'
  <2>1. CASE UNCHANGED vars
    <3>1. UNCHANGED <<state, events, index, output, downs, failed, todo, functors, delayed, pc>>
      BY Zenon, <2>1 DEF vars, conn, channel, buffers, work
    <3>2. Calm'
      BY Zenon, <3>1 DEF ServerInv, ServerSafe, Calm
    <3>3. state = "kDisconnected" => "read" \notin todo'
      BY Zenon, <3>1 DEF ServerInv, ServerSafe, Phases
    <3> QED
      BY Zenon, <3>1, <3>2, <3>3, StillSafe DEF ServerInv
  <2>2. ASSUME NEW op \in LoopOps, NEW m \in Messages, LoopCall(op, m)
        PROVE  ServerSafe'
    BY Zenon, <2>2, LoopCallSafe DEF ServerOps
  <2>3. ASSUME NEW t \in Threads, NEW op \in ThreadOps, NEW m \in Messages,
               ThreadCheck(t, op, m)
        PROVE  ServerSafe'
    <3>1. op = "send"
      BY Zenon DEF ServerOps
    <3> QED
      BY Zenon, <2>3, <3>1, ThreadCheckSafe
  <2>4. ASSUME NEW t \in Threads, ThreadSet(t)
        PROVE  ServerSafe'
    BY Zenon, <2>4 DEF ThreadSet, Idle, ServerInv, ServerSafe, Calm
  <2>5. ~Destroy
    BY Zenon DEF ServerOps, Destroy
  <2> QED
    BY Zenon, <2>1, <2>2, <2>3, <2>4, <2>5, PollSafe, CloseErrorSafe, ReadSafe, WriteSafe,
       RunFunctorSafe, DelayOverSafe, ThreadQueueSafe, PeerSafe
    DEF Next, HandleEvent
<1> QED
  BY Zenon, <1>1, <1>2 DEF ServerInv

LEMMA FlushStep ==
  ASSUME ServerOps, ServerInv, [Next]_vars
  PROVE  FlushedFirst
<1> SUFFICES ASSUME fin' # fin
             PROVE  output' = <<>>
  BY Zenon DEF FlushedFirst
<1>1. CASE WriteCallback
  <2>1. output' = <<>> \/ UNCHANGED fin
    BY Zenon, <1>1 DEF WriteCallback
  <2> QED
    BY Zenon, <2>1
<1>2. ASSUME NEW op \in LoopOps, NEW m \in Messages, LoopCall(op, m)
      PROVE  output' = <<>>
  <2>1. op \in {"send", "shutdown", "forceClose", "forceCloseWithDelay"}
    BY Zenon DEF ServerOps
  <2>2. CASE op = "shutdown" /\ ShutdownInLoop(events) /\ UNCHANGED buffers
    <3>1. Checks("shutdown") /\ "write" \notin events
      <4>1. MayShutdown(events)
        BY Zenon, <2>2 DEF ShutdownInLoop, ServerInv, TcpInv, SocketOK
      <4> QED
        BY Zenon, <1>2, <2>2, <4>1 DEF LoopCall, Counted, MayShutdown
    <3>2. state = "kConnected"
      BY <3>1 DEF Checks
    <3> QED
      BY Zenon, <2>2, <3>1, <3>2 DEF ServerInv, ServerSafe, WritingIffPending, buffers
  <2>3. CASE op = "send" /\ Perform([op |-> op, msg |-> m])
    <3>1. UNCHANGED <<conn, socket>>
      BY <2>3 DEF Perform
    <3> QED
      BY Zenon, <3>1 DEF socket
  <2>4. CASE UNCHANGED socket
    BY Zenon, <2>4 DEF socket
  <2> QED
    BY Zenon, <1>2, <2>1, <2>2, <2>3, <2>4 DEF LoopCall
<1>3. CASE RunFunctor
  <2> DEFINE f == Head(functors)
  <2>1. functors \in Seq(Functor) /\ functors # <<>> /\ Perform(f)
    BY Zenon, <1>3 DEF ServerInv, TcpInv, WorkOK, RunFunctor
  <2>2. f.op \in {"established", "send", "forceClose"}
    <3>1. CASE state = "kConnecting"
      <4>1. functors = <<[op |-> "established"]>>
        BY Zenon, <3>1 DEF ServerInv, ServerSafe, Phases
      <4> QED
        BY <4>1
    <3>2. CASE state # "kConnecting"
      <4>1. \A i \in 1 .. Len(functors) : functors[i].op \in {"send", "forceClose"}
        BY Zenon, <3>2 DEF ServerInv, ServerSafe, Calm
      <4>2. f.op \in {"send", "forceClose"}
        BY Zenon, <2>1, <4>1, TailOps
      <4> QED
        BY Zenon, <4>2
    <3> QED
      BY Zenon, <3>1, <3>2
  <2> HIDE DEF f
  <2>3. UNCHANGED socket
    BY <2>1, <2>2 DEF Perform, ConnectEstablished
  <2> QED
    BY Zenon, <2>3 DEF socket
<1> QED
  BY Zenon, <1>1, <1>2, <1>3
  DEF Next, HandleEvent, Poll, CloseCallback, ErrorCallback, ReadCallback, DelayOver,
      ThreadCheck, ThreadSet, ThreadQueue, Destroy, PeerSends, PeerCloses, PeerResets, PeerStep,
      vars, socket

-----------------------------------------------------------------------------
(* The theorems about the server *)

ServerKept == scenario = "server" => ServerInv

LEMMA ServerKeptInit ==
  ASSUME MCInit
  PROVE  ServerKept
BY Zenon, ServerInit DEF MCInit, ServerKept

LEMMA ServerKeptStep ==
  ASSUME ServerOps, ServerKept, [MCNext]_<<vars, scenario>>
  PROVE  ServerKept' /\ (scenario = "server" => FlushedFirst)
<1>1. UNCHANGED scenario
  BY Zenon DEF MCNext
<1>2. CASE scenario = "server"
  <2>1. [Next]_vars
    <3>1. "server" # "any"
      OBVIOUS
    <3> QED
      BY Zenon, <1>2, <3>1 DEF MCNext
  <2> QED
    BY Zenon, <1>1, <1>2, <2>1, ServerKeeps, FlushStep DEF ServerKept
<1> QED
  BY Zenon, <1>1, <1>2 DEF ServerKept

LEMMA ServerKeptMeans ==
  ASSUME ServerKept
  PROVE  ServerConsistent
BY Zenon, TcpInvTyped DEF ServerKept, ServerInv, ServerSafe, ServerConsistent

\* With the operations IMServer calls, the assert of handleClose never fails, the
\* user hears of the end of a connection once, and the channel asks for writability
\* exactly while bytes wait, for any threads, messages, message lengths and number
\* of calls.
THEOREM ServerSound == ServerOps => (MCSpec => []ServerConsistent)
<1> SUFFICES ASSUME ServerOps
             PROVE  MCSpec => []ServerConsistent
  OBVIOUS
<1>1. MCInit => ServerKept
  BY ServerKeptInit
<1>2. ServerKept /\ [MCNext]_<<vars, scenario>> => ServerKept'
  BY ServerKeptStep
<1>3. ServerKept => ServerConsistent
  BY ServerKeptMeans
<1> QED
  BY <1>1, <1>2, <1>3, PTL DEF MCSpec

\* With the operations IMServer calls, shutdown() never cuts off bytes that were
\* accepted before it, whether it is called while bytes wait or handleWrite ends it.
THEOREM ShutdownFlushes == ServerOps => (MCSpec => ServerFinAfterFlush)
<1> SUFFICES ASSUME ServerOps
             PROVE  MCSpec => ServerFinAfterFlush
  OBVIOUS
<1>1. MCInit => ServerKept
  BY ServerKeptInit
<1>2. ServerKept /\ [MCNext]_<<vars, scenario>> => ServerKept'
  BY ServerKeptStep
<1>3. ServerKept /\ [MCNext]_<<vars, scenario>> => [scenario = "server" => FlushedFirst]_vars
  BY ServerKeptStep
<1> QED
  BY <1>1, <1>2, <1>3, PTL DEF MCSpec, ServerFinAfterFlush
=============================================================================

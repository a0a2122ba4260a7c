---------------------------- MODULE BufferProof -----------------------------
(***************************************************************************)
(* Buffer implements ByteQueue, and makeSpace always makes room, for all    *)
(* bytes, sizes and lengths of calls.                                       *)
(***************************************************************************)
EXTENDS Buffer, SequenceTheorems, TLAPS

\* A vector with its indices in order, and with room for the indices to go back to
\* kCheapPrepend.
Sized(b) ==
  /\ b \in [v : Seq(Byte), r : Nat, w : Nat]
  /\ b.r <= b.w /\ b.w <= Len(b.v) /\ kCheapPrepend <= Len(b.v)

Readable(b) == SubSeq(b.v, b.r + 1, b.w)

\* The inductive invariant.
IInv == TypeOK /\ kCheapPrepend <= Len(buffer)

-----------------------------------------------------------------------------
(* Vectors *)

LEMMA BlanksSeq ==
  ASSUME NEW n \in Nat
  PROVE  Blanks(n) \in Seq(Byte) /\ Len(Blanks(n)) = n
<1>1. Blank \in Byte
  BY BufferConstants DEF Blank
<1>2. Blanks(n) \in [1 .. n -> Byte]
  BY <1>1 DEF Blanks
<1>3. Blanks(n) \in Seq(Byte)
  BY <1>2, SeqDef
<1> QED
  BY <1>2, <1>3, LenProperties

LEMMA OverwriteFacts ==
  ASSUME NEW v \in Seq(Byte), NEW s \in Seq(Byte), NEW i \in Nat, i + Len(s) <= Len(v)
  PROVE  /\ Overwrite(v, i, s) \in Seq(Byte)
         /\ Len(Overwrite(v, i, s)) = Len(v)
         /\ \A j \in 1 .. Len(v) :
              Overwrite(v, i, s)[j] = IF j \in i + 1 .. i + Len(s) THEN s[j - i] ELSE v[j]
<1>1. Len(v) \in Nat /\ Len(s) \in Nat
  BY LenProperties
<1>2. \A j \in 1 .. Len(v) : v[j] \in Byte
  BY ElementOfSeq
<1>3. \A j \in 1 .. Len(s) : s[j] \in Byte
  BY ElementOfSeq
<1>4. \A j \in 1 .. Len(v) : (IF j \in i + 1 .. i + Len(s) THEN s[j - i] ELSE v[j]) \in Byte
  BY <1>1, <1>2, <1>3
<1>5. Overwrite(v, i, s) \in [1 .. Len(v) -> Byte]
  BY <1>4 DEF Overwrite
<1>6. Overwrite(v, i, s) \in Seq(Byte)
  BY <1>1, <1>5, SeqDef
<1>7. Len(Overwrite(v, i, s)) = Len(v)
  BY <1>1, <1>5, <1>6, LenProperties
<1> QED
  BY <1>6, <1>7 DEF Overwrite

LEMMA SubSeqFacts ==
  ASSUME NEW v \in Seq(Byte), NEW m \in Nat, NEW n \in Nat, m <= n, n <= Len(v)
  PROVE  /\ SubSeq(v, m + 1, n) \in Seq(Byte)
         /\ Len(SubSeq(v, m + 1, n)) = n - m
         /\ \A i \in 1 .. n - m : SubSeq(v, m + 1, n)[i] = v[m + i]
<1>1. Len(v) \in Nat
  BY LenProperties
<1>2. \A i \in m + 1 .. n : v[i] \in Byte
  BY <1>1, ElementOfSeq
<1>3. /\ SubSeq(v, m + 1, n) \in Seq(Byte)
      /\ Len(SubSeq(v, m + 1, n)) = IF m + 1 <= n THEN n - (m + 1) + 1 ELSE 0
      /\ \A i \in 1 .. n - (m + 1) + 1 : SubSeq(v, m + 1, n)[i] = v[(m + 1) + i - 1]
  <2>1. m + 1 \in Int /\ n \in Int
    OBVIOUS
  <2> QED
    BY <1>2, <2>1, SubSeqProperties
<1>4. n - (m + 1) + 1 = n - m /\ \A i \in 1 .. n - m : (m + 1) + i - 1 = m + i
  OBVIOUS
<1> QED
  BY <1>3, <1>4

\* The readable bytes of a vector, one by one.
LEMMA ReadableFacts ==
  ASSUME NEW b, Sized(b)
  PROVE  /\ b.v \in Seq(Byte) /\ b.r \in Nat /\ b.w \in Nat /\ Len(b.v) \in Nat
         /\ Readable(b) \in Seq(Byte)
         /\ Len(Readable(b)) = b.w - b.r
         /\ \A i \in 1 .. b.w - b.r : Readable(b)[i] = b.v[b.r + i]
BY SubSeqFacts, LenProperties DEF Sized, Readable

-----------------------------------------------------------------------------
(* Making room and appending *)

\* ensureWritableBytes makes room for len bytes and keeps the readable ones; it
\* moves them only to the front.
LEMMA EnsuredFacts ==
  ASSUME NEW b, Sized(b), NEW len \in Nat
  PROVE  /\ Sized(Ensured(b, len))
         /\ Len(Ensured(b, len).v) - Ensured(b, len).w >= len
         /\ Readable(Ensured(b, len)) = Readable(b)
         /\ Len(b.v) - b.w < len /\ MovesFront(b, len) => kCheapPrepend < b.r
<1> DEFINE e == Ensured(b, len)
<1>0. kCheapPrepend \in Nat
  BY BufferConstants
<1>1. /\ b.v \in Seq(Byte) /\ b.r \in Nat /\ b.w \in Nat /\ Len(b.v) \in Nat
      /\ b.r <= b.w /\ b.w <= Len(b.v) /\ kCheapPrepend <= Len(b.v)
      /\ b \in [v : Seq(Byte), r : Nat, w : Nat]
  BY ReadableFacts DEF Sized
<1>2. CASE Len(b.v) - b.w >= len
  <2>1. e = b
    BY <1>1, <1>2 DEF Ensured
  <2> QED
    BY <1>1, <1>2, <2>1
<1>3. CASE Len(b.v) - b.w < len /\ MovesFront(b, len)
  <2> DEFINE s == Readable(b)
  <2>1. e = [v |-> Overwrite(b.v, kCheapPrepend, s), r |-> kCheapPrepend,
             w |-> kCheapPrepend + (b.w - b.r)]
    BY <1>3 DEF Ensured, MakeSpace, Readable
  <2>2. kCheapPrepend < b.r /\ Len(b.v) - (kCheapPrepend + (b.w - b.r)) >= len
    BY <1>0, <1>1, <1>3 DEF MovesFront
  <2>3. s \in Seq(Byte) /\ Len(s) = b.w - b.r
    BY ReadableFacts
  <2> HIDE DEF s, e
  <2>4. kCheapPrepend + Len(s) <= Len(b.v)
    BY <1>0, <1>1, <2>2, <2>3
  <2>5. /\ e.v \in Seq(Byte) /\ Len(e.v) = Len(b.v)
        /\ \A j \in 1 .. Len(b.v) :
             e.v[j] = IF j \in kCheapPrepend + 1 .. kCheapPrepend + Len(s)
                      THEN s[j - kCheapPrepend] ELSE b.v[j]
    BY SMTT(30), <1>0, <1>1, <2>1, <2>3, <2>4, OverwriteFacts
  <2>6. e.r = kCheapPrepend /\ e.w = kCheapPrepend + (b.w - b.r)
    BY <2>1
  <2>7. Sized(e)
    <3>1. e \in [v : Seq(Byte), r : Nat, w : Nat]
      BY <1>0, <1>1, <2>1, <2>5
    <3> QED
      BY <1>0, <1>1, <2>3, <2>4, <2>5, <2>6, <3>1 DEF Sized
  <2>8. /\ Readable(e) \in Seq(Byte) /\ Len(Readable(e)) = b.w - b.r
        /\ \A i \in 1 .. b.w - b.r : Readable(e)[i] = e.v[kCheapPrepend + i]
    <3>1. e.w - e.r = b.w - b.r
      BY <1>0, <1>1, <2>6
    <3> QED
      BY <2>6, <2>7, <3>1, ReadableFacts
  <2>9. \A i \in 1 .. b.w - b.r : Readable(e)[i] = s[i]
    <3> SUFFICES ASSUME NEW i \in 1 .. b.w - b.r PROVE Readable(e)[i] = s[i]
      OBVIOUS
    <3>1. /\ kCheapPrepend + i \in 1 .. Len(b.v)
          /\ kCheapPrepend + i \in kCheapPrepend + 1 .. kCheapPrepend + Len(s)
          /\ (kCheapPrepend + i) - kCheapPrepend = i
      BY <1>0, <1>1, <2>3, <2>4
    <3> QED
      BY <2>5, <2>8, <3>1
  <2>10. Readable(e) = s
    BY <2>3, <2>8, <2>9, SeqEqual
  <2> QED
    BY <1>0, <1>1, <2>2, <2>5, <2>6, <2>7, <2>10 DEF s, e
<1>4. CASE Len(b.v) - b.w < len /\ ~MovesFront(b, len)
  <2> DEFINE n == b.w + len - Len(b.v)
             more == Blanks(n)
  <2>1. e = [v |-> b.v \o more, r |-> b.r, w |-> b.w]
    BY <1>4 DEF Ensured, MakeSpace
  <2>2. n \in Nat
    BY <1>1, <1>4
  <2>3. more \in Seq(Byte) /\ Len(more) = n
    BY <2>2, BlanksSeq
  <2> HIDE DEF more, e
  <2>4. e.v = b.v \o more /\ e.r = b.r /\ e.w = b.w
    BY <2>1
  <2>5. /\ e.v \in Seq(Byte) /\ Len(e.v) = Len(b.v) + n
        /\ \A i \in 1 .. Len(b.v) + Len(more) :
             e.v[i] = IF i <= Len(b.v) THEN b.v[i] ELSE more[i - Len(b.v)]
    BY <1>1, <2>3, <2>4, ConcatProperties
  <2>6. Sized(e)
    <3>1. e \in [v : Seq(Byte), r : Nat, w : Nat]
      BY <1>1, <2>1, <2>5, <2>4
    <3> QED
      BY <1>0, <1>1, <2>2, <2>4, <2>5, <3>1 DEF Sized
  <2>7. /\ Readable(e) \in Seq(Byte) /\ Len(Readable(e)) = b.w - b.r
        /\ \A i \in 1 .. b.w - b.r : Readable(e)[i] = e.v[b.r + i]
    BY <2>4, <2>6, ReadableFacts
  <2>8. \A i \in 1 .. b.w - b.r : e.v[b.r + i] = b.v[b.r + i]
    <3> SUFFICES ASSUME NEW i \in 1 .. b.w - b.r PROVE e.v[b.r + i] = b.v[b.r + i]
      OBVIOUS
    <3>1. b.r + i \in 1 .. Len(b.v) + Len(more) /\ b.r + i <= Len(b.v)
      BY <1>1, <2>2, <2>3
    <3> QED
      BY <2>5, <3>1
  <2>9. Readable(e) = Readable(b)
    <3>1. /\ Readable(b) \in Seq(Byte) /\ Len(Readable(b)) = b.w - b.r
          /\ \A i \in 1 .. b.w - b.r : Readable(b)[i] = b.v[b.r + i]
      BY ReadableFacts
    <3> QED
      BY <2>7, <2>8, <3>1, SeqEqual
  <2>10. Len(e.v) - e.w >= len
    BY <1>1, <2>4, <2>5
  <2> QED
    BY <1>4, <2>6, <2>9, <2>10 DEF e
<1> QED
  BY <1>1, <1>2, <1>3, <1>4

LEMMA Places ==
  ASSUME NEW r \in Nat, NEW w \in Nat, NEW size \in Nat, NEW n \in Nat,
         r <= w, w + n <= size, NEW i \in 1 .. (w - r) + n
  PROVE  /\ r + i \in 1 .. size
         /\ i <= w - r => i \in 1 .. w - r /\ r + i \notin w + 1 .. w + n
         /\ i > w - r => r + i \in w + 1 .. w + n /\ (r + i) - w = i - (w - r)
OBVIOUS

LEMMA WrittenFacts ==
  ASSUME NEW b, Sized(b), NEW data \in Seq(Byte), b.w + Len(data) <= Len(b.v)
  PROVE  /\ Sized(Written(b, data)) /\ Len(Written(b, data).v) = Len(b.v)
         /\ Readable(Written(b, data)) = Readable(b) \o data
<1> DEFINE c == Written(b, data)
           s == Readable(b)
<1>0. kCheapPrepend \in Nat
  BY BufferConstants
<1>1. /\ b.v \in Seq(Byte) /\ b.r \in Nat /\ b.w \in Nat /\ Len(b.v) \in Nat
      /\ b.r <= b.w /\ b.w <= Len(b.v) /\ kCheapPrepend <= Len(b.v)
      /\ Len(data) \in Nat
  BY ReadableFacts, LenProperties DEF Sized
<1>2. /\ s \in Seq(Byte) /\ Len(s) = b.w - b.r
      /\ \A i \in 1 .. b.w - b.r : s[i] = b.v[b.r + i]
  BY ReadableFacts
<1>3. c.v = Overwrite(b.v, b.w, data) /\ c.r = b.r /\ c.w = b.w + Len(data)
  BY DEF Written
<1>4. /\ c.v \in Seq(Byte) /\ Len(c.v) = Len(b.v)
      /\ \A j \in 1 .. Len(b.v) :
           c.v[j] = IF j \in b.w + 1 .. b.w + Len(data) THEN data[j - b.w] ELSE b.v[j]
  BY <1>1, <1>3, OverwriteFacts
<1>5. Sized(c)
  <2>1. c \in [v : Seq(Byte), r : Nat, w : Nat]
    BY <1>1, <1>3, <1>4 DEF Written
  <2> HIDE DEF c
  <2> QED
    BY <1>0, <1>1, <1>3, <1>4, <2>1 DEF Sized
<1> HIDE DEF c, s
<1>6. /\ Readable(c) \in Seq(Byte) /\ Len(Readable(c)) = c.w - c.r
      /\ \A i \in 1 .. c.w - c.r : Readable(c)[i] = c.v[c.r + i]
  BY <1>5, ReadableFacts
<1>7. /\ s \o data \in Seq(Byte) /\ Len(s \o data) = Len(s) + Len(data)
      /\ \A i \in 1 .. Len(s) + Len(data) :
           (s \o data)[i] = IF i <= Len(s) THEN s[i] ELSE data[i - Len(s)]
  BY ZenonT(30), <1>2, ConcatProperties
<1>8. c.w - c.r = Len(s) + Len(data) /\ Len(s) = b.w - b.r
  BY <1>1, <1>2, <1>3
<1>9. \A i \in 1 .. Len(s) + Len(data) : Readable(c)[i] = (s \o data)[i]
  <2> SUFFICES ASSUME NEW i \in 1 .. Len(s) + Len(data)
               PROVE  c.v[b.r + i] = (s \o data)[i]
    BY <1>3, <1>6, <1>8
  <2>1. CASE i <= Len(s)
    <3>1. /\ b.r + i \in 1 .. Len(b.v) /\ b.r + i \notin b.w + 1 .. b.w + Len(data)
          /\ i \in 1 .. b.w - b.r
      BY SMTT(30), <1>1, <1>8, <2>1, Places
    <3>2. c.v[b.r + i] = b.v[b.r + i]
      BY <1>4, <3>1
    <3>3. (s \o data)[i] = s[i]
      BY <1>7, <2>1
    <3> QED
      BY <1>2, <3>1, <3>2, <3>3
  <2>2. CASE i > Len(s)
    <3>0. i > b.w - b.r /\ i \in 1 .. (b.w - b.r) + Len(data)
      BY <1>8, <2>2
    <3>1. /\ b.r + i \in 1 .. Len(b.v) /\ b.r + i \in b.w + 1 .. b.w + Len(data)
          /\ (b.r + i) - b.w = i - (b.w - b.r) /\ ~(i <= b.w - b.r)
      BY <1>1, <3>0, Places
    <3>2. c.v[b.r + i] = data[(b.r + i) - b.w]
      BY <1>4, <3>1
    <3>3. (s \o data)[i] = data[i - Len(s)]
      BY <1>7, <1>8, <3>1
    <3> QED
      BY <1>8, <3>1, <3>2, <3>3
  <2> QED
    BY <1>1, <1>2, <2>1, <2>2
<1>10. Readable(c) = s \o data
  BY <1>6, <1>7, <1>8, <1>9, SeqEqual
<1> QED
  BY <1>4, <1>5, <1>10 DEF c, s

LEMMA AppendedFacts ==
  ASSUME NEW b, Sized(b), NEW data \in Seq(Byte)
  PROVE  Sized(Appended(b, data)) /\ Readable(Appended(b, data)) = Readable(b) \o data
<1> DEFINE e == Ensured(b, Len(data))
<1>1. Len(data) \in Nat
  BY LenProperties
<1>2. Sized(e) /\ Len(e.v) - e.w >= Len(data) /\ Readable(e) = Readable(b)
  BY <1>1, EnsuredFacts
<1> HIDE DEF e
<1>3. e \in [v : Seq(Byte), r : Nat, w : Nat]
  BY <1>2 DEF Sized
<1>4. Appended(b, data) = Written(e, data)
  BY DEF Appended, e
<1>5. e.w + Len(data) <= Len(e.v)
  BY <1>1, <1>2, ReadableFacts
<1> QED
  BY <1>2, <1>4, <1>5, WrittenFacts

LEMMA FilledFacts ==
  ASSUME NEW b, Sized(b), NEW data \in Seq(Byte)
  PROVE  Sized(Filled(b, data)) /\ Readable(Filled(b, data)) = Readable(b) \o data
<1> DEFINE room == Len(b.v) - b.w
<1>1. /\ b.v \in Seq(Byte) /\ b.r \in Nat /\ b.w \in Nat /\ Len(b.v) \in Nat
      /\ b.w <= Len(b.v) /\ Len(data) \in Nat /\ room \in Nat
      /\ b \in [v : Seq(Byte), r : Nat, w : Nat]
  BY ReadableFacts, LenProperties DEF Sized
<1>2. CASE Len(data) <= room
  <2>1. Filled(b, data) = Written(b, data)
    BY <1>2 DEF Filled
  <2>2. b.w + Len(data) <= Len(b.v)
    BY <1>1, <1>2
  <2> QED
    BY <2>1, <2>2, WrittenFacts
<1>3. CASE ~(Len(data) <= room)
  <2> DEFINE first == SubSeq(data, 1, room)
             rest == SubSeq(data, room + 1, Len(data))
             c == Written(b, first)
  <2>1. first \in Seq(Byte) /\ Len(first) = room /\ rest \in Seq(Byte)
    <3>1. /\ SubSeq(data, 0 + 1, room) \in Seq(Byte)
          /\ Len(SubSeq(data, 0 + 1, room)) = room - 0
      BY <1>1, <1>3, SubSeqFacts
    <3>2. rest \in Seq(Byte)
      BY <1>1, <1>3, SubSeqFacts
    <3> QED
      BY <1>1, <3>1, <3>2
  <2>2. first \o rest = data
    <3>1. /\ 1 \in 1 .. Len(data) + 1 /\ room \in 1 - 1 .. Len(data)
          /\ Len(data) \in room .. Len(data)
      BY <1>1, <1>3
    <3>2. first \o rest = SubSeq(data, 1, Len(data))
      BY <3>1, ConcatAdjacentSubSeq
    <3> QED
      BY <3>2, SubSeqFull
  <2>3. Filled(b, data) = Appended(c, rest)
    BY <1>3 DEF Filled
  <2> HIDE DEF first, rest, c
  <2>4. Sized(c) /\ Readable(c) = Readable(b) \o first
    BY SMTT(30), <1>1, <2>1, WrittenFacts DEF c
  <2>5. Sized(Appended(c, rest)) /\ Readable(Appended(c, rest)) = Readable(c) \o rest
    BY <2>1, <2>4, AppendedFacts
  <2>6. (Readable(b) \o first) \o rest = Readable(b) \o (first \o rest)
    <3>1. Readable(b) \in Seq(Byte)
      BY ReadableFacts
    <3>2. \A s, t, u \in Seq(Byte) : (s \o t) \o u = s \o (t \o u)
      BY SMTT(30), ConcatAssociative
    <3> QED
      BY Zenon, <2>1, <3>1, <3>2
  <2> QED
    BY <2>2, <2>3, <2>4, <2>5, <2>6
<1> QED
  BY <1>2, <1>3

-----------------------------------------------------------------------------
(* The calls *)

LEMMA ThisSized ==
  ASSUME IInv
  PROVE  /\ Sized(This) /\ Readable(This) = Contents
         /\ buffer \in Seq(Byte) /\ Len(buffer) \in Nat /\ kCheapPrepend \in Nat
         /\ readerIndex \in Nat /\ writerIndex \in Nat
         /\ readerIndex <= writerIndex /\ writerIndex <= Len(buffer)
         /\ kCheapPrepend <= Len(buffer)
<1>1. buffer \in Seq(Byte) /\ Len(buffer) \in Nat
  BY LenProperties DEF IInv, TypeOK
<1>2. /\ readerIndex \in Nat /\ writerIndex \in Nat /\ kCheapPrepend \in Nat
      /\ readerIndex <= writerIndex /\ writerIndex <= Len(buffer)
      /\ kCheapPrepend <= Len(buffer)
  BY <1>1, BufferConstants DEF IInv, TypeOK
<1>3. This \in [v : Seq(Byte), r : Nat, w : Nat]
  BY <1>1, <1>2 DEF This
<1> QED
  BY <1>1, <1>2, <1>3 DEF This, Sized, Readable, Contents

\* The contents, one by one.
LEMMA ContentsFacts ==
  ASSUME IInv
  PROVE  /\ Contents \in Seq(Byte) /\ Len(Contents) = writerIndex - readerIndex
         /\ \A i \in 1 .. writerIndex - readerIndex : Contents[i] = buffer[readerIndex + i]
<1>1. /\ buffer \in Seq(Byte) /\ readerIndex \in Nat /\ writerIndex \in Nat
      /\ readerIndex <= writerIndex /\ writerIndex <= Len(buffer)
  BY ThisSized
<1> QED
  BY <1>1, SubSeqFacts DEF Contents

LEMMA BecomeFacts ==
  ASSUME NEW b, Sized(b), Become(b)
  PROVE  IInv' /\ Contents' = Readable(b)
<1>1. buffer' = b.v /\ readerIndex' = b.r /\ writerIndex' = b.w
  BY DEF Become
<1>2. /\ b.v \in Seq(Byte) /\ b.r \in Nat /\ b.w \in Nat /\ Len(b.v) \in Nat
      /\ b.r <= b.w /\ b.w <= Len(b.v) /\ kCheapPrepend <= Len(b.v)
  BY ReadableFacts DEF Sized
<1>3. TypeOK'
  BY <1>1, <1>2 DEF TypeOK
<1> QED
  BY <1>1, <1>2, <1>3 DEF IInv, Contents, Readable

\* A call with these arguments is enough for a step of the queue.
LEMMA AppendStep ==
  ASSUME IInv, NEW d \in Seq(Byte), AppendBytes(d) \/ ReadFd(d)
  PROVE  IInv' /\ Queue!AppendBytes
<1>1. Sized(This) /\ Readable(This) = Contents
  BY ThisSized
<1>2. call' = <<"append", d>>
  BY DEF AppendBytes, ReadFd
<1>3. IInv' /\ Contents' = Contents \o d
  <2>1. CASE AppendBytes(d)
    <3>1. Become(Appended(This, d))
      BY <2>1 DEF AppendBytes
    <3> QED
      BY <1>1, <3>1, AppendedFacts, BecomeFacts
  <2>2. CASE ReadFd(d)
    <3>1. Become(Filled(This, d))
      BY <2>2 DEF ReadFd
    <3> QED
      BY <1>1, <3>1, FilledFacts, BecomeFacts
  <2> QED
    BY <2>1, <2>2
<1> QED
  BY <1>2, <1>3 DEF Queue!AppendBytes

LEMMA ShrinkStep ==
  ASSUME IInv, NEW n \in Nat, Shrink(n)
  PROVE  IInv' /\ Queue!Shrink
<1> DEFINE other == [v |-> Blanks(kCheapPrepend + kInitialSize), r |-> kCheapPrepend,
                     w |-> kCheapPrepend]
           e == Ensured(other, readableBytes + n)
<1>1. kCheapPrepend \in Nat /\ kInitialSize \in Nat /\ kCheapPrepend + kInitialSize \in Nat
  BY BufferConstants
<1>2. /\ Blanks(kCheapPrepend + kInitialSize) \in Seq(Byte)
      /\ Len(Blanks(kCheapPrepend + kInitialSize)) = kCheapPrepend + kInitialSize
  BY <1>1, BlanksSeq
<1>3. Sized(other)
  BY <1>1, <1>2 DEF Sized
<1>4. Readable(other) = <<>>
  BY <1>1, SubSeqEmpty DEF Readable
<1>5. readableBytes + n \in Nat
  BY ThisSized DEF readableBytes
<1>6. call' = <<"shrink", n>> /\ Become(Appended(e, Contents))
  BY DEF Shrink
<1> HIDE DEF other
<1>7. Sized(e) /\ Readable(e) = <<>>
  BY <1>3, <1>4, <1>5, EnsuredFacts
<1> HIDE DEF e
<1>8. Contents \in Seq(Byte)
  BY ContentsFacts
<1>9. Sized(Appended(e, Contents)) /\ Readable(Appended(e, Contents)) = <<>> \o Contents
  BY <1>7, <1>8, AppendedFacts
<1>10. IInv' /\ Contents' = <<>> \o Contents
  BY <1>6, <1>9, BecomeFacts
<1>11. <<>> \o Contents = Contents
  BY <1>8, ConcatEmptySeq
<1> QED
  BY <1>6, <1>10, <1>11 DEF Queue!Shrink

LEMMA RetrieveStep ==
  ASSUME IInv, NEW n \in Nat, Retrieve(n)
  PROVE  IInv' /\ Queue!Retrieve
<1>1. /\ buffer \in Seq(Byte) /\ Len(buffer) \in Nat /\ kCheapPrepend \in Nat
      /\ readerIndex \in Nat /\ writerIndex \in Nat
      /\ readerIndex <= writerIndex /\ writerIndex <= Len(buffer)
      /\ kCheapPrepend <= Len(buffer)
  BY ThisSized
<1>2. /\ Contents \in Seq(Byte) /\ Len(Contents) = writerIndex - readerIndex
      /\ \A i \in 1 .. writerIndex - readerIndex : Contents[i] = buffer[readerIndex + i]
  BY ContentsFacts
<1>3. /\ n <= writerIndex - readerIndex /\ buffer' = buffer /\ call' = <<"retrieve", n>>
      /\ IF n < writerIndex - readerIndex
         THEN readerIndex' = readerIndex + n /\ writerIndex' = writerIndex
         ELSE readerIndex' = kCheapPrepend /\ writerIndex' = kCheapPrepend
  BY DEF Retrieve, readableBytes
<1> DEFINE rest == SubSeq(Contents, n + 1, Len(Contents))
<1>4. IInv'
  BY <1>1, <1>3 DEF IInv, TypeOK
<1>5. /\ rest \in Seq(Byte) /\ Len(rest) = (writerIndex - readerIndex) - n
      /\ \A i \in 1 .. (writerIndex - readerIndex) - n : rest[i] = Contents[n + i]
  <2>1. Len(Contents) \in Nat /\ n <= Len(Contents)
    BY <1>1, <1>2, <1>3
  <2>2. /\ rest \in Seq(Byte) /\ Len(rest) = Len(Contents) - n
        /\ \A i \in 1 .. Len(Contents) - n : rest[i] = Contents[n + i]
    BY <1>2, <2>1, SubSeqFacts
  <2> QED
    BY <1>2, <2>2
<1> HIDE DEF rest
<1>6. ASSUME n < writerIndex - readerIndex PROVE Contents' = rest
  <2>1. readerIndex + n \in Nat /\ readerIndex + n <= writerIndex
    BY <1>1, <1>6
  <2>2. /\ Contents' \in Seq(Byte) /\ Len(Contents') = writerIndex - (readerIndex + n)
        /\ \A i \in 1 .. writerIndex - (readerIndex + n) :
             Contents'[i] = buffer[(readerIndex + n) + i]
    <3>1. Contents' = SubSeq(buffer, (readerIndex + n) + 1, writerIndex)
      BY <1>3, <1>6 DEF Contents
    <3> QED
      BY <1>1, <2>1, <3>1, SubSeqFacts
  <2>3. writerIndex - (readerIndex + n) = (writerIndex - readerIndex) - n
    BY <1>1
  <2>4. \A i \in 1 .. (writerIndex - readerIndex) - n : Contents'[i] = rest[i]
    <3> SUFFICES ASSUME NEW i \in 1 .. (writerIndex - readerIndex) - n
                 PROVE  Contents'[i] = rest[i]
      OBVIOUS
    <3>1. n + i \in 1 .. writerIndex - readerIndex
      BY <1>1, <1>6
    <3>2. (readerIndex + n) + i = readerIndex + (n + i)
      BY <1>1
    <3>3. rest[i] = buffer[readerIndex + (n + i)]
      BY <1>2, <1>5, <3>1
    <3>4. Contents'[i] = buffer[(readerIndex + n) + i]
      BY <2>2, <2>3
    <3> QED
      BY <3>2, <3>3, <3>4
  <2> QED
    BY <1>5, <2>2, <2>3, <2>4, SeqEqual
<1>7. ASSUME ~(n < writerIndex - readerIndex) PROVE Contents' = rest
  <2>1. Contents' = <<>>
    <3>1. Contents' = SubSeq(buffer, kCheapPrepend + 1, kCheapPrepend)
      BY <1>3, <1>7 DEF Contents
    <3> QED
      BY <1>1, <3>1, SubSeqEmpty
  <2>2. Len(rest) = 0
    BY <1>1, <1>3, <1>5, <1>7
  <2> QED
    BY <1>5, <2>1, <2>2, EmptySeq
<1>8. Contents' = rest
  BY <1>6, <1>7
<1>9. n <= Len(Contents)
  BY <1>2, <1>3
<1> QED
  BY <1>3, <1>4, <1>8, <1>9 DEF Queue!Retrieve, rest

LEMMA UnwriteStep ==
  ASSUME IInv, NEW n \in Nat, Unwrite(n)
  PROVE  IInv' /\ Queue!Unwrite
<1>1. /\ buffer \in Seq(Byte) /\ Len(buffer) \in Nat /\ kCheapPrepend \in Nat
      /\ readerIndex \in Nat /\ writerIndex \in Nat
      /\ readerIndex <= writerIndex /\ writerIndex <= Len(buffer)
      /\ kCheapPrepend <= Len(buffer)
  BY ThisSized
<1>2. /\ Contents \in Seq(Byte) /\ Len(Contents) = writerIndex - readerIndex
      /\ \A i \in 1 .. writerIndex - readerIndex : Contents[i] = buffer[readerIndex + i]
  BY ContentsFacts
<1>3. /\ n <= writerIndex - readerIndex /\ buffer' = buffer /\ call' = <<"unwrite", n>>
      /\ writerIndex' = writerIndex - n /\ readerIndex' = readerIndex
  BY DEF Unwrite, readableBytes
<1> DEFINE rest == SubSeq(Contents, 1, Len(Contents) - n)
           len == (writerIndex - n) - readerIndex
<1>4. IInv'
  BY <1>1, <1>3 DEF IInv, TypeOK
<1>5. len \in Nat /\ writerIndex - n \in Nat /\ Len(Contents) - n = len
  BY <1>1, <1>2, <1>3
<1>6. /\ rest \in Seq(Byte) /\ Len(rest) = len
      /\ \A i \in 1 .. len : rest[i] = Contents[i]
  <2>1. rest = SubSeq(Contents, 0 + 1, len)
    BY <1>5
  <2>2. len <= Len(Contents) /\ 0 <= len /\ len - 0 = len
    BY <1>1, <1>2, <1>3
  <2> HIDE DEF rest, len
  <2>3. /\ rest \in Seq(Byte) /\ Len(rest) = len - 0
        /\ \A i \in 1 .. len - 0 : rest[i] = Contents[0 + i]
    BY <1>2, <1>5, <2>1, <2>2, SubSeqFacts
  <2>4. \A i \in 1 .. len : 0 + i = i
    BY <1>5
  <2> QED
    BY <2>2, <2>3, <2>4
<1>7. /\ Contents' \in Seq(Byte) /\ Len(Contents') = len
      /\ \A i \in 1 .. len : Contents'[i] = buffer[readerIndex + i]
  <2> DEFINE top == writerIndex - n
  <2>1. Contents' = SubSeq(buffer, readerIndex + 1, top)
    BY <1>3 DEF Contents
  <2>2. top \in Nat /\ readerIndex <= top /\ top <= Len(buffer) /\ len = top - readerIndex
    BY <1>1, <1>3, <1>5
  <2> HIDE DEF top, len
  <2> QED
    BY <1>1, <2>1, <2>2, SubSeqFacts
<1>8. \A i \in 1 .. len : i \in 1 .. writerIndex - readerIndex
  <2>1. len <= writerIndex - readerIndex /\ writerIndex - readerIndex \in Nat
    BY <1>1, <1>3
  <2> HIDE DEF len
  <2> QED
    BY <1>5, <2>1
<1> HIDE DEF rest, len
<1>9. Contents' = rest
  BY <1>2, <1>6, <1>7, <1>8, SeqEqual
<1>10. n <= Len(Contents)
  BY <1>2, <1>3
<1> QED
  BY <1>3, <1>4, <1>9, <1>10 DEF Queue!Unwrite, rest

LEMMA PrependStep ==
  ASSUME IInv, NEW d \in Seq(Byte), Prepend(d)
  PROVE  IInv' /\ Queue!Prepend
<1>1. /\ buffer \in Seq(Byte) /\ Len(buffer) \in Nat /\ kCheapPrepend \in Nat
      /\ readerIndex \in Nat /\ writerIndex \in Nat
      /\ readerIndex <= writerIndex /\ writerIndex <= Len(buffer)
      /\ kCheapPrepend <= Len(buffer) /\ Len(d) \in Nat
  BY ThisSized, LenProperties
<1>2. /\ Contents \in Seq(Byte) /\ Len(Contents) = writerIndex - readerIndex
      /\ \A i \in 1 .. writerIndex - readerIndex : Contents[i] = buffer[readerIndex + i]
  BY ContentsFacts
<1> DEFINE r == readerIndex - Len(d)
           len == writerIndex - readerIndex
<1>3. /\ Len(d) <= readerIndex /\ readerIndex' = r /\ writerIndex' = writerIndex
      /\ buffer' = Overwrite(buffer, r, d) /\ call' = <<"prepend", d>>
  BY DEF Prepend, prependableBytes
<1>4. /\ r \in Nat /\ r + Len(d) = readerIndex /\ r <= writerIndex
      /\ len \in Nat /\ writerIndex - r = Len(d) + len
  BY <1>1, <1>3
<1> HIDE DEF r
<1>5. /\ buffer' \in Seq(Byte) /\ Len(buffer') = Len(buffer)
      /\ \A j \in 1 .. Len(buffer) :
           buffer'[j] = IF j \in r + 1 .. readerIndex THEN d[j - r] ELSE buffer[j]
  <2>1. r + Len(d) <= Len(buffer)
    BY <1>1, <1>4
  <2>2. /\ buffer' \in Seq(Byte) /\ Len(buffer') = Len(buffer)
        /\ \A j \in 1 .. Len(buffer) :
             buffer'[j] = IF j \in r + 1 .. r + Len(d) THEN d[j - r] ELSE buffer[j]
    BY <1>1, <1>3, <1>4, <2>1, OverwriteFacts
  <2> QED
    BY <1>4, <2>2
<1>6. IInv'
  BY <1>1, <1>3, <1>4, <1>5 DEF IInv, TypeOK
<1>7. /\ Contents' \in Seq(Byte) /\ Len(Contents') = writerIndex - r
      /\ \A i \in 1 .. writerIndex - r : Contents'[i] = buffer'[r + i]
  <2>1. Contents' = SubSeq(buffer', r + 1, writerIndex)
    BY <1>3 DEF Contents
  <2>2. buffer' \in Seq(Byte) /\ writerIndex <= Len(buffer')
    BY <1>1, <1>5
  <2>3. \A v \in Seq(Byte) : writerIndex <= Len(v) =>
          /\ SubSeq(v, r + 1, writerIndex) \in Seq(Byte)
          /\ Len(SubSeq(v, r + 1, writerIndex)) = writerIndex - r
          /\ \A i \in 1 .. writerIndex - r : SubSeq(v, r + 1, writerIndex)[i] = v[r + i]
    BY <1>1, <1>4, SubSeqFacts
  <2> QED
    BY <2>1, <2>2, <2>3
<1>8. /\ d \o Contents \in Seq(Byte) /\ Len(d \o Contents) = Len(d) + len
      /\ \A i \in 1 .. Len(d) + len :
           (d \o Contents)[i] = IF i <= Len(d) THEN d[i] ELSE Contents[i - Len(d)]
  <2>1. /\ d \o Contents \in Seq(Byte) /\ Len(d \o Contents) = Len(d) + Len(Contents)
        /\ \A i \in 1 .. Len(d) + Len(Contents) :
             (d \o Contents)[i] = IF i <= Len(d) THEN d[i] ELSE Contents[i - Len(d)]
    BY <1>2, ConcatProperties
  <2>2. Len(Contents) = len
    BY <1>2
  <2> QED
    BY <2>1, <2>2
<1>9. \A i \in 1 .. Len(d) + len : Contents'[i] = (d \o Contents)[i]
  <2> SUFFICES ASSUME NEW i \in 1 .. Len(d) + len
               PROVE  buffer'[r + i] = (d \o Contents)[i]
    BY <1>4, <1>7
  <2>1. r + i \in 1 .. Len(buffer) /\ i \in Int
    BY <1>1, <1>4
  <2>2. CASE i <= Len(d)
    <3>1. r + i \in r + 1 .. readerIndex /\ (r + i) - r = i
      BY <1>1, <1>4, <2>1, <2>2
    <3>2. buffer'[r + i] = d[(r + i) - r]
      BY <1>5, <2>1, <3>1
    <3>3. (d \o Contents)[i] = d[i]
      BY <1>8, <2>2
    <3> QED
      BY <3>1, <3>2, <3>3
  <2>3. CASE ~(i <= Len(d))
    <3>1. /\ r + i \notin r + 1 .. readerIndex /\ i - Len(d) \in 1 .. len
          /\ readerIndex + (i - Len(d)) = r + i
      BY <1>1, <1>4, <2>1, <2>3
    <3>2. buffer'[r + i] = buffer[r + i]
      BY <1>5, <2>1, <3>1
    <3>3. (d \o Contents)[i] = Contents[i - Len(d)]
      BY <1>8, <2>3
    <3>4. Contents[i - Len(d)] = buffer[readerIndex + (i - Len(d))]
      BY <1>2, <3>1
    <3> QED
      BY <3>1, <3>2, <3>3, <3>4
  <2> QED
    BY <2>2, <2>3
<1>10. Contents' = d \o Contents
  BY <1>4, <1>7, <1>8, <1>9, SeqEqual
<1> QED
  BY <1>3, <1>6, <1>10 DEF Queue!Prepend

-----------------------------------------------------------------------------
(* The theorems *)

LEMMA BufferStarts == Init => IInv /\ Queue!Init
<1> SUFFICES ASSUME Init PROVE IInv /\ Queue!Init
  OBVIOUS
<1>1. kCheapPrepend \in Nat /\ kInitialSize \in Nat /\ kCheapPrepend + kInitialSize \in Nat
  BY BufferConstants
<1>2. buffer \in Seq(Byte) /\ Len(buffer) = kCheapPrepend + kInitialSize
  BY <1>1, BlanksSeq DEF Init
<1>3. IInv
  BY <1>1, <1>2 DEF Init, IInv, TypeOK
<1>4. Contents = <<>>
  BY <1>1, SubSeqEmpty DEF Init, Contents
<1> QED
  BY <1>3, <1>4 DEF Init, Queue!Init

LEMMA BufferSteps ==
  ASSUME IInv, [Next]_vars
  PROVE  IInv' /\ [Queue!Next]_<<Contents, call>>
<1> USE DEF Queue!Next
<1>1. CASE UNCHANGED vars
  BY <1>1 DEF vars, IInv, TypeOK, Contents
<1>2. CASE \E d \in Data : AppendBytes(d) \/ ReadFd(d) \/ Prepend(d)
  <2>1. PICK d \in Data : AppendBytes(d) \/ ReadFd(d) \/ Prepend(d)
    BY <1>2
  <2>2. d \in Seq(Byte)
    BY BufferConstants, SeqDef DEF Data
  <2> QED
    BY <2>1, <2>2, AppendStep, PrependStep
<1>3. CASE \E n \in 0 .. MaxReadable : Retrieve(n) \/ Unwrite(n)
  <2>1. PICK n \in Nat : Retrieve(n) \/ Unwrite(n)
    BY <1>3, BufferConstants
  <2> QED
    BY <2>1, RetrieveStep, UnwriteStep
<1>4. CASE \E n \in 0 .. MaxCall : Shrink(n)
  <2>1. PICK n \in Nat : Shrink(n)
    BY <1>4, BufferConstants
  <2> QED
    BY <2>1, ShrinkStep
<1> QED
  BY <1>1, <1>2, <1>3, <1>4 DEF Next

\* Buffer implements ByteQueue for any sizes of the vector, of extrabuf and of the
\* calls: append, readFd, prepend, retrieve, unwrite and shrink lose, repeat and
\* reorder no byte.
THEOREM Implements == Spec => ImplementsQueue
<1>1. Init => IInv /\ Queue!Init
  BY BufferStarts
<1>2. IInv /\ [Next]_vars => IInv' /\ [Queue!Next]_<<Contents, call>>
  BY BufferSteps
<1> QED
  BY <1>1, <1>2, PTL DEF Spec, ImplementsQueue, Queue!Spec

\* ensureWritableBytes leaves room for what is written next, keeps the readable
\* bytes, and moves them only towards the front (the assertions of makeSpace).
THEOREM RoomIsMade == Spec => []BufferSound
<1>1. Init => IInv
  BY BufferStarts
<1>2. IInv /\ [Next]_vars => IInv'
  BY BufferSteps
<1>3. IInv => BufferSound
  <2> SUFFICES ASSUME IInv, NEW len \in 0 .. MaxCall
               PROVE  LET e == Ensured(This, len) IN
                      /\ writableBytes < len /\ MovesFront(This, len)
                           => kCheapPrepend < readerIndex
                      /\ Len(e.v) - e.w >= len
                      /\ SubSeq(e.v, e.r + 1, e.w) = Contents
    BY DEF BufferSound, SpaceIsMade, IInv
  <2>1. len \in Nat
    BY BufferConstants
  <2>2. Sized(This) /\ Readable(This) = Contents
    BY ThisSized
  <2>3. Len(This.v) - This.w = writableBytes /\ This.r = readerIndex
    BY DEF This, writableBytes
  <2> QED
    BY <2>1, <2>2, <2>3, EnsuredFacts DEF Readable
<1> QED
  BY <1>1, <1>2, <1>3, PTL DEF Spec
=============================================================================

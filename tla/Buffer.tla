------------------------------- MODULE Buffer -------------------------------
(***************************************************************************)
(* Buffer: a vector of bytes with a reader and a writer index.  Space is    *)
(* made by moving the readable bytes to the front when that is enough, and  *)
(* by growing the vector otherwise.  readFd reads into the writable bytes   *)
(* and, when they are not enough, into a second buffer that is appended.    *)
(***************************************************************************)
EXTENDS Integers, Sequences

CONSTANTS
  Byte,           \* the bytes
  kCheapPrepend,
  kInitialSize,
  ExtraSize,      \* size of extrabuf in readFd
  MaxCall,        \* bound: bytes in one call
  MaxReadable     \* bound: readable bytes

ASSUME BufferConstants ==
  /\ {kCheapPrepend, kInitialSize, ExtraSize, MaxCall, MaxReadable} \subseteq Nat
  /\ Byte # {}

VARIABLES
  buffer,       \* buffer_; index i of the code is i + 1 here
  readerIndex,
  writerIndex,
  call          \* the last call

vars == <<buffer, readerIndex, writerIndex, call>>

readableBytes == writerIndex - readerIndex
writableBytes == Len(buffer) - writerIndex
prependableBytes == readerIndex

\* The readable bytes.
Contents == SubSeq(buffer, readerIndex + 1, writerIndex)

\* Any value of a byte nobody wrote.
Blank == CHOOSE b \in Byte : TRUE
Blanks(n) == [i \in 1 .. n |-> Blank]

\* The bytes s written into the vector v from index i on.
Overwrite(v, i, s) ==
  [j \in 1 .. Len(v) |-> IF j \in i + 1 .. i + Len(s) THEN s[j - i] ELSE v[j]]

Init ==
  /\ buffer = Blanks(kCheapPrepend + kInitialSize)
  /\ readerIndex = kCheapPrepend /\ writerIndex = kCheapPrepend
  /\ call = <<"new", 0>>

\* Mutant of MovesFront: the room kept for prepend is counted as well.
MovesFrontAll(b, len) == Len(b.v) - b.w + b.r >= len

\* The space in front and behind is enough, without the room kept for prepend.
MovesFront(b, len) == Len(b.v) - b.w + b.r >= len + kCheapPrepend

\* makeSpace, on a vector b.v with its indices b.r and b.w: moves the readable bytes
\* to the front, or else resizes.
MakeSpace(b, len) ==
  IF MovesFront(b, len)
  THEN [v |-> Overwrite(b.v, kCheapPrepend, SubSeq(b.v, b.r + 1, b.w)),
        r |-> kCheapPrepend, w |-> kCheapPrepend + (b.w - b.r)]
  ELSE [v |-> b.v \o Blanks(b.w + len - Len(b.v)), r |-> b.r, w |-> b.w]

\* ensureWritableBytes
Ensured(b, len) == IF Len(b.v) - b.w < len THEN MakeSpace(b, len) ELSE b

\* The bytes copied behind the readable ones, and the writer index moved.
Written(b, data) == [v |-> Overwrite(b.v, b.w, data), r |-> b.r, w |-> b.w + Len(data)]

\* append makes space first.
Appended(b, data) == Written(Ensured(b, Len(data)), data)

This == [v |-> buffer, r |-> readerIndex, w |-> writerIndex]

Become(b) == buffer' = b.v /\ readerIndex' = b.r /\ writerIndex' = b.w

AppendBytes(data) ==
  /\ Become(Appended(This, data))
  /\ call' = <<"append", data>>

\* Mutant of Filled: the rest is appended at the old writer index.
FilledAgain(b, data) ==
  LET room == Len(b.v) - b.w IN
  IF Len(data) <= room
  THEN Written(b, data)
  ELSE Appended([Written(b, SubSeq(data, 1, room)) EXCEPT !.w = b.w],
                SubSeq(data, room + 1, Len(data)))

\* readFd: what does not fit into the writable bytes was read into extrabuf and
\* is appended to the vector that is now full.
Filled(b, data) ==
  LET room == Len(b.v) - b.w IN
  IF Len(data) <= room
  THEN Written(b, data)
  ELSE Appended(Written(b, SubSeq(data, 1, room)), SubSeq(data, room + 1, Len(data)))

\* readv reads at most what the vectors it is given can hold; extrabuf is one of
\* them only when it is larger than the writable bytes.
ReadFd(data) ==
  /\ Len(data) <= writableBytes + (IF writableBytes < ExtraSize THEN ExtraSize ELSE 0)
  /\ Become(Filled(This, data))
  /\ call' = <<"append", data>>

\* retrieve, retrieveAll
Retrieve(n) ==
  /\ n <= readableBytes
  /\ IF n < readableBytes THEN readerIndex' = readerIndex + n /\ UNCHANGED writerIndex
     ELSE readerIndex' = kCheapPrepend /\ writerIndex' = kCheapPrepend
  /\ UNCHANGED buffer /\ call' = <<"retrieve", n>>

Unwrite(n) ==
  /\ n <= readableBytes
  /\ writerIndex' = writerIndex - n
  /\ UNCHANGED <<buffer, readerIndex>> /\ call' = <<"unwrite", n>>

Prepend(data) ==
  /\ Len(data) <= prependableBytes
  /\ readerIndex' = readerIndex - Len(data)
  /\ buffer' = Overwrite(buffer, readerIndex', data)
  /\ UNCHANGED writerIndex /\ call' = <<"prepend", data>>

\* shrink: a new Buffer with room for the readable bytes and reserve more.
Shrink(reserve) ==
  LET other == [v |-> Blanks(kCheapPrepend + kInitialSize), r |-> kCheapPrepend, w |-> kCheapPrepend]
  IN
  /\ Become(Appended(Ensured(other, readableBytes + reserve), Contents))
  /\ call' = <<"shrink", reserve>>

Data == UNION {[1 .. n -> Byte] : n \in 0 .. MaxCall}

Next ==
  \/ \E d \in Data : /\ readableBytes + Len(d) <= MaxReadable
                     /\ AppendBytes(d) \/ ReadFd(d) \/ Prepend(d)
  \/ \E n \in 0 .. MaxReadable : Retrieve(n) \/ Unwrite(n)
  \/ \E n \in 0 .. MaxCall : Shrink(n)

Spec == Init /\ [][Next]_vars

-----------------------------------------------------------------------------
(* Properties *)

TypeOK ==
  /\ buffer \in Seq(Byte)
  /\ readerIndex \in 0 .. writerIndex /\ writerIndex \in 0 .. Len(buffer)

\* The assertion of makeSpace, that the reader index is behind the place the
\* bytes are moved to, and of ensureWritableBytes, that there is room afterwards,
\* hold for the next call whatever its length.
SpaceIsMade ==
  \A len \in 0 .. MaxCall :
    LET e == Ensured(This, len) IN
    /\ writableBytes < len /\ MovesFront(This, len) => kCheapPrepend < readerIndex
    /\ Len(e.v) - e.w >= len
    /\ SubSeq(e.v, e.r + 1, e.w) = Contents

\* The indices stay in order and makeSpace always makes room, in both of its ways.
BufferSound == TypeOK /\ SpaceIsMade

Queue == INSTANCE ByteQueue WITH bytes <- Contents

\* Buffer implements the queue of bytes: no call loses, repeats or reorders a
\* byte, however the indices and the vector change.
ImplementsQueue == Queue!Spec
=============================================================================

------------------------------- MODULE Codec --------------------------------
(***************************************************************************)
(* ProtobufCodec and ProtobufDispatcher: messages are framed by             *)
(* fillEmptyBuffer, travel as a stream of bytes that arrives in chunks of   *)
(* any size, and are cut out again by onMessage, which hands them to the    *)
(* callback registered for their type.  A frame that cannot be understood   *)
(* makes onMessage report an error, which shuts the connection down.        *)
(*                                                                         *)
(* A byte is a number below Base, and an int32 is kHeaderLen = 2 of them,   *)
(* the upper half of the numbers being negative.                            *)
(***************************************************************************)
EXTENDS Integers, Sequences, SequencesExt

CONSTANTS
  Base,            \* number of values of a byte
  kMaxMessageLen,
  Known,           \* types the generated pool knows
  Registered,      \* types with a callback in the dispatcher
  BadByte,         \* a byte that no serialized message contains
  Messages,        \* bound: the messages sent
  MaxFrames        \* bound: frames sent on the connection

kHeaderLen == 2
kMinMessageLen == 2 * kHeaderLen + 2

VARIABLES
  frames,      \* what the peer sends: bytes, and what onMessage should make of them
  net,         \* bytes on their way
  buf,         \* the readable bytes of the connection's input buffer
  pc,          \* "idle", or "loop" inside onMessage
  state,       \* state of the connection, kConnected or kDisconnecting
  delivered,   \* <<callback, message>> called so far
  errors       \* error codes reported so far

vars == <<frames, net, buf, pc, state, delivered, errors>>

-----------------------------------------------------------------------------
(* Conversions *)

htobe32(n) == LET u == n % (Base * Base) IN <<u \div Base, u % Base>>

asInt32(s) ==
  LET u == s[1] * Base + s[2] IN IF u < (Base * Base) \div 2 THEN u ELSE u - Base * Base

\* External (zlib): two running sums, the second of the first.
adler32(s) ==
  LET step(ab, x) == LET a == (ab[2] + x) % Base IN <<(ab[1] + a) % Base, a>>
  IN asInt32(FoldLeft(step, <<0, 1>>, s))

\* nameLen, the name with its final 0, and the serialized message.
Body(m) == htobe32(2) \o <<m.type, 0>> \o m.data

\* The length and the checksum around a body.
Framed(body) == htobe32(Len(body) + kHeaderLen) \o body \o htobe32(adler32(body))

fillEmptyBuffer(m) == Framed(Body(m))

\* External (protobuf).
ParseFromArray(data) == \A i \in DOMAIN data : data[i] # BadByte

SumsAgree(s) ==
  LET body == Len(s) - kHeaderLen
  IN adler32(SubSeq(s, 1, body)) = asInt32(SubSeq(s, body + 1, Len(s)))

\* Mutant of NameFits: the checksum is taken for a part of the name.
NameFitsLong(nameLen, len) == nameLen >= 2 /\ nameLen <= len - kHeaderLen

NameFits(nameLen, len) == nameLen >= 2 /\ nameLen <= len - 2 * kHeaderLen

\* Every name of the pool is one byte here.
createMessage(name) == name \in {<<t>> : t \in Known}

\* parse: the checks in their order, each with its error code.
parse(s) ==
  LET nameLen == asInt32(s)
      name == SubSeq(s, kHeaderLen + 1, kHeaderLen + nameLen - 1)
      data == SubSeq(s, kHeaderLen + nameLen + 1, Len(s) - kHeaderLen) IN
  IF ~ SumsAgree(s) THEN [error |-> "kCheckSumError"]
  ELSE IF ~ NameFits(nameLen, Len(s)) THEN [error |-> "kInvalidNameLen"]
  ELSE IF ~ createMessage(name) THEN [error |-> "kUnknownMessageType"]
  ELSE IF ~ ParseFromArray(data) THEN [error |-> "kParseError"]
  ELSE [error |-> "kNoError", type |-> name[1], data |-> data]

-----------------------------------------------------------------------------
(* The peer *)

\* A message framed by the peer's codec, which knows of no longest message and
\* of no type unknown here, and what this side should make of it.
Sent(m) ==
  [bytes |-> fillEmptyBuffer(m), msg |-> m,
   error |-> CASE Len(Body(m)) + kHeaderLen > kMaxMessageLen -> "kInvalidLength"
               [] m.type \notin Known -> "kUnknownMessageType"
               [] ~ ParseFromArray(m.data) -> "kParseError"
               [] OTHER -> "kNoError"]

\* Frames damaged in their length, their checksum or their nameLen.
Damaged(m) ==
  LET f == fillEmptyBuffer(m)  b == Body(m)  n == Len(b) + kHeaderLen IN
  {[bytes |-> htobe32(k) \o SubSeq(f, 3, Len(f)), msg |-> m, error |-> "kInvalidLength"] :
     k \in {-1, kMinMessageLen - 1, kMaxMessageLen + 1}}
  \cup {[bytes |-> [f EXCEPT ![Len(f)] = (@ + 1) % Base], msg |-> m, error |-> "kCheckSumError"]}
  \cup {[bytes |-> Framed(htobe32(k) \o SubSeq(b, 3, Len(b))), msg |-> m, error |-> "kInvalidNameLen"] :
          k \in {-1, 1, n - 2 * kHeaderLen + 1}}

Frames ==
  LET ok == {m \in Messages : Sent(m).error = "kNoError"}
  IN {Sent(m) : m \in Messages} \cup UNION {Damaged(m) : m \in ok}

Init ==
  /\ frames \in UNION {[1 .. n -> Frames] : n \in 0 .. MaxFrames}
  /\ net = FlattenSeq([i \in DOMAIN frames |-> frames[i].bytes])
  /\ buf = <<>> /\ pc = "idle" /\ state = "kConnected"
  /\ delivered = <<>> /\ errors = <<>>

-----------------------------------------------------------------------------
(* The receiver *)

\* TcpConnection::handleRead has read a chunk and calls onMessage.
handleRead(n) ==
  /\ pc = "idle" /\ n <= Len(net)
  /\ buf' = buf \o SubSeq(net, 1, n) /\ net' = SubSeq(net, n + 1, Len(net))
  /\ pc' = "loop"
  /\ UNCHANGED <<frames, state, delivered, errors>>

\* Mutant of MayLoop: one byte too many is asked for.
MayLoopMore == Len(buf) > kMinMessageLen + kHeaderLen

MayLoop == Len(buf) >= kMinMessageLen + kHeaderLen

len == asInt32(buf)

InvalidLength == len > kMaxMessageLen \/ len < kMinMessageLen

Complete == Len(buf) >= len + kHeaderLen

parsed == parse(SubSeq(buf, kHeaderLen + 1, kHeaderLen + len))

\* The loop ends: too few bytes for the smallest frame, or for this one.
onMessageReturn ==
  /\ pc = "loop"
  /\ MayLoop => ~ InvalidLength /\ ~ Complete
  /\ pc' = "idle" /\ UNCHANGED <<frames, net, buf, state, delivered, errors>>

\* defaultErrorCallback: shuts the connection down if it is connected.
defaultErrorCallback(code) ==
  errors' = Append(errors, code) /\ state' = "kDisconnecting"

\* An error ends the loop and leaves the frame in the buffer.
onMessageError ==
  /\ pc = "loop" /\ MayLoop
  /\ \/ InvalidLength /\ defaultErrorCallback("kInvalidLength")
     \/ /\ ~ InvalidLength /\ Complete /\ parsed.error # "kNoError"
        /\ defaultErrorCallback(parsed.error)
  /\ pc' = "idle" /\ UNCHANGED <<frames, net, buf, delivered>>

\* ProtobufDispatcher::onProtobufMessage: the callback of the type, or the
\* default one, which is Server::onUnknownMessage.
Callback(type) == IF type \in Registered THEN type ELSE "onUnknownMessage"

\* A frame is understood: its message is dispatched, then it is retrieved.
onMessageParsed ==
  /\ pc = "loop" /\ MayLoop /\ ~ InvalidLength /\ Complete /\ parsed.error = "kNoError"
  /\ delivered' = Append(delivered, <<Callback(parsed.type), [type |-> parsed.type, data |-> parsed.data]>>)
  /\ buf' = SubSeq(buf, kHeaderLen + len + 1, Len(buf))
  /\ UNCHANGED <<frames, net, pc, state, errors>>

Next ==
  \/ \E n \in 1 .. Len(net) : handleRead(n)
  \/ onMessageReturn \/ onMessageError \/ onMessageParsed

Spec == Init /\ [][Next]_vars

-----------------------------------------------------------------------------
(* Properties *)

TypeOK ==
  /\ Len(frames) <= MaxFrames
  /\ net \in Seq(0 .. Base - 1) /\ buf \in Seq(0 .. Base - 1)
  /\ pc \in {"idle", "loop"} /\ state \in {"kConnected", "kDisconnecting"}
  /\ \A i \in DOMAIN delivered : delivered[i][2].type \in Known
  /\ \A i \in DOMAIN errors : errors[i] \in
       {"kInvalidLength", "kCheckSumError", "kInvalidNameLen", "kUnknownMessageType", "kParseError"}

\* Number of frames before the first one that is not to be understood.
GoodFrames ==
  LET bad == {i \in DOMAIN frames : frames[i].error # "kNoError"}
  IN IF bad = {} THEN Len(frames) ELSE Min(bad) - 1

\* However the stream is cut into chunks, onMessage delivers the messages that
\* were sent, in order and to their callbacks, and none from the first frame on
\* that it should refuse.
OnlySent ==
  /\ Len(delivered) <= GoodFrames
  /\ \A i \in DOMAIN delivered :
       delivered[i] = <<Callback(frames[i].msg.type), frames[i].msg>>

\* When all bytes have arrived and onMessage has returned, every good message
\* before the first bad frame has been delivered, and the connection has been
\* shut down if and only if there is a bad frame: no boundary of a chunk leaves a
\* message in the buffer that only further bytes would free.
NothingStuck ==
  pc = "idle" /\ net = <<>> =>
    /\ Len(delivered) = GoodFrames
    /\ state = "kDisconnecting" <=> GoodFrames < Len(frames)

\* The error that is reported is the one of the first bad frame, on that and on
\* every later call: the frame stays in the buffer and is never skipped.
ReportsFirstBad ==
  \A i \in DOMAIN errors :
    GoodFrames < Len(frames) /\ errors[i] = frames[GoodFrames + 1].error
=============================================================================

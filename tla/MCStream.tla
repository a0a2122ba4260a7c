------------------------------ MODULE MCStream ------------------------------
(***************************************************************************)
(* The way of a message between its object and the socket or Redis, for     *)
(* TLC: Buffer, Codec, CacheConn and Messages side by side.  Codec uses a   *)
(* Buffer only as the queue of bytes that Buffer is shown to be; Codec and  *)
(* CacheConn use a message object only through what Messages is shown to    *)
(* do: sizes, bytes, and the object back.                                   *)
(***************************************************************************)
EXTENDS Buffer, MessageClass

CONSTANTS
  Base, kMaxMessageLen, Known, Registered, BadByte, MaxFrames,
  Classes, MaxOps, MaxItems, MaxUnknown,
  CacheConns, MaxCommands, NULL

VARIABLES
  part,
  frames, net, buf, pc, state, delivered, errors,
  class, focus, ops, a, b,
  m_pContext, misused, value, locked, list, commands, ret, may, owners

\* The smallest message there is, one with data, one for the default callback,
\* the longest one allowed, one too long, an unknown type and unparsable data.
MCMessages ==
  {[type |-> 1, data |-> <<>>], [type |-> 1, data |-> <<6>>], [type |-> 2, data |-> <<>>],
   [type |-> 1, data |-> <<0, 1>>], [type |-> 1, data |-> <<1, 1, 1>>],
   [type |-> 3, data |-> <<>>], [type |-> 1, data |-> <<7>>]}

ASSUME CodecConstants ==
  /\ Registered \subseteq Known /\ Known \subseteq 1 .. Base - 1
  /\ kMaxMessageLen + 1 < (Base * Base) \div 2
  /\ \A m \in MCMessages : m.type \in 1 .. Base - 1 /\ m.data \in Seq(0 .. Base - 1)

Codec == INSTANCE Codec WITH Messages <- MCMessages

Objects == INSTANCE Messages

\* The empty message, and messages with no special byte, a 0 and a '~'.
CacheMessages == {<<>>, <<"x">>, <<"0", "x">>, <<"~">>}

Cache == INSTANCE CacheConn WITH
  Conns <- CacheConns, Messages <- CacheMessages, MaxCalls <- MaxCommands, calls <- commands

codecVars == <<frames, net, buf, pc, state, delivered, errors>>
objectVars == <<class, focus, ops, a, b>>
cacheVars == <<m_pContext, misused, value, locked, list, commands, ret, may, owners>>

MCInit ==
  /\ part \in {"buffer", "codec", "objects", "redis"}
  /\ Init /\ Cache!Init /\ Codec!Init /\ (part # "codec" => frames = <<>>)
  /\ \/ part = "objects" /\ Objects!Init
     \/ part # "objects" /\ class = 0 /\ focus = 0 /\ ops = 0 /\ a = 0 /\ b = 0

MCNext ==
  /\ \/ part = "buffer" /\ Next /\ UNCHANGED <<codecVars, objectVars, cacheVars>>
     \/ part = "codec" /\ Codec!Next /\ UNCHANGED <<vars, objectVars, cacheVars>>
     \/ part = "objects" /\ Objects!Next /\ UNCHANGED <<vars, codecVars, cacheVars>>
     \/ part = "redis" /\ Cache!Next /\ UNCHANGED <<vars, codecVars, objectVars>>
  /\ UNCHANGED part

MCSpec == MCInit /\ [][MCNext]_<<part, vars, codecVars, objectVars, cacheVars>>

\* ProtobufCodec::onMessage delivers the messages that were sent, in order and to
\* their callbacks, none from the first frame on that it should refuse, and
\* reports the error of that frame.
OnlySent == Codec!TypeOK /\ Codec!OnlySent /\ Codec!ReportsFirstBad

\* When all bytes have arrived, onMessage has delivered every message before the
\* first bad frame.
NothingStuck == Codec!NothingStuck

\* The getter of a field that is not set returns its default: Clear, Swap, MergeFrom
\* and failed parses keep the bits and the members of an object in step.
UnsetIsDefault == part = "objects" => Objects!UnsetIsDefault

\* Every parser makes of a serialized message what was serialized, whatever the
\* object held that it is parsed into.
RoundTrip == part = "objects" => Objects!RoundTrip

\* ByteSizeLong is the number of bytes the writers write.
SizeExact == part = "objects" => Objects!SizeExact

\* The parsers, MergeFrom, CopyFrom and the copy constructor agree on what they
\* overwrite, append and set.
CopiesAgree == part = "objects" => Objects!CopiesAgree

\* However Redis commands fail, getpb returns what setpb stored, setnx gives the
\* lock to one caller at a time, lpush tells the truth, and no freed context is used.
CacheAnswers ==
  /\ Cache!TypeOK /\ Cache!GetsWhatWasSet /\ Cache!OneOwner /\ Cache!PushedIsListed
  /\ Cache!ContextAlive
=============================================================================

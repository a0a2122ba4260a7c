------------------------------ MODULE Messages ------------------------------
(***************************************************************************)
(* The message objects of IM.proto: what the functions protoc generated do  *)
(* to an object, given the tables of IMRequests and IMServerMessages, and   *)
(* what is done with two objects of one class, the way the server fills a   *)
(* message, stores or sends it, copies it and reads it into an object.      *)
(*                                                                          *)
(* An object has the bits of _has_bits_ that are set, a value for each      *)
(* member and its unknown fields.  A string is its length, a nested message *)
(* that was never allocated is the default instance its getter returns.     *)
(* A serialized message is the sequence of its fields: tag, value (for a    *)
(* nested message its length) and, for a nested message, its own fields.    *)
(***************************************************************************)
EXTENDS Integers, SequencesExt, FiniteSetsExt

CONSTANTS
  Classes,      \* the classes, a record of tables each
  MaxOps,       \* bound: operations on the two objects
  MaxItems,     \* bound: elements of a repeated field
  MaxUnknown    \* bound: unknown fields of both objects

VARIABLES
  class,    \* the class of both objects
  focus,    \* bound: the position of the first of the two members the setters are called for
  ops,      \* bound: the number of operations so far
  a, b      \* the objects

vars == <<class, focus, ops, a, b>>

\* The if around a statement; {} stands for no if.
Holds(has, mask) == mask = {} \/ has \cap mask # {}

HasField(c, o, f) == c.accessors[f] \in o.has

-----------------------------------------------------------------------------
(* Clear, MergeFrom, CopyFrom, the copy constructor and Swap *)

RECURSIVE Clear(_, _)
Clear(c, o) ==
  LET reset == UNION {r[3] : r \in {r \in c.Clear : Holds(o.has, r[1]) /\ Holds(o.has, r[2])}}
      Cleared(f) ==
        CASE c.kind[f] = "repeated" -> <<>>
          [] c.kind[f] = "message" -> Clear(c.nested[f], o.val[f])
          [] OTHER -> 0
  IN  [has |-> {}, unknown |-> <<>>,
       val |-> [f \in c.fields |-> IF f \in reset THEN Cleared(f) ELSE o.val[f]]]

RECURSIVE MergeFrom(_, _, _)
MergeFrom(c, to, from) ==
  LET merge == c.MergeFrom
      rows == {r \in merge.rows : Holds(from.has, r[1]) /\ Holds(from.has, r[2])}
      Merged(f) ==
        CASE c.kind[f] = "repeated" -> to.val[f] \o from.val[f]
          [] c.kind[f] = "message" -> MergeFrom(c.nested[f], to.val[f], from.val[f])
          [] OTHER -> from.val[f]
  IN  [has |-> to.has \cup UNION {r[3] : r \in rows}
                 \cup UNION {from.has : m \in {m \in merge.or : Holds(from.has, m)}},
       unknown |-> to.unknown \o from.unknown,
       val |-> [f \in c.fields |-> IF \E r \in rows : r[4] = f THEN Merged(f) ELSE to.val[f]]]

CopyFrom(c, to, from) == MergeFrom(c, Clear(c, to), from)

\* The copy constructor.
RECURSIVE Copied(_, _)
Copied(c, from) ==
  LET copy == c.copy
      Value(f) ==
        CASE f \in copy.lists \cup copy.memcpy -> from.val[f]
          [] f \in copy.has /\ ~HasField(c, from, f) -> c.new.val[f]
          [] f \in copy.has /\ c.kind[f] = "message" -> Copied(c.nested[f], from.val[f])
          [] f \in copy.has -> from.val[f]
          [] OTHER -> c.uninitialized
  IN  [from EXCEPT !.val = [f \in c.fields |-> Value(f)]]

\* The object with the members of another that InternalSwap exchanges.
Swapped(c, o, other) ==
  [other EXCEPT !.val = [f \in c.fields |-> IF f \in c.Swap THEN other.val[f] ELSE o.val[f]]]

-----------------------------------------------------------------------------
(* Accessors *)

\* set_f, and mutable_f with an assignment to what it returns.
SetField(c, o, f, v) ==
  [o EXCEPT !.has = @ \cup {c.accessors[f]}, !.val[f] = v]

ClearField(c, o, f) ==
  [o EXCEPT !.has = @ \ {c.accessors[f]}, !.val[f] = c.new.val[f]]

AddItem(o, f, v) == [o EXCEPT !.val[f] = Append(@, v)]

-----------------------------------------------------------------------------
(* Sizes and serialization *)

\* The wire format, of the protobuf library: bytes of a varint, and wire types.
VarintSize(n) == IF n < 0 THEN 10 ELSE IF n < 128 THEN 1 ELSE IF n < 16384 THEN 2 ELSE 3

WireType(kind) ==
  CASE kind \in {"string", "message"} -> 2 [] kind = "double" -> 1 [] OTHER -> 0

RECURSIVE Bytes(_)
Bytes(fields) ==
  LET Of(x) ==
        VarintSize(x.tag) +
        (CASE x.tag % 8 = 0 -> VarintSize(x.val)
           [] x.tag % 8 = 1 -> 8
           [] OTHER -> VarintSize(x.val) + (IF x.body = <<>> THEN x.val ELSE Bytes(x.body)))
      total[i \in 0..Len(fields)] == IF i = 0 THEN 0 ELSE total[i - 1] + Of(fields[i])
  IN  total[Len(fields)]

RECURSIVE ByteSizeLong(_, _)
ByteSizeLong(c, o) ==
  LET Size(kind, f, v) ==
        CASE kind = "fixed8" -> 8
          [] kind = "fixed1" -> 1
          [] kind = "string" -> VarintSize(v) + v
          [] kind = "message" -> LET n == ByteSizeLong(c.nested[f], v) IN VarintSize(n) + n
          [] OTHER -> VarintSize(v)
      \* A repeated field is counted once for each element.
      Items(r) == IF c.kind[r[5]] = "repeated" THEN o.val[r[5]] ELSE <<o.val[r[5]]>>
      Of(r) ==
        LET items == IF Holds(o.has, r[1]) /\ Holds(o.has, r[2]) THEN Items(r) ELSE <<>>
            sum[i \in 0..Len(items)] ==
              IF i = 0 THEN 0 ELSE sum[i - 1] + r[3] + Size(r[4], r[5], items[i])
        IN  sum[Len(items)]
      rows == c.ByteSizeLong
      total[i \in 0..Len(rows)] ==
        IF i = 0 THEN Bytes(o.unknown) ELSE total[i - 1] + Of(rows[i])
  IN  total[Len(rows)]

\* SerializeWithCachedSizes and InternalSerializeWithCachedSizesToArray; a nested
\* message is preceded by the size that ByteSizeLong has just cached in it.
RECURSIVE Serialize(_, _, _)
Serialize(c, writer, o) ==
  LET Field(r, v) ==
        [tag |-> 8 * r[2] + WireType(r[3]),
         val |-> IF r[3] = "message" THEN ByteSizeLong(c.nested[r[4]], v) ELSE v,
         body |-> IF r[3] = "message" THEN Serialize(c.nested[r[4]], writer, v) ELSE <<>>]
      Of(r) ==
        CASE c.kind[r[4]] = "repeated" ->
               [i \in DOMAIN o.val[r[4]] |-> Field(r, o.val[r[4]][i])]
          [] c.kind[r[4]] # "repeated" /\ Holds(o.has, r[1]) -> <<Field(r, o.val[r[4]])>>
          [] OTHER -> <<>>
      rows == c[writer]
      written[i \in 0..Len(rows)] == IF i = 0 THEN <<>> ELSE written[i - 1] \o Of(rows[i])
  IN  written[Len(rows)] \o o.unknown

-----------------------------------------------------------------------------
(* Parsing *)

\* The case of the switch that takes the field, or {}.
Cases(c, parser, x) == {r \in c[parser] : r[1] = x.tag \div 8 /\ r[2] = x.tag % 256}

\* A string or message sets its bit by mutable_, a number by HasBitSetters.
Bit(c, f) ==
  IF c.kind[f] \in {"string", "message"} THEN c.accessors[f] ELSE c.HasBitSetters[f]

\* _InternalParse and MergePartialFromCodedStream: fields of another number or
\* another wire type become unknown fields.
RECURSIVE Merge(_, _, _, _)
Merge(c, parser, o, fields) ==
  LET Take(r, x, m) ==
        LET f == r[4] IN
        CASE r[3] = "repeated" ->
               AddItem(m, f, Merge(c.nested[f], parser, c.nested[f].new, x.body))
          [] r[3] = "message" ->
               [m EXCEPT !.has = @ \cup {Bit(c, f)},
                         !.val[f] = Merge(c.nested[f], parser, @, x.body)]
          [] OTHER -> [m EXCEPT !.has = @ \cup {Bit(c, f)}, !.val[f] = x.val]
      Step(m, x) ==
        LET rows == Cases(c, parser, x) IN
        IF rows = {} THEN [m EXCEPT !.unknown = Append(@, x)]
        ELSE Take(CHOOSE r \in rows : TRUE, x, m)
      merged[i \in 0..Len(fields)] ==
        IF i = 0 THEN o ELSE Step(merged[i - 1], fields[i])
  IN  merged[Len(fields)]

\* ParseFromString and ParseFromArray of the library.
Parse(c, parser, o, fields) == Merge(c, parser, Clear(c, o), fields)

\* A parse that fails inside the last field: the bit of a number is set before
\* it is read, a string or message is made by mutable_, an element is added.
ParseCut(c, parser, o, fields, junk) ==
  LET m == Parse(c, parser, o, Front(fields))
      x == Last(fields)
  IN  IF Cases(c, parser, x) = {} THEN m
      ELSE LET f == (CHOOSE r \in Cases(c, parser, x) : TRUE)[4] IN
           CASE c.kind[f] = "repeated" -> AddItem(m, f, c.nested[f].new)
             [] c.kind[f] = "message" -> [m EXCEPT !.has = @ \cup {Bit(c, f)}]
             [] OTHER -> [m EXCEPT !.has = @ \cup {Bit(c, f)}, !.val[f] = junk]

-----------------------------------------------------------------------------
(* What is done with two objects *)

Parsers == {"InternalParse", "MergePartial"}
Writers == {"Serialize", "ToArray"}

\* Values with different sizes: an empty and a long string, a number of one
\* byte, of two and of ten.
Sizes(kind) ==
  CASE kind = "string" -> {0, 130} [] kind = "int64" -> {0, 300} [] kind = "int32" -> {0, -1}
    [] OTHER -> {0, 1}

Other(kind) == CHOOSE v \in Sizes(kind) : v # 0

\* A flat message with all fields set, and one with its first field set to zero.
Full(c) ==
  [c.new EXCEPT !.has = {c.accessors[f] : f \in c.fields},
                 !.val = [f \in c.fields |-> Other(c.kind[f])]]

Values(c, f) ==
  IF c.kind[f] \in {"message", "repeated"}
  THEN LET n == c.nested[f] IN {n.new, Full(n), SetField(n, n.new, n.layout[1], 0)}
  ELSE Sizes(c.kind[f])

InFocus == {class.layout[i] : i \in focus..focus + 1}
Scalars(c) == {f \in c.fields : c.kind[f] \notin {"message", "repeated"}}

Init ==
  /\ class \in Classes
  /\ focus \in 1..Len(class.layout) - 1
  /\ ops = 0
  /\ a = class.new /\ b = class.new

Operation == ops < MaxOps /\ ops' = ops + 1 /\ UNCHANGED <<class, focus>>

SetA ==
  /\ Operation
  /\ \E f \in InFocus : \E v \in Values(class, f) :
       IF class.kind[f] = "repeated"
       THEN Len(a.val[f]) < MaxItems /\ a' = AddItem(a, f, v)
       ELSE a' = SetField(class, a, f, v)
  /\ UNCHANGED b

\* A handler sets all the other plain fields, one after the other.
FillA ==
  LET rest == Scalars(class) \ InFocus IN
  /\ Operation
  /\ a' = [a EXCEPT !.has = @ \cup {class.accessors[f] : f \in rest},
                    !.val = [f \in class.fields |->
                               IF f \in rest THEN Other(class.kind[f]) ELSE @[f]]]
  /\ UNCHANGED b

ClearFieldA ==
  /\ Operation
  /\ \E f \in InFocus :
       a' = IF class.kind[f] = "repeated" THEN [a EXCEPT !.val[f] = <<>>]
            ELSE ClearField(class, a, f)
  /\ UNCHANGED b

ClearA == Operation /\ a' = Clear(class, a) /\ UNCHANGED b

\* The sum of the sizes is bounded.
Mergeable ==
  /\ Len(a.unknown) + Len(b.unknown) <= MaxUnknown
  /\ \A f \in class.fields :
       class.kind[f] = "repeated" => Len(a.val[f]) + Len(b.val[f]) <= MaxItems

MergeA == Operation /\ Mergeable /\ a' = MergeFrom(class, a, b) /\ UNCHANGED b

\* operator= of a const reference, and a new object made from the old one.
CopyB == Operation /\ b' = CopyFrom(class, b, a) /\ UNCHANGED a
NewB == Operation /\ b' = Copied(class, a) /\ UNCHANGED a

\* Swap, and operator= of an rvalue reference.
SwapAB == Operation /\ a' = Swapped(class, a, b) /\ b' = Swapped(class, b, a)

\* What a peer with another version of IM.proto may add: a field of a number
\* nobody knows, or the first field as eight bytes.
Foreign == {[tag |-> 120, val |-> 1, body |-> <<>>], [tag |-> 9, val |-> 1, body |-> <<>>]}

\* a is sent, or stored and fetched, and read into b.
Transfer ==
  /\ Operation
  /\ \E p \in Parsers, w \in Writers : b' = Parse(class, p, b, Serialize(class, w, a))
  /\ UNCHANGED a

TransferForeign ==
  /\ Operation
  /\ a.unknown = <<>>
  /\ \E p \in Parsers, x \in Foreign :
       b' = Parse(class, p, b, <<x>> \o Serialize(class, "Serialize", a))
  /\ UNCHANGED a

\* Only a part of it arrives, and the parser fails.
TransferCut ==
  LET wire == Serialize(class, "ToArray", a) IN
  /\ Operation
  /\ \E p \in Parsers, n \in DOMAIN wire, junk \in {0, 1} :
       b' = ParseCut(class, p, b, SubSeq(wire, 1, n), junk)
  /\ UNCHANGED a

Next ==
  \/ SetA \/ FillA \/ ClearFieldA \/ ClearA \/ MergeA \/ CopyB \/ NewB \/ SwapAB
  \/ Transfer \/ TransferForeign \/ TransferCut

Spec == Init /\ [][Next]_vars

-----------------------------------------------------------------------------
(* Properties *)

\* No member is ever read before a constructor set it, only bits of members
\* are set, and lists and unknown fields keep to their bounds.
TypeOK ==
  \A o \in {a, b} :
    /\ o.has \subseteq {class.accessors[f] : f \in DOMAIN class.accessors}
    /\ \A f \in Scalars(class) : o.val[f] # class.uninitialized
    /\ Len(o.unknown) <= MaxUnknown
    /\ \A f \in class.fields : class.kind[f] = "repeated" => Len(o.val[f]) <= MaxItems

\* The getter of a field that is not set returns its default (the handlers read
\* fields without asking has_): Clear, Swap, MergeFrom and failed parses, which
\* treat bits and members separately, keep the two in step.
UnsetIsDefault ==
  /\ TypeOK
  /\ \A o \in {a, b} : \A f \in DOMAIN class.accessors :
       ~HasField(class, o, f) => o.val[f] = class.new.val[f]

\* What was serialized by either writer is what either parser makes of it,
\* whatever the object held that it is parsed into: a session or packet comes
\* back from Redis, and a request from its sender, with every field.
RoundTrip ==
  \A w \in Writers :
    LET wire == Serialize(class, w, a) IN \A p \in Parsers : Parse(class, p, b, wire) = a

\* The sizes before the nested messages of a serialized message.
RECURSIVE LengthsRight(_)
LengthsRight(fields) ==
  \A i \in DOMAIN fields :
    fields[i].body # <<>> =>
      fields[i].val = Bytes(fields[i].body) /\ LengthsRight(fields[i].body)

\* ByteSizeLong, by which codec.cc makes room in the buffer and which precedes
\* nested messages, is the number of bytes the writers then write.
SizeExact ==
  \A w \in Writers :
    LET wire == Serialize(class, w, a) IN
    ByteSizeLong(class, a) = Bytes(wire) /\ LengthsRight(wire)

\* Two serialized messages in a row parse to the first with the second merged
\* into it, and an object assigned to is one made by the copy constructor: the
\* parsers, MergeFrom, CopyFrom and the copy constructor agree on what
\* overwrites, what appends and which bits go with it.
CopiesAgree ==
  LET wire == Serialize(class, "Serialize", a) \o Serialize(class, "ToArray", b) IN
  /\ \A p \in Parsers : Parse(class, p, b, wire) = MergeFrom(class, a, b)
  /\ CopyFrom(class, b, a) = Copied(class, a)
=============================================================================

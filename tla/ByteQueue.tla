----------------------------- MODULE ByteQueue ------------------------------
(***************************************************************************)
(* What a Buffer promises: a queue of bytes that is read at its front, can  *)
(* be written at both ends and can take back what was written last.  call   *)
(* is the last call, with its data or its count.                            *)
(***************************************************************************)
EXTENDS Integers, Sequences

VARIABLES bytes, call

Init == bytes = <<>> /\ call = <<"new", 0>>

AppendBytes == call'[1] = "append" /\ bytes' = bytes \o call'[2]

Prepend == call'[1] = "prepend" /\ bytes' = call'[2] \o bytes

Retrieve ==
  /\ call'[1] = "retrieve" /\ call'[2] <= Len(bytes)
  /\ bytes' = SubSeq(bytes, call'[2] + 1, Len(bytes))

Unwrite ==
  /\ call'[1] = "unwrite" /\ call'[2] <= Len(bytes)
  /\ bytes' = SubSeq(bytes, 1, Len(bytes) - call'[2])

Shrink == call'[1] = "shrink" /\ UNCHANGED bytes

Next == AppendBytes \/ Prepend \/ Retrieve \/ Unwrite \/ Shrink

Spec == Init /\ [][Next]_<<bytes, call>>
=============================================================================

-------------------------- MODULE MCHongbaoFaults ---------------------------
(***************************************************************************)
(* The red packet when something unusual happens, one thing at a time:      *)
(*   collide  one sender sends two packets, which may get the same key      *)
(*            (the instance of the cfg);                                    *)
(*   faults   a command to Redis or MySQL, or GetConnection, fails.         *)
(* A behaviour stays in the scenario it begins in.                          *)
(***************************************************************************)
EXTENDS Hongbao, TLC

CONSTANTS Robber, OneThread, OnePacket, FaultAmounts

VARIABLE scenario

Faults == INSTANCE Hongbao WITH
  Users <- Users \cup {Robber}, Threads <- OneThread, Packets <- OnePacket,
  Amounts <- FaultAmounts, MaxFaults <- 1

MCInit ==
  \/ scenario = "collide" /\ Init
  \/ scenario = "faults" /\ Faults!Init

MCNext ==
  /\ \/ scenario = "collide" /\ Next
     \/ scenario = "faults" /\ Faults!Next
  /\ UNCHANGED scenario

MCSpec == MCInit /\ [][MCNext]_<<vars, scenario>>

\* Threads are alike, and so are packets.  OneThread and OnePacket name one of
\* them: no two states of their scenarios differ in that choice.
Symmetry == Permutations(Threads) \cup Permutations(Packets)

\* RobHongbao pays a user at most once out of a packet, although its key is used
\* again or a command was lost.
StillPaidOnce ==
  /\ scenario = "collide" => PaidOnce
  /\ scenario = "faults" => Faults!PaidOnce

\* Robbers and the refund never get more than the packet holds, although
\* StopRobHongbao of one packet may settle another, or a command was lost, and
\* the roblog StopRobHongbao writes lists everybody who was paid.
StillSettled ==
  /\ scenario = "collide" => PayoutBounded /\ RowCompleteUnlessRaced
  /\ scenario = "faults" => Faults!PayoutBounded /\ Faults!RowCompleteUnlessRaced
=============================================================================

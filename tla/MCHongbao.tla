----------------------------- MODULE MCHongbao -----------------------------
(***************************************************************************)
(* Hongbao for TLC in two scenarios: "plain", red packets of the senders of *)
(* the cfg, and "numeric", packets of a user for whom stoi() reads the      *)
(* serialized packet as a past time, so that a second thread takes the lock *)
(* over with GETSET.                                                        *)
(***************************************************************************)
EXTENDS Hongbao, TLC

VARIABLE scenario

Numeric == INSTANCE Hongbao WITH Senders <- NumericSenders

MCInit == scenario \in {"plain", "numeric"} /\ Init

MCNext ==
  /\ \/ scenario = "plain" /\ Next
     \/ scenario = "numeric" /\ Numeric!Next
  /\ UNCHANGED scenario

\* The fairness of FairSpec, for plain packets.
MCSpec ==
  /\ MCInit /\ [][MCNext]_<<vars, scenario>>
  /\ \A t \in Threads : WF_vars(scenario = "plain" /\ Progress(t))
  /\ WF_vars(scenario = "plain" /\ StopStep) /\ WF_vars(scenario = "plain" /\ Tick)

Symmetry == Permutations(Threads) \cup Permutations(Packets)

\* The money of a packet whose StopRobHongbao is scheduled is eventually all
\* with the robbers and the sender.
PlainAccounted == scenario = "plain" => AllAccounted
=============================================================================

------------------------------- MODULE MCChat -------------------------------
(***************************************************************************)
(* Chat for TLC in three scenarios:                                         *)
(*   deliver   two users on three connections (the instance of the cfg);    *)
(*   list      one user, messages of every kind in the list of Redis, and a *)
(*             command that is refused;                                     *)
(*   register  registrations of the same names, with logins.                *)
(***************************************************************************)
EXTENDS Chat, TLC

CONSTANTS OneUser, TwoConns, ListTypes, ListTexts

VARIABLE scenario

List == INSTANCE Chat WITH
  Users <- OneUser, Conns <- TwoConns, Accounts <- OneUser, Types <- ListTypes,
  Texts <- ListTexts, Fails <- 1

Register == INSTANCE Chat WITH Accounts <- OneUser, Chats <- 0, Registers <- 3, Fails <- 1

MCInit ==
  \/ scenario = "deliver" /\ Init
  \/ scenario = "list" /\ List!Init
  \/ scenario = "register" /\ Register!Init

MCNext ==
  /\ \/ scenario = "deliver" /\ Next
     \/ scenario = "list" /\ List!Next
     \/ scenario = "register" /\ Register!Next
  /\ UNCHANGED scenario

MCSpec == MCInit /\ [][MCNext]_<<vars, scenario>>

\* The connections of a scenario are alike.
Symmetry == Permutations(Conns)

\* A text that was handled has been sent, and only on connections that were saved
\* for its receiver, or waits in the receiver's list.
ChatsAccounted ==
  CASE scenario = "deliver" -> TypeOK /\ RightReceiver /\ Accounted
    [] scenario = "list" -> List!TypeOK /\ List!Accounted
    [] scenario = "register" -> Register!TypeOK

\* Login sends each message of the list it took.
ListIsSent == scenario = "list" => List!LoginTellsAll

\* A Register that is answered with true leaves an account with that name.
TrueIsAccount == scenario = "register" => Register!TrueMeansAccount
=============================================================================

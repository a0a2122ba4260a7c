---------------------------- MODULE MessageClass ----------------------------
(***************************************************************************)
(* The classes of IM.proto, from the tables of their functions: the members *)
(* by name instead of by their place in the object, and a new object.       *)
(***************************************************************************)
EXTENDS IMRequests, IMServerMessages, Integers, Sequences

\* The value of a member that no constructor has set.
Uninitialized == -2

RECURSIVE Described(_)
Described(x) ==
  LET members == {x.layout[i][1] : i \in DOMAIN x.layout}
      At(f) == CHOOSE i \in DOMAIN x.layout : x.layout[i][1] = f
      kind == [f \in members |-> x.layout[At(f)][2]]
      nested == [f \in {f \in members : kind[f] \in {"message", "repeated"}} |->
                   Described(x.layout[At(f)][3])]
      \* What memset and memcpy reach: from the first to the last member of a run.
      Run(s) == {f \in members : At(f) \in At(s[1])..At(s[Len(s)])}
      \* SharedCtor sets the members to zero; a list makes itself empty.
      Constructed(f) ==
        CASE kind[f] = "repeated" -> <<>>
          [] \A s \in x.SharedCtor : f \notin Run(s) -> Uninitialized
          [] kind[f] = "message" -> nested[f].new
          [] OTHER -> 0
  IN  [fields |-> members, kind |-> kind, nested |-> nested,
       layout |-> [i \in DOMAIN x.layout |-> x.layout[i][1]],
       new |-> [has |-> {}, val |-> [f \in members |-> Constructed(f)], unknown |-> <<>>],
       uninitialized |-> Uninitialized,
       accessors |-> x.accessors, HasBitSetters |-> x.HasBitSetters,
       copy |-> [x.copy EXCEPT !.memcpy = UNION {Run(s) : s \in @}],
       Clear |-> {<<r[1], r[2], Run(r[3])>> : r \in x.Clear},
       InternalParse |-> x.InternalParse, MergePartial |-> x.MergePartial,
       Serialize |-> x.Serialize, ToArray |-> x.ToArray, ByteSizeLong |-> x.ByteSizeLong,
       MergeFrom |-> x.MergeFrom, Swap |-> x.Swap]

IMClasses ==
  {Described(x) : x \in
    {Login, Register, SingleChat, Hongbaoreq, HongbaoResp, ReqRobHongbao, RespRobHongbao,
     GroupChat, AddFriend, GetFriendInfo, FriendInfo, FriendList, Response, Session, UserInfo,
     SendHongbao, RobLog}}
=============================================================================

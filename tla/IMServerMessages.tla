-------------------------- MODULE IMServerMessages -------------------------
(***************************************************************************)
(* The replies and the messages the server stores in Redis (sessions and red *)
(* packets), as tables with the columns of IMRequests.                       *)
(***************************************************************************)
EXTENDS Naturals

\* -------------------- FriendInfo --------------------
FriendInfo_layout ==
  <<<<"mobile", "string">>, <<"nickname", "string">>, <<"sex", "string">>, <<"age", "int64">>,
    <<"timestamp", "int64">>>>
FriendInfo_accessors == [mobile |-> 0, nickname |-> 1, sex |-> 2, age |-> 3, timestamp |-> 4]
FriendInfo_HasBitSetters ==
  [mobile |-> 0, nickname |-> 1, sex |-> 2, age |-> 3, timestamp |-> 4]
FriendInfo_SharedCtor == {<<"mobile">>, <<"nickname">>, <<"sex">>, <<"age", "timestamp">>}
FriendInfo_copy ==
  [has |-> {"mobile", "nickname", "sex"}, memcpy |-> {<<"age", "timestamp">>}, lists |-> {}]
FriendInfo_Clear ==
  {<<0..2, {0}, <<"mobile">>>>, <<0..2, {1}, <<"nickname">>>>, <<0..2, {2}, <<"sex">>>>,
    <<3..4, {}, <<"age", "timestamp">>>>}
FriendInfo_InternalParse ==
  {<<1, 10, "string", "mobile">>, <<2, 18, "string", "nickname">>, <<3, 26, "string", "sex">>,
    <<4, 32, "varint", "age">>, <<5, 40, "varint", "timestamp">>}
FriendInfo_MergePartial ==
  {<<1, 10, "string", "mobile">>, <<2, 18, "string", "nickname">>, <<3, 26, "string", "sex">>,
    <<4, 32, "int64", "age">>, <<5, 40, "int64", "timestamp">>}
FriendInfo_Serialize ==
  <<<<{0}, 1, "string", "mobile">>, <<{1}, 2, "string", "nickname">>,
    <<{2}, 3, "string", "sex">>, <<{3}, 4, "int64", "age">>, <<{4}, 5, "int64", "timestamp">>>>
FriendInfo_ToArray ==
  <<<<{0}, 1, "string", "mobile">>, <<{1}, 2, "string", "nickname">>,
    <<{2}, 3, "string", "sex">>, <<{3}, 4, "int64", "age">>, <<{4}, 5, "int64", "timestamp">>>>
FriendInfo_ByteSizeLong ==
  <<<<0..4, {0}, 1, "string", "mobile">>, <<0..4, {1}, 1, "string", "nickname">>,
    <<0..4, {2}, 1, "string", "sex">>, <<0..4, {3}, 1, "int64", "age">>,
    <<0..4, {4}, 1, "int64", "timestamp">>>>
FriendInfo_MergeFrom ==
  [rows |-> {<<0..4, {0}, {0}, "mobile">>, <<0..4, {1}, {1}, "nickname">>,
    <<0..4, {2}, {2}, "sex">>, <<0..4, {3}, {}, "age">>, <<0..4, {4}, {}, "timestamp">>},
    or |-> {0..4}]
FriendInfo_Swap == {"mobile", "nickname", "sex", "age", "timestamp"}
FriendInfo ==
  [layout |-> FriendInfo_layout, accessors |-> FriendInfo_accessors,
    HasBitSetters |-> FriendInfo_HasBitSetters, SharedCtor |-> FriendInfo_SharedCtor,
    copy |-> FriendInfo_copy, Clear |-> FriendInfo_Clear,
    InternalParse |-> FriendInfo_InternalParse, MergePartial |-> FriendInfo_MergePartial,
    Serialize |-> FriendInfo_Serialize, ToArray |-> FriendInfo_ToArray,
    ByteSizeLong |-> FriendInfo_ByteSizeLong, MergeFrom |-> FriendInfo_MergeFrom,
    Swap |-> FriendInfo_Swap]

\* -------------------- FriendList --------------------
FriendList_layout == <<<<"friendlist", "repeated", FriendInfo>>, <<"timestamp", "int64">>>>
FriendList_accessors == [timestamp |-> 0]
FriendList_HasBitSetters == [timestamp |-> 0]
FriendList_SharedCtor == {<<"timestamp">>}
FriendList_copy == [has |-> {}, memcpy |-> {<<"timestamp">>}, lists |-> {"friendlist"}]
FriendList_Clear == {<<{}, {}, <<"friendlist">>>>, <<{}, {}, <<"timestamp">>>>}
FriendList_InternalParse ==
  {<<1, 10, "repeated", "friendlist">>, <<2, 16, "varint", "timestamp">>}
FriendList_MergePartial ==
  {<<1, 10, "repeated", "friendlist">>, <<2, 16, "int64", "timestamp">>}
FriendList_Serialize == <<<<{}, 1, "message", "friendlist">>, <<{0}, 2, "int64", "timestamp">>>>
FriendList_ToArray == <<<<{}, 1, "message", "friendlist">>, <<{0}, 2, "int64", "timestamp">>>>
FriendList_ByteSizeLong ==
  <<<<{}, {}, 1, "message", "friendlist">>, <<{}, {0}, 1, "int64", "timestamp">>>>
FriendList_MergeFrom == [rows |-> {<<{}, {}, {}, "friendlist">>, <<{}, {0}, {0}, "timestamp">>},
    or |-> {}]
FriendList_Swap == {"timestamp", "friendlist"}
FriendList ==
  [layout |-> FriendList_layout, accessors |-> FriendList_accessors,
    HasBitSetters |-> FriendList_HasBitSetters, SharedCtor |-> FriendList_SharedCtor,
    copy |-> FriendList_copy, Clear |-> FriendList_Clear,
    InternalParse |-> FriendList_InternalParse, MergePartial |-> FriendList_MergePartial,
    Serialize |-> FriendList_Serialize, ToArray |-> FriendList_ToArray,
    ByteSizeLong |-> FriendList_ByteSizeLong, MergeFrom |-> FriendList_MergeFrom,
    Swap |-> FriendList_Swap]

\* -------------------- UserInfo --------------------
UserInfo_layout ==
  <<<<"name", "string">>, <<"nick", "string">>, <<"phone", "string">>, <<"email", "string">>,
    <<"sign_info", "string">>, <<"id", "int64">>, <<"sex", "int32">>, <<"age", "int32">>,
    <<"createtime", "int64">>, <<"updatetime", "int64">>, <<"money", "double">>>>
UserInfo_accessors ==
  [id |-> 5, sex |-> 6, age |-> 7, name |-> 0, nick |-> 1, phone |-> 2, email |-> 3,
    createtime |-> 8, updatetime |-> 9, sign_info |-> 4, money |-> 10]
UserInfo_HasBitSetters ==
  [id |-> 5, sex |-> 6, age |-> 7, name |-> 0, nick |-> 1, phone |-> 2, email |-> 3,
    createtime |-> 8, updatetime |-> 9, sign_info |-> 4, money |-> 10]
UserInfo_SharedCtor ==
  {<<"name">>, <<"nick">>, <<"phone">>, <<"email">>, <<"sign_info">>, <<"id", "money">>}
UserInfo_copy ==
  [has |-> {"name", "nick", "phone", "email", "sign_info"}, memcpy |-> {<<"id", "money">>},
    lists |-> {}]
UserInfo_Clear ==
  {<<0..4, {0}, <<"name">>>>, <<0..4, {1}, <<"nick">>>>, <<0..4, {2}, <<"phone">>>>,
    <<0..4, {3}, <<"email">>>>, <<0..4, {4}, <<"sign_info">>>>, <<5..7, {}, <<"id", "age">>>>,
    <<8..10, {}, <<"createtime", "money">>>>}
UserInfo_InternalParse ==
  {<<1, 8, "varint", "id">>, <<2, 16, "varint", "sex">>, <<3, 24, "varint", "age">>,
    <<4, 34, "string", "name">>, <<5, 42, "string", "nick">>, <<6, 50, "string", "phone">>,
    <<7, 58, "string", "email">>, <<8, 64, "varint", "createtime">>,
    <<9, 72, "varint", "updatetime">>, <<10, 82, "string", "sign_info">>,
    <<11, 89, "double", "money">>}
UserInfo_MergePartial ==
  {<<1, 8, "int64", "id">>, <<2, 16, "int32", "sex">>, <<3, 24, "int32", "age">>,
    <<4, 34, "string", "name">>, <<5, 42, "string", "nick">>, <<6, 50, "string", "phone">>,
    <<7, 58, "string", "email">>, <<8, 64, "int64", "createtime">>,
    <<9, 72, "int64", "updatetime">>, <<10, 82, "string", "sign_info">>,
    <<11, 89, "double", "money">>}
UserInfo_Serialize ==
  <<<<{5}, 1, "int64", "id">>, <<{6}, 2, "int32", "sex">>, <<{7}, 3, "int32", "age">>,
    <<{0}, 4, "string", "name">>, <<{1}, 5, "string", "nick">>, <<{2}, 6, "string", "phone">>,
    <<{3}, 7, "string", "email">>, <<{8}, 8, "int64", "createtime">>,
    <<{9}, 9, "int64", "updatetime">>, <<{4}, 10, "string", "sign_info">>,
    <<{10}, 11, "double", "money">>>>
UserInfo_ToArray ==
  <<<<{5}, 1, "int64", "id">>, <<{6}, 2, "int32", "sex">>, <<{7}, 3, "int32", "age">>,
    <<{0}, 4, "string", "name">>, <<{1}, 5, "string", "nick">>, <<{2}, 6, "string", "phone">>,
    <<{3}, 7, "string", "email">>, <<{8}, 8, "int64", "createtime">>,
    <<{9}, 9, "int64", "updatetime">>, <<{4}, 10, "string", "sign_info">>,
    <<{10}, 11, "double", "money">>>>
UserInfo_ByteSizeLong ==
  <<<<0..7, {0}, 1, "string", "name">>, <<0..7, {1}, 1, "string", "nick">>,
    <<0..7, {2}, 1, "string", "phone">>, <<0..7, {3}, 1, "string", "email">>,
    <<0..7, {4}, 1, "string", "sign_info">>, <<0..7, {5}, 1, "int64", "id">>,
    <<0..7, {6}, 1, "int32", "sex">>, <<0..7, {7}, 1, "int32", "age">>,
    <<8..10, {8}, 1, "int64", "createtime">>, <<8..10, {9}, 1, "int64", "updatetime">>,
    <<8..10, {10}, 1, "fixed8", "money">>>>
UserInfo_MergeFrom ==
  [rows |-> {<<0..7, {0}, {0}, "name">>, <<0..7, {1}, {1}, "nick">>,
    <<0..7, {2}, {2}, "phone">>, <<0..7, {3}, {3}, "email">>, <<0..7, {4}, {4}, "sign_info">>,
    <<0..7, {5}, {}, "id">>, <<0..7, {6}, {}, "sex">>, <<0..7, {7}, {}, "age">>,
    <<8..10, {8}, {}, "createtime">>, <<8..10, {9}, {}, "updatetime">>,
    <<8..10, {10}, {}, "money">>},
    or |-> {0..7, 8..10}]
UserInfo_Swap ==
  {"name", "nick", "phone", "email", "sign_info", "id", "sex", "age", "createtime",
    "updatetime", "money"}
UserInfo ==
  [layout |-> UserInfo_layout, accessors |-> UserInfo_accessors,
    HasBitSetters |-> UserInfo_HasBitSetters, SharedCtor |-> UserInfo_SharedCtor,
    copy |-> UserInfo_copy, Clear |-> UserInfo_Clear, InternalParse |-> UserInfo_InternalParse,
    MergePartial |-> UserInfo_MergePartial, Serialize |-> UserInfo_Serialize,
    ToArray |-> UserInfo_ToArray, ByteSizeLong |-> UserInfo_ByteSizeLong,
    MergeFrom |-> UserInfo_MergeFrom, Swap |-> UserInfo_Swap]

\* -------------------- Response --------------------
Response_layout == <<<<"description", "string">>, <<"result", "bool">>>>
Response_accessors == [result |-> 1, description |-> 0]
Response_HasBitSetters == [result |-> 1, description |-> 0]
Response_SharedCtor == {<<"description">>, <<"result">>}
Response_copy == [has |-> {"description"}, memcpy |-> {<<"result">>}, lists |-> {}]
Response_Clear == {<<{}, {0}, <<"description">>>>, <<{}, {}, <<"result">>>>}
Response_InternalParse == {<<1, 8, "varint", "result">>, <<2, 18, "string", "description">>}
Response_MergePartial == {<<1, 8, "bool", "result">>, <<2, 18, "string", "description">>}
Response_Serialize == <<<<{1}, 1, "bool", "result">>, <<{0}, 2, "string", "description">>>>
Response_ToArray == <<<<{1}, 1, "bool", "result">>, <<{0}, 2, "string", "description">>>>
Response_ByteSizeLong ==
  <<<<0..1, {0}, 1, "string", "description">>, <<0..1, {1}, 1, "fixed1", "result">>>>
Response_MergeFrom ==
  [rows |-> {<<0..1, {0}, {0}, "description">>, <<0..1, {1}, {}, "result">>},
    or |-> {0..1}]
Response_Swap == {"description", "result"}
Response ==
  [layout |-> Response_layout, accessors |-> Response_accessors,
    HasBitSetters |-> Response_HasBitSetters, SharedCtor |-> Response_SharedCtor,
    copy |-> Response_copy, Clear |-> Response_Clear, InternalParse |-> Response_InternalParse,
    MergePartial |-> Response_MergePartial, Serialize |-> Response_Serialize,
    ToArray |-> Response_ToArray, ByteSizeLong |-> Response_ByteSizeLong,
    MergeFrom |-> Response_MergeFrom, Swap |-> Response_Swap]

\* -------------------- Session --------------------
Session_layout ==
  <<<<"ip", "string">>, <<"redisname", "string">>, <<"userinfo", "message", UserInfo>>,
    <<"hashkey", "int64">>, <<"islogin", "bool">>>>
Session_accessors == [islogin |-> 4, hashkey |-> 3, ip |-> 0, redisname |-> 1, userinfo |-> 2]
Session_HasBitSetters ==
  [islogin |-> 4, hashkey |-> 3, ip |-> 0, redisname |-> 1, userinfo |-> 2]
Session_SharedCtor == {<<"ip">>, <<"redisname">>, <<"userinfo", "islogin">>}
Session_copy ==
  [has |-> {"ip", "redisname", "userinfo"}, memcpy |-> {<<"hashkey", "islogin">>},
    lists |-> {}]
Session_Clear ==
  {<<0..2, {0}, <<"ip">>>>, <<0..2, {1}, <<"redisname">>>>, <<0..2, {2}, <<"userinfo">>>>,
    <<3..4, {}, <<"hashkey", "islogin">>>>}
Session_InternalParse ==
  {<<1, 8, "varint", "islogin">>, <<2, 16, "varint", "hashkey">>, <<3, 26, "string", "ip">>,
    <<4, 34, "string", "redisname">>, <<5, 42, "message", "userinfo">>}
Session_MergePartial ==
  {<<1, 8, "bool", "islogin">>, <<2, 16, "int64", "hashkey">>, <<3, 26, "string", "ip">>,
    <<4, 34, "string", "redisname">>, <<5, 42, "message", "userinfo">>}
Session_Serialize ==
  <<<<{4}, 1, "bool", "islogin">>, <<{3}, 2, "int64", "hashkey">>, <<{0}, 3, "string", "ip">>,
    <<{1}, 4, "string", "redisname">>, <<{2}, 5, "message", "userinfo">>>>
Session_ToArray ==
  <<<<{4}, 1, "bool", "islogin">>, <<{3}, 2, "int64", "hashkey">>, <<{0}, 3, "string", "ip">>,
    <<{1}, 4, "string", "redisname">>, <<{2}, 5, "message", "userinfo">>>>
Session_ByteSizeLong ==
  <<<<0..4, {0}, 1, "string", "ip">>, <<0..4, {1}, 1, "string", "redisname">>,
    <<0..4, {2}, 1, "message", "userinfo">>, <<0..4, {3}, 1, "int64", "hashkey">>,
    <<0..4, {4}, 1, "fixed1", "islogin">>>>
Session_MergeFrom ==
  [rows |-> {<<0..4, {0}, {0}, "ip">>, <<0..4, {1}, {1}, "redisname">>,
    <<0..4, {2}, {2}, "userinfo">>, <<0..4, {3}, {}, "hashkey">>,
    <<0..4, {4}, {}, "islogin">>},
    or |-> {0..4}]
Session_Swap == {"ip", "redisname", "userinfo", "hashkey", "islogin"}
Session ==
  [layout |-> Session_layout, accessors |-> Session_accessors,
    HasBitSetters |-> Session_HasBitSetters, SharedCtor |-> Session_SharedCtor,
    copy |-> Session_copy, Clear |-> Session_Clear, InternalParse |-> Session_InternalParse,
    MergePartial |-> Session_MergePartial, Serialize |-> Session_Serialize,
    ToArray |-> Session_ToArray, ByteSizeLong |-> Session_ByteSizeLong,
    MergeFrom |-> Session_MergeFrom, Swap |-> Session_Swap]

\* -------------------- RobLog --------------------
RobLog_layout == <<<<"name", "string">>, <<"money", "double">>, <<"time", "int64">>>>
RobLog_accessors == [name |-> 0, money |-> 1, time |-> 2]
RobLog_HasBitSetters == [name |-> 0, money |-> 1, time |-> 2]
RobLog_SharedCtor == {<<"name">>, <<"money", "time">>}
RobLog_copy == [has |-> {"name"}, memcpy |-> {<<"money", "time">>}, lists |-> {}]
RobLog_Clear == {<<{}, {0}, <<"name">>>>, <<1..2, {}, <<"money", "time">>>>}
RobLog_InternalParse ==
  {<<1, 10, "string", "name">>, <<2, 17, "double", "money">>, <<3, 24, "varint", "time">>}
RobLog_MergePartial ==
  {<<1, 10, "string", "name">>, <<2, 17, "double", "money">>, <<3, 24, "int64", "time">>}
RobLog_Serialize ==
  <<<<{0}, 1, "string", "name">>, <<{1}, 2, "double", "money">>, <<{2}, 3, "int64", "time">>>>
RobLog_ToArray ==
  <<<<{0}, 1, "string", "name">>, <<{1}, 2, "double", "money">>, <<{2}, 3, "int64", "time">>>>
RobLog_ByteSizeLong ==
  <<<<0..2, {0}, 1, "string", "name">>, <<0..2, {1}, 1, "fixed8", "money">>,
    <<0..2, {2}, 1, "int64", "time">>>>
RobLog_MergeFrom ==
  [rows |-> {<<0..2, {0}, {0}, "name">>, <<0..2, {1}, {}, "money">>,
    <<0..2, {2}, {}, "time">>},
    or |-> {0..2}]
RobLog_Swap == {"name", "money", "time"}
RobLog ==
  [layout |-> RobLog_layout, accessors |-> RobLog_accessors,
    HasBitSetters |-> RobLog_HasBitSetters, SharedCtor |-> RobLog_SharedCtor,
    copy |-> RobLog_copy, Clear |-> RobLog_Clear, InternalParse |-> RobLog_InternalParse,
    MergePartial |-> RobLog_MergePartial, Serialize |-> RobLog_Serialize,
    ToArray |-> RobLog_ToArray, ByteSizeLong |-> RobLog_ByteSizeLong,
    MergeFrom |-> RobLog_MergeFrom, Swap |-> RobLog_Swap]

\* -------------------- SendHongbao --------------------
SendHongbao_layout ==
  <<<<"robitem", "repeated", RobLog>>, <<"sender", "string">>, <<"receiver", "string">>,
    <<"money", "double">>, <<"leftmoney", "double">>, <<"category", "int64">>,
    <<"count", "int64">>, <<"leftcount", "int64">>, <<"timestamp", "int64">>>>
SendHongbao_accessors ==
  [sender |-> 0, money |-> 2, leftmoney |-> 3, category |-> 4, count |-> 5, leftcount |-> 6,
    receiver |-> 1, timestamp |-> 7]
SendHongbao_HasBitSetters ==
  [sender |-> 0, money |-> 2, leftmoney |-> 3, category |-> 4, count |-> 5, leftcount |-> 6,
    receiver |-> 1, timestamp |-> 7]
SendHongbao_SharedCtor == {<<"sender">>, <<"receiver">>, <<"money", "timestamp">>}
SendHongbao_copy ==
  [has |-> {"sender", "receiver"}, memcpy |-> {<<"money", "timestamp">>},
    lists |-> {"robitem"}]
SendHongbao_Clear ==
  {<<{}, {}, <<"robitem">>>>, <<0..1, {0}, <<"sender">>>>, <<0..1, {1}, <<"receiver">>>>,
    <<2..7, {}, <<"money", "timestamp">>>>}
SendHongbao_InternalParse ==
  {<<1, 10, "string", "sender">>, <<2, 17, "double", "money">>,
    <<3, 25, "double", "leftmoney">>, <<4, 32, "varint", "category">>,
    <<5, 40, "varint", "count">>, <<6, 48, "varint", "leftcount">>,
    <<7, 58, "string", "receiver">>, <<8, 66, "repeated", "robitem">>,
    <<9, 72, "varint", "timestamp">>}
SendHongbao_MergePartial ==
  {<<1, 10, "string", "sender">>, <<2, 17, "double", "money">>,
    <<3, 25, "double", "leftmoney">>, <<4, 32, "int64", "category">>,
    <<5, 40, "int64", "count">>, <<6, 48, "int64", "leftcount">>,
    <<7, 58, "string", "receiver">>, <<8, 66, "repeated", "robitem">>,
    <<9, 72, "int64", "timestamp">>}
SendHongbao_Serialize ==
  <<<<{0}, 1, "string", "sender">>, <<{2}, 2, "double", "money">>,
    <<{3}, 3, "double", "leftmoney">>, <<{4}, 4, "int64", "category">>,
    <<{5}, 5, "int64", "count">>, <<{6}, 6, "int64", "leftcount">>,
    <<{1}, 7, "string", "receiver">>, <<{}, 8, "message", "robitem">>,
    <<{7}, 9, "int64", "timestamp">>>>
SendHongbao_ToArray ==
  <<<<{0}, 1, "string", "sender">>, <<{2}, 2, "double", "money">>,
    <<{3}, 3, "double", "leftmoney">>, <<{4}, 4, "int64", "category">>,
    <<{5}, 5, "int64", "count">>, <<{6}, 6, "int64", "leftcount">>,
    <<{1}, 7, "string", "receiver">>, <<{}, 8, "message", "robitem">>,
    <<{7}, 9, "int64", "timestamp">>>>
SendHongbao_ByteSizeLong ==
  <<<<{}, {}, 1, "message", "robitem">>, <<0..7, {0}, 1, "string", "sender">>,
    <<0..7, {1}, 1, "string", "receiver">>, <<0..7, {2}, 1, "fixed8", "money">>,
    <<0..7, {3}, 1, "fixed8", "leftmoney">>, <<0..7, {4}, 1, "int64", "category">>,
    <<0..7, {5}, 1, "int64", "count">>, <<0..7, {6}, 1, "int64", "leftcount">>,
    <<0..7, {7}, 1, "int64", "timestamp">>>>
\* The bits of the numbers are not taken over.
SendHongbao_MergeFromNoBits ==
  [rows |-> {<<{}, {}, {}, "robitem">>, <<0..7, {0}, {0}, "sender">>,
    <<0..7, {1}, {1}, "receiver">>, <<0..7, {2}, {}, "money">>, <<0..7, {3}, {}, "leftmoney">>,
    <<0..7, {4}, {}, "category">>, <<0..7, {5}, {}, "count">>, <<0..7, {6}, {}, "leftcount">>,
    <<0..7, {7}, {}, "timestamp">>},
    or |-> {}]
SendHongbao_MergeFrom ==
  [rows |-> {<<{}, {}, {}, "robitem">>, <<0..7, {0}, {0}, "sender">>,
    <<0..7, {1}, {1}, "receiver">>, <<0..7, {2}, {}, "money">>, <<0..7, {3}, {}, "leftmoney">>,
    <<0..7, {4}, {}, "category">>, <<0..7, {5}, {}, "count">>, <<0..7, {6}, {}, "leftcount">>,
    <<0..7, {7}, {}, "timestamp">>},
    or |-> {0..7}]
\* A member that is not exchanged with its bit.
SendHongbao_SwapPart ==
  {"sender", "receiver", "money", "category", "count", "leftcount", "timestamp", "robitem"}
SendHongbao_Swap ==
  {"sender", "receiver", "money", "leftmoney", "category", "count", "leftcount", "timestamp",
    "robitem"}
SendHongbao ==
  [layout |-> SendHongbao_layout, accessors |-> SendHongbao_accessors,
    HasBitSetters |-> SendHongbao_HasBitSetters, SharedCtor |-> SendHongbao_SharedCtor,
    copy |-> SendHongbao_copy, Clear |-> SendHongbao_Clear,
    InternalParse |-> SendHongbao_InternalParse, MergePartial |-> SendHongbao_MergePartial,
    Serialize |-> SendHongbao_Serialize, ToArray |-> SendHongbao_ToArray,
    ByteSizeLong |-> SendHongbao_ByteSizeLong, MergeFrom |-> SendHongbao_MergeFrom,
    Swap |-> SendHongbao_Swap]

=============================================================================

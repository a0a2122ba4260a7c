----------------------------- MODULE IMRequests ----------------------------
(***************************************************************************)
(* The messages of the requests, and of what is sent in answer to them, as   *)
(* protoc generated them in IM.pb.cc and IM.pb.h: one table for each         *)
(* function of a message class, read off the statements of that function.    *)
(* Messages.tla says what the tables mean.  Their columns:                   *)
(*   layout         member, kind and class of a nested message, in the order *)
(*                  of the members in the object                             *)
(*   accessors      the bit of _has_bits_ that has_, set_, clear_ and        *)
(*                  mutable_ use                                             *)
(*   HasBitSetters  the bit the parsers set for a number                     *)
(*   SharedCtor     the first and last member of a run that is set to zero   *)
(*   copy           members copied if the source has them, runs copied by    *)
(*                  memcpy, lists                                            *)
(*   Clear          masks of the two ifs around it ({} where there is none), *)
(*                  run of members that is reset                             *)
(*   InternalParse, MergePartial  case label, expected tag, reader, member   *)
(*   Serialize, ToArray           mask, field number, writer, member         *)
(*   ByteSizeLong   masks, bytes of the tag, size function, member           *)
(*   MergeFrom      masks on the source, bits set at once, member; masks     *)
(*                  under which all bits of the source are or-ed in          *)
(*   Swap           members exchanged                                        *)
(***************************************************************************)
EXTENDS Naturals

\* -------------------- Login --------------------
Login_layout == <<<<"username", "string">>, <<"password", "string">>, <<"timestamp", "int64">>>>
Login_accessors == [username |-> 0, password |-> 1, timestamp |-> 2]
Login_HasBitSetters == [username |-> 0, password |-> 1, timestamp |-> 2]
Login_SharedCtor == {<<"username">>, <<"password">>, <<"timestamp">>}
Login_copy == [has |-> {"username", "password"}, memcpy |-> {<<"timestamp">>}, lists |-> {}]
Login_Clear ==
  {<<0..1, {0}, <<"username">>>>, <<0..1, {1}, <<"password">>>>, <<{}, {}, <<"timestamp">>>>}
Login_InternalParse ==
  {<<1, 10, "string", "username">>, <<2, 18, "string", "password">>,
    <<3, 24, "varint", "timestamp">>}
Login_MergePartial ==
  {<<1, 10, "string", "username">>, <<2, 18, "string", "password">>,
    <<3, 24, "int64", "timestamp">>}
Login_Serialize ==
  <<<<{0}, 1, "string", "username">>, <<{1}, 2, "string", "password">>,
    <<{2}, 3, "int64", "timestamp">>>>
Login_ToArray ==
  <<<<{0}, 1, "string", "username">>, <<{1}, 2, "string", "password">>,
    <<{2}, 3, "int64", "timestamp">>>>
Login_ByteSizeLong ==
  <<<<0..2, {0}, 1, "string", "username">>, <<0..2, {1}, 1, "string", "password">>,
    <<0..2, {2}, 1, "int64", "timestamp">>>>
Login_MergeFrom ==
  [rows |-> {<<0..2, {0}, {0}, "username">>, <<0..2, {1}, {1}, "password">>,
    <<0..2, {2}, {}, "timestamp">>},
    or |-> {0..2}]
Login_Swap == {"username", "password", "timestamp"}
Login ==
  [layout |-> Login_layout, accessors |-> Login_accessors,
    HasBitSetters |-> Login_HasBitSetters, SharedCtor |-> Login_SharedCtor,
    copy |-> Login_copy, Clear |-> Login_Clear, InternalParse |-> Login_InternalParse,
    MergePartial |-> Login_MergePartial, Serialize |-> Login_Serialize,
    ToArray |-> Login_ToArray, ByteSizeLong |-> Login_ByteSizeLong,
    MergeFrom |-> Login_MergeFrom, Swap |-> Login_Swap]

\* -------------------- Register --------------------
Register_layout ==
  <<<<"username", "string">>, <<"password", "string">>, <<"mobile", "string">>,
    <<"nickname", "string">>, <<"sign_info", "string">>, <<"email", "string">>,
    <<"age", "int64">>, <<"timestamp", "int64">>, <<"sex", "int32">>>>
Register_accessors ==
  [username |-> 0, password |-> 1, mobile |-> 2, nickname |-> 3, sex |-> 8, age |-> 6,
    timestamp |-> 7, sign_info |-> 4, email |-> 5]
Register_HasBitSetters ==
  [username |-> 0, password |-> 1, mobile |-> 2, nickname |-> 3, sex |-> 8, age |-> 6,
    timestamp |-> 7, sign_info |-> 4, email |-> 5]
Register_SharedCtor ==
  {<<"username">>, <<"password">>, <<"mobile">>, <<"nickname">>, <<"sign_info">>, <<"email">>,
    <<"age", "sex">>}
Register_copy ==
  [has |-> {"username", "password", "mobile", "nickname", "sign_info", "email"},
    memcpy |-> {<<"age", "sex">>}, lists |-> {}]
Register_Clear ==
  {<<0..5, {0}, <<"username">>>>, <<0..5, {1}, <<"password">>>>, <<0..5, {2}, <<"mobile">>>>,
    <<0..5, {3}, <<"nickname">>>>, <<0..5, {4}, <<"sign_info">>>>, <<0..5, {5}, <<"email">>>>,
    <<6..7, {}, <<"age", "timestamp">>>>, <<{}, {}, <<"sex">>>>}
Register_InternalParse ==
  {<<1, 10, "string", "username">>, <<2, 18, "string", "password">>,
    <<3, 26, "string", "mobile">>, <<4, 34, "string", "nickname">>, <<5, 40, "varint", "sex">>,
    <<6, 48, "varint", "age">>, <<7, 56, "varint", "timestamp">>,
    <<8, 66, "string", "sign_info">>, <<9, 74, "string", "email">>}
Register_MergePartial ==
  {<<1, 10, "string", "username">>, <<2, 18, "string", "password">>,
    <<3, 26, "string", "mobile">>, <<4, 34, "string", "nickname">>, <<5, 40, "int32", "sex">>,
    <<6, 48, "int64", "age">>, <<7, 56, "int64", "timestamp">>,
    <<8, 66, "string", "sign_info">>, <<9, 74, "string", "email">>}
Register_Serialize ==
  <<<<{0}, 1, "string", "username">>, <<{1}, 2, "string", "password">>,
    <<{2}, 3, "string", "mobile">>, <<{3}, 4, "string", "nickname">>,
    <<{8}, 5, "int32", "sex">>, <<{6}, 6, "int64", "age">>, <<{7}, 7, "int64", "timestamp">>,
    <<{4}, 8, "string", "sign_info">>, <<{5}, 9, "string", "email">>>>
Register_ToArray ==
  <<<<{0}, 1, "string", "username">>, <<{1}, 2, "string", "password">>,
    <<{2}, 3, "string", "mobile">>, <<{3}, 4, "string", "nickname">>,
    <<{8}, 5, "int32", "sex">>, <<{6}, 6, "int64", "age">>, <<{7}, 7, "int64", "timestamp">>,
    <<{4}, 8, "string", "sign_info">>, <<{5}, 9, "string", "email">>>>
Register_ByteSizeLong ==
  <<<<0..7, {0}, 1, "string", "username">>, <<0..7, {1}, 1, "string", "password">>,
    <<0..7, {2}, 1, "string", "mobile">>, <<0..7, {3}, 1, "string", "nickname">>,
    <<0..7, {4}, 1, "string", "sign_info">>, <<0..7, {5}, 1, "string", "email">>,
    <<0..7, {6}, 1, "int64", "age">>, <<0..7, {7}, 1, "int64", "timestamp">>,
    <<{}, {8}, 1, "int32", "sex">>>>
Register_MergeFrom ==
  [rows |-> {<<0..7, {0}, {0}, "username">>, <<0..7, {1}, {1}, "password">>,
    <<0..7, {2}, {2}, "mobile">>, <<0..7, {3}, {3}, "nickname">>,
    <<0..7, {4}, {4}, "sign_info">>, <<0..7, {5}, {5}, "email">>, <<0..7, {6}, {}, "age">>,
    <<0..7, {7}, {}, "timestamp">>, <<{}, {8}, {8}, "sex">>},
    or |-> {0..7}]
Register_Swap ==
  {"username", "password", "mobile", "nickname", "sign_info", "email", "age", "timestamp",
    "sex"}
Register ==
  [layout |-> Register_layout, accessors |-> Register_accessors,
    HasBitSetters |-> Register_HasBitSetters, SharedCtor |-> Register_SharedCtor,
    copy |-> Register_copy, Clear |-> Register_Clear, InternalParse |-> Register_InternalParse,
    MergePartial |-> Register_MergePartial, Serialize |-> Register_Serialize,
    ToArray |-> Register_ToArray, ByteSizeLong |-> Register_ByteSizeLong,
    MergeFrom |-> Register_MergeFrom, Swap |-> Register_Swap]

\* -------------------- Hongbaoreq --------------------
Hongbaoreq_layout ==
  <<<<"sender", "string">>, <<"receiver", "string">>, <<"money", "double">>,
    <<"category", "int64">>, <<"count", "int64">>, <<"timestamp", "int64">>>>
Hongbaoreq_accessors ==
  [sender |-> 0, money |-> 2, category |-> 3, count |-> 4, receiver |-> 1, timestamp |-> 5]
Hongbaoreq_HasBitSetters ==
  [sender |-> 0, money |-> 2, category |-> 3, count |-> 4, receiver |-> 1, timestamp |-> 5]
Hongbaoreq_SharedCtor == {<<"sender">>, <<"receiver">>, <<"money", "timestamp">>}
Hongbaoreq_copy ==
  [has |-> {"sender", "receiver"}, memcpy |-> {<<"money", "timestamp">>}, lists |-> {}]
Hongbaoreq_Clear ==
  {<<0..1, {0}, <<"sender">>>>, <<0..1, {1}, <<"receiver">>>>,
    <<2..5, {}, <<"money", "timestamp">>>>}
Hongbaoreq_InternalParse ==
  {<<1, 10, "string", "sender">>, <<2, 17, "double", "money">>,
    <<3, 24, "varint", "category">>, <<4, 32, "varint", "count">>,
    <<5, 42, "string", "receiver">>, <<6, 48, "varint", "timestamp">>}
Hongbaoreq_MergePartial ==
  {<<1, 10, "string", "sender">>, <<2, 17, "double", "money">>, <<3, 24, "int64", "category">>,
    <<4, 32, "int64", "count">>, <<5, 42, "string", "receiver">>,
    <<6, 48, "int64", "timestamp">>}
Hongbaoreq_Serialize ==
  <<<<{0}, 1, "string", "sender">>, <<{2}, 2, "double", "money">>,
    <<{3}, 3, "int64", "category">>, <<{4}, 4, "int64", "count">>,
    <<{1}, 5, "string", "receiver">>, <<{5}, 6, "int64", "timestamp">>>>
Hongbaoreq_ToArray ==
  <<<<{0}, 1, "string", "sender">>, <<{2}, 2, "double", "money">>,
    <<{3}, 3, "int64", "category">>, <<{4}, 4, "int64", "count">>,
    <<{1}, 5, "string", "receiver">>, <<{5}, 6, "int64", "timestamp">>>>
Hongbaoreq_ByteSizeLong ==
  <<<<0..5, {0}, 1, "string", "sender">>, <<0..5, {1}, 1, "string", "receiver">>,
    <<0..5, {2}, 1, "fixed8", "money">>, <<0..5, {3}, 1, "int64", "category">>,
    <<0..5, {4}, 1, "int64", "count">>, <<0..5, {5}, 1, "int64", "timestamp">>>>
Hongbaoreq_MergeFrom ==
  [rows |-> {<<0..5, {0}, {0}, "sender">>, <<0..5, {1}, {1}, "receiver">>,
    <<0..5, {2}, {}, "money">>, <<0..5, {3}, {}, "category">>, <<0..5, {4}, {}, "count">>,
    <<0..5, {5}, {}, "timestamp">>},
    or |-> {0..5}]
Hongbaoreq_Swap == {"sender", "receiver", "money", "category", "count", "timestamp"}
Hongbaoreq ==
  [layout |-> Hongbaoreq_layout, accessors |-> Hongbaoreq_accessors,
    HasBitSetters |-> Hongbaoreq_HasBitSetters, SharedCtor |-> Hongbaoreq_SharedCtor,
    copy |-> Hongbaoreq_copy, Clear |-> Hongbaoreq_Clear,
    InternalParse |-> Hongbaoreq_InternalParse, MergePartial |-> Hongbaoreq_MergePartial,
    Serialize |-> Hongbaoreq_Serialize, ToArray |-> Hongbaoreq_ToArray,
    ByteSizeLong |-> Hongbaoreq_ByteSizeLong, MergeFrom |-> Hongbaoreq_MergeFrom,
    Swap |-> Hongbaoreq_Swap]

\* -------------------- HongbaoResp --------------------
HongbaoResp_layout ==
  <<<<"hongbaokey", "string">>, <<"sender", "string">>, <<"description", "string">>,
    <<"isok", "bool">>>>
HongbaoResp_accessors == [hongbaokey |-> 0, sender |-> 1, isok |-> 3, description |-> 2]
HongbaoResp_HasBitSetters == [hongbaokey |-> 0, sender |-> 1, isok |-> 3, description |-> 2]
HongbaoResp_SharedCtor == {<<"hongbaokey">>, <<"sender">>, <<"description">>, <<"isok">>}
HongbaoResp_copy ==
  [has |-> {"hongbaokey", "sender", "description"}, memcpy |-> {<<"isok">>}, lists |-> {}]
HongbaoResp_Clear ==
  {<<0..2, {0}, <<"hongbaokey">>>>, <<0..2, {1}, <<"sender">>>>,
    <<0..2, {2}, <<"description">>>>, <<{}, {}, <<"isok">>>>}
HongbaoResp_InternalParse ==
  {<<1, 10, "string", "hongbaokey">>, <<2, 18, "string", "sender">>,
    <<3, 24, "varint", "isok">>, <<4, 34, "string", "description">>}
HongbaoResp_MergePartial ==
  {<<1, 10, "string", "hongbaokey">>, <<2, 18, "string", "sender">>, <<3, 24, "bool", "isok">>,
    <<4, 34, "string", "description">>}
HongbaoResp_Serialize ==
  <<<<{0}, 1, "string", "hongbaokey">>, <<{1}, 2, "string", "sender">>,
    <<{3}, 3, "bool", "isok">>, <<{2}, 4, "string", "description">>>>
HongbaoResp_ToArray ==
  <<<<{0}, 1, "string", "hongbaokey">>, <<{1}, 2, "string", "sender">>,
    <<{3}, 3, "bool", "isok">>, <<{2}, 4, "string", "description">>>>
HongbaoResp_ByteSizeLong ==
  <<<<0..3, {0}, 1, "string", "hongbaokey">>, <<0..3, {1}, 1, "string", "sender">>,
    <<0..3, {2}, 1, "string", "description">>, <<0..3, {3}, 1, "fixed1", "isok">>>>
HongbaoResp_MergeFrom ==
  [rows |-> {<<0..3, {0}, {0}, "hongbaokey">>, <<0..3, {1}, {1}, "sender">>,
    <<0..3, {2}, {2}, "description">>, <<0..3, {3}, {}, "isok">>},
    or |-> {0..3}]
HongbaoResp_Swap == {"hongbaokey", "sender", "description", "isok"}
HongbaoResp ==
  [layout |-> HongbaoResp_layout, accessors |-> HongbaoResp_accessors,
    HasBitSetters |-> HongbaoResp_HasBitSetters, SharedCtor |-> HongbaoResp_SharedCtor,
    copy |-> HongbaoResp_copy, Clear |-> HongbaoResp_Clear,
    InternalParse |-> HongbaoResp_InternalParse, MergePartial |-> HongbaoResp_MergePartial,
    Serialize |-> HongbaoResp_Serialize, ToArray |-> HongbaoResp_ToArray,
    ByteSizeLong |-> HongbaoResp_ByteSizeLong, MergeFrom |-> HongbaoResp_MergeFrom,
    Swap |-> HongbaoResp_Swap]

\* -------------------- ReqRobHongbao --------------------
ReqRobHongbao_layout ==
  <<<<"hongbaokey", "string">>, <<"sender", "string">>, <<"selfname", "string">>>>
ReqRobHongbao_accessors == [hongbaokey |-> 0, sender |-> 1, selfname |-> 2]
ReqRobHongbao_HasBitSetters == [hongbaokey |-> 0, sender |-> 1, selfname |-> 2]
ReqRobHongbao_SharedCtor == {<<"hongbaokey">>, <<"sender">>, <<"selfname">>}
ReqRobHongbao_copy ==
  [has |-> {"hongbaokey", "sender", "selfname"}, memcpy |-> {}, lists |-> {}]
ReqRobHongbao_Clear ==
  {<<0..2, {0}, <<"hongbaokey">>>>, <<0..2, {1}, <<"sender">>>>, <<0..2, {2}, <<"selfname">>>>}
ReqRobHongbao_InternalParse ==
  {<<1, 10, "string", "hongbaokey">>, <<2, 18, "string", "sender">>,
    <<3, 26, "string", "selfname">>}
ReqRobHongbao_MergePartial ==
  {<<1, 10, "string", "hongbaokey">>, <<2, 18, "string", "sender">>,
    <<3, 26, "string", "selfname">>}
ReqRobHongbao_Serialize ==
  <<<<{0}, 1, "string", "hongbaokey">>, <<{1}, 2, "string", "sender">>,
    <<{2}, 3, "string", "selfname">>>>
ReqRobHongbao_ToArray ==
  <<<<{0}, 1, "string", "hongbaokey">>, <<{1}, 2, "string", "sender">>,
    <<{2}, 3, "string", "selfname">>>>
ReqRobHongbao_ByteSizeLong ==
  <<<<0..2, {0}, 1, "string", "hongbaokey">>, <<0..2, {1}, 1, "string", "sender">>,
    <<0..2, {2}, 1, "string", "selfname">>>>
ReqRobHongbao_MergeFrom ==
  [rows |-> {<<0..2, {0}, {0}, "hongbaokey">>, <<0..2, {1}, {1}, "sender">>,
    <<0..2, {2}, {2}, "selfname">>},
    or |-> {}]
ReqRobHongbao_Swap == {"hongbaokey", "sender", "selfname"}
ReqRobHongbao ==
  [layout |-> ReqRobHongbao_layout, accessors |-> ReqRobHongbao_accessors,
    HasBitSetters |-> ReqRobHongbao_HasBitSetters, SharedCtor |-> ReqRobHongbao_SharedCtor,
    copy |-> ReqRobHongbao_copy, Clear |-> ReqRobHongbao_Clear,
    InternalParse |-> ReqRobHongbao_InternalParse, MergePartial |-> ReqRobHongbao_MergePartial,
    Serialize |-> ReqRobHongbao_Serialize, ToArray |-> ReqRobHongbao_ToArray,
    ByteSizeLong |-> ReqRobHongbao_ByteSizeLong, MergeFrom |-> ReqRobHongbao_MergeFrom,
    Swap |-> ReqRobHongbao_Swap]

\* -------------------- RespRobHongbao --------------------
RespRobHongbao_layout ==
  <<<<"hongbaokey", "string">>, <<"sender", "string">>, <<"description", "string">>,
    <<"robmoney", "double">>, <<"totalcount", "int64">>, <<"leftcount", "int64">>,
    <<"isok", "bool">>>>
RespRobHongbao_accessors ==
  [hongbaokey |-> 0, sender |-> 1, robmoney |-> 3, totalcount |-> 4, leftcount |-> 5,
    isok |-> 6, description |-> 2]
RespRobHongbao_HasBitSetters ==
  [hongbaokey |-> 0, sender |-> 1, robmoney |-> 3, totalcount |-> 4, leftcount |-> 5,
    isok |-> 6, description |-> 2]
RespRobHongbao_SharedCtor ==
  {<<"hongbaokey">>, <<"sender">>, <<"description">>, <<"robmoney", "isok">>}
RespRobHongbao_copy ==
  [has |-> {"hongbaokey", "sender", "description"}, memcpy |-> {<<"robmoney", "isok">>},
    lists |-> {}]
RespRobHongbao_Clear ==
  {<<0..2, {0}, <<"hongbaokey">>>>, <<0..2, {1}, <<"sender">>>>,
    <<0..2, {2}, <<"description">>>>, <<3..6, {}, <<"robmoney", "isok">>>>}
RespRobHongbao_InternalParse ==
  {<<1, 10, "string", "hongbaokey">>, <<2, 18, "string", "sender">>,
    <<3, 25, "double", "robmoney">>, <<4, 32, "varint", "totalcount">>,
    <<5, 40, "varint", "leftcount">>, <<6, 48, "varint", "isok">>,
    <<7, 58, "string", "description">>}
RespRobHongbao_MergePartial ==
  {<<1, 10, "string", "hongbaokey">>, <<2, 18, "string", "sender">>,
    <<3, 25, "double", "robmoney">>, <<4, 32, "int64", "totalcount">>,
    <<5, 40, "int64", "leftcount">>, <<6, 48, "bool", "isok">>,
    <<7, 58, "string", "description">>}
RespRobHongbao_Serialize ==
  <<<<{0}, 1, "string", "hongbaokey">>, <<{1}, 2, "string", "sender">>,
    <<{3}, 3, "double", "robmoney">>, <<{4}, 4, "int64", "totalcount">>,
    <<{5}, 5, "int64", "leftcount">>, <<{6}, 6, "bool", "isok">>,
    <<{2}, 7, "string", "description">>>>
RespRobHongbao_ToArray ==
  <<<<{0}, 1, "string", "hongbaokey">>, <<{1}, 2, "string", "sender">>,
    <<{3}, 3, "double", "robmoney">>, <<{4}, 4, "int64", "totalcount">>,
    <<{5}, 5, "int64", "leftcount">>, <<{6}, 6, "bool", "isok">>,
    <<{2}, 7, "string", "description">>>>
RespRobHongbao_ByteSizeLong ==
  <<<<0..6, {0}, 1, "string", "hongbaokey">>, <<0..6, {1}, 1, "string", "sender">>,
    <<0..6, {2}, 1, "string", "description">>, <<0..6, {3}, 1, "fixed8", "robmoney">>,
    <<0..6, {4}, 1, "int64", "totalcount">>, <<0..6, {5}, 1, "int64", "leftcount">>,
    <<0..6, {6}, 1, "fixed1", "isok">>>>
RespRobHongbao_MergeFrom ==
  [rows |-> {<<0..6, {0}, {0}, "hongbaokey">>, <<0..6, {1}, {1}, "sender">>,
    <<0..6, {2}, {2}, "description">>, <<0..6, {3}, {}, "robmoney">>,
    <<0..6, {4}, {}, "totalcount">>, <<0..6, {5}, {}, "leftcount">>,
    <<0..6, {6}, {}, "isok">>},
    or |-> {0..6}]
RespRobHongbao_Swap ==
  {"hongbaokey", "sender", "description", "robmoney", "totalcount", "leftcount", "isok"}
RespRobHongbao ==
  [layout |-> RespRobHongbao_layout, accessors |-> RespRobHongbao_accessors,
    HasBitSetters |-> RespRobHongbao_HasBitSetters, SharedCtor |-> RespRobHongbao_SharedCtor,
    copy |-> RespRobHongbao_copy, Clear |-> RespRobHongbao_Clear,
    InternalParse |-> RespRobHongbao_InternalParse,
    MergePartial |-> RespRobHongbao_MergePartial, Serialize |-> RespRobHongbao_Serialize,
    ToArray |-> RespRobHongbao_ToArray, ByteSizeLong |-> RespRobHongbao_ByteSizeLong,
    MergeFrom |-> RespRobHongbao_MergeFrom, Swap |-> RespRobHongbao_Swap]

\* -------------------- SingleChat --------------------
SingleChat_layout ==
  <<<<"receiver", "string">>, <<"sender", "string">>, <<"message", "string">>,
    <<"hbreq", "message", Hongbaoreq>>, <<"hbrsp", "message", HongbaoResp>>,
    <<"robhbreq", "message", ReqRobHongbao>>, <<"robhbrsp", "message", RespRobHongbao>>,
    <<"timestamp", "int64">>, <<"type", "int32">>>>
SingleChat_accessors ==
  [receiver |-> 0, sender |-> 1, type |-> 8, message |-> 2, hbreq |-> 3, hbrsp |-> 4,
    robhbreq |-> 5, robhbrsp |-> 6, timestamp |-> 7]
SingleChat_HasBitSetters ==
  [receiver |-> 0, sender |-> 1, type |-> 8, message |-> 2, hbreq |-> 3, hbrsp |-> 4,
    robhbreq |-> 5, robhbrsp |-> 6, timestamp |-> 7]
SingleChat_SharedCtor == {<<"receiver">>, <<"sender">>, <<"message">>, <<"hbreq", "type">>}
SingleChat_copy ==
  [has |-> {"receiver", "sender", "message", "hbreq", "hbrsp", "robhbreq", "robhbrsp"},
    memcpy |-> {<<"timestamp", "type">>}, lists |-> {}]
SingleChat_Clear ==
  {<<0..6, {0}, <<"receiver">>>>, <<0..6, {1}, <<"sender">>>>, <<0..6, {2}, <<"message">>>>,
    <<0..6, {3}, <<"hbreq">>>>, <<0..6, {4}, <<"hbrsp">>>>, <<0..6, {5}, <<"robhbreq">>>>,
    <<0..6, {6}, <<"robhbrsp">>>>, <<{}, {}, <<"timestamp">>>>, <<{}, {}, <<"type">>>>}
SingleChat_InternalParse ==
  {<<1, 10, "string", "receiver">>, <<2, 18, "string", "sender">>, <<3, 24, "varint", "type">>,
    <<4, 34, "string", "message">>, <<5, 42, "message", "hbreq">>,
    <<6, 50, "message", "hbrsp">>, <<7, 58, "message", "robhbreq">>,
    <<8, 66, "message", "robhbrsp">>, <<9, 72, "varint", "timestamp">>}
\* Two cases exchanged.
SingleChat_MergePartialCrossed ==
  {<<1, 10, "string", "receiver">>, <<2, 18, "string", "sender">>, <<3, 24, "int32", "type">>,
    <<4, 34, "string", "message">>, <<5, 42, "message", "hbreq">>,
    <<6, 50, "message", "robhbreq">>, <<7, 58, "message", "hbrsp">>,
    <<8, 66, "message", "robhbrsp">>, <<9, 72, "int64", "timestamp">>}
SingleChat_MergePartial ==
  {<<1, 10, "string", "receiver">>, <<2, 18, "string", "sender">>, <<3, 24, "int32", "type">>,
    <<4, 34, "string", "message">>, <<5, 42, "message", "hbreq">>,
    <<6, 50, "message", "hbrsp">>, <<7, 58, "message", "robhbreq">>,
    <<8, 66, "message", "robhbrsp">>, <<9, 72, "int64", "timestamp">>}
SingleChat_Serialize ==
  <<<<{0}, 1, "string", "receiver">>, <<{1}, 2, "string", "sender">>,
    <<{8}, 3, "int32", "type">>, <<{2}, 4, "string", "message">>,
    <<{3}, 5, "message", "hbreq">>, <<{4}, 6, "message", "hbrsp">>,
    <<{5}, 7, "message", "robhbreq">>, <<{6}, 8, "message", "robhbrsp">>,
    <<{7}, 9, "int64", "timestamp">>>>
SingleChat_ToArray ==
  <<<<{0}, 1, "string", "receiver">>, <<{1}, 2, "string", "sender">>,
    <<{8}, 3, "int32", "type">>, <<{2}, 4, "string", "message">>,
    <<{3}, 5, "message", "hbreq">>, <<{4}, 6, "message", "hbrsp">>,
    <<{5}, 7, "message", "robhbreq">>, <<{6}, 8, "message", "robhbrsp">>,
    <<{7}, 9, "int64", "timestamp">>>>
\* The member counted after the common if is forgotten.
SingleChat_ByteSizeLongShort ==
  <<<<0..7, {0}, 1, "string", "receiver">>, <<0..7, {1}, 1, "string", "sender">>,
    <<0..7, {2}, 1, "string", "message">>, <<0..7, {3}, 1, "message", "hbreq">>,
    <<0..7, {4}, 1, "message", "hbrsp">>, <<0..7, {5}, 1, "message", "robhbreq">>,
    <<0..7, {6}, 1, "message", "robhbrsp">>, <<0..7, {7}, 1, "int64", "timestamp">>>>
SingleChat_ByteSizeLong ==
  <<<<0..7, {0}, 1, "string", "receiver">>, <<0..7, {1}, 1, "string", "sender">>,
    <<0..7, {2}, 1, "string", "message">>, <<0..7, {3}, 1, "message", "hbreq">>,
    <<0..7, {4}, 1, "message", "hbrsp">>, <<0..7, {5}, 1, "message", "robhbreq">>,
    <<0..7, {6}, 1, "message", "robhbrsp">>, <<0..7, {7}, 1, "int64", "timestamp">>,
    <<{}, {8}, 1, "int32", "type">>>>
SingleChat_MergeFrom ==
  [rows |-> {<<0..7, {0}, {0}, "receiver">>, <<0..7, {1}, {1}, "sender">>,
    <<0..7, {2}, {2}, "message">>, <<0..7, {3}, {3}, "hbreq">>, <<0..7, {4}, {4}, "hbrsp">>,
    <<0..7, {5}, {5}, "robhbreq">>, <<0..7, {6}, {6}, "robhbrsp">>,
    <<0..7, {7}, {}, "timestamp">>, <<{}, {8}, {8}, "type">>},
    or |-> {0..7}]
SingleChat_Swap ==
  {"receiver", "sender", "message", "hbreq", "hbrsp", "robhbreq", "robhbrsp", "timestamp",
    "type"}
SingleChat ==
  [layout |-> SingleChat_layout, accessors |-> SingleChat_accessors,
    HasBitSetters |-> SingleChat_HasBitSetters, SharedCtor |-> SingleChat_SharedCtor,
    copy |-> SingleChat_copy, Clear |-> SingleChat_Clear,
    InternalParse |-> SingleChat_InternalParse, MergePartial |-> SingleChat_MergePartial,
    Serialize |-> SingleChat_Serialize, ToArray |-> SingleChat_ToArray,
    ByteSizeLong |-> SingleChat_ByteSizeLong, MergeFrom |-> SingleChat_MergeFrom,
    Swap |-> SingleChat_Swap]

\* -------------------- GroupChat --------------------
GroupChat_layout ==
  <<<<"groupid", "string">>, <<"sender", "string">>, <<"message", "string">>,
    <<"timestamp", "int64">>>>
GroupChat_accessors == [groupid |-> 0, sender |-> 1, message |-> 2, timestamp |-> 3]
GroupChat_HasBitSetters == [groupid |-> 0, sender |-> 1, message |-> 2, timestamp |-> 3]
GroupChat_SharedCtor == {<<"groupid">>, <<"sender">>, <<"message">>, <<"timestamp">>}
GroupChat_copy ==
  [has |-> {"groupid", "sender", "message"}, memcpy |-> {<<"timestamp">>}, lists |-> {}]
GroupChat_Clear ==
  {<<0..2, {0}, <<"groupid">>>>, <<0..2, {1}, <<"sender">>>>, <<0..2, {2}, <<"message">>>>,
    <<{}, {}, <<"timestamp">>>>}
GroupChat_InternalParse ==
  {<<1, 10, "string", "groupid">>, <<2, 18, "string", "sender">>,
    <<3, 26, "string", "message">>, <<4, 32, "varint", "timestamp">>}
GroupChat_MergePartial ==
  {<<1, 10, "string", "groupid">>, <<2, 18, "string", "sender">>,
    <<3, 26, "string", "message">>, <<4, 32, "int64", "timestamp">>}
GroupChat_Serialize ==
  <<<<{0}, 1, "string", "groupid">>, <<{1}, 2, "string", "sender">>,
    <<{2}, 3, "string", "message">>, <<{3}, 4, "int64", "timestamp">>>>
GroupChat_ToArray ==
  <<<<{0}, 1, "string", "groupid">>, <<{1}, 2, "string", "sender">>,
    <<{2}, 3, "string", "message">>, <<{3}, 4, "int64", "timestamp">>>>
GroupChat_ByteSizeLong ==
  <<<<0..3, {0}, 1, "string", "groupid">>, <<0..3, {1}, 1, "string", "sender">>,
    <<0..3, {2}, 1, "string", "message">>, <<0..3, {3}, 1, "int64", "timestamp">>>>
GroupChat_MergeFrom ==
  [rows |-> {<<0..3, {0}, {0}, "groupid">>, <<0..3, {1}, {1}, "sender">>,
    <<0..3, {2}, {2}, "message">>, <<0..3, {3}, {}, "timestamp">>},
    or |-> {0..3}]
GroupChat_Swap == {"groupid", "sender", "message", "timestamp"}
GroupChat ==
  [layout |-> GroupChat_layout, accessors |-> GroupChat_accessors,
    HasBitSetters |-> GroupChat_HasBitSetters, SharedCtor |-> GroupChat_SharedCtor,
    copy |-> GroupChat_copy, Clear |-> GroupChat_Clear,
    InternalParse |-> GroupChat_InternalParse, MergePartial |-> GroupChat_MergePartial,
    Serialize |-> GroupChat_Serialize, ToArray |-> GroupChat_ToArray,
    ByteSizeLong |-> GroupChat_ByteSizeLong, MergeFrom |-> GroupChat_MergeFrom,
    Swap |-> GroupChat_Swap]

\* -------------------- AddFriend --------------------
AddFriend_layout ==
  <<<<"receiver", "string">>, <<"sender", "string">>, <<"message", "string">>,
    <<"timestamp", "int64">>>>
AddFriend_accessors == [receiver |-> 0, sender |-> 1, message |-> 2, timestamp |-> 3]
AddFriend_HasBitSetters == [receiver |-> 0, sender |-> 1, message |-> 2, timestamp |-> 3]
AddFriend_SharedCtor == {<<"receiver">>, <<"sender">>, <<"message">>, <<"timestamp">>}
AddFriend_copy ==
  [has |-> {"receiver", "sender", "message"}, memcpy |-> {<<"timestamp">>}, lists |-> {}]
AddFriend_Clear ==
  {<<0..2, {0}, <<"receiver">>>>, <<0..2, {1}, <<"sender">>>>, <<0..2, {2}, <<"message">>>>,
    <<{}, {}, <<"timestamp">>>>}
AddFriend_InternalParse ==
  {<<1, 10, "string", "receiver">>, <<2, 18, "string", "sender">>,
    <<3, 26, "string", "message">>, <<4, 32, "varint", "timestamp">>}
AddFriend_MergePartial ==
  {<<1, 10, "string", "receiver">>, <<2, 18, "string", "sender">>,
    <<3, 26, "string", "message">>, <<4, 32, "int64", "timestamp">>}
AddFriend_Serialize ==
  <<<<{0}, 1, "string", "receiver">>, <<{1}, 2, "string", "sender">>,
    <<{2}, 3, "string", "message">>, <<{3}, 4, "int64", "timestamp">>>>
AddFriend_ToArray ==
  <<<<{0}, 1, "string", "receiver">>, <<{1}, 2, "string", "sender">>,
    <<{2}, 3, "string", "message">>, <<{3}, 4, "int64", "timestamp">>>>
AddFriend_ByteSizeLong ==
  <<<<0..3, {0}, 1, "string", "receiver">>, <<0..3, {1}, 1, "string", "sender">>,
    <<0..3, {2}, 1, "string", "message">>, <<0..3, {3}, 1, "int64", "timestamp">>>>
AddFriend_MergeFrom ==
  [rows |-> {<<0..3, {0}, {0}, "receiver">>, <<0..3, {1}, {1}, "sender">>,
    <<0..3, {2}, {2}, "message">>, <<0..3, {3}, {}, "timestamp">>},
    or |-> {0..3}]
AddFriend_Swap == {"receiver", "sender", "message", "timestamp"}
AddFriend ==
  [layout |-> AddFriend_layout, accessors |-> AddFriend_accessors,
    HasBitSetters |-> AddFriend_HasBitSetters, SharedCtor |-> AddFriend_SharedCtor,
    copy |-> AddFriend_copy, Clear |-> AddFriend_Clear,
    InternalParse |-> AddFriend_InternalParse, MergePartial |-> AddFriend_MergePartial,
    Serialize |-> AddFriend_Serialize, ToArray |-> AddFriend_ToArray,
    ByteSizeLong |-> AddFriend_ByteSizeLong, MergeFrom |-> AddFriend_MergeFrom,
    Swap |-> AddFriend_Swap]

\* -------------------- GetFriendInfo --------------------
GetFriendInfo_layout ==
  <<<<"sender", "string">>, <<"friend", "string">>, <<"timestamp", "int64">>>>
GetFriendInfo_accessors == [sender |-> 0, friend |-> 1, timestamp |-> 2]
GetFriendInfo_HasBitSetters == [sender |-> 0, friend |-> 1, timestamp |-> 2]
GetFriendInfo_SharedCtor == {<<"sender">>, <<"friend">>, <<"timestamp">>}
GetFriendInfo_copy == [has |-> {"sender", "friend"}, memcpy |-> {<<"timestamp">>}, lists |-> {}]
GetFriendInfo_Clear ==
  {<<0..1, {0}, <<"sender">>>>, <<0..1, {1}, <<"friend">>>>, <<{}, {}, <<"timestamp">>>>}
GetFriendInfo_InternalParse ==
  {<<1, 10, "string", "sender">>, <<2, 18, "string", "friend">>,
    <<3, 24, "varint", "timestamp">>}
GetFriendInfo_MergePartial ==
  {<<1, 10, "string", "sender">>, <<2, 18, "string", "friend">>,
    <<3, 24, "int64", "timestamp">>}
GetFriendInfo_Serialize ==
  <<<<{0}, 1, "string", "sender">>, <<{1}, 2, "string", "friend">>,
    <<{2}, 3, "int64", "timestamp">>>>
GetFriendInfo_ToArray ==
  <<<<{0}, 1, "string", "sender">>, <<{1}, 2, "string", "friend">>,
    <<{2}, 3, "int64", "timestamp">>>>
GetFriendInfo_ByteSizeLong ==
  <<<<0..2, {0}, 1, "string", "sender">>, <<0..2, {1}, 1, "string", "friend">>,
    <<0..2, {2}, 1, "int64", "timestamp">>>>
GetFriendInfo_MergeFrom ==
  [rows |-> {<<0..2, {0}, {0}, "sender">>, <<0..2, {1}, {1}, "friend">>,
    <<0..2, {2}, {}, "timestamp">>},
    or |-> {0..2}]
GetFriendInfo_Swap == {"sender", "friend", "timestamp"}
GetFriendInfo ==
  [layout |-> GetFriendInfo_layout, accessors |-> GetFriendInfo_accessors,
    HasBitSetters |-> GetFriendInfo_HasBitSetters, SharedCtor |-> GetFriendInfo_SharedCtor,
    copy |-> GetFriendInfo_copy, Clear |-> GetFriendInfo_Clear,
    InternalParse |-> GetFriendInfo_InternalParse, MergePartial |-> GetFriendInfo_MergePartial,
    Serialize |-> GetFriendInfo_Serialize, ToArray |-> GetFriendInfo_ToArray,
    ByteSizeLong |-> GetFriendInfo_ByteSizeLong, MergeFrom |-> GetFriendInfo_MergeFrom,
    Swap |-> GetFriendInfo_Swap]

=============================================================================

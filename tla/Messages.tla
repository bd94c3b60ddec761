------------------------------ MODULE Messages ------------------------------
(***************************************************************************)
(* The message classes and services protoc generated from rpc_header.proto *)
(* (the framework's own header) and from the samples' user.proto and       *)
(* friend.proto: the schema of each class, the values its setters are      *)
(* given here, and what service descriptors, stubs and the service base    *)
(* classes tie together.                                                   *)
(*                                                                         *)
(* A name (of a service or a method) is one byte: names matter only as far *)
(* as they differ.  A text is empty or short; one is long enough for its   *)
(* length, and the length of the message around it, to take two bytes.     *)
(***************************************************************************)
EXTENDS PbSchema

-----------------------------------------------------------------------------
(***************************************************************************)
(* Classes.                                                                *)
(***************************************************************************)
RpcHeader == <<Bytes(1, "service_name"), Bytes(2, "method_name"), UInt32(3, "args_size")>>

ResultCode       == <<Int32(1, "errcode"), Bytes(2, "errmsg")>>
LoginRequest     == <<Bytes(1, "name"), Bytes(2, "pwd")>>
LoginResponse    == <<Message(1, "result", ResultCode), Bool(2, "sucess")>>
RegisterRequest  == <<UInt32(1, "id"), Bytes(2, "name"), Bytes(3, "pwd")>>
RegisterResponse == <<Message(1, "result", ResultCode), Bool(2, "sucess")>>

\* friend.proto declares a ResultCode of its own.
FriendResultCode       == <<Int32(1, "errcode"), Bytes(2, "errmsg")>>
GetFriendsListRequest  == <<UInt32(1, "userid")>>
GetFriendsListResponse == <<Message(1, "result", FriendResultCode), RepeatedBytes(2, "friends")>>

-----------------------------------------------------------------------------
(***************************************************************************)
(* Objects of the classes, as their setters leave them.                    *)
(***************************************************************************)
Texts    == { <<>>, <<65>> }
LongText == [i \in 1 .. 130 |-> 66]

Header(service, method, size) ==
  [service_name |-> service, method_name |-> method, args_size |-> size, unknown |-> <<>>]

Result(errcode, errmsg) == [errcode |-> errcode, errmsg |-> errmsg, unknown |-> <<>>]

\* has_result() is false, or result is a ResultCode.
Results == { <<>> } \union { <<Result(e, t)>> : e \in {-1, 0, 404}, t \in Texts }

LoginRequests ==
  [name : Texts \union {LongText}, pwd : Texts, unknown : {<<>>}]

LoginResponses == [result : Results, sucess : BOOLEAN, unknown : {<<>>}]

RegisterRequests == [id : {0, 7, 70000}, name : Texts, pwd : Texts, unknown : {<<>>}]

RegisterResponses == [result : Results, sucess : BOOLEAN, unknown : {<<>>}]

FriendResult(errcode, errmsg) == [errcode |-> errcode, errmsg |-> errmsg, unknown |-> <<>>]

GetFriendsListRequests == [userid : {0, 1000}, unknown : {<<>>}]

\* mutable_result()->set_..., then add_friends() for each friend.
Friends(result, friends) == [result |-> <<result>>, friends |-> friends, unknown |-> <<>>]

-----------------------------------------------------------------------------
(***************************************************************************)
(* Services: the methods of a descriptor in the order of their indices.    *)
(***************************************************************************)
MethodOf(name, input, output, requests) ==
  [name |-> name, input |-> input, output |-> output, requests |-> requests]

UserServiceRpc ==
  [name |-> <<85>>,
   methods |-> <<MethodOf(<<76>>, LoginRequest, LoginResponse, LoginRequests),
                 MethodOf(<<82>>, RegisterRequest, RegisterResponse, RegisterRequests)>>]

FriendServiceRpc ==
  [name |-> <<70>>,
   methods |-> <<MethodOf(<<71>>, GetFriendsListRequest, GetFriendsListResponse,
                          GetFriendsListRequests)>>]

-----------------------------------------------------------------------------
(***************************************************************************)
(* The sample services' handlers: the response each builds.                *)
(***************************************************************************)
SampleLogin == [result |-> <<Result(0, <<>>)>>, sucess |-> TRUE, unknown |-> <<>>]

SampleRegister == [result |-> <<Result(0, <<>>)>>, sucess |-> TRUE, unknown |-> <<>>]

SampleGetFriendsList == Friends(FriendResult(0, <<>>), << <<71, 89>>, <<76, 72>>, <<87, 83>> >>)
=============================================================================

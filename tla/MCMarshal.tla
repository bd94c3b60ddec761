----------------------------- MODULE MCMarshal -----------------------------
(***************************************************************************)
(* An instance of Marshal for TLC: the two sample services, and a second   *)
(* implementation of UserServiceRpc that leaves Register out and answers   *)
(* Login with any response.  The caller's stub of it has a third method,   *)
(* which no provider knows.                                                *)
(***************************************************************************)
EXTENDS MarshalCodec

CONSTANTS users, otherUsers, friends

MCClass     == [o \in Objects |-> IF o = friends THEN FriendServiceRpc ELSE UserServiceRpc]
MCOverrides == [o \in Objects |-> IF o = users THEN {1, 2} ELSE {1}]
Logout      == MethodOf(<<79>>, LoginRequest, LoginResponse, {Cleared(LoginRequest)})
MCStubs     == {[UserServiceRpc EXCEPT !.methods = Append(@, Logout)], FriendServiceRpc}
=============================================================================

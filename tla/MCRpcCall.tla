----------------------------- MODULE MCRpcCall -----------------------------
(***************************************************************************)
(* Instances of RpcCall for TLC: callers of the sample UserServiceRpc and  *)
(* of a method the provider does not have.                                 *)
(***************************************************************************)
EXTENDS RpcCallInv

CONSTANTS login, register, logout

MCService    == [c \in Calls |-> "UserServiceRpc"]
MCMethod     == [c \in Calls |-> CASE c = login    -> "Login"
                                   [] c = register -> "Register"
                                   [] c = logout   -> "Logout"]
MCServiceMap == [s \in {"UserServiceRpc"} |-> {"Login", "Register"}]

\* A header of three fields, the service name, the method name and the size
\* of the arguments, and arguments of two fields.  A size of 0 is not written.
MCHeaderFields == {0, 3, 6, 8}
ShortHeader    == {0, 3, 6}
MCArgsFields   == {0, 3, 5}
NoArgs         == {0}

\* Splits: inside the prefix, at and inside the header's fields, at and
\* inside the arguments'.
MCReqCuts == {2, 4, 7, 9, 12, 15, 16}

\* A response longer than recv's buffer, with a field ending at RecvMax.
MCRspFields == {0, 3, 1024, 1100}
MCRspCuts   == {2, 3}
ShortFields == {0, 2, 4}
=============================================================================

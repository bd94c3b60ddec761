---------------------------- MODULE MCZkRegistry ----------------------------
(***************************************************************************)
(* Instances of ZkRegistry for TLC: two services, each with one method,    *)
(* and providers that publish them in different orders.                    *)
(***************************************************************************)
EXTENDS ZkRegistryInv

CONSTANTS a, b, user, friend, login, list

MCServiceOf == [m \in {login, list} |-> IF m = login THEN user ELSE friend]

\* b's UserServiceRpc has no method.
MCPlan == [p \in Providers |-> CASE p = a -> <<user, login, friend, list>>
                                 [] p = b -> <<friend, list, user>>]
=============================================================================

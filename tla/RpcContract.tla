---------------------------- MODULE RpcContract ----------------------------
(***************************************************************************)
(* What a caller of the framework may rely on, with neither ZooKeeper nor  *)
(* TCP in sight: at-most-once calls.  A call is pending until CallMethod   *)
(* ends.  The service serves it at most once, and only while it is         *)
(* pending.  It ends in one of three ways the caller can tell apart only   *)
(* in part: "failed" (Failed() is true), "answered" (Failed() is false and *)
(* the response object is the service's answer) and "hollow" (Failed() is  *)
(* false and the response object is not that).  A caller's process that    *)
(* ends inside CallMethod leaves no result.                                *)
(***************************************************************************)
CONSTANT Calls

VARIABLES phase, served, result

vars == <<phase, served, result>>

Init ==
  /\ phase = [c \in Calls |-> "pending"]
  /\ served = {}
  /\ result = [c \in Calls |-> "none"]

Serve(c) ==
  /\ phase[c] = "pending"
  /\ c \notin served
  /\ served' = served \union {c}
  /\ UNCHANGED <<phase, result>>

Return(c, r) ==
  /\ phase[c] = "pending"
  /\ r = "answered" => c \in served
  /\ phase' = [phase EXCEPT ![c] = "over"]
  /\ result' = [result EXCEPT ![c] = r]
  /\ UNCHANGED served

Next ==
  \E c \in Calls :
    Serve(c) \/ \E r \in {"answered", "failed", "hollow", "none"} : Return(c, r)

Spec == Init /\ [][Next]_vars
=============================================================================

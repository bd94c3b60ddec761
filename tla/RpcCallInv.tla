----------------------------- MODULE RpcCallInv -----------------------------
(***************************************************************************)
(* The inductive invariant of RpcCall: what is true of one call whatever   *)
(* the other calls and the provider do.  Its parts follow the call: where  *)
(* the caller is, what its connection is, what the provider made of the    *)
(* request, and what the caller was told.                                  *)
(***************************************************************************)
EXTENDS RpcCall

\* Until CallMethod ends it holds its socket, has reported nothing and has
\* sent its request only if it is waiting for the reply.
CallerInv(c) ==
  /\ pc[c] = "start" => fd[c] = "none"
  /\ pc[c] \in Running => fd[c] = "open"
  /\ pc[c] \in {"start"} \union Running => failure[c] = "none" /\ response[c] = 0
  /\ pc[c] \in {"start", "lookup", "connect", "send"} => sent[c] = 0
  /\ pc[c] = "recv" => sent[c] = ReqLen
  /\ pc[c] = "returned" /\ fd[c] = "open" => failure[c] \in {"not_exist", "address"}

\* A connection lives in a serving provider only, and the provider closes it
\* only after the service answered.
ConnInv(c) ==
  /\ pc[c] \in {"start", "lookup", "connect"} => conn[c] = "none"
  /\ pc[c] \in {"send", "recv"} => conn[c] \notin {"none", "disconnected"}
  /\ conn[c] \in {"connected", "disconnecting"} => provider = "serving"
  /\ conn[c] = "disconnecting" => handler[c] \in {"answered", "muted"}
  /\ conn[c] = "connected" /\ pc[c] \in Ended => sent[c] = 0

\* A request is decoded from its first byte once: until then nothing ran, and
\* from then on nothing can run for it again.
HandlerInv(c) ==
  /\ taken[c] <= sent[c]
  /\ taken[c] = 0 => handler[c] = "none"
  /\ runs[c] = (IF handler[c] \in {"none", "dropped"} THEN 0 ELSE 1)
  /\ handler[c] = "none" /\ conn[c] = "connected" => taken[c] = 0
  /\ handler[c] = "running" => pc[c] = "recv" /\ conn[c] = "connected"
  /\ handler[c] \in {"answered", "muted", "killed"} => conn[c] # "connected"
  /\ rsp[c] = (IF handler[c] = "answered" THEN RspLen ELSE 0)

\* Requests delivered in one piece are taken whole or not at all.
WholeInv(c) ==
  ReqCuts = {} =>
    /\ taken[c] \in {0, ReqLen}
    /\ runs[c] > 0 => args[c] = ArgsLen
    /\ conn[c] = "reset" => taken[c] = 0

\* What the caller was told is still true.
OutcomeInv(c) ==
  /\ failure[c] \in {"serialize", "socket", "not_exist", "address", "connect", "send"}
       => sent[c] = 0
  /\ failure[c] = "recv" => conn[c] = "reset"
  /\ Succeeded(c) =>
       \/ handler[c] = "answered" /\ response[c] \in ReadSizes \intersect RspFields
       \/ rsp[c] = 0 /\ response[c] = 0

CallInv(c) == CallerInv(c) /\ ConnInv(c) /\ HandlerInv(c) /\ WholeInv(c) /\ OutcomeInv(c)

\* OnMessage throws only on a request that was split.
NoThrow == ReqCuts = {} => provider # "aborted"

IInv == TypeOK /\ NoThrow /\ \A c \in Calls : CallInv(c)
=============================================================================

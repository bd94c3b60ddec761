------------------------------ MODULE RpcCall ------------------------------
(***************************************************************************)
(* One remote call, end to end: MprpcChannel::CallMethod in the caller,    *)
(* RpcProvider's connection, message and closure callbacks in the          *)
(* provider, and the TCP connection between them.  Every call has a        *)
(* caller thread and a connection of its own (CallMethod opens one per     *)
(* call), calls run concurrently, and they share one provider process,     *)
(* which can die and be started again at any moment.                       *)
(*                                                                         *)
(* An action is one stretch of code between two points where the other     *)
(* side, another call or the network can act: blocking socket calls in the *)
(* caller, event-loop callbacks in the provider.                           *)
(***************************************************************************)
EXTENDS RpcWire

CONSTANTS
  Calls,           \* the calls, each by a synchronous caller thread
  NullController,  \* the calls whose stub is given no RpcController
  Service,         \* Service[c], Method[c]: the names call c puts in its header
  Method,
  ServiceMap,      \* m_serviceMap: service name -> set of its method names
  ProviderMayDie   \* whether the provider process can be killed

ASSUME CallAssumption ==
  /\ NullController \subseteq Calls
  /\ ProviderMayDie \in BOOLEAN

VARIABLES
  pc,        \* where CallMethod is
  fd,        \* clientfd
  failure,   \* the reason given to SetFailed, "none" if it was not called
  response,  \* bytes of the reply parsed into the response object
  conn,      \* the TCP connection
  sent,      \* request bytes the caller has sent
  taken,     \* request bytes OnMessage has retrieved
  rsp,       \* response bytes the provider has sent
  handler,   \* what the provider did with the request
  args,      \* bytes of arguments the service was called with
  runs,      \* number of times the service was called (history)
  provider   \* the provider process

callerVars   == <<pc, fd, failure, response>>
providerVars == <<taken, rsp, handler, args, runs>>
vars == <<pc, fd, failure, response, conn, sent, taken, rsp, handler, args, runs, provider>>

Ended == {"returned", "crashed", "exited"}
Running == {"lookup", "connect", "send", "recv"}

Reasons == {"serialize", "socket", "not_exist", "address", "connect",
            "send", "recv", "parse"}

(***************************************************************************)
(* conn[c] is the server's TcpConnection while the provider lives          *)
(* ("connected", "disconnecting" once shutdown was called, "disconnected"  *)
(* once the caller has closed), and what the caller's socket holds when    *)
(* the provider's process is gone ("fin" or "reset").                      *)
(***************************************************************************)
ConnStates == {"none", "connected", "disconnecting", "disconnected", "fin", "reset"}

TypeOK ==
  /\ pc \in [Calls -> {"start"} \union Running \union Ended]
  /\ fd \in [Calls -> {"none", "open", "closed"}]
  /\ failure \in [Calls -> Reasons \union {"none"}]
  /\ response \in [Calls -> 0 .. RspLen]
  /\ conn \in [Calls -> ConnStates]
  /\ sent \in [Calls -> {0, ReqLen}]
  /\ taken \in [Calls -> 0 .. ReqLen]
  /\ rsp \in [Calls -> {0, RspLen}]
  /\ handler \in [Calls -> {"none", "dropped", "running", "answered", "muted", "killed"}]
  /\ args \in [Calls -> 0 .. ArgsLen]
  /\ runs \in [Calls -> Nat]
  /\ provider \in {"registering", "serving", "down", "aborted"}

Init ==
  /\ pc = [c \in Calls |-> "start"]
  /\ fd = [c \in Calls |-> "none"]
  /\ failure = [c \in Calls |-> "none"]
  /\ response = [c \in Calls |-> 0]
  /\ conn = [c \in Calls |-> "none"]
  /\ sent = [c \in Calls |-> 0]
  /\ taken = [c \in Calls |-> 0]
  /\ rsp = [c \in Calls |-> 0]
  /\ handler = [c \in Calls |-> "none"]
  /\ args = [c \in Calls |-> 0]
  /\ runs = [c \in Calls |-> 0]
  /\ provider = "registering"

-----------------------------------------------------------------------------
(***************************************************************************)
(* The caller: MprpcChannel::CallMethod.                                   *)
(***************************************************************************)
Goto(c, to) == pc' = [pc EXCEPT ![c] = to]

\* Mutant: close is forgotten everywhere.
CloseNothing(c) == UNCHANGED fd

CloseFd(c) == fd' = [fd EXCEPT ![c] = "closed"]

\* controller->SetFailed(why); return.  Without a controller the call through
\* the null pointer ends the caller's process instead.
SetFailed(c, why) ==
  /\ failure' = [failure EXCEPT ![c] = why]
  /\ Goto(c, IF c \in NullController THEN "crashed" ELSE "returned")
  /\ UNCHANGED response

\* The request or the header does not serialize, or socket() fails.
BeginFails(c) ==
  /\ pc[c] = "start"
  /\ \E why \in {"serialize", "socket"} : SetFailed(c, why)
  /\ UNCHANGED <<fd, conn, sent, providerVars, provider>>

\* Request and header serialized, socket created.
Begin(c) ==
  /\ pc[c] = "start"
  /\ fd' = [fd EXCEPT ![c] = "open"]
  /\ Goto(c, "lookup")
  /\ UNCHANGED <<failure, response, conn, sent, providerVars, provider>>

\* zkCli.Start() ends the process when zookeeper_init fails.
StartExits(c) ==
  /\ pc[c] = "lookup"
  /\ Goto(c, "exited")
  /\ UNCHANGED <<fd, failure, response, conn, sent, providerVars, provider>>

\* GetData finds no node, or its data has no ':'.  The socket stays open.
LookupFails(c) ==
  /\ pc[c] = "lookup"
  /\ \E why \in {"not_exist", "address"} : SetFailed(c, why)
  /\ UNCHANGED <<fd, conn, sent, providerVars, provider>>

LookupSucceeds(c) ==
  /\ pc[c] = "lookup"
  /\ Goto(c, "connect")
  /\ UNCHANGED <<fd, failure, response, conn, sent, providerVars, provider>>

\* Mutant: connect failed and nobody closed the socket.
ConnectFailsOpen(c) ==
  /\ pc[c] = "connect"
  /\ SetFailed(c, "connect")
  /\ UNCHANGED <<fd, conn, sent, providerVars, provider>>

ConnectFails(c) ==
  /\ pc[c] = "connect"
  /\ CloseFd(c)
  /\ SetFailed(c, "connect")
  /\ UNCHANGED <<conn, sent, providerVars, provider>>

\* Only a provider past server.start() accepts.  Its OnConnection callback
\* does nothing for a new connection.
ConnectSucceeds(c) ==
  /\ pc[c] = "connect"
  /\ provider = "serving"
  /\ conn' = [conn EXCEPT ![c] = "connected"]
  /\ Goto(c, "send")
  /\ UNCHANGED <<fd, failure, response, sent, providerVars, provider>>

\* Mutant: a send that went out is taken for one that failed.
SendFailsLate(c) ==
  /\ pc[c] = "send"
  /\ sent' = [sent EXCEPT ![c] = ReqLen]
  /\ CloseFd(c)
  /\ SetFailed(c, "send")
  /\ UNCHANGED <<conn, providerVars, provider>>

SendFails(c) ==
  /\ pc[c] = "send"
  /\ CloseFd(c)
  /\ SetFailed(c, "send")
  /\ UNCHANGED <<conn, sent, providerVars, provider>>

\* A blocking send hands the whole request to TCP.  A peer that is gone
\* answers it with a reset, which recv meets, or is too early to meet.
SendSucceeds(c) ==
  /\ pc[c] = "send"
  /\ conn[c] # "reset"
  /\ sent' = [sent EXCEPT ![c] = ReqLen]
  /\ \/ UNCHANGED conn
     \/ conn[c] = "fin" /\ conn' = [conn EXCEPT ![c] = "reset"]
  /\ Goto(c, "recv")
  /\ UNCHANGED <<fd, failure, response, providerVars, provider>>

\* ParseFromArray over the n bytes one recv returned; either way the socket
\* is closed.
ParseResponse(c, n) ==
  /\ CloseFd(c)
  /\ \/ /\ Parses(n)
        /\ response' = [response EXCEPT ![c] = n]
        /\ Goto(c, "returned")
        /\ UNCHANGED failure
     \/ /\ ~Parses(n)
        /\ SetFailed(c, "parse")

\* recv returns the first bytes of the response that are there.
RecvBytes(c) ==
  /\ pc[c] = "recv"
  /\ rsp[c] > 0
  /\ \E n \in ReadSizes : ParseResponse(c, n)
  /\ UNCHANGED <<conn, sent, providerVars, provider>>

\* Mutant: a recv that does not wait, its "nothing yet" taken for the end.
RecvEndEarly(c) ==
  /\ pc[c] = "recv"
  /\ rsp[c] = 0
  /\ ParseResponse(c, 0)
  /\ UNCHANGED <<conn, sent, providerVars, provider>>

\* recv returns 0: the peer closed and there is nothing to read.
RecvEnd(c) ==
  /\ pc[c] = "recv"
  /\ rsp[c] = 0
  /\ conn[c] \in {"disconnecting", "fin"}
  /\ ParseResponse(c, 0)
  /\ UNCHANGED <<conn, sent, providerVars, provider>>

RecvFails(c) ==
  /\ pc[c] = "recv"
  /\ conn[c] = "reset"
  /\ CloseFd(c)
  /\ SetFailed(c, "recv")
  /\ UNCHANGED <<conn, sent, providerVars, provider>>

-----------------------------------------------------------------------------
(***************************************************************************)
(* The provider: RpcProvider.                                              *)
(***************************************************************************)

\* m_serviceMap.find(service_name), then m_methodMap.find(method_name).
Known(c) ==
  /\ Service[c] \in DOMAIN ServiceMap
  /\ Method[c] \in ServiceMap[Service[c]]

\* server.start() and the event loop, once the znodes have been created.
ServerStart ==
  /\ provider = "registering"
  /\ provider' = "serving"
  /\ UNCHANGED <<callerVars, conn, sent, providerVars>>

\* The process is gone: the kernel closes its sockets, with a reset when
\* request bytes were left unread, and no service call survives.
ProcessEnds(status) ==
  /\ provider' = status
  /\ conn' = [c \in Calls |->
                IF conn[c] \in {"connected", "disconnecting"}
                THEN IF taken'[c] < sent[c] THEN "reset" ELSE "fin"
                ELSE conn[c]]
  /\ handler' = [c \in Calls |-> IF handler[c] = "running" THEN "killed" ELSE handler[c]]

\* request bytes the network may have delivered beyond what was taken
Arrivals(c) == { n \in ReqCuts \union {ReqLen} : taken[c] < n /\ n <= sent[c] }

\* Mutant: peek instead of retrieveAllAsString.
Peek(c, n) == UNCHANGED taken

Retrieve(c, n) == taken' = [taken EXCEPT ![c] = n]

\* muduo calls OnMessage with what has arrived, also after shutdown(), which
\* closes only the write side, but not while the connection's loop thread is
\* in a service.
CanRead(c) ==
  /\ provider = "serving" /\ conn[c] \in {"connected", "disconnecting"}
  /\ handler[c] # "running"

\* An exception out of OnMessage ends the event-loop thread and the process.
OnMessageThrows(c) ==
  /\ CanRead(c)
  /\ \E n \in Arrivals(c) :
       /\ Throws(taken[c], n)
       /\ Retrieve(c, n)
  /\ ProcessEnds("aborted")
  /\ UNCHANGED <<callerVars, sent, rsp, args, runs>>

\* An early return: no answer, and the connection stays as it is.
OnMessageDrops(c) ==
  /\ CanRead(c)
  /\ \E n \in Arrivals(c) :
       /\ Drops(taken[c], n, Known(c))
       /\ Retrieve(c, n)
  /\ handler' = [handler EXCEPT ![c] = IF @ = "none" THEN "dropped" ELSE @]
  /\ UNCHANGED <<callerVars, conn, sent, rsp, args, runs, provider>>

\* Mutant: the offset of the arguments forgets the header.
DispatchesUnskipped(c) ==
  /\ CanRead(c)
  /\ \E n \in Arrivals(c) :
       /\ Dispatches(taken[c], n, Known(c))
       /\ Retrieve(c, n)
       /\ args' = [args EXCEPT ![c] = n - PrefixLen]
  /\ handler' = [handler EXCEPT ![c] = "running"]
  /\ runs' = [runs EXCEPT ![c] = @ + 1]
  /\ UNCHANGED <<callerVars, conn, sent, rsp, provider>>

\* service->CallMethod with the arguments that arrived.
OnMessageDispatches(c) ==
  /\ CanRead(c)
  /\ \E n \in Arrivals(c) :
       /\ Dispatches(taken[c], n, Known(c))
       /\ Retrieve(c, n)
       /\ args' = [args EXCEPT ![c] = n - HeaderEnd]
  /\ handler' = [handler EXCEPT ![c] = "running"]
  /\ runs' = [runs EXCEPT ![c] = @ + 1]
  /\ UNCHANGED <<callerVars, conn, sent, rsp, provider>>

\* TcpConnection::shutdown: only a connected connection changes state.
Shutdown(c) ==
  conn' = [conn EXCEPT ![c] = IF @ = "connected" THEN "disconnecting" ELSE @]

\* Mutant: the last shutdown moves into the branch that sends.
RespondsOrForgets(c) ==
  /\ provider = "serving"
  /\ handler[c] = "running"
  /\ \/ /\ rsp' = [rsp EXCEPT ![c] = RspLen]
        /\ handler' = [handler EXCEPT ![c] = "answered"]
        /\ Shutdown(c)
     \/ /\ handler' = [handler EXCEPT ![c] = "muted"]
        /\ UNCHANGED <<rsp, conn>>
  /\ UNCHANGED <<callerVars, sent, taken, args, runs, provider>>

\* The closure `done`, which the service runs before its method returns: the
\* response is serialized and sent, or it does not serialize; the connection is
\* shut down either way.  (The closure refers to a local variable of OnMessage,
\* and a service that kept it for later would call it with that gone.)
SendRpcRespond(c) ==
  /\ provider = "serving"
  /\ handler[c] = "running"
  /\ \/ /\ rsp' = [rsp EXCEPT ![c] = RspLen]
        /\ handler' = [handler EXCEPT ![c] = "answered"]
     \/ /\ handler' = [handler EXCEPT ![c] = "muted"]
        /\ UNCHANGED rsp
  /\ Shutdown(c)
  /\ UNCHANGED <<callerVars, sent, taken, args, runs, provider>>

\* OnConnection once the caller's side is closed; its shutdown() finds the
\* connection already disconnected.
OnConnection(c) ==
  /\ provider = "serving"
  /\ fd[c] = "closed"
  /\ conn[c] \in {"connected", "disconnecting"}
  /\ conn' = [conn EXCEPT ![c] = "disconnected"]
  /\ UNCHANGED <<callerVars, sent, providerVars, provider>>

\* The process is killed, or its service code fails.
ProviderDies ==
  /\ ProviderMayDie
  /\ provider \in {"registering", "serving"}
  /\ UNCHANGED <<callerVars, sent, taken, rsp, args, runs>>
  /\ ProcessEnds("down")

\* A new process enters RpcProvider::Run.
ProviderRestarts ==
  /\ provider \in {"down", "aborted"}
  /\ provider' = "registering"
  /\ UNCHANGED <<callerVars, conn, sent, providerVars>>

-----------------------------------------------------------------------------
CallerStep(c) ==
  \/ BeginFails(c)
  \/ Begin(c)
  \/ StartExits(c)
  \/ LookupFails(c)
  \/ LookupSucceeds(c)
  \/ ConnectFails(c)
  \/ ConnectSucceeds(c)
  \/ SendFails(c)
  \/ SendSucceeds(c)
  \/ RecvBytes(c)
  \/ RecvEnd(c)
  \/ RecvFails(c)

OnMessage(c) == OnMessageThrows(c) \/ OnMessageDrops(c) \/ OnMessageDispatches(c)

ConnectionStep(c) == OnMessage(c) \/ SendRpcRespond(c) \/ OnConnection(c)

ProcessStep == ServerStart \/ ProviderDies \/ ProviderRestarts

Next ==
  \/ \E c \in Calls : CallerStep(c) \/ ConnectionStep(c)
  \/ ProcessStep

Spec == Init /\ [][Next]_vars

(***************************************************************************)
(* The caller's thread keeps running once it has an address, the event     *)
(* loop delivers what has arrived, and a service runs its closure.  The    *)
(* ZooKeeper lookup is not fair (Start waits for a connection with no      *)
(* time-out), and nothing makes the provider start, die or come back.      *)
(***************************************************************************)
SocketStep(c) ==
  \/ ConnectFails(c) \/ ConnectSucceeds(c)
  \/ SendFails(c) \/ SendSucceeds(c)
  \/ RecvBytes(c) \/ RecvEnd(c) \/ RecvFails(c)

FairSpec ==
  /\ Spec
  /\ \A c \in Calls :
       WF_vars(SocketStep(c)) /\ WF_vars(OnMessage(c)) /\ WF_vars(SendRpcRespond(c))

-----------------------------------------------------------------------------
(***************************************************************************)
(* Properties.                                                             *)
(***************************************************************************)
Succeeded(c) == pc[c] = "returned" /\ failure[c] = "none"

AnsweredInFull(c) ==
  handler[c] = "answered" /\ args[c] = ArgsLen /\ response[c] = RspLen

\* A service runs at most once for one CallMethod, whatever is split, dropped
\* or answered late: OnMessage leaves nothing of a request behind to decode
\* again (rpc_provider.cc:128).
HandlerAtMostOnce == \A c \in Calls : runs[c] <= 1

\* CallMethod returns with its socket open on two paths only, the two failed
\* lookups; every later return closes it (mprpc_channel.cc:103-180).
LeakOnlyOnLookup ==
  \A c \in Calls :
    pc[c] = "returned" /\ fd[c] = "open" => failure[c] \in {"not_exist", "address"}

\* recv has no time-out.  A caller that waits while nothing can arrive any
\* more waits because OnMessage returned early on its request, never because
\* an answer, a shutdown or a dead provider went unnoticed.
NothingComing(c) ==
  /\ rsp[c] = 0 /\ conn[c] = "connected"
  /\ taken[c] = sent[c] /\ handler[c] # "running"

StuckOnlyIfDropped ==
  \A c \in Calls : pc[c] = "recv" /\ NothingComing(c) => handler[c] = "dropped"

\* When TCP delivers requests in one piece, OnMessage never throws and every
\* service call gets its arguments whole, also when there are none.
WholeRequests ==
  ReqCuts = {} =>
    /\ provider # "aborted"
    /\ \A c \in Calls : runs[c] > 0 => args[c] = ArgsLen

\* A response object a caller takes for good (Failed() is false) holds the
\* answer, or what one recv returned of it when the cut fell between two
\* fields, or nothing, when the provider closed the connection unanswered.
AcceptedReply ==
  \A c \in Calls : Succeeded(c) =>
    \/ handler[c] = "answered" /\ response[c] = RspLen
    \/ handler[c] = "answered" /\ response[c] \in ReadSizes \intersect RspFields
    \/ handler[c] # "answered" /\ response[c] = 0

\* A call that failed before its reply was parsed did not run the service, so
\* that making it again is safe.  A failed recv says so only of requests
\* delivered in one piece.
RetrySafe ==
  \A c \in Calls :
    failure[c] \notin {"none", "parse"} /\ (failure[c] = "recv" => ReqCuts = {})
      => runs[c] = 0

\* A caller that has an address gets out of CallMethod, unless its request was
\* dropped by one of OnMessage's early returns.
ReturnsOrDropped ==
  \A c \in Calls :
    pc[c] = "connect" ~> (pc[c] \in Ended \/ handler[c] = "dropped")

\* What the sample caller assumes (callfriendservice.cc:21-29): a call whose
\* controller reports no failure was answered, and the response object holds
\* the answer.
OkMeansAnswered == \A c \in Calls : Succeeded(c) => AnsweredInFull(c)

\* What SetFailed is for (mprpc_controller.h:22): a call that fails returns to
\* its caller with the reason.
FailureReported ==
  \A c \in Calls : failure[c] # "none" => pc[c] = "returned"

-----------------------------------------------------------------------------
(***************************************************************************)
(* The calls as their callers see them.                                    *)
(***************************************************************************)
Phases == [c \in Calls |-> IF pc[c] \in Ended THEN "over" ELSE "pending"]

Served == { c \in Calls : runs[c] > 0 }

Results ==
  [c \in Calls |->
     IF pc[c] # "returned" THEN "none"
     ELSE IF failure[c] # "none" THEN "failed"
     ELSE IF AnsweredInFull(c) THEN "answered" ELSE "hollow"]

Contract == INSTANCE RpcContract WITH phase <- Phases, served <- Served, result <- Results

\* CallMethod, OnMessage and SendRpcRespond together implement at-most-once
\* calls: no service runs twice for a call or after the call is over, and a
\* result, once returned, stays what it was.
AtMostOnceCalls == Contract!Spec
=============================================================================

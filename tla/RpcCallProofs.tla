--------------------------- MODULE RpcCallProofs ---------------------------
(***************************************************************************)
(* Proofs about RpcCall, for every number of calls, every shape of the     *)
(* messages, every way TCP may split them and every set of services: its   *)
(* state is well typed, IInv (RpcCallInv) is an inductive invariant, and   *)
(* the properties the runs check follow from it.                           *)
(***************************************************************************)
EXTENDS RpcCallInv, TLAPS

USE DEF PrefixLen

-----------------------------------------------------------------------------
(***************************************************************************)
(* Facts about the messages.                                               *)
(***************************************************************************)

\* The sizes are natural numbers and a request is never empty, whatever the
\* arguments are (mprpc_channel.cc:65-68).
LEMMA Sizes ==
  /\ ReqLen \in Nat \ {0} /\ HeaderEnd \in Nat \ {0}
  /\ RspLen \in Nat /\ ArgsLen \in Nat
  /\ ReqLen = HeaderEnd + ArgsLen
BY WireAssumption DEF ReqLen, HeaderEnd

\* What OnMessage may find in its buffer ends past what it took before and
\* inside the request (rpc_provider.cc:128).
LEMMA ArrivalsAdvance ==
  ASSUME TypeOK, NEW c \in Calls, NEW n \in Arrivals(c)
  PROVE  /\ n \in 1 .. ReqLen
         /\ taken[c] < n /\ n <= sent[c]
         /\ sent[c] = ReqLen
         /\ ReqCuts = {} => n = ReqLen
BY WireAssumption, Sizes DEF Arrivals, TypeOK

\* A dispatched read starts at the request's first byte, has the whole header
\* and ends at a field of the arguments (rpc_provider.cc:155, 199-200).
LEMMA DispatchedArgs ==
  ASSUME NEW from \in Nat, NEW to \in Nat, NEW known, Dispatches(from, to, known)
  PROVE  /\ from = 0
         /\ to - HeaderEnd \in 0 .. ArgsLen
         /\ to = ReqLen => to - HeaderEnd = ArgsLen
BY WireAssumption, Sizes DEF Dispatches

\* A request that arrives in one piece never makes OnMessage throw: the header
\* it announces is there (rpc_provider.cc:136, 155).
LEMMA WholeNeverThrows == ~Throws(0, ReqLen)
BY WireAssumption DEF Throws, ReqLen, HeaderEnd

-----------------------------------------------------------------------------
(***************************************************************************)
(* Type correctness.                                                       *)
(***************************************************************************)
LEMMA TypeCallerStep ==
  ASSUME TypeOK, NEW c \in Calls, CallerStep(c)
  PROVE  TypeOK'
<1> USE DEF TypeOK, Running, Ended, Reasons, ConnStates
<1>1. CASE BeginFails(c)
  BY <1>1 DEF BeginFails, SetFailed, Goto, providerVars
<1>2. CASE Begin(c)
  BY <1>2 DEF Begin, Goto, providerVars
<1>3. CASE StartExits(c)
  BY <1>3 DEF StartExits, Goto, providerVars
<1>4. CASE LookupFails(c)
  BY <1>4 DEF LookupFails, SetFailed, Goto, providerVars
<1>5. CASE LookupSucceeds(c)
  BY <1>5 DEF LookupSucceeds, Goto, providerVars
<1>6. CASE ConnectFails(c)
  BY <1>6 DEF ConnectFails, CloseFd, SetFailed, Goto, providerVars
<1>7. CASE ConnectSucceeds(c)
  BY <1>7 DEF ConnectSucceeds, Goto, providerVars
<1>8. CASE SendFails(c)
  BY <1>8 DEF SendFails, CloseFd, SetFailed, Goto, providerVars
<1>9. CASE SendSucceeds(c)
  BY <1>9 DEF SendSucceeds, Goto, providerVars
<1>10. ASSUME NEW n, ParseResponse(c, n), UNCHANGED <<conn, sent, providerVars, provider>>
       PROVE  TypeOK'
  <2>1. fd' \in [Calls -> {"none", "open", "closed"}]
    BY <1>10 DEF ParseResponse, CloseFd
  <2>2. CASE Parses(n) /\ response' = [response EXCEPT ![c] = n] /\ Goto(c, "returned")
               /\ UNCHANGED failure
    <3>1. n \in 0 .. RspLen
      BY <2>2, WireAssumption DEF Parses
    <3>2. response' \in [Calls -> 0 .. RspLen]
      BY <2>2, <3>1
    <3> QED  BY <1>10, <2>1, <2>2, <3>2 DEF Goto, providerVars
  <2>3. CASE SetFailed(c, "parse")
    BY <1>10, <2>1, <2>3 DEF SetFailed, Goto, providerVars
  <2> QED  BY <1>10, <2>2, <2>3 DEF ParseResponse
<1>11. CASE RecvBytes(c)
  BY <1>10, <1>11 DEF RecvBytes
<1>12. CASE RecvEnd(c)
  BY <1>10, <1>12 DEF RecvEnd
<1>13. CASE RecvFails(c)
  BY <1>13 DEF RecvFails, CloseFd, SetFailed, Goto, providerVars
<1> QED
  BY <1>1, <1>2, <1>3, <1>4, <1>5, <1>6, <1>7, <1>8, <1>9, <1>11, <1>12, <1>13
  DEF CallerStep

LEMMA TypeConnectionStep ==
  ASSUME TypeOK, NEW c \in Calls, ConnectionStep(c)
  PROVE  TypeOK'
<1> USE DEF TypeOK, ConnStates
<1>1. CASE OnMessageThrows(c)
  BY <1>1, ArrivalsAdvance
  DEF OnMessageThrows, Retrieve, ProcessEnds, callerVars
<1>2. CASE OnMessageDrops(c)
  BY <1>2, ArrivalsAdvance DEF OnMessageDrops, Retrieve, callerVars
<1>3. CASE OnMessageDispatches(c)
  <2>1. PICK n \in Arrivals(c) :
          /\ Dispatches(taken[c], n, Known(c))
          /\ Retrieve(c, n)
          /\ args' = [args EXCEPT ![c] = n - HeaderEnd]
    BY <1>3 DEF OnMessageDispatches
  <2>2. n \in 1 .. ReqLen /\ n - HeaderEnd \in 0 .. ArgsLen
    BY <2>1, ArrivalsAdvance, DispatchedArgs, Sizes
  <2> QED
    BY <1>3, <2>1, <2>2 DEF OnMessageDispatches, Retrieve, callerVars
<1>4. CASE SendRpcRespond(c)
  BY <1>4 DEF SendRpcRespond, Shutdown, callerVars
<1>5. CASE OnConnection(c)
  BY <1>5 DEF OnConnection, callerVars, providerVars
<1> QED
  BY <1>1, <1>2, <1>3, <1>4, <1>5 DEF ConnectionStep, OnMessage

LEMMA TypeProcessStep ==
  ASSUME TypeOK, ProcessStep
  PROVE  TypeOK'
<1> USE DEF TypeOK, ConnStates, callerVars, providerVars
<1>1. CASE ServerStart
  BY <1>1 DEF ServerStart
<1>2. CASE ProviderDies
  BY <1>2 DEF ProviderDies, ProcessEnds
<1>3. CASE ProviderRestarts
  BY <1>3 DEF ProviderRestarts
<1> QED
  BY <1>1, <1>2, <1>3 DEF ProcessStep

\* Every variable of RpcCall keeps its type, for every value of the constants:
\* offsets stay inside the messages whatever is read, split or dropped.
THEOREM TypeCorrect == Spec => []TypeOK
<1>1. Init => TypeOK
  BY Sizes DEF Init, TypeOK, ConnStates
<1>2. TypeOK /\ [Next]_vars => TypeOK'
  <2> SUFFICES ASSUME TypeOK, [Next]_vars PROVE TypeOK'
    OBVIOUS
  <2>1. CASE \E c \in Calls : CallerStep(c) \/ ConnectionStep(c)
    BY <2>1, TypeCallerStep, TypeConnectionStep
  <2>2. CASE ProcessStep
    BY <2>2, TypeProcessStep
  <2>3. CASE UNCHANGED vars
    BY <2>3 DEF vars, TypeOK
  <2> QED
    BY <2>1, <2>2, <2>3 DEF Next
<1> QED
  BY <1>1, <1>2, PTL DEF Spec

-----------------------------------------------------------------------------
(***************************************************************************)
(* The inductive invariant.  IInv says of each call something that depends *)
(* on that call's state and the provider's only, so that the steps divide  *)
(* in three: those of call d leave CallInv of the others as it is          *)
(* (Bystander), and keep d's own; the end and the start of the provider's  *)
(* process touch every call, in the same way.                              *)
(***************************************************************************)
Untouched(d) ==
  /\ pc'[d] = pc[d] /\ fd'[d] = fd[d] /\ failure'[d] = failure[d]
  /\ response'[d] = response[d] /\ conn'[d] = conn[d] /\ sent'[d] = sent[d]
  /\ taken'[d] = taken[d] /\ rsp'[d] = rsp[d] /\ handler'[d] = handler[d]
  /\ args'[d] = args[d] /\ runs'[d] = runs[d]

\* A step of another call that leaves the provider running cannot falsify what
\* the invariant says of d.
LEMMA Bystander ==
  ASSUME NEW d \in Calls, CallInv(d), Untouched(d), provider' = provider
  PROVE  CallInv(d)'
BY DEF CallInv, CallerInv, ConnInv, HandlerInv, WholeInv, OutcomeInv, Succeeded, Untouched

LEMMA CallerUntouched ==
  ASSUME TypeOK, NEW c \in Calls, CallerStep(c), NEW d \in Calls \ {c}
  PROVE  Untouched(d) /\ provider' = provider
BY DEF TypeOK, Untouched, CallerStep, BeginFails, Begin, StartExits, LookupFails,
       LookupSucceeds, ConnectFails, ConnectSucceeds, SendFails, SendSucceeds, RecvBytes,
       RecvEnd, RecvFails, ParseResponse, SetFailed, Goto, CloseFd, providerVars

\* CallMethod keeps the invariant for its own call.
LEMMA CallerKeeps ==
  ASSUME TypeOK, NEW c \in Calls, CallInv(c), CallerStep(c)
  PROVE  CallInv(c)'
<1> USE DEF TypeOK, CallInv, CallerInv, ConnInv, HandlerInv, WholeInv, OutcomeInv,
            Succeeded, Running, Ended
<1>1. CASE BeginFails(c)
  BY <1>1 DEF BeginFails, SetFailed, Goto, providerVars
<1>2. CASE Begin(c)
  BY <1>2 DEF Begin, Goto, providerVars
<1>3. CASE StartExits(c)
  BY <1>3 DEF StartExits, Goto, providerVars
<1>4. CASE LookupFails(c)
  BY <1>4 DEF LookupFails, SetFailed, Goto, providerVars
<1>5. CASE LookupSucceeds(c)
  BY <1>5 DEF LookupSucceeds, Goto, providerVars
<1>6. CASE ConnectFails(c)
  BY <1>6 DEF ConnectFails, CloseFd, SetFailed, Goto, providerVars
<1>7. CASE ConnectSucceeds(c)
  BY <1>7 DEF ConnectSucceeds, Goto, providerVars
<1>8. CASE SendFails(c)
  BY <1>8 DEF SendFails, CloseFd, SetFailed, Goto, providerVars
<1>9. CASE SendSucceeds(c)
  BY <1>9 DEF SendSucceeds, Goto, providerVars
<1>10. CASE RecvBytes(c)
  BY <1>10, Sizes DEF RecvBytes, ParseResponse, Parses, CloseFd, SetFailed, Goto, providerVars
<1>11. CASE RecvEnd(c)
  BY <1>11, Sizes DEF RecvEnd, ParseResponse, Parses, CloseFd, SetFailed, Goto, providerVars
<1>12. CASE RecvFails(c)
  BY <1>12 DEF RecvFails, CloseFd, SetFailed, Goto, providerVars
<1> QED
  BY <1>1, <1>2, <1>3, <1>4, <1>5, <1>6, <1>7, <1>8, <1>9, <1>10, <1>11, <1>12
  DEF CallerStep

LEMMA ConnectionUntouched ==
  ASSUME TypeOK, NEW c \in Calls, NEW d \in Calls \ {c},
         OnMessageDrops(c) \/ OnMessageDispatches(c) \/ SendRpcRespond(c) \/ OnConnection(c)
  PROVE  Untouched(d) /\ provider' = provider
BY DEF TypeOK, Untouched, OnMessageDrops, OnMessageDispatches, SendRpcRespond,
       OnConnection, Retrieve, Shutdown, callerVars, providerVars

\* The end of the provider's process keeps the invariant for every call: its
\* sockets are closed and its service calls are gone together.
LEMMA ProcessEndKeeps ==
  ASSUME TypeOK, TypeOK', NEW status \in {"down", "aborted"}, ProcessEnds(status),
         NEW d \in Calls, CallInv(d),
         UNCHANGED <<callerVars, sent, rsp, args, runs>>,
         taken'[d] # taken[d] =>
           /\ conn[d] \in {"connected", "disconnecting"}
           /\ taken'[d] \in 1 .. sent[d],
         ReqCuts = {} => status = "down" /\ taken'[d] = taken[d]
  PROVE  CallInv(d)'
<1> USE DEF TypeOK, CallInv, callerVars, ProcessEnds
<1>1. CallerInv(d)' /\ ConnInv(d)' /\ HandlerInv(d)'
  BY DEF CallerInv, ConnInv, HandlerInv
<1>2. WholeInv(d)'
  BY DEF WholeInv, HandlerInv
<1>3. OutcomeInv(d)'
  BY DEF OutcomeInv, Succeeded, HandlerInv
<1> QED
  BY <1>1, <1>2, <1>3

\* The provider's callbacks keep the invariant for the call whose connection
\* they are about.
LEMMA ConnectionKeeps ==
  ASSUME TypeOK, TypeOK', NEW c \in Calls, CallInv(c),
         OnMessageDrops(c) \/ OnMessageDispatches(c) \/ SendRpcRespond(c) \/ OnConnection(c)
  PROVE  CallInv(c)'
<1> USE DEF TypeOK, CallInv, CallerInv, ConnInv, HandlerInv, WholeInv, OutcomeInv,
            Succeeded, Running, Ended
<1>1. CASE OnMessageDrops(c)
  BY <1>1, ArrivalsAdvance, Sizes DEF OnMessageDrops, CanRead, Retrieve, callerVars
<1>2. CASE OnMessageDispatches(c)
  <2>1. PICK n \in Arrivals(c) :
          /\ Dispatches(taken[c], n, Known(c))
          /\ Retrieve(c, n)
          /\ args' = [args EXCEPT ![c] = n - HeaderEnd]
    BY <1>2 DEF OnMessageDispatches
  <2>2. /\ taken[c] = 0 /\ sent[c] = ReqLen /\ n \in 1 .. ReqLen
        /\ ReqCuts = {} => n = ReqLen /\ n - HeaderEnd = ArgsLen
    BY <2>1, ArrivalsAdvance, DispatchedArgs, Sizes
  <2> QED
    BY <1>2, <2>1, <2>2 DEF OnMessageDispatches, CanRead, Retrieve, callerVars
<1>3. CASE SendRpcRespond(c)
  BY <1>3 DEF SendRpcRespond, Shutdown, callerVars
<1>4. CASE OnConnection(c)
  BY <1>4 DEF OnConnection, callerVars, providerVars
<1> QED
  BY <1>1, <1>2, <1>3, <1>4

\* OnMessage throws only on a request that was split.
LEMMA ThrowsOnlySplit ==
  ASSUME TypeOK, NEW c \in Calls, CallInv(c), OnMessageThrows(c)
  PROVE  ReqCuts # {}
<1>1. SUFFICES ASSUME ReqCuts = {} PROVE FALSE
  OBVIOUS
<1>2. PICK n \in Arrivals(c) : Throws(taken[c], n)
  BY DEF OnMessageThrows
<1>3. n = ReqLen /\ taken[c] = 0
  BY <1>1, <1>2, ArrivalsAdvance DEF CallInv, WholeInv
<1> QED
  BY <1>2, <1>3, WholeNeverThrows

\* Its exception ends the process, and keeps the invariant for every call.
LEMMA ThrowKeeps ==
  ASSUME TypeOK, TypeOK', \A d \in Calls : CallInv(d), NEW c \in Calls, OnMessageThrows(c)
  PROVE  \A d \in Calls : CallInv(d)'
<1>1. PICK n \in Arrivals(c) : Throws(taken[c], n) /\ Retrieve(c, n)
  BY DEF OnMessageThrows
<1>2. taken[c] < n /\ n \in 1 .. sent[c]
  BY <1>1, ArrivalsAdvance
<1>3. \A d \in Calls : taken'[d] # taken[d] =>
        /\ conn[d] \in {"connected", "disconnecting"} /\ taken'[d] \in 1 .. sent[d]
  BY <1>1, <1>2 DEF OnMessageThrows, CanRead, Retrieve, TypeOK
<1> QED
  BY <1>3, ThrowsOnlySplit, ProcessEndKeeps DEF OnMessageThrows

LEMMA NoThrowKeeps ==
  ASSUME IInv, Next
  PROVE  NoThrow'
<1>1. ASSUME NEW c \in Calls, CallerStep(c) PROVE provider' = provider
  BY <1>1 DEF CallerStep, BeginFails, Begin, StartExits, LookupFails, LookupSucceeds,
     ConnectFails, ConnectSucceeds, SendFails, SendSucceeds, RecvBytes, RecvEnd, RecvFails
<1>2. ASSUME NEW c \in Calls, ConnectionStep(c) PROVE provider' = provider \/ ReqCuts # {}
  BY <1>2, ThrowsOnlySplit DEF IInv, ConnectionStep, OnMessage, OnMessageDrops,
     OnMessageDispatches, SendRpcRespond, OnConnection
<1>3. ASSUME ProcessStep PROVE provider' # "aborted"
  BY <1>3 DEF ProcessStep, ServerStart, ProviderDies, ProviderRestarts, ProcessEnds
<1> QED
  BY <1>1, <1>2, <1>3 DEF Next, NoThrow, IInv

LEMMA ProcessKeeps ==
  ASSUME TypeOK, TypeOK', \A d \in Calls : CallInv(d), ProcessStep
  PROVE  \A d \in Calls : CallInv(d)'
<1> TAKE d \in Calls
<1>1. CASE ServerStart
  BY <1>1 DEF ServerStart, callerVars, providerVars, CallInv, CallerInv, ConnInv, HandlerInv,
     WholeInv, OutcomeInv, Succeeded
<1>2. CASE ProviderDies
  BY <1>2, ProcessEndKeeps DEF ProviderDies
<1>3. CASE ProviderRestarts
  BY <1>3 DEF ProviderRestarts, callerVars, providerVars, CallInv, CallerInv, ConnInv,
     HandlerInv, WholeInv, OutcomeInv, Succeeded
<1> QED
  BY <1>1, <1>2, <1>3 DEF ProcessStep

\* IInv holds of every reachable state, whatever the constants are.
THEOREM Invariance == Spec => []IInv
<1>1. Init => IInv
  <2> SUFFICES ASSUME Init PROVE IInv
    OBVIOUS
  <2>1. TypeOK
    BY Sizes DEF Init, TypeOK, ConnStates
  <2>2. ASSUME NEW c \in Calls PROVE CallInv(c)
    BY Sizes DEF Init, CallInv, CallerInv, ConnInv, HandlerInv, WholeInv, OutcomeInv,
       Succeeded, Running, Ended
  <2>3. NoThrow
    BY DEF Init, NoThrow
  <2> QED
    BY <2>1, <2>2, <2>3 DEF IInv
<1>2. IInv /\ TypeOK' /\ [Next]_vars => IInv'
  <2> SUFFICES ASSUME IInv, TypeOK', [Next]_vars PROVE IInv'
    OBVIOUS
  <2>1. CASE UNCHANGED vars
    BY <2>1, Bystander DEF IInv, NoThrow, vars, Untouched
  <2>2. CASE Next
    <3>1. ASSUME NEW c \in Calls, NEW d \in Calls, CallerStep(c) PROVE CallInv(d)'
      BY <3>1, CallerKeeps, CallerUntouched, Bystander DEF IInv
    <3>2. ASSUME NEW c \in Calls, NEW d \in Calls, ConnectionStep(c) PROVE CallInv(d)'
      <4>1. CASE OnMessageThrows(c)
        BY <4>1, ThrowKeeps DEF IInv
      <4>2. CASE OnMessageDrops(c) \/ OnMessageDispatches(c) \/ SendRpcRespond(c) \/ OnConnection(c)
        BY <4>2, ConnectionKeeps, ConnectionUntouched, Bystander DEF IInv
      <4> QED
        BY <3>2, <4>1, <4>2 DEF ConnectionStep, OnMessage
    <3>3. ASSUME ProcessStep, NEW d \in Calls PROVE CallInv(d)'
      BY <3>3, ProcessKeeps DEF IInv
    <3> QED
      BY <2>2, <3>1, <3>2, <3>3, NoThrowKeeps DEF IInv, Next
  <2> QED
    BY <2>1, <2>2
<1> QED
  BY <1>1, <1>2, TypeCorrect, PTL DEF Spec

-----------------------------------------------------------------------------
(***************************************************************************)
(* The properties.                                                         *)
(***************************************************************************)

\* A service runs at most once for one CallMethod, however TCP splits the
\* request and whenever the provider dies (rpc_provider.cc:123-220).
THEOREM AtMostOnce == Spec => []HandlerAtMostOnce
<1>1. IInv => HandlerAtMostOnce
  BY DEF IInv, CallInv, HandlerInv, HandlerAtMostOnce
<1> QED
  BY <1>1, Invariance, PTL

\* CallMethod leaves its socket open only when the ZooKeeper lookup fails
\* (mprpc_channel.cc:103-115).
THEOREM LeaksOnlyOnLookup == Spec => []LeakOnlyOnLookup
<1>1. IInv => LeakOnlyOnLookup
  BY DEF IInv, CallInv, CallerInv, LeakOnlyOnLookup
<1> QED
  BY <1>1, Invariance, PTL

\* A caller blocked in recv with nothing on its way to it has had its request
\* dropped by an early return of OnMessage (rpc_provider.cc:152, 181, 190, 205).
THEOREM StuckOnlyAfterDrop == Spec => []StuckOnlyIfDropped
<1>1. IInv => StuckOnlyIfDropped
  BY Sizes DEF IInv, TypeOK, CallInv, CallerInv, ConnInv, HandlerInv, NothingComing,
     StuckOnlyIfDropped
<1> QED
  BY <1>1, Invariance, PTL

\* The missing framing of OnMessage is harmless to requests that TCP delivers
\* in one piece: none makes it throw, none is served with part of its
\* arguments (rpc_provider.cc:128-155).
THEOREM WholeRequestsSafe == Spec => []WholeRequests
<1>1. IInv => WholeRequests
  BY DEF IInv, NoThrow, CallInv, WholeInv, WholeRequests
<1> QED
  BY <1>1, Invariance, PTL

\* What a caller without a failure holds is the answer, a prefix of it that
\* one recv returned and that ends at a field, or nothing at all
\* (mprpc_channel.cc:156, 168).
THEOREM AcceptedReplies == Spec => []AcceptedReply
<1>1. IInv => AcceptedReply
  BY DEF IInv, CallInv, HandlerInv, OutcomeInv, AcceptedReply
<1> QED
  BY <1>1, Invariance, PTL

\* A failure reported before the reply is parsed means the service has not run
\* (mprpc_channel.cc:38-164).
THEOREM RetryIsSafe == Spec => []RetrySafe
<1>1. IInv => RetrySafe
  <2> SUFFICES ASSUME IInv, NEW c \in Calls,
                      failure[c] \notin {"none", "parse"},
                      failure[c] = "recv" => ReqCuts = {}
               PROVE  runs[c] = 0
    BY DEF RetrySafe
  <2>1. taken[c] = 0
    BY DEF IInv, TypeOK, Reasons, CallInv, HandlerInv, WholeInv, OutcomeInv
  <2> QED
    BY <2>1 DEF IInv, CallInv, HandlerInv
<1> QED
  BY <1>1, Invariance, PTL

-----------------------------------------------------------------------------
(***************************************************************************)
(* RpcCall implements RpcContract.                                         *)
(***************************************************************************)

\* What the contract sees of call d, before and after a step.
SameResult(d) ==
  Phases'[d] = Phases[d] /\ (d \in Served' <=> d \in Served) /\ Results'[d] = Results[d]

\* A step of the caller is the Return of its call when CallMethod ends in it,
\* and no step of the contract otherwise.
LEMMA CallerImplements ==
  ASSUME IInv, IInv', NEW c \in Calls, CallerStep(c)
  PROVE  [Contract!Next]_Contract!vars
<1>1. ASSUME NEW d \in Calls \ {c} PROVE SameResult(d)
  BY CallerUntouched DEF IInv, Untouched, SameResult, Phases, Served, Results, AnsweredInFull
<1>2. pc[c] \notin Ended /\ runs'[c] = runs[c]
  BY DEF CallerStep, BeginFails, Begin, StartExits, LookupFails, LookupSucceeds, ConnectFails,
     ConnectSucceeds, SendFails, SendSucceeds, RecvBytes, RecvEnd, RecvFails, Ended,
     providerVars
<1>3. CASE pc'[c] \notin Ended
  <2>1. SameResult(c)
    BY <1>2, <1>3 DEF SameResult, Phases, Served, Results, Ended
  <2>2. Phases' = Phases /\ Served' = Served /\ Results' = Results
    BY <1>1, <2>1 DEF SameResult, Phases, Served, Results
  <2> QED
    BY <2>2 DEF Contract!vars
<1>4. CASE pc'[c] \in Ended
  <2>1. PICK r : r = Results'[c]
    OBVIOUS
  <2>2. r \in {"answered", "failed", "hollow", "none"}
    BY <2>1 DEF Results
  <2>3. r = "answered" => c \in Served
    BY <1>2, <2>1 DEF Results, Served, AnsweredInFull, IInv, CallInv, HandlerInv
  <2>4. Phases[c] = "pending" /\ Phases' = [Phases EXCEPT ![c] = "over"]
    BY <1>1, <1>2, <1>4 DEF SameResult, Phases
  <2>5. Served' = Served
    BY <1>1, <1>2 DEF SameResult, Served
  <2>6. Results' = [Results EXCEPT ![c] = r]
    <3>1. \A d \in Calls : Results'[d] = IF d = c THEN r ELSE Results[d]
      BY <1>1, <2>1 DEF SameResult
    <3> QED
      BY <3>1 DEF Results
  <2>7. Contract!Return(c, r)
    BY <2>3, <2>4, <2>5, <2>6 DEF Contract!Return
  <2> QED
    BY <2>2, <2>7 DEF Contract!Next
<1> QED
  BY <1>3, <1>4

\* OnMessage calling a service is the contract's Serve.
LEMMA DispatchImplements ==
  ASSUME IInv, IInv', NEW c \in Calls, OnMessageDispatches(c)
  PROVE  Contract!Serve(c)
<1>1. pc[c] \notin Ended /\ runs[c] = 0
  <2>1. taken[c] = 0 /\ sent[c] = ReqLen
    BY ArrivalsAdvance, DispatchedArgs DEF OnMessageDispatches, IInv, TypeOK
  <2> QED
    BY <2>1, Sizes DEF OnMessageDispatches, CanRead, IInv, CallInv, ConnInv, HandlerInv
<1>2. Phases[c] = "pending" /\ Phases' = Phases
  BY <1>1 DEF OnMessageDispatches, callerVars, Phases
<1>3. c \notin Served /\ Served' = Served \union {c}
  BY <1>1 DEF OnMessageDispatches, Served, IInv, TypeOK
<1>4. Results' = Results
  BY <1>1 DEF OnMessageDispatches, callerVars, Results, AnsweredInFull, Ended, IInv, TypeOK
<1> QED
  BY <1>2, <1>3, <1>4 DEF Contract!Serve

\* The provider's other steps change nothing a caller was told.
LEMMA ProviderStutters ==
  ASSUME IInv,
         \/ ProcessStep
         \/ \E c \in Calls : OnMessageThrows(c) \/ OnMessageDrops(c) \/ SendRpcRespond(c) \/ OnConnection(c)
  PROVE  UNCHANGED Contract!vars
<1>1. pc' = pc /\ runs' = runs /\ failure' = failure /\ args' = args /\ response' = response
  BY DEF ProcessStep, ServerStart, ProviderDies, ProviderRestarts, OnMessageThrows,
     OnMessageDrops, SendRpcRespond, OnConnection, callerVars, providerVars
<1>2. \A d \in Calls : pc[d] = "returned" => (handler'[d] = "answered" <=> handler[d] = "answered")
  BY DEF IInv, TypeOK, CallInv, HandlerInv, ProcessStep, ServerStart, ProviderDies,
     ProviderRestarts, ProcessEnds, OnMessageThrows, OnMessageDrops, SendRpcRespond,
     OnConnection, providerVars
<1>3. Phases' = Phases /\ Served' = Served /\ Results' = Results
  BY <1>1, <1>2 DEF Phases, Served, Results, AnsweredInFull
<1> QED
  BY <1>3 DEF Contract!vars

\* Every behaviour of the caller, the provider and TCP between them is one of
\* at-most-once calls (mprpc_channel.cc:16-181 with rpc_provider.cc:123-240).
THEOREM ImplementsContract == Spec => AtMostOnceCalls
<1>1. Init => Contract!Init
  BY DEF Init, Contract!Init, Phases, Served, Results, Ended
<1>2. IInv /\ IInv' /\ [Next]_vars => [Contract!Next]_Contract!vars
  <2> SUFFICES ASSUME IInv, IInv', [Next]_vars PROVE [Contract!Next]_Contract!vars
    OBVIOUS
  <2>1. ASSUME NEW c \in Calls, CallerStep(c) PROVE [Contract!Next]_Contract!vars
    BY <2>1, CallerImplements
  <2>2. ASSUME NEW c \in Calls, OnMessageDispatches(c) PROVE [Contract!Next]_Contract!vars
    BY <2>2, DispatchImplements DEF Contract!Next
  <2>3. CASE UNCHANGED vars
    BY <2>3 DEF vars, Contract!vars, Phases, Served, Results, AnsweredInFull
  <2> QED
    BY <2>1, <2>2, <2>3, ProviderStutters DEF Next, ConnectionStep, OnMessage
<1> QED
  BY <1>1, <1>2, Invariance, PTL DEF Spec, AtMostOnceCalls, Contract!Spec
=============================================================================

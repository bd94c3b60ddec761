------------------------------ MODULE Marshal ------------------------------
(***************************************************************************)
(* What a call carries.  The stub, CallMethod's framing, OnMessage's       *)
(* decoding, the service's dispatch, the handler, SendRpcRespond and the   *)
(* parse of the reply, on real bytes: RpcCall has the same call with its   *)
(* connections, failures and other calls, and with its bytes abstracted to *)
(* the offsets of RpcWire.  The codec is a parameter here and the one of   *)
(* PbWire in MarshalCodec.                                                 *)
(*                                                                         *)
(* One provider is given service objects by NotifyService, in any order,   *)
(* and then serves one caller, which makes its calls one after another and *)
(* keeps one response object for each method.                              *)
(***************************************************************************)
EXTENDS Messages

CONSTANTS
  Objects,     \* the service objects given to NotifyService
  Class,       \* Class[o]: the service o implements
  Overrides,   \* Overrides[o]: the indices of the methods o overrides
  Samples,     \* the objects that are the samples' services; others may answer anything
  Stubs,       \* the services the caller has stubs of
  MaxCalls,    \* bound: calls made
  SerializeToString(_, _),   \* the bytes of a message of a class
  FieldEndsOf(_, _),         \* the offsets in them at which a field ends, 0 included
  InternalParse(_, _, _),    \* what a class makes of bytes read into a message:
                             \* whether they parse, and the message
  MergeFrom(_, _, _)         \* a message with the fields another one has

ASSUME MarshalAssumption ==
  /\ Samples \subseteq Objects
  /\ \A o \in Objects : Overrides[o] \subseteq DOMAIN Class[o].methods
  /\ MaxCalls \in Nat

\* A stub and the services of its name are generated from one .proto file, in
\* which no two methods have one name; one of the two may be newer.
ASSUME DescriptorAssumption ==
  /\ \A s \in Stubs : s.methods \in Seq(ToSet(s.methods))
  /\ \A o \in Objects : Class[o].methods \in Seq(ToSet(Class[o].methods))
  /\ \A s \in Stubs, o \in Objects : Class[o].name = s.name =>
       \A i \in DOMAIN s.methods, j \in DOMAIN Class[o].methods :
         s.methods[i].name = Class[o].methods[j].name =>
           /\ i = j
           /\ s.methods[i].input = Class[o].methods[j].input
           /\ s.methods[i].output = Class[o].methods[j].output

\* The responses the handler of method i of object o may build.
Answers(o, i) ==
  CASE Class[o].name = UserServiceRpc.name /\ i = 1 ->
         IF o \in Samples THEN {SampleLogin} ELSE LoginResponses
    [] Class[o].name = UserServiceRpc.name /\ i = 2 ->
         IF o \in Samples THEN {SampleRegister} ELSE RegisterResponses
    [] OTHER -> {SampleGetFriendsList}

-----------------------------------------------------------------------------
(***************************************************************************)
(* The codec.                                                              *)
(***************************************************************************)

\* Mutant: the old fields are not cleared first.
ParseOver(class, old, b) == InternalParse(class, old, b)

\* ParseFromString, ParseFromArray: Clear(), then _InternalParse.
ParseFromString(class, old, b) == InternalParse(class, Cleared(class), b)

\* A class parses what it wrote, and of a part of it what ends with a field.
RoundTrips(class, msg) ==
  LET bytes == SerializeToString(class, msg)
      ends  == FieldEndsOf(class, msg)
      parsed(n) == ParseFromString(class, Cleared(class), SubSeq(bytes, 1, n))
  IN /\ bytes \in Seq(0 .. 255)
     /\ {0, Len(bytes)} \subseteq ends /\ ends \subseteq 0 .. Len(bytes)
     /\ \A n \in 0 .. Len(bytes) : parsed(n).ok = (n \in ends)
     /\ parsed(Len(bytes)) = [ok |-> TRUE, msg |-> msg]

\* Cut where a field ends, both parts of a message parse, and merge into it.
MergesBack(class, msg) ==
  LET bytes == SerializeToString(class, msg)
      parsed(b) == ParseFromString(class, Cleared(class), b)
  IN \A n \in FieldEndsOf(class, msg) :
       LET rest == parsed(SubSeq(bytes, n + 1, Len(bytes))) IN
       rest.ok /\ MergeFrom(class, parsed(SubSeq(bytes, 1, n)).msg, rest.msg) = msg

\* Of the messages of a call: the requests, the headers in front of them, which
\* are not empty, and the responses.
ASSUME CodecAssumption ==
  /\ \A s \in Stubs : \A m \in ToSet(s.methods) : \A request \in m.requests :
       LET header == Header(s.name, m.name, Len(SerializeToString(m.input, request))) IN
       /\ RoundTrips(m.input, request)
       /\ RoundTrips(RpcHeader, header) /\ SerializeToString(RpcHeader, header) # <<>>
  /\ \A o \in Objects : \A i \in Overrides[o] : \A response \in Answers(o, i) :
       LET class == Class[o].methods[i].output IN
       RoundTrips(class, response) /\ MergesBack(class, response)

VARIABLES
  pc,          \* "notify", "ready", "sent", "answered", "returned", "stuck" or "aborted"
  notified,    \* objects given to NotifyService, in order (history)
  serviceMap,  \* m_serviceMap: service name -> the object kept for it
  calls,       \* calls begun
  call,        \* the current call: service, method index, request, its bytes
  served,      \* what ran for it: object, method index, request, response
  reply,       \* bytes of the response
  got,         \* how many of them recv returned
  responses,   \* the caller's response object for each method
  failed       \* whether CallMethod called SetFailed

vars == <<pc, notified, serviceMap, calls, call, served, reply, got, responses, failed>>

Keys == UNION { {s} \X DOMAIN s.methods : s \in Stubs }
Method(s, i) == s.methods[i]
Nothing == [none |-> TRUE]

Init ==
  /\ pc = "notify"
  /\ notified = <<>> /\ serviceMap = [x \in {} |-> Nothing]
  /\ calls = 0 /\ call = Nothing /\ served = Nothing
  /\ reply = <<>> /\ got = 0
  /\ responses = [k \in Keys |-> Cleared(Method(k[1], k[2]).output)]
  /\ failed = FALSE

-----------------------------------------------------------------------------
(***************************************************************************)
(* The provider's services.                                                *)
(***************************************************************************)

\* Mutant: the last object of a class replaces the others.
KeptLast(o) ==
  [x \in DOMAIN serviceMap \union {Class[o].name} |->
     IF x = Class[o].name THEN o ELSE serviceMap[x]]

\* m_serviceMap.insert leaves an entry alone: the first object of a class stays.
Kept(o) ==
  [x \in DOMAIN serviceMap \union {Class[o].name} |->
     IF x \in DOMAIN serviceMap THEN serviceMap[x] ELSE o]

NotifyService(o) ==
  /\ pc = "notify" /\ o \notin ToSet(notified)
  /\ notified' = Append(notified, o)
  /\ serviceMap' = Kept(o)
  /\ UNCHANGED <<pc, calls, call, served, reply, got, responses, failed>>

Run ==
  /\ pc = "notify"
  /\ pc' = "ready"
  /\ UNCHANGED <<notified, serviceMap, calls, call, served, reply, got, responses, failed>>

-----------------------------------------------------------------------------
(***************************************************************************)
(* The request on its way.                                                 *)
(***************************************************************************)
Byte == 256

\* Mutant: one side uses network byte order.
NetworkFixed32(n) ==
  <<n \div (Byte * Byte * Byte), (n \div (Byte * Byte)) % Byte, (n \div Byte) % Byte, n % Byte>>

\* header_size as the caller's memory holds it, little-endian as the provider's.
Fixed32(n) ==
  <<n % Byte, (n \div Byte) % Byte, (n \div (Byte * Byte)) % Byte, n \div (Byte * Byte * Byte)>>
FromFixed32(b) == b[1] + Byte * (b[2] + Byte * (b[3] + Byte * b[4]))

HeaderOf(m, name, args) == SerializeToString(RpcHeader, Header(name, m.name, Len(args)))

\* send_rpc_str: header_size, header, arguments.
Framed(name, m, request) ==
  LET args == SerializeToString(m.input, request)
      hdr  == HeaderOf(m, name, args)
  IN Fixed32(Len(hdr)) \o hdr \o args

\* The descriptor the stub's i-th method hands to CallMethod.
StubMethod(s, i) == Method(s, i)

CallMethod(s, i, request) ==
  /\ pc \in {"ready", "returned"} /\ calls < MaxCalls
  /\ calls' = calls + 1
  /\ call' = [service |-> s, index |-> i, request |-> request,
              bytes |-> Framed(s.name, StubMethod(s, i), request)]
  /\ pc' = "sent"
  /\ served' = Nothing /\ reply' = <<>> /\ got' = 0 /\ failed' = FALSE
  /\ UNCHANGED <<notified, serviceMap, responses>>

-----------------------------------------------------------------------------
(***************************************************************************)
(* OnMessage.                                                              *)
(***************************************************************************)
Outcome(what, o, i, request) == [what |-> what, object |-> o, index |-> i, request |-> request]
Throws == Outcome("throw", Nothing, 0, <<>>)
Drops  == Outcome("drop", Nothing, 0, <<>>)

Slice(b, from, n) ==   \* std::string::substr(from, n), from <= size()
  SubSeq(b, from + 1, IF from + n < Len(b) THEN from + n ELSE Len(b))

\* The method is known if i is not 0: its arguments are parsed.
DecodeArgs(o, i, bytes) ==
  LET input == Class[o].methods[i].input
      args  == ParseFromString(input, Cleared(input), bytes)
  IN IF i = 0 \/ ~args.ok THEN Drops ELSE Outcome("dispatch", o, i, args.msg)

\* The two maps' finds.
MethodIndex(o, name) == SelectInSeq(Class[o].methods, LAMBDA m : m.name = name)

FindMethod(header, bytes) ==
  LET o == serviceMap[header.service_name] IN
  IF header.service_name \notin DOMAIN serviceMap THEN Drops
  ELSE DecodeArgs(o, MethodIndex(o, header.method_name), bytes)

\* The header parses or not; then the second substr throws or not.
DecodeHeader(b, size, hdr) ==
  CASE ~hdr.ok                     -> Drops
    [] hdr.ok /\ Len(b) < 4 + size -> Throws
    [] OTHER -> FindMethod(hdr.msg, Slice(b, 4 + size, hdr.msg.args_size))

\* What OnMessage makes of the bytes b of one read.  An exception of substr's
\* is "throw" (of fewer than four bytes memcpy reads more than there are, and
\* the first substr throws in any case), an early return "drop".
Decode(b) ==
  LET size == FromFixed32(b) IN
  IF Len(b) < 4 THEN Throws
  ELSE DecodeHeader(b, size, ParseFromString(RpcHeader, Cleared(RpcHeader), Slice(b, 4, size)))

\* SendRpcRespond.
Responds(d, response) ==
  /\ served' = [object |-> d.object, index |-> d.index, request |-> d.request,
                response |-> response]
  /\ reply' = SerializeToString(Class[d.object].methods[d.index].output, response)
  /\ pc' = "answered"

\* The method protoc generated for one that the service does not override
\* calls controller->SetFailed, and the provider passes a null controller.
DefaultMethod(d) ==
  /\ pc' = "aborted"
  /\ UNCHANGED <<served, reply>>

\* service->CallMethod: the switch on the method's index.
Dispatch(d) ==
  \/ /\ d.index \in Overrides[d.object]
     /\ \E response \in Answers(d.object, d.index) : Responds(d, response)
  \/ d.index \notin Overrides[d.object] /\ DefaultMethod(d)

OnMessage ==
  /\ pc = "sent"
  /\ LET d == Decode(call.bytes) IN
       \/ d.what = "throw" /\ pc' = "aborted" /\ UNCHANGED <<served, reply>>
       \/ d.what = "drop" /\ pc' = "stuck" /\ UNCHANGED <<served, reply>>
       \/ d.what = "dispatch" /\ Dispatch(d)
  /\ UNCHANGED <<notified, serviceMap, calls, call, got, responses, failed>>

-----------------------------------------------------------------------------
(***************************************************************************)
(* The reply: recv returns the first n bytes of it, all or fewer.          *)
(***************************************************************************)
ParseResponse(n) ==
  /\ pc = "answered"
  /\ LET k == <<call.service, call.index>>
         r == ParseFromString(Method(k[1], k[2]).output, responses[k], SubSeq(reply, 1, n))
     IN /\ responses' = [responses EXCEPT ![k] = r.msg]
        /\ failed' = ~r.ok
  /\ got' = n
  /\ pc' = "returned"
  /\ UNCHANGED <<notified, serviceMap, calls, call, served, reply>>

Next ==
  \/ \E o \in Objects : NotifyService(o)
  \/ Run
  \/ \E k \in Keys : \E request \in Method(k[1], k[2]).requests :
       CallMethod(k[1], k[2], request)
  \/ OnMessage
  \/ \E n \in 0 .. Len(reply) : (n = 0 => reply = <<>>) /\ ParseResponse(n)

Spec == Init /\ [][Next]_vars

-----------------------------------------------------------------------------
(***************************************************************************)
(* Properties.                                                             *)
(***************************************************************************)

\* What runs is the method the stub named, on the object that was notified
\* first of its class, with the request the caller passed: across the framing,
\* the two parses and the two look-ups of OnMessage (rpc_provider.cc:128-219).
RequestArrives ==
  served # Nothing =>
    LET class == { n \in DOMAIN notified : Class[notified[n]].name = call.service.name } IN
    /\ served.index = call.index
    /\ served.request = call.request
    /\ served.object = notified[CHOOSE n \in class : \A x \in class : n <= x]

\* A well-formed request ends the provider only if it names a method the
\* service's author left unimplemented: the generated default reports through
\* the controller, which RpcProvider passes as null (rpc_provider.cc:219).
AbortsOnlyUnimplemented ==
  pc = "aborted" =>
    /\ call.service.name \in DOMAIN serviceMap
    /\ call.index \notin Overrides[serviceMap[call.service.name]]

\* A response accepted without a failure is what the handler built, less the
\* fields that had not arrived: nothing of an earlier call that used the same
\* response object is left in it, and nothing else is lost
\* (mprpc_channel.cc:153-178).
ResponseIsPart ==
  pc = "returned" /\ ~failed =>
    LET k == <<call.service, call.index>>
        class == Method(k[1], k[2]).output
        missing == ParseFromString(class, Cleared(class), SubSeq(reply, got + 1, Len(reply)))
    IN missing.ok /\ MergeFrom(class, responses[k], missing.msg) = served.response

\* The offsets RpcCall is checked and proved with are those of the codec: what
\* OnMessage makes of a read that stops anywhere in the request, and whether
\* a reply cut anywhere parses, is what RpcWire says of the ends of the fields.
Wire(header, input, request, output, response) ==
  INSTANCE RpcWire WITH
    HeaderLen <- Len(SerializeToString(RpcHeader, header)),
    HeaderFields <- FieldEndsOf(RpcHeader, header),
    ArgsLen <- Len(SerializeToString(input, request)),
    ArgsFields <- FieldEndsOf(input, request),
    RspLen <- Len(SerializeToString(output, response)),
    RspFields <- FieldEndsOf(output, response),
    ReqCuts <- {}, RspCuts <- {}

KnownMethod(s, name) ==
  /\ s.name \in DOMAIN serviceMap
  /\ \E m \in ToSet(Class[serviceMap[s.name]].methods) : m.name = name

WireIsOffsets ==
  LET s == call.service
      m == Method(s, call.index)
      h == Header(s.name, m.name, Len(SerializeToString(m.input, call.request)))
      known == KnownMethod(s, m.name)
      none == Cleared(m.output)
  IN /\ pc = "sent" =>
          \A n \in 1 .. Len(call.bytes) :
            LET what == Decode(SubSeq(call.bytes, 1, n)).what IN
            /\ what = "throw" <=> Wire(h, m.input, call.request, m.output, none)!Throws(0, n)
            /\ what = "drop" <=> Wire(h, m.input, call.request, m.output, none)!Drops(0, n, known)
            /\ what = "dispatch" <=>
                 Wire(h, m.input, call.request, m.output, none)!Dispatches(0, n, known)
     /\ pc = "returned" =>
          ~failed = Wire(h, m.input, call.request, m.output, served.response)!Parses(got)
=============================================================================

----------------------------- MODULE MarshalInv -----------------------------
(***************************************************************************)
(* The inductive invariant of Marshal: what m_serviceMap holds after any   *)
(* calls of NotifyService, what is on the wire, and what came back.        *)
(***************************************************************************)
EXTENDS Marshal

TypeOK ==
  /\ pc \in {"notify", "ready", "sent", "answered", "returned", "stuck", "aborted"}
  /\ notified \in Seq(Objects)
  /\ DOMAIN responses = Keys

\* The n-th object given to NotifyService is the first of service name x.
FirstOf(n, x) ==
  /\ Class[notified[n]].name = x
  /\ \A k \in 1 .. n - 1 : Class[notified[k]].name # x

\* The map knows every name that was notified, by its first object.
MapInv ==
  /\ \A n \in DOMAIN notified : Class[notified[n]].name \in DOMAIN serviceMap
  /\ \A x \in DOMAIN serviceMap :
       \E n \in DOMAIN notified : FirstOf(n, x) /\ serviceMap[x] = notified[n]

\* A call is of a stub's method, and its bytes are on the wire.
Called == {"sent", "answered", "returned", "stuck", "aborted"}
CallInv ==
  pc \in Called =>
    /\ call.service \in Stubs /\ call.index \in DOMAIN call.service.methods
    /\ LET m == Method(call.service, call.index) IN
         /\ call.request \in m.requests
         /\ call.bytes = Framed(call.service.name, m, call.request)

ServedInv ==
  /\ pc \notin {"answered", "returned"} => served = Nothing
  /\ RequestArrives

\* A handler of some service may build the response, of the class given.
Answered(class, response) ==
  \E o \in Objects : \E i \in Overrides[o] :
    class = Class[o].methods[i].output /\ response \in Answers(o, i)

\* The reply is the bytes of the response, in the class the stub parses.
ReplyInv ==
  pc \in {"answered", "returned"} =>
    LET class == Method(call.service, call.index).output IN
    Answered(class, served.response) /\ reply = SerializeToString(class, served.response)

\* The caller has what a part of the reply parses to.
ReturnedInv ==
  pc = "returned" =>
    LET class == Method(call.service, call.index).output
        parsed == ParseFromString(class, Cleared(class), SubSeq(reply, 1, got))
    IN /\ got \in 0 .. Len(reply)
       /\ failed = ~parsed.ok
       /\ responses[<<call.service, call.index>>] = parsed.msg

\* The inductive invariant (rpc_provider.cc:9-47 and 128-237,
\* mprpc_channel.cc:22-68 and 153-178).
MarshalInvariant ==
  /\ TypeOK /\ MapInv /\ CallInv /\ ServedInv /\ ReplyInv /\ ReturnedInv
  /\ AbortsOnlyUnimplemented
=============================================================================

------------------------------ MODULE RpcWire ------------------------------
(***************************************************************************)
(* The request and response formats of one remote call and what each end   *)
(* makes of the bytes one read hands it.  Nothing here changes state: the  *)
(* operators are the decoding rules that RpcCall's actions use.            *)
(*                                                                         *)
(*   request  = header_size (4 bytes) | RpcHeader | arguments              *)
(*   response = one protobuf message, with no length in front of it        *)
(*                                                                         *)
(* Bytes are abstracted to offsets.  What a protobuf parser does with a    *)
(* truncated message depends only on where the cut falls: on a field       *)
(* boundary it succeeds (proto3 has no required field) and leaves the      *)
(* missing fields unset, elsewhere it fails.  The ...Fields constants are  *)
(* those boundaries.                                                       *)
(***************************************************************************)
EXTENDS Integers

CONSTANTS
  HeaderLen,     \* bytes of a serialized RpcHeader
  HeaderFields,  \* offsets in the header at which a field ends, 0 included
  ArgsLen,       \* bytes of the serialized request message, may be 0
  ArgsFields,    \* offsets in the arguments at which a field ends
  RspLen,        \* bytes of the serialized response message, may be 0
  RspFields,     \* offsets in the response at which a field ends
  ReqCuts,       \* offsets at which TCP may split the request
  RspCuts        \* offsets at which TCP may split the response

PrefixLen == 4
RecvMax   == 1024
ReqLen    == PrefixLen + HeaderLen + ArgsLen

ASSUME WireAssumption ==
  /\ HeaderLen \in Nat \ {0} /\ ArgsLen \in Nat /\ RspLen \in Nat
  /\ {0, HeaderLen} \subseteq HeaderFields /\ HeaderFields \subseteq 0 .. HeaderLen
  /\ {0, ArgsLen} \subseteq ArgsFields /\ ArgsFields \subseteq 0 .. ArgsLen
  /\ {0, RspLen} \subseteq RspFields /\ RspFields \subseteq 0 .. RspLen
  /\ ReqCuts \subseteq 1 .. (ReqLen - 1)
  /\ RspCuts \subseteq 1 .. (RspLen - 1)

-----------------------------------------------------------------------------
(***************************************************************************)
(* The provider: RpcProvider::OnMessage takes everything that has arrived  *)
(* and decodes it as a whole request.  A read is the pair (from, to): the  *)
(* request's bytes from+1 .. to.  It has one of three outcomes, as an      *)
(* exception (substr past the end of the string), an early return or a     *)
(* call of the service.  A read that does not start at offset 0 interprets *)
(* argument or header bytes as a header_size, so its outcome is any of the *)
(* first two; that such bytes would happen to hold a complete, registered  *)
(* request of their own is left out.                                       *)
(***************************************************************************)
HeaderEnd == PrefixLen + HeaderLen

\* Mutant: a request without arguments is taken for one whose end is missing.
ThrowsAtEnd(from, to) ==
  \/ from > 0
  \/ to < PrefixLen
  \/ to <= HeaderEnd /\ to - PrefixLen \in HeaderFields

\* Shorter than the prefix: substr(4, ..) starts past the end.  Header cut on
\* a field boundary: it parses, and substr(4 + header_size, ..) starts past
\* the end.
Throws(from, to) ==
  \/ from > 0
  \/ to < PrefixLen
  \/ to < HeaderEnd /\ to - PrefixLen \in HeaderFields

\* The early returns: header does not parse, service or method not found,
\* arguments do not parse.
Drops(from, to, known) ==
  \/ from > 0 /\ to - from >= PrefixLen
  \/ from = 0 /\ PrefixLen <= to /\ to < HeaderEnd /\ to - PrefixLen \notin HeaderFields
  \/ from = 0 /\ HeaderEnd <= to /\ (~known \/ to - HeaderEnd \notin ArgsFields)

Dispatches(from, to, known) ==
  /\ from = 0 /\ HeaderEnd <= to
  /\ known
  /\ to - HeaderEnd \in ArgsFields

-----------------------------------------------------------------------------
(***************************************************************************)
(* The caller: one recv of at most RecvMax bytes, never repeated.          *)
(***************************************************************************)
Capped(n) == IF n < RecvMax THEN n ELSE RecvMax
ReadSizes == { Capped(n) : n \in (RspCuts \union {RspLen}) \ {0} }

\* Mutant: ParsePartialFromArray, or a result nobody tests.
ParsesAnything(n) == TRUE

Parses(n) == n \in RspFields
=============================================================================

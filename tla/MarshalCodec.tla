---------------------------- MODULE MarshalCodec ----------------------------
(***************************************************************************)
(* Marshal with the codec of the generated classes, Serialize, FieldEnds,  *)
(* ParseInto and Merge of PbWire, and what Marshal does not ask of one:    *)
(* that the size a class computes is the one it writes.                    *)
(***************************************************************************)
EXTENDS Marshal, PbWire

\* Every class computes its serialized size before it writes (ByteSizeLong),
\* and writes just that: the sizes in front of sub-messages and args_size
\* depend on it.
SizesAgree ==
  /\ call # Nothing =>
       LET m == Method(call.service, call.index) IN
       ByteSize(m.input, call.request) = Len(Serialize(m.input, call.request))
  /\ served # Nothing =>
       ByteSize(Class[served.object].methods[served.index].output, served.response) = Len(reply)
=============================================================================

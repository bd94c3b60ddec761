------------------------------- MODULE PbWire -------------------------------
(***************************************************************************)
(* The protobuf wire format as protoc's generated code reads and writes    *)
(* it.  The operators are the members every generated class has            *)
(* (RpcHeader's are the ones mapped); the schemas are in Messages.         *)
(***************************************************************************)
EXTENDS PbSchema

-----------------------------------------------------------------------------
(***************************************************************************)
(* Varints: seven bits a byte, the lowest first.  A negative int32 is      *)
(* extended to 64 bits, which takes ten bytes.                             *)
(***************************************************************************)
RECURSIVE VarintFrom(_, _)
VarintFrom(x, n) ==
  IF x \in 0 .. 127 THEN <<x>>
  ELSE IF n = 10 THEN <<1>>
  ELSE <<128 + (x % 128)>> \o VarintFrom(x \div 128, n + 1)

Varint(x) == VarintFrom(x, 1)

\* Mutant: a negative int32 is taken for five bytes.
VarintSize32(x) == IF x < 0 THEN 5 ELSE 1 + Cardinality({ k \in 1 .. 4 : x >= 128^k })

VarintSize(x) == IF x < 0 THEN 10 ELSE 1 + Cardinality({ k \in 1 .. 4 : x >= 128^k })

None == [ok |-> FALSE, val |-> <<>>, rest |-> <<>>]

\* The value of the varint of n bytes at the start of b, cut to 32 bits: the
\* fifth byte gives bits 28 to 31, the last of them the sign (a uint32 of 2^31
\* or more does not occur).
VarintValue(b, n) ==
  LET bits(i) == IF i > n THEN 0 ELSE b[i] % IF i < 5 THEN 128 ELSE 16
      top     == IF bits(5) < 8 THEN bits(5) ELSE bits(5) - 16
  IN FoldSet(LAMBDA i, v : v + bits(i) * 128^(i - 1), top * 128^4, 1 .. 4)

VarintAt(b, n) ==
  [ok |-> TRUE, val |-> VarintValue(b, n), rest |-> SubSeq(b, n + 1, Len(b))]

\* A varint is at most ten bytes.
ReadVarint(b) ==
  LET n == SelectInSeq(b, LAMBDA x : x < 128)
  IN IF n \in 1 .. 10 THEN VarintAt(b, n) ELSE None

-----------------------------------------------------------------------------
(***************************************************************************)
(* Serialization: the fields that differ from their defaults, in order,    *)
(* then the unknown ones.                                                  *)
(***************************************************************************)
Tag(f) == <<8 * f.num + WireType(f)>>
Delimited(f, b) == Tag(f) \o Varint(Len(b)) \o b

RECURSIVE Serialize(_, _)

\* The encodings of field f's value v: none, one, or one for each element.
Chunks(f, v) ==
  CASE f.kind = "repeated" -> [i \in DOMAIN v |-> Delimited(f, v[i])]
    [] v = Default(f)      -> <<>>
    [] f.kind = "bool"     -> <<Tag(f) \o <<1>> >>
    [] f.kind \in Numeric  -> <<Tag(f) \o Varint(v)>>
    [] f.kind = "bytes"    -> <<Delimited(f, v)>>
    [] f.kind = "message"  -> <<Delimited(f, Serialize(f.of, v[1]))>>

AllChunks(schema, m) ==
  FlattenSeq([i \in DOMAIN schema |-> Chunks(schema[i], m[schema[i].name])])

\* _InternalSerialize.
Serialize(schema, m) == FlattenSeq(AllChunks(schema, m)) \o m.unknown

\* The offsets at which a field of the serialized message ends, 0 included.
FieldEnds(schema, m) ==
  LET c == AllChunks(schema, m)
  IN { Len(FlattenSeq(SubSeq(c, 1, i))) : i \in 0 .. Len(c) }

\* ByteSizeLong, computed before serializing to size the buffer and the
\* lengths in front of sub-messages.
RECURSIVE ByteSize(_, _)
SizeOf(n) == VarintSize(n) + n
FieldSize(f, v) ==
  CASE f.kind = "repeated" -> FoldSeq(LAMBDA e, n : n + 1 + SizeOf(Len(e)), 0, v)
    [] v = Default(f)      -> 0
    [] f.kind = "bool"     -> 1 + 1
    [] f.kind \in Numeric  -> 1 + VarintSize(v)
    [] f.kind = "bytes"    -> 1 + SizeOf(Len(v))
    [] f.kind = "message"  -> 1 + SizeOf(ByteSize(f.of, v[1]))

ByteSize(schema, m) ==
  FoldSeq(LAMBDA f, n : n + FieldSize(f, m[f.name]), Len(m.unknown), schema)

-----------------------------------------------------------------------------
(***************************************************************************)
(* Parsing.  A message that does not parse keeps the fields read so far.   *)
(***************************************************************************)

\* So many bytes after a length.
Counted(len) ==
  IF ~len.ok \/ len.val \notin 0 .. Len(len.rest) THEN None
  ELSE [ok |-> TRUE, val |-> SubSeq(len.rest, 1, len.val),
        rest |-> SubSeq(len.rest, len.val + 1, Len(len.rest))]

\* What follows a tag: a varint, or a length and so many bytes.  Other wire
\* types are written by no field of these schemas.
ReadValue(wire, b) ==
  CASE wire = 0 -> ReadVarint(b)
    [] wire = 2 -> Counted(ReadVarint(b))
    [] OTHER    -> None

Parsed(m) == [ok |-> TRUE, msg |-> m]
Failed(m) == [ok |-> FALSE, msg |-> m]

RECURSIVE ParseInto(_, _, _)

\* A field's new value, from its old one and what was read.
Stored(f, old, v) ==
  CASE f.kind = "bool"     -> v # 0
    [] f.kind = "repeated" -> Append(old, v)
    [] f.kind = "message"  ->
         <<ParseInto(f.of, IF old = <<>> THEN Cleared(f.of) ELSE old[1], v).msg>>
    [] OTHER               -> v

ParsedWell(f, v) ==
  f.kind = "message" => ParseInto(f.of, Cleared(f.of), v).ok

\* The value v, read from b, of field f of message m, and the fields after it.
ParseField(schema, m, f, v) ==
  IF ~v.ok \/ ~ParsedWell(f, v.val) THEN Failed(m)
  ELSE ParseInto(schema, [m EXCEPT ![f.name] = Stored(f, @, v.val)], v.rest)

\* A field of another number or wire type is kept with the unknown ones.
ParseUnknown(schema, m, b, v) ==
  IF ~v.ok THEN Failed(m)
  ELSE ParseInto(schema, [m EXCEPT !.unknown = @ \o SubSeq(b, 1, Len(b) - Len(v.rest))], v.rest)

\* A message whose next tag is t.
ParseTagged(schema, m, b, t) ==
  LET i == SelectInSeq(schema, LAMBDA f : 8 * f.num + WireType(f) = t.val)
  IN CASE ~t.ok \/ t.val = 0        -> Failed(m)
       [] t.ok /\ t.val # 0 /\ i # 0 ->
            ParseField(schema, m, schema[i], ReadValue(t.val % 8, t.rest))
       [] t.ok /\ t.val # 0 /\ i = 0 ->
            ParseUnknown(schema, m, b, ReadValue(t.val % 8, t.rest))

\* _InternalParse: fields until the bytes are used up.
ParseInto(schema, m, b) ==
  IF b = <<>> THEN Parsed(m) ELSE ParseTagged(schema, m, b, ReadVarint(b))

-----------------------------------------------------------------------------
\* MergeFrom: from's fields that are set replace, or are appended to, into's.
RECURSIVE Merge(_, _, _)
MergeField(f, into, from) ==
  CASE f.kind = "repeated"                   -> into \o from
    [] f.kind # "repeated" /\ from = Default(f) -> into
    [] f.kind = "message" /\ from # <<>> /\ into # <<>> -> <<Merge(f.of, into[1], from[1])>>
    [] OTHER                                 -> from

Merge(schema, into, from) ==
  [x \in DOMAIN into |->
     IF x = "unknown" THEN into[x] \o from[x]
     ELSE MergeField(Named(schema, x), into[x], from[x])]
=============================================================================

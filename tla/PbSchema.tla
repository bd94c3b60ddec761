------------------------------ MODULE PbSchema ------------------------------
(***************************************************************************)
(* The classes protoc generates, for the field types this repository uses. *)
(* A message class is a schema, the sequence of its fields in the order of *)
(* their numbers; a message is a record of its fields' values and of the   *)
(* unknown fields it keeps.  An optional sub-message is the empty sequence *)
(* or a sequence of one.  Their bytes are in PbWire.                       *)
(***************************************************************************)
EXTENDS Integers, SequencesExt, FiniteSets

Field(num, kind, name, of) == [num |-> num, kind |-> kind, name |-> name, of |-> of]
Int32(num, name)       == Field(num, "int32", name, <<>>)
UInt32(num, name)      == Field(num, "uint32", name, <<>>)
Bool(num, name)        == Field(num, "bool", name, <<>>)
Bytes(num, name)       == Field(num, "bytes", name, <<>>)
RepeatedBytes(num, name) == Field(num, "repeated", name, <<>>)
Message(num, name, of) == Field(num, "message", name, of)

Numeric == {"int32", "uint32", "bool"}
WireType(f) == IF f.kind \in Numeric THEN 0 ELSE 2
Default(f) == IF f.kind = "bool" THEN FALSE ELSE IF f.kind \in Numeric THEN 0 ELSE <<>>
Named(schema, name) == schema[CHOOSE i \in DOMAIN schema : schema[i].name = name]
NamesOf(schema) == { schema[i].name : i \in DOMAIN schema }

\* Clear(), and what a constructor leaves.
Cleared(schema) ==
  [x \in NamesOf(schema) \union {"unknown"} |->
     IF x = "unknown" THEN <<>> ELSE Default(Named(schema, x))]
=============================================================================

--------------------------- MODULE SchemaWalkerMC ---------------------------
(***************************************************************************)
(* Documents for SchemaWalker.                                              *)
(***************************************************************************)
EXTENDS SchemaWalker

Scalar(type, text) == [type |-> type, text |-> text]
Field(key, value) == [key |-> <<key>>, value |-> value]
DottedField(key1, key2, value) == [key |-> <<key1, key2>>, value |-> value]
Document(fields) == [type |-> "document", fields |-> fields]
Array(items) == [type |-> "array", items |-> items]

One == Scalar("int32", "1")
LongOne == Scalar("int64", "1")
Two == Scalar("int32", "2")
Three == Scalar("int32", "3")
Word == Scalar("string", "x")
Null == Scalar("null", "")
NaN == Scalar("double", "NaN")

(* A missing field, types that change, numbers JSON does not tell apart,     *)
(* nulls inside arrays, elements without a field, arrays too long, nesting   *)
(* too deep, keys with a dot, more fields than paths.                        *)
SampleDocuments ==
    {Document(<<>>),
     Document(<<Field("a", One)>>),
     Document(<<Field("a", LongOne), Field("b", NaN)>>),
     Document(<<Field("a", Array(<<Null, Null, Two>>))>>),
     Document(<<Field("a", Array(<<Document(<<Field("b", Three)>>), Document(<<>>)>>))>>),
     Document(<<Field("a", Document(<<Field("b", Word)>>)), DottedField("a", "b", Null)>>),
     Document(<<DottedField("a", "b", Two), Field("a", Two)>>),
     Document(<<Field("b", Array(<<Array(<<
         Document(<<Field("c", Document(<<Field("d", Two)>>))>>)>>)>>))>>),
     Document(<<Field("c", Two), Field("d", Word), Field("b", Null)>>)}

(* The documents, what they are made of, and what those are made of. *)
PartsOf(value) ==
    CASE value.type = "document" -> {value.fields[i].value : i \in DOMAIN value.fields}
      [] value.type = "array" -> Range(value.items)
      [] OTHER -> {}
MCValues ==
    LET parts[n \in 0 .. 5] ==
            IF n = 0 THEN SampleDocuments
            ELSE parts[n - 1] \cup UNION {PartsOf(value) : value \in parts[n - 1]}
    IN parts[5]

MCStrings == {"", "1", "2", "3", "x", "NaN", "null", "a", "b", "c", "d", "[]"}
=============================================================================

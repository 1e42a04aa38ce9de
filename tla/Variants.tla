------------------------------ MODULE Variants -------------------------------
(***************************************************************************)
(* buildVariant(): the values of messages, which are plain JSON, as the    *)
(* typed values that OPC UA wants (lib/opcua-variant.js).                  *)
(*                                                                         *)
(* A value is a pair of its JavaScript kind and its content.  Contents are *)
(* tokens: the string "iso" stands for a timestamp, "id" and "uri" for     *)
(* node identifiers (the second with the URI of its namespace), "b64" for  *)
(* text in base64, and "plain" for any other text.  300 is the number that *)
(* is no byte; none is too large for an Int32.                             *)
(***************************************************************************)
EXTENDS SequencesExt, Integers

Missing == <<"undefined", "">>
Bool(b) == <<"bool", b>>
Num(n) == <<"num", n>>
Fraction == <<"fraction", "">>
Str(s) == <<"str", s>>
Arr(s) == <<"array", s>>
Date(d) == <<"date", d>>
Buf(b) == <<"buf", b>>
AutoType == "auto"
NullType == "Null"

IsArray(v) == v[1] = "array"
All(v, Test(_)) == \A x \in ToSet(v[2]) : Test(x)
IsInteger(v) == v[1] = "num"
IsNumber(v) == v[1] \in {"num", "fraction"}
Numbers == {0, 1, 300}
Digits == {ToString(n) : n \in Numbers}
Texts == Digits \cup {"true", "false", "iso", "id", "uri", "b64", "plain"}

DataType == {"Boolean", "Byte", "Int32", "Int64", "Double", "String", "DateTime",
             "ByteString", "NodeId", "ExpandedNodeId", "Variant"}

ASSUME NumeralsDiffer == \A m, n \in Numbers : ToString(m) = ToString(n) => m = n

(* The values of messages: scalars of these kinds, and arrays of them.      *)
IsScalar(v) ==
  /\ v = <<v[1], v[2]>>
  /\ \/ v[1] \in {"date", "buf", "uint8", "serial"}
     \/ v[1] \in {"num", "big"} /\ v[2] \in Numbers
     \/ v[1] = "str" /\ v[2] \in Texts
     \/ v[1] = "bool" /\ v[2] \in BOOLEAN
     \/ v[1] \in {"nodeid", "parsed"} /\ v[2] = "id"
     \/ v[1] = "expanded" /\ v[2] \in {"id", "uri"}
     \/ v = Fraction

IsValue(v) ==
  \/ IsScalar(v)
  \/ IsArray(v) /\ v[2] \in Seq(ToSet(v[2])) /\ v = Arr(v[2]) /\ All(v, IsScalar)

(* An object that carries a value, and maybe the type of it.                *)
IsCarrier(v) == v[1] = "carrier" /\ v = <<v[1], v[2]>> /\ IsValue(v[2].value)
IsMessageValue(v) == IsValue(v) \/ IsCarrier(v)
Carried(v) == IF v[1] = "carrier" THEN v[2].value ELSE v

HasFraction(v) == v = Fraction \/ (IsArray(v) /\ Fraction \in ToSet(v[2]))

(* What a coercion throws.                                                  *)
Invalid == <<"throws", "">>

-----------------------------------------------------------------------------
(* Coercion of a scalar.                                                    *)

(* Mutant: what JavaScript takes for true.                                  *)
Truthy(v) == IF v \in {Bool(FALSE), Num(0)} THEN Bool(FALSE) ELSE Bool(TRUE)

ToBoolean(v) ==
  CASE v[1] = "bool" -> v
    [] v \in {Num(1), Str("1"), Str("true")} -> Bool(TRUE)
    [] v \in {Num(0), Str("0"), Str("false")} -> Bool(FALSE)
    [] OTHER -> Invalid

ToText(v) ==
  CASE v[1] = "bool" -> Str(IF v[2] THEN "true" ELSE "false")
    [] v[1] = "num" -> Str(ToString(v[2]))
    [] v = Fraction -> Str("0.5")
    [] OTHER -> v

(* What JavaScript reads a date in.                                         *)
Parsed(s) == s \in Digits \cup {"iso"}
Epoch(v) == "epoch " \o (IF v = Fraction THEN "0.5" ELSE ToString(v[2]))
ToDate(v) ==
  CASE v[1] = "date" -> v
    [] IsNumber(v) -> Date(Epoch(v))
    [] v[1] = "str" /\ Parsed(v[2]) -> Date(v[2])
    [] OTHER -> Invalid

(* Four letters are base64 as well.                                         *)
IsBase64(s) == s \in {"b64", "true"}
IsByte(v) == v[1] = "num" /\ v[2] \in 0 .. 255
ToByteString(v) ==
  CASE v[1] = "buf" -> v
    [] v[1] \in {"uint8", "serial"} -> Buf(v[2])
    [] IsArray(v) /\ All(v, IsByte) -> Buf(ToString(v[2]))
    [] v[1] = "str" /\ IsBase64(v[2]) -> Buf(v[2])
    [] OTHER -> Invalid

ToNodeId(v) ==
  CASE v[1] = "nodeid" -> v
    [] v[1] \in {"str", "parsed"} /\ v[2] = "id" -> <<"nodeid", "id">>
    [] OTHER -> Invalid

ToExpandedNodeId(v) ==
  CASE v[1] = "expanded" -> v
    [] v[1] = "nodeid" -> <<"expanded", v[2]>>
    [] v[1] = "str" /\ v[2] \in {"id", "uri"} -> <<"expanded", v[2]>>
    [] OTHER -> Invalid

ToLong(v) == IF v[1] = "big" THEN Str(ToString(v[2])) ELSE v

CoerceScalar(t, v) ==
  CASE t = "Boolean" -> ToBoolean(v)
    [] t = "String" -> ToText(v)
    [] t = "DateTime" -> ToDate(v)
    [] t = "ByteString" -> ToByteString(v)
    [] t = "NodeId" -> ToNodeId(v)
    [] t = "ExpandedNodeId" -> ToExpandedNodeId(v)
    [] t = "Int64" -> ToLong(v)
    [] OTHER -> v

(* A number, or a numeric string, and the number that it is.                *)
IsNumeral(v) == v[1] = "num" \/ (v[1] = "str" /\ v[2] \in Digits)

Numeral(v) ==
  CASE v[1] \in {"num", "big"} -> v[2]
    [] v[1] = "str" -> CHOOSE n \in Numbers : ToString(n) = v[2]
    [] IsArray(v) -> IF v[2][1] = Num(0) THEN v[2][2][2] ELSE v[2]

(* What node-opcua takes for a value of a type: of an integer type, a       *)
(* number or a numeric string in its range (README.md:338).                 *)
Accepts(t, v) ==
  CASE t = "Boolean" -> v[1] = "bool"
    [] t = "Byte" -> IsNumeral(v) /\ Numeral(v) \in 0 .. 255
    [] t = "Int32" -> IsNumeral(v)
    [] t = "Int64" -> IsNumeral(v) \/ (IsArray(v) /\ Len(v[2]) = 2 /\ All(v, IsInteger))
    [] t = "Double" -> IsNumeral(v) \/ v = Fraction
    [] t = "String" -> v[1] = "str"
    [] t = "DateTime" -> v[1] = "date"
    [] t = "ByteString" -> v[1] = "buf"
    [] t = "NodeId" -> v[1] = "nodeid"
    [] t = "ExpandedNodeId" -> v[1] = "expanded"
    [] OTHER -> FALSE

-----------------------------------------------------------------------------
(* buildVariant().                                                          *)

Variant(t, isArray, v) == [ok |-> TRUE, type |-> t, array |-> isArray, value |-> v]
NoVariant == [ok |-> FALSE, type |-> NullType, array |-> FALSE, value |-> Missing]

IsKnown(t) == t \in DataType \cup {AutoType}

InferDataType(v) ==
  CASE v[1] = "bool" -> "Boolean"
    [] v[1] = "num" -> "Int32"
    [] v[1] = "fraction" -> "Double"
    [] v[1] = "str" -> "String"
    [] v[1] = "big" -> "Int64"
    [] v[1] = "date" -> "DateTime"
    [] v[1] \in {"buf", "serial"} -> "ByteString"
    [] OTHER -> NullType

FirstOf(v) == IF IsArray(v) THEN v[2][1] ELSE v
Resolve(t, v) == IF t = AutoType THEN InferDataType(FirstOf(v)) ELSE t

(* The bytes of a ByteString, or the two halves of an Int64.                *)
IsScalarArrayForm(t, v) ==
  \/ t = "ByteString" /\ All(v, IsNumber)
  \/ t = "Int64" /\ Len(v[2]) = 2 /\ All(v, IsInteger)

AsArray(t, v) == IsArray(v) /\ ~IsScalarArrayForm(t, v)

BuildAs(t, v) ==
  LET isArray == AsArray(t, v)
      Coerce(x) == CoerceScalar(t, x)
      converted == IF isArray THEN Arr([i \in DOMAIN v[2] |-> Coerce(v[2][i])]) ELSE Coerce(v)
      Fits(x) == Accepts(t, x)
  IN IF IF isArray THEN All(converted, Fits) ELSE Fits(converted)
     THEN Variant(t, isArray, converted) ELSE NoVariant

(* With no type to go on, node-opcua makes a Null of it.                    *)
BuildOf(t, v) == IF t = NullType THEN Variant(t, IsArray(v), Missing) ELSE BuildAs(t, v)

(* The type "Variant" stands for the one that the value carries, or has.    *)
BuildVariant(v, t) ==
  CASE ~IsKnown(t) -> NoVariant
    [] t = "Variant" /\ v[1] = "carrier" -> BuildOf(Resolve(v[2].type, v[2].value), v[2].value)
    [] t = "Variant" /\ v[1] # "carrier" -> BuildOf(Resolve(AutoType, v), v)
    [] OTHER -> BuildOf(Resolve(t, v), v)

-----------------------------------------------------------------------------
(* What a message value stands for, type by type: the reference.            *)

IsLong(v) ==
  \/ IsNumeral(v) \/ v[1] = "big"
  \/ IsArray(v) /\ Len(v[2]) = 2 /\ All(v, IsInteger)

(* Is w the value of type t that v stands for?                              *)
StandsFor(t, v, w) ==
  CASE t = "Boolean" ->
         \/ v[1] = "bool" /\ w = v
         \/ v \in {Num(1), Str("1"), Str("true")} /\ w = Bool(TRUE)
         \/ v \in {Num(0), Str("0"), Str("false")} /\ w = Bool(FALSE)
    [] t = "Byte" -> IsNumeral(v) /\ Numeral(v) \in 0 .. 255 /\ IsNumeral(w) /\ Numeral(w) = Numeral(v)
    [] t = "Int32" -> IsNumeral(v) /\ IsNumeral(w) /\ Numeral(w) = Numeral(v)
    [] t = "Double" ->
         \/ v = Fraction /\ w = v
         \/ IsNumeral(v) /\ IsNumeral(w) /\ Numeral(w) = Numeral(v)
    [] t = "Int64" -> IsLong(v) /\ Numeral(w) = Numeral(v)
    [] t = "String" ->
         \/ v[1] = "str" /\ w = v
         \/ v[1] = "bool" /\ w = Str(IF v[2] THEN "true" ELSE "false")
         \/ v[1] = "num" /\ w[1] = "str" /\ IsNumeral(w) /\ Numeral(w) = v[2]
         \/ v = Fraction /\ w = Str("0.5")
    [] t = "DateTime" ->
         \/ v[1] = "date" /\ w = v
         \/ v[1] = "str" /\ Parsed(v[2]) /\ w = Date(v[2])
         \/ IsNumber(v) /\ w = Date(Epoch(v))
    [] t = "ByteString" ->
         \/ v[1] \in {"buf", "uint8", "serial"} /\ w = Buf(v[2])
         \/ v[1] = "str" /\ IsBase64(v[2]) /\ w = Buf(v[2])
         \/ IsArray(v) /\ All(v, IsByte) /\ w = Buf(ToString(v[2]))
    [] t = "NodeId" -> v \in {<<"nodeid", "id">>, <<"parsed", "id">>, Str("id")} /\ w = <<"nodeid", "id">>
    [] t = "ExpandedNodeId" ->
         v[1] \in {"nodeid", "expanded", "str"} /\ v[2] \in {"id", "uri"} /\ w = <<"expanded", v[2]>>
    [] OTHER -> FALSE

=============================================================================

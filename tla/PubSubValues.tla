---------------------------- MODULE PubSubValues ----------------------------
(***************************************************************************)
(* Values, as a flow passes them and as a wire carries them.               *)
(*                                                                         *)
(* A JavaScript value is a pair of its kind and its content.  The content  *)
(* of a string is a number: n >= 0 stands for the decimal digits of n, and *)
(* n < 0 for some other text of -n bytes.  What may be missing is a        *)
(* sequence of length at most one.                                         *)
(***************************************************************************)
EXTENDS SequencesExt, Integers

CONSTANTS U8, U16, U32, U64     \* the greatest unsigned value of each width

ASSUME WidthsAssumption == {U8, U16, U32, U64} \subseteq Nat

Missing == <<"undefined", 0>>
Null == <<"null", 0>>
NaN == <<"nan", 0>>
Num(n) == <<"num", n>>
Half == <<"half", 0>>           \* a number that is no integer: 0.5
Big(n) == <<"big", n>>
Bool(b) == <<"bool", b>>        \* 0 or 1
Str(n) == <<"str", n>>
Date(n) == <<"date", n>>
Buf(n) == <<"buf", n>>          \* n bytes
Guid(c) == <<"guid", c>>        \* a string, in "lower" or "upper" case
NodeId(n) == <<"nodeid", n>>
Arr(s) == <<"array", s>>

IsArray(v) == v[1] = "array"
Has(o) == o # <<>>
Get(o) == o[1]
Or(o, default) == IF Has(o) THEN Get(o) ELSE default
When(c, s) == IF c THEN s ELSE <<>>
Reason(c, r) == IF c THEN {r} ELSE {}

Digits(n) == IF n < 10 THEN 1 ELSE IF n < 1000 THEN 3 ELSE 5
BytesOf(v) ==
  CASE v[1] = "str" -> IF v[2] < 0 THEN -v[2] ELSE Digits(v[2])
    [] v[1] = "guid" -> 36
    [] v[1] = "buf" -> v[2]
    [] v = Null -> 0

(* A scalar is such a pair; a number, a text and a buffer hold a number,     *)
(* and arrays are sequences.                                                *)
IsSequence(s) == s \in Seq(ToSet(s))
IsScalar(v) ==
  /\ v = <<v[1], v[2]>>
  /\ v[1] \in {"num", "big", "str"} => v[2] \in Int
  /\ v[1] = "bool" => v[2] \in {0, 1}
  /\ v[1] = "buf" => v[2] \in Nat
  /\ v[1] = "null" => v = Null
IsValue(v) ==
  IF IsArray(v) THEN IsSequence(v[2]) /\ \A s \in ToSet(v[2]) : IsScalar(s) ELSE IsScalar(v)

-----------------------------------------------------------------------------
(* The built-in types.                                                      *)

Width == [Boolean |-> 1, SByte |-> 1, Byte |-> 1, Int16 |-> 2, UInt16 |-> 2,
          Int32 |-> 4, UInt32 |-> 4, Int64 |-> 8, UInt64 |-> 8, Float |-> 4,
          Double |-> 8, DateTime |-> 8, Guid |-> 16, StatusCode |-> 4]
BUILTIN_TYPE == DOMAIN Width \cup {"String", "ByteString"}
UA_TYPE == BUILTIN_TYPE \cup {"NodeId"}
Short == {"SByte", "Byte", "Int16", "UInt16", "Int32", "UInt32"}
Long == {"Int64", "UInt64"}

Greatest(w) == CASE w = 1 -> U8 [] w = 2 -> U16 [] w = 4 -> U32 [] w = 8 -> U64
InRange(t, n) ==
  LET g == Greatest(Width[t]) IN
  IF t \in {"SByte", "Int16", "Int32", "Int64"} THEN n \in -((g + 1) \div 2) .. (g \div 2)
  ELSE n \in 0 .. g

(* The number that a writer of Buffer makes of what it is given.            *)
ToNumber(v) ==
  CASE v[1] \in {"num", "bool"} -> v
    [] v = Null -> Num(0)
    [] v[1] = "str" /\ v[2] >= 0 -> Num(v[2])
    [] OTHER -> NaN

(* Does writing the scalar throw?                                           *)
Throws(t, v) ==
  CASE t = "Boolean" -> FALSE
    [] t \in Short \cup {"Float", "Double", "StatusCode"} ->
         \/ v[1] = "big"
         \/ t \in Short /\ ToNumber(v) # NaN /\ ~InRange(t, ToNumber(v)[2])
    [] t \in Long ->
         \/ v[1] \notin {"num", "bool", "big", "str"}
         \/ v[1] = "str" /\ v[2] < 0
         \/ ~InRange(t, v[2])
    [] t = "String" -> v[1] \notin {"str", "guid", "null"}
    [] t = "ByteString" -> v[1] \notin {"buf", "null"}
    [] t = "DateTime" -> v[1] # "date"
    [] t = "Guid" -> v[1] # "guid"
    [] OTHER -> TRUE

Truthy(v) == v \notin {Null, NaN, Num(0), Bool(0), Big(0)}

(* _writeVariantScalar(): what is on the wire.                              *)
Written(t, v) ==
  CASE t = "Boolean" -> Bool(IF Truthy(v) THEN 1 ELSE 0)
    [] t \in Short -> Num(IF ToNumber(v) = NaN THEN 0 ELSE ToNumber(v)[2])
    [] t \in Long -> Big(v[2])
    [] t \in {"Float", "Double"} -> IF ToNumber(v) = NaN THEN NaN ELSE Num(ToNumber(v)[2])
    [] t = "StatusCode" -> Num(IF ToNumber(v) = NaN THEN 0 ELSE ToNumber(v)[2] % (U32 + 1))
    [] OTHER -> v

(* _readVariantScalar(): a GUID is printed anew, in capitals.               *)
ReadBack(t, w) == IF t = "Guid" THEN Guid("upper") ELSE w

ScalarBytes(t, w) == IF t \in DOMAIN Width THEN Width[t] ELSE 4 + BytesOf(w)

-----------------------------------------------------------------------------
(* What a field may hold, and when two values are the same to a reader.     *)

Fits(t, v) ==
  CASE t = "Boolean" -> v[1] = "bool"
    [] t \in Short -> v[1] = "num" /\ InRange(t, v[2])
    [] t \in Long -> v[1] \in {"num", "big"} /\ InRange(t, v[2])
    [] t \in {"Float", "Double"} -> v[1] = "num"
    [] t = "StatusCode" -> v[1] = "num" /\ v[2] \in 0 .. U32
    [] t = "String" -> v[1] \in {"str", "guid", "null"}
    [] t = "ByteString" -> v[1] \in {"buf", "null"}
    [] t = "DateTime" -> v[1] = "date"
    [] t = "Guid" -> v[1] = "guid"
    [] t = "NodeId" -> v[1] = "nodeid"
    [] OTHER -> FALSE

WellTyped(t, v) == IF IsArray(v) THEN \A i \in DOMAIN v[2] : Fits(t, v[2][i]) ELSE Fits(t, v)

SameScalar(t, v, w) ==
  \/ v = w
  \/ t = "Guid" /\ w[1] = "guid"
  \/ t \in Long /\ w = Big(v[2])
SameValue(t, v, w) ==
  /\ IsArray(v) <=> IsArray(w)
  /\ IF IsArray(v)
     THEN Len(v[2]) = Len(w[2]) /\ \A i \in DOMAIN v[2] : SameScalar(t, v[2][i], w[2][i])
     ELSE SameScalar(t, v, w)

=============================================================================

-------------------------------- MODULE Items --------------------------------
(***************************************************************************)
(* LwM2M data, lwm2m_data_t (data/data.c).  An item has an id, a type and a *)
(* value: a value of Values, a string of bytes, <<0>> or <<1>> for a       *)
(* boolean, the two ids of a link, or the items below it.  "Nothing" is    *)
(* what a decoder gives that does not know the type.                       *)
(***************************************************************************)
EXTENDS Values

Item(id, type, value) == [id |-> id, type |-> type, value |-> value]

Buffers == {"string", "opaque", "corelink"}
Containers == {"instance", "multiple"}
Leaves == Buffers \cup {"int", "uint", "float", "bool", "link"}
Numbers == {"int", "uint", "float"}

Nothing == <<>>

\* lwm2m_data_decode_int
DecodeInt(item) ==
  CASE item.type = "int" -> item.value
    [] item.type = "uint" /\ ~IsNegative(item.value) -> item.value
    [] item.type = "string" -> TextToInt(item.value)
    [] item.type = "opaque" /\ Len(item.value) \in {1, 2, 4, 8} -> Signed(item.value)
    [] OTHER -> Nothing

\* lwm2m_data_decode_uint
DecodeUint(item) ==
  CASE item.type = "uint" -> item.value
    [] item.type = "int" /\ ~IsNegative(item.value) -> item.value
    [] item.type = "string" -> TextToUint(item.value)
    [] item.type = "opaque" /\ Len(item.value) \in {1, 2, 4, 8} -> Unsigned(item.value)
    [] OTHER -> Nothing

\* lwm2m_data_decode_float: of an integer only a small one is followed.
DecodeFloat(item) ==
  CASE item.type = "float" -> item.value
    [] item.type = "string" /\ IsFloatText(item.value) -> TextToFloat(item.value)
    [] item.type = "opaque" /\ Len(item.value) = 4 -> OfFloat(item.value)
    [] item.type = "opaque" /\ Len(item.value) = 8 -> OfDouble(item.value)
    [] OTHER -> Nothing

\* lwm2m_data_decode_bool
DecodeBool(item) ==
  CASE item.type = "bool" -> item.value
    [] item.type = "string" /\ item.value \in {<<48>>, <<49>>} -> <<item.value[1] - 48>>
    [] item.type = "opaque" /\ item.value \in {<<0>>, <<1>>} -> item.value
    [] OTHER -> Nothing
=============================================================================

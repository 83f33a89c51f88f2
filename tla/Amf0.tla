------------------------------- MODULE Amf0 -------------------------------
(***************************************************************************)
(* The AMF0 codec (rss_core_amf0.cpp) over the byte stream (RssStream,    *)
(* rss_core_stream.cpp).  The packets built on it are in Packets, and the *)
(* onMetaData relay in MetaData.                                           *)
(*                                                                         *)
(* Bytes are naturals 0..255 and a buffer is a sequence of them; a cursor *)
(* is the code's offset p - bytes (0-based).  A value is a record of the *)
(* same shape for every type: marker, val (the bytes of a string, the    *)
(* 8 bytes of a number, <<0>> or <<1>> for a boolean), props (a sequence  *)
(* of <<key, value>> pairs, the RssUnSortedHashtable) and count (the      *)
(* ecma array's associative-count).                                        *)
(***************************************************************************)
EXTENDS Integers, Sequences, SequencesExt

\* the markers of rss_core_amf0.cpp
RTMP_AMF0_Number == 0
RTMP_AMF0_Boolean == 1
RTMP_AMF0_String == 2
RTMP_AMF0_Object == 3
RTMP_AMF0_Null == 5
RTMP_AMF0_Undefined == 6
RTMP_AMF0_EcmaArray == 8
RTMP_AMF0_ObjectEnd == 9

Val(m, v, ps, c) == [marker |-> m, val |-> v, props |-> ps, count |-> c]
Str(s) == Val(RTMP_AMF0_String, s, <<>>, 0)
Bool(b) == Val(RTMP_AMF0_Boolean, <<IF b THEN 1 ELSE 0>>, <<>>, 0)
Num(bits) == Val(RTMP_AMF0_Number, bits, <<>>, 0)
NullV == Val(RTMP_AMF0_Null, <<>>, <<>>, 0)
UndefV == Val(RTMP_AMF0_Undefined, <<>>, <<>>, 0)
EofV == Val(RTMP_AMF0_ObjectEnd, <<>>, <<>>, 0)
Obj(ps) == Val(RTMP_AMF0_Object, <<>>, ps, 0)
Ecma(c, ps) == Val(RTMP_AMF0_EcmaArray, <<>>, ps, c)
\* the NULL a failed lookup returns
NoValue == Val(-1, <<>>, <<>>, 0)

-----------------------------------------------------------------------------
(* RssUnSortedHashtable                                                    *)

IndexOf(ps, k) == SelectInSeq(ps, LAMBDA e : e[1] = k)

\* (mutant) a set that overwrites the value where the name already is
SetPropInPlace(ps, k, v) ==
    LET i == IndexOf(ps, k)
    IN  IF i = 0 THEN Append(ps, <<k, v>>) ELSE [ps EXCEPT ![i] = <<k, v>>]

\* set: erase the first property with this name, then push_back.
SetProp(ps, k, v) ==
    LET i == IndexOf(ps, k)
    IN  Append(IF i = 0 THEN ps ELSE RemoveAt(ps, i), <<k, v>>)

GetProperty(ps, k) == IF IndexOf(ps, k) = 0 THEN NoValue ELSE ps[IndexOf(ps, k)][2]

\* ensure_property_string / ensure_property_number: NULL unless the
\* property exists and has that type.
EnsureProperty(ps, k, m) ==
    IF GetProperty(ps, k).marker = m THEN GetProperty(ps, k) ELSE NoValue

-----------------------------------------------------------------------------
(* RssStream writes: big-endian, of the truncated integer                  *)

Bytes2(n) == << (n % 65536) \div 256, n % 256 >>
\* (the ecma counts written are sizes, 0 <= n < 2^31)
Bytes4(n) == << n \div 16777216, (n \div 65536) % 256, (n \div 256) % 256, n % 256 >>

\* rss_amf0_write_utf8: write_2bytes(value.length()), then the bytes.
WriteUtf8(s) == Bytes2(Len(s)) \o s
\* rss_amf0_write_string, _boolean, _number, _null, _undefined: the marker,
\* then the value's bytes.
WriteString(s) == <<RTMP_AMF0_String>> \o WriteUtf8(s)
WriteBoolean(bits) == <<RTMP_AMF0_Boolean>> \o bits
WriteNumber(bits) == <<RTMP_AMF0_Number>> \o bits
WriteNull == <<RTMP_AMF0_Null>>
WriteUndefined == <<RTMP_AMF0_Undefined>>
\* rss_amf0_write_object_eof: 0x00 0x00, then the marker.
WriteObjectEof == <<0, 0, RTMP_AMF0_ObjectEnd>>

(* write_object and write_ecma_array write the marker (and the ecma      *)
(* array's value->count, whatever size() is), every property's utf8 name *)
(* and value in iteration order, then the eof.                           *)
RECURSIVE WriteAny(_), WriteProps(_)
WriteProps(ps) ==
    IF ps = <<>> THEN <<>>
    ELSE WriteUtf8(Head(ps)[1]) \o WriteAny(Head(ps)[2]) \o WriteProps(Tail(ps))
WriteObject(ps) == <<RTMP_AMF0_Object>> \o WriteProps(ps) \o WriteObjectEof
WriteEcmaArray(c, ps) ==
    <<RTMP_AMF0_EcmaArray>> \o Bytes4(c) \o WriteProps(ps) \o WriteObjectEof
\* rss_amf0_write_any: dispatch on the marker.
WriteAny(v) ==
    CASE v.marker = RTMP_AMF0_String -> WriteString(v.val)
      [] v.marker = RTMP_AMF0_Boolean -> WriteBoolean(v.val)
      [] v.marker = RTMP_AMF0_Number -> WriteNumber(v.val)
      [] v.marker = RTMP_AMF0_Null -> WriteNull
      [] v.marker = RTMP_AMF0_Undefined -> WriteUndefined
      [] v.marker = RTMP_AMF0_ObjectEnd -> WriteObjectEof
      [] v.marker = RTMP_AMF0_Object -> WriteObject(v.props)
      [] v.marker = RTMP_AMF0_EcmaArray -> WriteEcmaArray(v.count, v.props)

(* The size functions, rss_amf0_get_utf8_size ... get_object_eof_size.  *)
Utf8Size(s) == 2 + Len(s)
ObjectEofSize == 2 + 1
\* the marker and 1 or 8 bytes, or the marker alone
ScalarSize(m) ==
    CASE m = RTMP_AMF0_Boolean -> 1 + 1
      [] m = RTMP_AMF0_Number -> 1 + 8
      [] m \in {RTMP_AMF0_Null, RTMP_AMF0_Undefined} -> 1
RECURSIVE AnySize(_), PropsSize(_)
PropsSize(ps) ==
    IF ps = <<>> THEN 0
    ELSE Utf8Size(Head(ps)[1]) + AnySize(Head(ps)[2]) + PropsSize(Tail(ps))
ObjectSize(ps) == 1 + PropsSize(ps) + ObjectEofSize
\* (mutant) an ecma array sized without its associative-count
EcmaArraySizeNoCount(ps) == 1 + PropsSize(ps) + ObjectEofSize
EcmaArraySize(ps) == 1 + 4 + PropsSize(ps) + ObjectEofSize
\* rss_amf0_get_any_size
AnySize(v) ==
    CASE v.marker = RTMP_AMF0_String -> 1 + Utf8Size(v.val)
      [] v.marker = RTMP_AMF0_ObjectEnd -> ObjectEofSize
      [] v.marker = RTMP_AMF0_Object -> ObjectSize(v.props)
      [] v.marker = RTMP_AMF0_EcmaArray -> EcmaArraySize(v.props)
      [] OTHER -> ScalarSize(v.marker)

-----------------------------------------------------------------------------
(* RssStream reads.  A result is ok with a value and the cursor after it, *)
(* an error (the ret the caller returns), or an abort (rss_assert).       *)

Ok(v, p) == [st |-> "ok", v |-> v, p |-> p]
Err == [st |-> "error", v |-> NoValue, p |-> 0]
Abort == [st |-> "abort", v |-> NoValue, p |-> 0]

Empty(b, p) == p >= Len(b)
Require(b, p, n) == ~Empty(b, p) /\ n <= Len(b) - p
\* read_2bytes and read_4bytes into int16_t and int32_t
Int16(b, p) == LET u == b[p+1] * 256 + b[p+2]
               IN  IF u >= 32768 THEN u - 65536 ELSE u
Int32(b, p) == LET hi == IF b[p+1] >= 128 THEN b[p+1] - 256 ELSE b[p+1]
               IN  ((hi * 256 + b[p+2]) * 256 + b[p+3]) * 256 + b[p+4]

(* rss_amf0_read_utf8 into a target string holding prior: the length is *)
(* an int16_t, and a length <= 0 returns success with nothing more read  *)
(* and the target left as it was.  Non-ASCII bytes are only logged.      *)
ReadUtf8(b, p, prior) ==
    IF ~Require(b, p, 2) THEN Err
    ELSE LET len == Int16(b, p)
         IN  IF len <= 0 THEN Ok(prior, p + 2)
             ELSE IF ~Require(b, p + 2, len) THEN Err
             ELSE Ok(SubSeq(b, p + 3, p + 2 + len), p + 2 + len)

\* rss_amf0_read_string: the marker, then the utf8.
ReadString(b, p, prior) ==
    IF ~Require(b, p, 1) \/ b[p+1] # RTMP_AMF0_String THEN Err
    ELSE ReadUtf8(b, p + 1, prior)

(* rss_amf0_read_object_eof, entered with the cursor on the 0x09 marker: *)
(* it asserts pos() >= 2, steps back over the two bytes before it and     *)
(* requires them to be zero.                                              *)
ReadObjectEof(b, p) ==
    IF p < 2 THEN Abort
    ELSE IF Int16(b, p - 2) # 0 THEN Err
    ELSE Ok(EofV, p + 1)

\* the marker at the cursor is m (require(1), read_1bytes, compare)
MarkerIs(b, p, m) == Require(b, p, 1) /\ b[p+1] = m
\* the result r, evaluated once, handed to F (a reader's next step)
Bind(r, F(_)) == CHOOSE x \in {F(v) : v \in {r}} : TRUE
\* the result r with its value mapped by V
Wrap(r, V(_)) == Bind(r, LAMBDA x : IF x.st = "ok" THEN Ok(V(x.v), x.p) ELSE x)

\* rss_amf0_read_boolean: the marker, then one byte, nonzero is true.
ReadBoolean(b, p) ==
    IF ~MarkerIs(b, p, RTMP_AMF0_Boolean) \/ ~Require(b, p + 1, 1) THEN Err
    ELSE Ok(Bool(b[p+2] # 0), p + 2)

\* rss_amf0_read_number: the marker, then read_8bytes (the double's bits).
ReadNumber(b, p) ==
    IF ~MarkerIs(b, p, RTMP_AMF0_Number) \/ ~Require(b, p + 1, 8) THEN Err
    ELSE Ok(Num(SubSeq(b, p + 2, p + 9)), p + 9)

\* rss_amf0_read_null: the marker, and nothing else.
ReadNull(b, p) == IF MarkerIs(b, p, RTMP_AMF0_Null) THEN Ok(NullV, p + 1) ELSE Err

(* The property loop of read_object and read_ecma_array: while the      *)
(* stream is not empty, a utf8 name (into a fresh string) and any value; *)
(* an empty name or an                                                   *)
(* object eof value ends the object, anything else is set.  Running out  *)
(* of bytes also ends it, with no error.                                 *)
RECURSIVE ReadAny(_, _), ReadProps(_, _, _)
ReadProps(b, p, ps) ==
    IF Empty(b, p) THEN Ok(ps, p)
    ELSE Bind(ReadUtf8(b, p, <<>>), LAMBDA k :
           IF k.st # "ok" THEN k
           ELSE Bind(ReadAny(b, k.p), LAMBDA a :
                  CASE a.st # "ok" -> a
                    [] k.v = <<>> \/ a.v.marker = RTMP_AMF0_ObjectEnd -> Ok(ps, a.p)
                    [] OTHER -> ReadProps(b, a.p, SetProp(ps, k.v, a.v))))

\* rss_amf0_read_object: the marker, then the properties.
ReadObject(b, p) ==
    IF ~MarkerIs(b, p, RTMP_AMF0_Object) THEN Err
    ELSE Wrap(ReadProps(b, p + 1, <<>>), Obj)

\* rss_amf0_read_ecma_array: the marker, the int32 count, the properties.
ReadEcmaArray(b, p) ==
    IF ~MarkerIs(b, p, RTMP_AMF0_EcmaArray) \/ ~Require(b, p + 1, 4) THEN Err
    ELSE Wrap(ReadProps(b, p + 5, <<>>), LAMBDA ps : Ecma(Int32(b, p + 1), ps))

(* rss_amf0_read_any reads the marker and skips back over it, then       *)
(* calls the reader of that type, which reads the marker again -- except *)
(* for Null and Undefined, which return with the marker unread.          *)
ReadAny(b, p) ==
    IF ~Require(b, p, 1) THEN Err
    ELSE CASE b[p+1] = RTMP_AMF0_String -> Wrap(ReadString(b, p, <<>>), Str)
           [] b[p+1] = RTMP_AMF0_Boolean -> ReadBoolean(b, p)
           [] b[p+1] = RTMP_AMF0_Number -> ReadNumber(b, p)
           [] b[p+1] = RTMP_AMF0_Null -> Ok(NullV, p)
           [] b[p+1] = RTMP_AMF0_Undefined -> Ok(UndefV, p)
           [] b[p+1] = RTMP_AMF0_ObjectEnd -> ReadObjectEof(b, p)
           [] b[p+1] = RTMP_AMF0_Object -> ReadObject(b, p)
           [] b[p+1] = RTMP_AMF0_EcmaArray -> ReadEcmaArray(b, p)
           [] OTHER -> Err

====

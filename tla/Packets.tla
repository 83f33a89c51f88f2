------------------------------ MODULE Packets ------------------------------
(***************************************************************************)
(* The message and packet catalog (rss_core_protocol.cpp): the packets    *)
(* decode_packet makes of a received message, and the packets the server *)
(* encodes and sends, over the AMF0 codec.                                *)
(***************************************************************************)
EXTENDS Amf0

CONSTANTS
    SetDataFrame,   \* RTMP_AMF0_DATA_SET_DATAFRAME, as bytes
    OnMetaDataName, \* RTMP_AMF0_DATA_ON_METADATA, as bytes
    Name            \* the other command names and property names the code
                    \* uses, as bytes, by their text


\* the message types of rss_core_protocol.cpp
RTMP_MSG_SetChunkSize == 1
RTMP_MSG_UserControlMessage == 4
RTMP_MSG_WindowAcknowledgementSize == 5
RTMP_MSG_SetPeerBandwidth == 6
RTMP_MSG_AMF3DataMessage == 15
RTMP_MSG_AMF3CommandMessage == 17
RTMP_MSG_AMF0DataMessage == 18
RTMP_MSG_AMF0CommandMessage == 20
\* the chunk ids a packet prefers
RTMP_CID_ProtocolControl == 2
RTMP_CID_OverConnection == 3
RTMP_CID_OverStream == 5
\* the doubles the packets use, as their 8 big-endian bytes
Zero == <<0, 0, 0, 0, 0, 0, 0, 0>>
One == <<63, 240, 0, 0, 0, 0, 0, 0>>
MinusOne == <<191, 240, 0, 0, 0, 0, 0, 0>>
MinusTwo == <<192, 0, 0, 0, 0, 0, 0, 0>>

(* A packet: its class, its AMF0 fields in the order the class declares *)
(* them, and the integer fields of the protocol control packets.        *)
Pkt(class, f, n) == [class |-> class, f |-> f, n |-> n]
Raw == Pkt("Packet", <<>>, <<>>)

-----------------------------------------------------------------------------
(* The onMetaData packet                                                   *)

\* (mutant) a decode that takes @setDataFrame for the packet's name
DecodeMetaDataNoDataFrame(b, p) ==
    LET n == ReadString(b, p, OnMetaDataName)
        a == ReadAny(b, n.p)
    IN  CASE n.st # "ok" -> n
          [] a.st # "ok" -> a
          [] a.v.marker = RTMP_AMF0_Object ->
                 Ok([name |-> n.v, metadata |-> a.v.props], a.p)
          [] a.v.marker = RTMP_AMF0_EcmaArray ->
                 Ok([name |-> n.v,
                     metadata |-> FoldLeft(LAMBDA acc, e : SetProp(acc, e[1], e[2]),
                                           <<>>, a.v.props)], a.p)
          [] OTHER -> Err

(* RssOnMetaDataPacket::decode: the name, a second name after            *)
(* @setDataFrame, then any value: an object is taken as the metadata, an *)
(* ecma array is copied into the (empty) metadata object by set, any     *)
(* other value is an error.                                               *)
DecodeMetaData(b, p) ==
    LET n1 == ReadString(b, p, OnMetaDataName)
        n == IF n1.st = "ok" /\ n1.v = SetDataFrame THEN ReadString(b, n1.p, n1.v) ELSE n1
        a == ReadAny(b, n.p)
    IN  CASE n.st # "ok" -> n
          [] a.st # "ok" -> a
          [] a.v.marker = RTMP_AMF0_Object ->
                 Ok([name |-> n.v, metadata |-> a.v.props], a.p)
          [] a.v.marker = RTMP_AMF0_EcmaArray ->
                 Ok([name |-> n.v,
                     metadata |-> FoldLeft(LAMBDA acc, e : SetProp(acc, e[1], e[2]),
                                           <<>>, a.v.props)], a.p)
          [] OTHER -> Err

\* RssOnMetaDataPacket::get_size and encode_packet: the name, then the
\* metadata as an object.
MetaDataPacketSize(pkt) == 1 + Utf8Size(pkt.name) + ObjectSize(pkt.metadata)
MetaDataPacketBytes(pkt) == WriteString(pkt.name) \o WriteObject(pkt.metadata)

(* RssPacket::encode: allocate get_size() bytes and encode into them;    *)
(* every write first requires room, so the encode fails when the bytes   *)
(* outgrow the size.  Bytes the encode leaves unwritten stay as new[]   *)
(* left them: any value (here 0 or 255).                                  *)
PacketEncode(size, bytes) ==
    IF Len(bytes) > size THEN {Err}
    ELSE {Ok(bytes \o pad, size) : pad \in [1..(size - Len(bytes)) -> {0, 255}]}

-----------------------------------------------------------------------------
(* The command packets' decode.  Each reads its fields in order and       *)
(* returns the first error; the checks on the name and the transaction   *)
(* id sit between the reads, and since every read error and every check *)
(* failure is the same ERROR_RTMP_AMF0_DECODE result, checking them after *)
(* the reads gives the same outcome.                                      *)

(* The value a packet's constructor gives its string field i, which a    *)
(* zero-length string read leaves in place: the command name (the        *)
(* FMLEStart packet starts as createStream), publish's type "live", and  *)
(* the empty string for the stream names.                                 *)
CtorName == [ConnectApp |-> "connect", CreateStream |-> "createStream", FMLEStart |-> "createStream",
             Publish |-> "publish", Play |-> "play"]
StringInit(class, i) ==
    CASE i = 1 -> Name[CtorName[class]]
      [] class = "Publish" /\ i = 5 -> Name["live"]
      [] OTHER -> <<>>

\* the AMF0 reader of one field, into a string holding init
ReadField(k, init, b, p) ==
    CASE k = "string" -> Wrap(ReadString(b, p, init), Str)
      [] k = "number" -> ReadNumber(b, p)
      [] k = "null" -> ReadNull(b, p)
      [] k = "boolean" -> ReadBoolean(b, p)
      [] k = "object" -> ReadObject(b, p)

\* the fields of the class, in order, each into its constructor's value
RECURSIVE ReadFields(_, _, _, _, _)
ReadFields(class, b, p, kinds, vs) ==
    IF kinds = <<>> THEN Ok(vs, p)
    ELSE Bind(ReadField(Head(kinds), StringInit(class, Len(vs) + 1), b, p), LAMBDA r :
           IF r.st # "ok" THEN r ELSE ReadFields(class, b, r.p, Tail(kinds), Append(vs, r.v)))

IsName(v, names) == v.val # <<>> /\ v.val \in {Name[n] : n \in names}

(* read the fields, check the command name (and connect's transaction id *)
(* 1.0), and make a packet of the class                                   *)
Decode(class, kinds, names, b, p) ==
    Bind(ReadFields(class, b, p, kinds, <<>>), LAMBDA r :
        CASE r.st # "ok" -> r
          [] ~IsName(r.v[1], names) \/ (class = "ConnectApp" /\ r.v[2].val # One) -> Err
          [] OTHER -> Ok(Pkt(class, r.v, <<>>), r.p))

\* RssConnectAppPacket::decode: "connect", the id 1.0, the command object.
DecodeConnectApp(b, p) ==
    Decode("ConnectApp", <<"string", "number", "object">>, {"connect"}, b, p)

\* RssCreateStreamPacket::decode: "createStream", an id, null.
DecodeCreateStream(b, p) ==
    Decode("CreateStream", <<"string", "number", "null">>, {"createStream"}, b, p)

\* RssFMLEStartPacket::decode: releaseStream, FCPublish or FCUnpublish, an
\* id, null, the stream name.
DecodeFMLEStart(b, p) ==
    Decode("FMLEStart", <<"string", "number", "null", "string">>, {"releaseStream", "FCPublish", "FCUnpublish"}, b, p)

\* RssPublishPacket::decode: "publish", an id, null, the stream name, the type.
DecodePublish(b, p) ==
    Decode("Publish", <<"string", "number", "null", "string", "string">>, {"publish"}, b, p)

(* RssPlayPacket::decode: "play", an id, null, the stream name, then     *)
(* start, duration and reset, each read only while the stream is not     *)
(* empty; the constructor's -2, -1 and true stay for those not read.     *)
PlayDefaults == <<Num(MinusTwo), Num(MinusOne), Bool(TRUE)>>
\* (mutant) start, duration and reset read whether or not the stream is empty
DecodePlayNoEmpty(b, p) ==
    Bind(Decode("Play", <<"string", "number", "null", "string">>, {"play"}, b, p), LAMBDA r :
        IF r.st # "ok" THEN r
        ELSE Bind(ReadFields("Play", b, r.p, <<"number", "number", "boolean">>, <<>>), LAMBDA t :
               IF t.st # "ok" THEN t ELSE Ok(Pkt("Play", r.v.f \o t.v, <<>>), t.p)))
DecodePlay(b, p) ==
    LET RECURSIVE Opt(_, _, _)
        Opt(q, i, vs) ==
            IF i > 3 THEN Ok(vs, q)
            ELSE IF Empty(b, q) THEN Ok(vs \o SubSeq(PlayDefaults, i, 3), q)
            ELSE Bind(ReadField(<<"number", "number", "boolean">>[i], <<>>, b, q), LAMBDA o :
                   IF o.st # "ok" THEN o ELSE Opt(o.p, i + 1, Append(vs, o.v)))
    IN  Bind(Decode("Play", <<"string", "number", "null", "string">>, {"play"}, b, p), LAMBDA r :
          IF r.st # "ok" THEN r
          ELSE Bind(Opt(r.p, 1, <<>>), LAMBDA t :
                 IF t.st # "ok" THEN t ELSE Ok(Pkt("Play", r.v.f \o t.v, <<>>), t.p)))

(* RssSetChunkSizePacket::decode and RssSetWindowAckSizePacket::decode:   *)
(* four bytes read as an int32; a chunk size below RTMP_MIN_CHUNK_SIZE     *)
(* (2) is an error.                                                       *)
RTMP_MIN_CHUNK_SIZE == 2
DecodeSetChunkSize(b) ==
    CASE ~Require(b, 0, 4) -> Err
      [] Int32(b, 0) < RTMP_MIN_CHUNK_SIZE -> Err
      [] OTHER -> Ok(Pkt("SetChunkSize", <<>>, <<Int32(b, 0)>>), 4)
DecodeSetWindowAckSize(b) ==
    IF ~Require(b, 0, 4) THEN Err
    ELSE Ok(Pkt("SetWindowAckSize", <<>>, <<Int32(b, 0)>>), 4)

(* RssCommonMessage::decode_packet: an AMF0 or AMF3 command or data      *)
(* message is dispatched on its name, read after skipping the AMF3       *)
(* command's first byte; an unknown name, and a message of any other     *)
(* type, is the plain RssPacket the session drops.                       *)
DecodePacket(t, b) ==
    IF t \in {RTMP_MSG_AMF0CommandMessage, RTMP_MSG_AMF3CommandMessage,
              RTMP_MSG_AMF0DataMessage, RTMP_MSG_AMF3DataMessage}
    THEN LET p == IF t = RTMP_MSG_AMF3CommandMessage /\ Require(b, 0, 1) THEN 1 ELSE 0
             c == ReadString(b, p, <<>>)
         IN  CASE c.st # "ok" -> c
               [] c.v = Name["connect"] -> DecodeConnectApp(b, p)
               [] c.v = Name["createStream"] -> DecodeCreateStream(b, p)
               [] c.v = Name["play"] -> DecodePlay(b, p)
               [] c.v \in {Name["releaseStream"], Name["FCPublish"], Name["FCUnpublish"]} ->
                      DecodeFMLEStart(b, p)
               [] c.v = Name["publish"] -> DecodePublish(b, p)
               [] c.v \in {SetDataFrame, OnMetaDataName} ->
                      Wrap(DecodeMetaData(b, p),
                           LAMBDA m : Pkt("OnMetaData", <<Str(m.name), Obj(m.metadata)>>, <<>>))
               [] OTHER -> Ok(Raw, p)
    ELSE CASE t = RTMP_MSG_WindowAcknowledgementSize -> DecodeSetWindowAckSize(b)
           [] t = RTMP_MSG_SetChunkSize -> DecodeSetChunkSize(b)
           [] OTHER -> Ok(Raw, 0)

(* RssProtocol::on_recv_message: a set chunk size or window ack size      *)
(* message is decoded (its error is the connection's), and a chunk size  *)
(* becomes in_chunk_size.  The result is in_chunk_size after the message. *)
OnRecvMessage(t, b, inChunkSize) ==
    LET d == DecodePacket(t, b)
    IN  CASE t \notin {RTMP_MSG_SetChunkSize, RTMP_MSG_WindowAcknowledgementSize} -> Ok(inChunkSize, 0)
          [] d.st # "ok" -> d
          [] t = RTMP_MSG_SetChunkSize -> Ok(d.v.n[1], 0)
          [] OTHER -> Ok(inChunkSize, 0)

-----------------------------------------------------------------------------
(* The packets the server sends.  A class is its get_message_type,       *)
(* get_perfer_cid, the terms get_size adds up and the writes             *)
(* encode_packet makes, in order, each on the field at its position (the *)
(* AMF0 fields, or the integers of a protocol control packet).           *)

\* one write of encode_packet: an AMF0 writer, or write_4/2/1bytes
WriteField(k, x) ==
    CASE k = "string" -> WriteString(x.val)
      [] k = "number" -> WriteNumber(x.val)
      [] k = "boolean" -> WriteBoolean(x.val)
      [] k = "null" -> WriteNull
      [] k = "undefined" -> WriteUndefined
      [] k = "object" -> WriteObject(x.props)
      [] k = "u32" -> Bytes4(x)
      [] k = "u16" -> Bytes2(x)
      [] k = "u8" -> <<x % 256>>

\* one term of get_size: rss_amf0_get_string_size, _number_size, ...
FieldSize(k, x) ==
    CASE k = "string" -> 1 + Utf8Size(x.val)
      [] k = "number" -> ScalarSize(RTMP_AMF0_Number)
      [] k = "boolean" -> ScalarSize(RTMP_AMF0_Boolean)
      [] k = "null" -> ScalarSize(RTMP_AMF0_Null)
      [] k = "undefined" -> ScalarSize(RTMP_AMF0_Undefined)
      [] k = "object" -> ObjectSize(x.props)

\* fixed: the constant terms of get_size; size: its AMF0 size terms
Class(type, cid, fixed, size, enc) ==
    [type |-> type, cid |-> cid, fixed |-> fixed, size |-> size, enc |-> enc]

ConnectAppResClass == Class(RTMP_MSG_AMF0CommandMessage, RTMP_CID_OverConnection, <<>>,
    <<"string", "number", "object", "object">>, <<"string", "number", "object", "object">>)
CreateStreamResClass == Class(RTMP_MSG_AMF0CommandMessage, RTMP_CID_OverConnection, <<>>,
    <<"string", "number", "null", "number">>, <<"string", "number", "null", "number">>)
FMLEStartResClass == Class(RTMP_MSG_AMF0CommandMessage, RTMP_CID_OverConnection, <<>>,
    <<"string", "number", "null", "undefined">>, <<"string", "number", "null", "undefined">>)
\* (mutant) onBWDone sized without its null
OnBWDoneClassNoNull == Class(RTMP_MSG_AMF0CommandMessage, RTMP_CID_OverConnection, <<>>,
    <<"string", "number">>, <<"string", "number", "null">>)
OnBWDoneClass == Class(RTMP_MSG_AMF0CommandMessage, RTMP_CID_OverConnection, <<>>,
    <<"string", "number", "null">>, <<"string", "number", "null">>)
OnStatusCallClass == Class(RTMP_MSG_AMF0CommandMessage, RTMP_CID_OverStream, <<>>,
    <<"string", "number", "null", "object">>, <<"string", "number", "null", "object">>)
OnStatusDataClass == Class(RTMP_MSG_AMF0DataMessage, RTMP_CID_OverStream, <<>>,
    <<"string", "object">>, <<"string", "object">>)
SampleAccessClass == Class(RTMP_MSG_AMF0DataMessage, RTMP_CID_OverStream, <<>>,
    <<"string", "boolean", "boolean">>, <<"string", "boolean", "boolean">>)
\* the protocol control packets' get_size is constants
SetWindowAckSizeClass == Class(RTMP_MSG_WindowAcknowledgementSize, RTMP_CID_ProtocolControl, <<4>>, <<>>, <<"u32">>)
SetChunkSizeClass == Class(RTMP_MSG_SetChunkSize, RTMP_CID_ProtocolControl, <<4>>, <<>>, <<"u32">>)
SetPeerBandwidthClass == Class(RTMP_MSG_SetPeerBandwidth, RTMP_CID_ProtocolControl, <<5>>, <<>>, <<"u32", "u8">>)
PCUC4BytesClass == Class(RTMP_MSG_UserControlMessage, RTMP_CID_ProtocolControl, <<2, 4>>, <<>>, <<"u16", "u32">>)

ClassOf(pkt) ==
    CASE pkt.class = "ConnectAppRes" -> ConnectAppResClass
      [] pkt.class = "CreateStreamRes" -> CreateStreamResClass
      [] pkt.class = "FMLEStartRes" -> FMLEStartResClass
      [] pkt.class = "OnBWDone" -> OnBWDoneClass
      [] pkt.class = "OnStatusCall" -> OnStatusCallClass
      [] pkt.class = "OnStatusData" -> OnStatusDataClass
      [] pkt.class = "SampleAccess" -> SampleAccessClass
      [] pkt.class = "SetWindowAckSize" -> SetWindowAckSizeClass
      [] pkt.class = "SetChunkSize" -> SetChunkSizeClass
      [] pkt.class = "SetPeerBandwidth" -> SetPeerBandwidthClass
      [] pkt.class = "PCUC4Bytes" -> PCUC4BytesClass

\* the fields the writes and size terms apply to
Fields(pkt) == IF pkt.f # <<>> THEN pkt.f ELSE pkt.n

GetSize(pkt) ==
    LET c == ClassOf(pkt)
    IN  FoldLeft(+, 0, c.fixed) + FoldLeft(+, 0, [i \in DOMAIN c.size |-> FieldSize(c.size[i], pkt.f[i])])

EncodePacket(pkt) ==
    LET c == ClassOf(pkt)
    IN  FoldLeft(\o, <<>>, [i \in DOMAIN c.enc |-> WriteField(c.enc[i], Fields(pkt)[i])])

\* RssCommonMessage::set_packet and encode_packet: the header's type and the
\* payload RssPacket::encode makes.
Encode(pkt) == PacketEncode(GetSize(pkt), EncodePacket(pkt))

(* The constructors, with the fields rss_core_rtmp.cpp then sets.          *)
ConnectAppResPacket(properties, info) ==
    Pkt("ConnectAppRes", <<Str(Name["_result"]), Num(One), Obj(properties), Obj(info)>>, <<>>)
CreateStreamResPacket(tid, sid) ==
    Pkt("CreateStreamRes", <<Str(Name["_result"]), tid, NullV, sid>>, <<>>)
FMLEStartResPacket(tid) ==
    Pkt("FMLEStartRes", <<Str(Name["_result"]), tid, NullV, UndefV>>, <<>>)
OnBWDonePacket == Pkt("OnBWDone", <<Str(Name["onBWDone"]), Num(Zero), NullV>>, <<>>)
\* command_name is onStatus, or onFCPublish / onFCUnpublish when set
OnStatusCallPacket(name, data) ==
    Pkt("OnStatusCall", <<Str(name), Num(Zero), NullV, Obj(data)>>, <<>>)
OnStatusDataPacket(data) == Pkt("OnStatusData", <<Str(Name["onStatus"]), Obj(data)>>, <<>>)
SampleAccessPacket ==
    Pkt("SampleAccess", <<Str(Name["|RtmpSampleAccess"]), Bool(FALSE), Bool(FALSE)>>, <<>>)
SetWindowAckSizePacket(n) == Pkt("SetWindowAckSize", <<>>, <<n>>)
SetChunkSizePacket(n) == Pkt("SetChunkSize", <<>>, <<n>>)
SetPeerBandwidthPacket(bw, type) == Pkt("SetPeerBandwidth", <<>>, <<bw, type>>)
\* SrcPCUCStreamBegin is 0; the data is the stream id
PCUC4BytesPacket(event, data) == Pkt("PCUC4Bytes", <<>>, <<event, data>>)

====

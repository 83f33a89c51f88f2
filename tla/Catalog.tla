------------------------------ MODULE Catalog ------------------------------
(***************************************************************************)
(* The command layer of a connection at the level of bytes: the request   *)
(* RssRtmp::connect_app makes of a connect packet and the app its         *)
(* discovery_app finds in the tcUrl (rss_core_rtmp.cpp), and the packets  *)
(* the RssRtmp calls send, as Packets encodes them.  Session sequences    *)
(* these calls; here they are checked against the message table of the   *)
(* protocol (the command names, field types, message types and chunk      *)
(* ids every peer relies on).                                              *)
(***************************************************************************)
EXTENDS Packets

CONSTANTS
    Tids,           \* transaction ids a client sends (double bits)
    StreamNames,    \* stream names a client sends (bytes)
    WireObjects,    \* command objects a client sends with connect
    UrlAlphabet,    \* the bytes of the short tcUrls tried
    MaxUrlLen,      \* and their length bound
    UrlParts,       \* the parts the well-formed tcUrls are built from
    Counts          \* the counts an unwritten ecma array count may hold

\* bytes of the separators discovery_app looks for
Colon == 58
Slash == 47
SchemaSep == <<Colon, Slash, Slash>>
\* the port discovery_app defaults to, "1935"
DefaultPort == <<49, 57, 51, 53>>

(* std::string::find: the 1-based position of the first occurrence, 0    *)
(* for npos.                                                              *)
Find(s, t) ==
    LET at == {i \in 1..(Len(s) - Len(t) + 1) : SubSeq(s, i, i + Len(t) - 1) = t}
    IN  IF at = {} THEN 0 ELSE Min(at)
After(s, i) == SubSeq(s, i, Len(s))

\* (mutant) the schema cut off one byte short of its "://"
DiscoveryAppShort(tcUrl) ==
    LET i == Find(tcUrl, SchemaSep)
        schema == IF i = 0 THEN <<>> ELSE SubSeq(tcUrl, 1, i - 1)
        url1 == IF i = 0 THEN tcUrl ELSE After(tcUrl, Len(schema) + 3)
        j == Find(url1, <<Slash>>)
        vhost1 == IF j = 0 THEN <<>> ELSE SubSeq(url1, 1, j - 1)
        app == IF j = 0 THEN url1 ELSE After(url1, Len(vhost1) + 2)
        k == Find(vhost1, <<Colon>>)
        port == IF k = 0 THEN DefaultPort ELSE After(vhost1, k + 1)
        vhost == IF k = 0 THEN vhost1 ELSE SubSeq(vhost1, 1, k - 1)
    IN  [ok |-> schema # <<>> /\ vhost # <<>> /\ port # <<>> /\ app # <<>>,
         schema |-> schema, vhost |-> vhost, port |-> port, app |-> app]

(* RssRequest::discovery_app: the schema before the first "://", the vhost *)
(* up to the next "/", the port after the vhost's first ":" (1935 when    *)
(* there is none), the app the rest; every part must be non-empty         *)
(* (ERROR_RTMP_REQ_TCURL).                                                *)
DiscoveryApp(tcUrl) ==
    LET i == Find(tcUrl, SchemaSep)
        schema == IF i = 0 THEN <<>> ELSE SubSeq(tcUrl, 1, i - 1)
        url1 == IF i = 0 THEN tcUrl ELSE After(tcUrl, Len(schema) + 4)
        j == Find(url1, <<Slash>>)
        vhost1 == IF j = 0 THEN <<>> ELSE SubSeq(url1, 1, j - 1)
        app == IF j = 0 THEN url1 ELSE After(url1, Len(vhost1) + 2)
        k == Find(vhost1, <<Colon>>)
        port == IF k = 0 THEN DefaultPort ELSE After(vhost1, k + 1)
        vhost == IF k = 0 THEN vhost1 ELSE SubSeq(vhost1, 1, k - 1)
    IN  [ok |-> schema # <<>> /\ vhost # <<>> /\ port # <<>> /\ app # <<>>,
         schema |-> schema, vhost |-> vhost, port |-> port, app |-> app]

\* (mutant) objectEncoding taken whatever its type
ConnectAppAnyEncoding(obj) ==
    LET url == EnsureProperty(obj, Name["tcUrl"], RTMP_AMF0_String)
        enc == GetProperty(obj, Name["objectEncoding"])
    IN  IF url = NoValue THEN [ok |-> FALSE]
        ELSE [ok |-> DiscoveryApp(url.val).ok, tcUrl |-> url.val,
              objectEncoding |-> IF enc = NoValue THEN Num(Zero) ELSE enc]

(* RssRtmp::connect_app after the connect packet is decoded: tcUrl must   *)
(* be a string (ERROR_RTMP_REQ_CONNECT); objectEncoding is taken when it  *)
(* is a number, else RssRequest's RTMP_SIG_AMF0_VER (0) stays; then       *)
(* discovery_app.  pageUrl and swfUrl are only stored.                    *)
ConnectApp(obj) ==
    LET url == EnsureProperty(obj, Name["tcUrl"], RTMP_AMF0_String)
        enc == EnsureProperty(obj, Name["objectEncoding"], RTMP_AMF0_Number)
    IN  IF url = NoValue THEN [ok |-> FALSE]
        ELSE [ok |-> DiscoveryApp(url.val).ok, tcUrl |-> url.val,
              objectEncoding |-> IF enc = NoValue THEN Num(Zero) ELSE enc]

\* properties made by a run of set calls
Props(sets) == FoldLeft(LAMBDA ps, e : SetProp(ps, e[1], e[2]), <<>>, sets)
S(t) == Str(Name[t])

\* 127.0, the capabilities the connect result announces
Capabilities == <<64, 95, 192, 0, 0, 0, 0, 0>>

(* RssRtmp::response_connect_app: props and info are filled by set; the   *)
(* data ecma array goes into info before its own sets, and its count is  *)
(* never written by the code (any of Counts).                             *)
ConnectAppData ==
    Props(<<<<Name["version"], S("3,5,3,888")>>, <<Name["server"], S("rss(simple rtmp server)")>>,
            <<Name["rss_url"], S("rss_url")>>, <<Name["rss_version"], S("rss_version")>>>>)
ResponseConnectApp(req, count) ==
    ConnectAppResPacket(
        Props(<<<<Name["fmsVer"], S("FMS/3,5,3,888")>>, <<Name["capabilities"], Num(Capabilities)>>,
                <<Name["mode"], Num(One)>>>>),
        Props(<<<<Name["level"], S("status")>>, <<Name["code"], S("NetConnection.Connect.Success")>>,
                <<Name["description"], S("Connection succeeded")>>,
                <<Name["objectEncoding"], req.objectEncoding>>,
                <<Name["data"], Ecma(count, ConnectAppData)>>>>))

(* An int converted to double, for the small non-negative ints the code   *)
(* converts (stream ids): exponent and the top mantissa bits.            *)
Log2Floor(n) == CHOOSE e \in 0..4 : 2^e <= n /\ n < 2^(e + 1)
Double(n) ==
    IF n = 0 THEN Zero
    ELSE LET e == Log2Floor(n)
         IN  <<(1023 + e) \div 16, ((1023 + e) % 16) * 16 + (n - 2^e) * 2^(4 - e), 0, 0, 0, 0, 0, 0>>

\* the onStatus objects the RssRtmp calls fill
StatusObj(code, desc, withLevel, details) ==
    Props((IF withLevel THEN <<<<Name["level"], S("status")>>>> ELSE <<>>)
          \o <<<<Name["code"], S(code)>>, <<Name["description"], S(desc)>>>>
          \o (IF details THEN <<<<Name["details"], S("stream")>>>> ELSE <<>>)
          \o (IF withLevel THEN <<<<Name["clientid"], S("ASAICiss")>>>> ELSE <<>>))

\* RssRtmp::start_play: StreamBegin, Play.Reset, Play.Start, sample access, Data.Start
StartPlay(sid) ==
    <<PCUC4BytesPacket(0, sid),
      OnStatusCallPacket(Name["onStatus"], StatusObj("NetStream.Play.Reset", "Playing and resetting stream.", TRUE, TRUE)),
      OnStatusCallPacket(Name["onStatus"], StatusObj("NetStream.Play.Start", "Started playing stream.", TRUE, TRUE)),
      SampleAccessPacket,
      OnStatusDataPacket(Props(<<<<Name["code"], S("NetStream.Data.Start")>>>>))>>

\* RssRtmp::start_publish's replies to FCPublish, createStream and publish
StartPublish(fcTid, csTid, sid) ==
    <<FMLEStartResPacket(Num(fcTid)), CreateStreamResPacket(Num(csTid), Num(Double(sid))),
      OnStatusCallPacket(Name["onFCPublish"],
          Props(<<<<Name["code"], S("NetStream.Publish.Start")>>,
                  <<Name["description"], S("Started publishing stream.")>>>>)),
      OnStatusCallPacket(Name["onStatus"], StatusObj("NetStream.Publish.Start", "Started publishing stream.", TRUE, FALSE))>>

\* RssRtmp::fmle_unpublish
FmleUnpublish(sid, tid) ==
    <<OnStatusCallPacket(Name["onFCUnpublish"],
          Props(<<<<Name["code"], S("NetStream.Unpublish.Success")>>,
                  <<Name["description"], S("Stop publishing stream.")>>>>)),
      FMLEStartResPacket(Num(tid)),
      OnStatusCallPacket(Name["onStatus"], StatusObj("NetStream.Unpublish.Success", "Stream is now unpublished", TRUE, FALSE))>>

\* identify_create_stream_client's and identify_fmle_publish_client's replies
IdentifyCreateStreamReply(tid, sid) == CreateStreamResPacket(Num(tid), Num(Double(sid)))
IdentifyFmlePublishReply(tid) == FMLEStartResPacket(Num(tid))

\* RSS_DEFAULT_SID, the stream id RssResponse starts with
RSS_DEFAULT_SID == 1
\* the arguments RssClient::do_cycle passes to the negotiation calls
AckWindowSize == 2500000
PeerBandwidth == 2500000
PeerBandwidthType == 2
OutChunkSize == 4096

(* Every packet the RssRtmp calls send in a connection, for the client's  *)
(* transaction ids and connect objects: the negotiation, the connect      *)
(* result (sent only for an accepted connect), the identify replies, the *)
(* play and publish start sequences and the unpublish sequence.          *)
Sent ==
    {SetWindowAckSizePacket(AckWindowSize), SetPeerBandwidthPacket(PeerBandwidth, PeerBandwidthType),
     OnBWDonePacket, SetChunkSizePacket(OutChunkSize)}
    \cup {ResponseConnectApp(ConnectApp(o), c) : o \in {o \in WireObjects : ConnectApp(o).ok}, c \in Counts}
    \cup ToSet(StartPlay(RSS_DEFAULT_SID))
    \cup UNION {ToSet(StartPublish(a, b, RSS_DEFAULT_SID)) : a, b \in Tids}
    \cup UNION {ToSet(FmleUnpublish(RSS_DEFAULT_SID, t)) : t \in Tids}
    \cup {IdentifyCreateStreamReply(t, RSS_DEFAULT_SID) : t \in Tids}
    \cup {IdentifyFmlePublishReply(t) : t \in Tids}

-----------------------------------------------------------------------------
(* The message table of the protocol (command names, body fields, message *)
(* type, chunk id), written down independently of the packet classes.    *)

\* big-endian unsigned of w bytes
BE(n, w) == [i \in 1..w |-> (n \div 2^(8 * (w - i))) % 256]
\* AMF0 values one after the other
Wire(vs) == FoldLeft(\o, <<>>, [i \in DOMAIN vs |-> WriteAny(vs[i])])
Markers(vs) == [i \in DOMAIN vs |-> vs[i].marker]

(* the requests: the class decode_packet makes, required and optional    *)
(* fields, the defaults of absent optional fields, and what an empty     *)
(* string at a position reads as (publish's type stays "live")           *)
InRow(class, req, opt, defaults, empty) ==
    [class |-> class, req |-> req, opt |-> opt, defaults |-> defaults, empty |-> empty]
N == RTMP_AMF0_Number
InRows ==
    [n \in {"connect", "createStream", "releaseStream", "FCPublish", "FCUnpublish", "publish", "play"} |->
        CASE n = "connect" -> InRow("ConnectApp", <<N, RTMP_AMF0_Object>>, <<>>, <<>>, <<>>)
          [] n = "createStream" -> InRow("CreateStream", <<N, RTMP_AMF0_Null>>, <<>>, <<>>, <<>>)
          [] n = "publish" -> InRow("Publish", <<N, RTMP_AMF0_Null, RTMP_AMF0_String, RTMP_AMF0_String>>, <<>>, <<>>,
                                     4 :> Str(Name["live"]))
          [] n = "play" -> InRow("Play", <<N, RTMP_AMF0_Null, RTMP_AMF0_String>>,
                                  <<N, N, RTMP_AMF0_Boolean>>,
                                  <<Num(MinusTwo), Num(MinusOne), Bool(TRUE)>>, <<>>)
          [] OTHER -> InRow("FMLEStart", <<N, RTMP_AMF0_Null, RTMP_AMF0_String>>, <<>>, <<>>, <<>>)]

\* a value of each type a client sends, and values of a wrong type
ValuesOf(m) ==
    CASE m = N -> {Num(t) : t \in Tids}
      [] m = RTMP_AMF0_Null -> {NullV}
      [] m = RTMP_AMF0_String -> {Str(s) : s \in StreamNames}
      [] m = RTMP_AMF0_Object -> {Obj(o) : o \in WireObjects}
      [] m = RTMP_AMF0_Boolean -> {Bool(FALSE)}
WrongOf(m) == IF m = RTMP_AMF0_String THEN {Num(Zero)} ELSE {Str(<<>>), UndefV}

\* bodies whose fields have the row's types
RECURSIVE Typed(_)
Typed(ks) == IF ks = <<>> THEN {<<>>}
             ELSE {<<v>> \o r : v \in ValuesOf(Head(ks)), r \in Typed(Tail(ks))}
\* bodies that follow a prefix of the row, the last field maybe of a wrong type
Bodies(ks) ==
    {<<>>} \cup UNION {{vs \o <<w>> : vs \in Typed(SubSeq(ks, 1, i - 1)),
                                     w \in ValuesOf(ks[i]) \cup WrongOf(ks[i])} : i \in 1..Len(ks)}

\* the command messages a client sends: AMF0, or AMF3 with its leading byte
ClientMessages ==
    UNION {{[t |-> t, n |-> n, vs |-> vs] :
              vs \in IF n \in DOMAIN InRows THEN Bodies(InRows[n].req \o InRows[n].opt) ELSE {<<>>}}
           : t \in {RTMP_MSG_AMF0CommandMessage, RTMP_MSG_AMF3CommandMessage},
             n \in DOMAIN InRows \cup {"_result"}}
Lead(m) == IF m.t = RTMP_MSG_AMF3CommandMessage THEN <<0>> ELSE <<>>
MessageBytes(m) == Lead(m) \o WriteString(Name[m.n]) \o Wire(m.vs)

(* What the table says a message is: an unknown command is no packet; a  *)
(* known one is its class when the required fields have their types     *)
(* (connect's id being 1.0) and the optional fields present have theirs; *)
(* the optional fields absent take their defaults.  An empty string is  *)
(* read as the row says.  An object is held as                            *)
(* the sets of its properties, in the order written, leave it.           *)
Reading(m) ==
    LET off == Len(Lead(m))
        r == InRows[m.n]
        q == Len(r.req)
        k == IF Len(m.vs) - q < Len(r.opt) THEN Len(m.vs) - q ELSE Len(r.opt)
        body == SubSeq(m.vs, 1, q + k)
        held == [i \in DOMAIN body |->
                    CASE body[i].marker = RTMP_AMF0_Object -> Obj(Props(body[i].props))
                      [] i \in DOMAIN r.empty /\ body[i] = Str(<<>>) -> r.empty[i]
                      [] OTHER -> body[i]]
    IN  CASE m.n \notin DOMAIN InRows -> Ok(Raw, off)
          [] Len(m.vs) >= q
             /\ Markers(SubSeq(m.vs, 1, q)) = r.req
             /\ Markers(SubSeq(m.vs, q + 1, q + k)) = SubSeq(r.opt, 1, k)
             /\ (m.n = "connect" => m.vs[1] = Num(One)) ->
                 Ok(Pkt(r.class, <<Str(Name[m.n])>> \o held \o SubSeq(r.defaults, k + 1, Len(r.opt)), <<>>),
                    off + Len(WriteString(Name[m.n]) \o Wire(body)))
          [] OTHER -> Err

ChunkSizes == {0, 1, 2, 128, 4096, 2147483647}
InChunkSize == 128

(* Every command message a client may send decodes to the packet the    *)
(* message table gives it, or fails when its fields do not fit the row   *)
(* (RssCommonMessage::decode_packet and the packets' decode, read byte by *)
(* byte); and a set chunk size message sets in_chunk_size to its value,  *)
(* failing below 2 or on a short payload, while a window ack size        *)
(* message leaves it (RssProtocol::on_recv_message).                      *)
CommandsDecode == \A m \in ClientMessages : DecodePacket(m.t, MessageBytes(m)) = Reading(m)
ChunkSizeMessages ==
    \A n \in ChunkSizes :
        /\ OnRecvMessage(RTMP_MSG_SetChunkSize, BE(n, 4), InChunkSize)
              = IF n < 2 THEN Err ELSE Ok(n, 0)
        /\ OnRecvMessage(RTMP_MSG_WindowAcknowledgementSize, BE(n, 4), InChunkSize) = Ok(InChunkSize, 0)
        /\ OnRecvMessage(RTMP_MSG_SetChunkSize, BE(n, 3), InChunkSize) = Err

\* the replies: message type, chunk id, fields (or integer widths), names
OutRow(type, cid, body, names, tid) == [type |-> type, cid |-> cid, body |-> body, names |-> names, tid |-> tid]
Amf0Cmd == RTMP_MSG_AMF0CommandMessage
Amf0Data == RTMP_MSG_AMF0DataMessage
OutRows ==
    [c \in {"ConnectAppRes", "CreateStreamRes", "FMLEStartRes", "OnStatusCall", "OnStatusData",
            "OnBWDone", "SampleAccess", "SetChunkSize", "SetWindowAckSize", "SetPeerBandwidth",
            "PCUC4Bytes"} |->
        CASE c = "ConnectAppRes" ->
                 OutRow(Amf0Cmd, 3, <<RTMP_AMF0_String, N, RTMP_AMF0_Object, RTMP_AMF0_Object>>, {"_result"}, {One})
          [] c = "CreateStreamRes" ->
                 OutRow(Amf0Cmd, 3, <<RTMP_AMF0_String, N, RTMP_AMF0_Null, N>>, {"_result"}, Tids)
          [] c = "FMLEStartRes" ->
                 OutRow(Amf0Cmd, 3, <<RTMP_AMF0_String, N, RTMP_AMF0_Null, RTMP_AMF0_Undefined>>, {"_result"}, Tids)
          [] c = "OnStatusCall" ->
                 OutRow(Amf0Cmd, 5, <<RTMP_AMF0_String, N, RTMP_AMF0_Null, RTMP_AMF0_Object>>,
                        {"onStatus", "onFCPublish", "onFCUnpublish"}, {Zero})
          [] c = "OnStatusData" -> OutRow(Amf0Data, 5, <<RTMP_AMF0_String, RTMP_AMF0_Object>>, {"onStatus"}, {})
          [] c = "OnBWDone" -> OutRow(Amf0Cmd, 3, <<RTMP_AMF0_String, N, RTMP_AMF0_Null>>, {"onBWDone"}, {Zero})
          [] c = "SampleAccess" ->
                 OutRow(Amf0Data, 5, <<RTMP_AMF0_String, RTMP_AMF0_Boolean, RTMP_AMF0_Boolean>>, {"|RtmpSampleAccess"}, {})
          [] c = "SetChunkSize" -> OutRow(1, 2, <<4>>, {}, {})
          [] c = "SetWindowAckSize" -> OutRow(5, 2, <<4>>, {}, {})
          [] c = "SetPeerBandwidth" -> OutRow(6, 2, <<4, 1>>, {}, {})
          [] c = "PCUC4Bytes" -> OutRow(4, 2, <<2, 4>>, {}, {})]

\* the bytes of a reply by the table
RowBytes(pkt) ==
    IF pkt.f # <<>> THEN Wire(pkt.f)
    ELSE FoldLeft(\o, <<>>, [i \in DOMAIN pkt.n |-> BE(pkt.n[i], OutRows[pkt.class].body[i])])

\* an onStatus object carries its code (and, for onStatus itself, level
\* "status" and a description)
StatusOK(pkt) ==
    LET o == pkt.f[Len(pkt.f)].props
        has(k) == GetProperty(o, Name[k]) # NoValue
    IN  /\ has("code")
        /\ pkt.class = "OnStatusCall" /\ pkt.f[1] = S("onStatus") =>
               GetProperty(o, Name["level"]) = S("status") /\ has("description")

(* Every packet the server sends is a row of the message table: its      *)
(* message type and chunk id, its name and transaction id, its fields of *)
(* the row's types, and the bytes RssPacket::encode makes of it exactly  *)
(* the row's bytes -- get_size agreeing with encode_packet, no short     *)
(* buffer and no unwritten tail.                                          *)
ReplyRows ==
    \A pkt \in Sent :
        LET r == OutRows[pkt.class]
        IN  /\ ClassOf(pkt).type = r.type
            /\ ClassOf(pkt).cid = r.cid
            /\ pkt.f # <<>> =>
                   /\ Markers(pkt.f) = r.body
                   /\ pkt.f[1].val \in {Name[x] : x \in r.names}
                   /\ (r.tid # {} => pkt.f[2].val \in r.tid)
            /\ pkt.class \in {"OnStatusCall", "OnStatusData"} => StatusOK(pkt)
ReplyBytes == \A pkt \in Sent : \A e \in Encode(pkt) : e.st = "ok" /\ e.v = RowBytes(pkt)

\* a well-formed tcUrl, schema://vhost[:port]/app, with no port for <<>>
Assemble(s, v, p, a) ==
    s \o SchemaSep \o v \o (IF p = <<>> THEN <<>> ELSE <<Colon>> \o p) \o <<Slash>> \o a
ShortUrls == UNION {[1..n -> UrlAlphabet] : n \in 0..MaxUrlLen}

(* discovery_app parses tcUrl as schema://vhost[:port]/app with the port *)
(* 1935 by default and every part non-empty: any tcUrl it accepts is     *)
(* that form of its parts, with a vhost free of ":" and "/", and every    *)
(* tcUrl of that form is accepted with exactly its parts.                *)
TcUrlSound ==
    \A u \in ShortUrls :
        LET d == DiscoveryApp(u)
        IN  d.ok => /\ \E p \in {d.port} \cup (IF d.port = DefaultPort THEN {<<>>} ELSE {}) :
                         u = Assemble(d.schema, d.vhost, p, d.app)
                    /\ {Colon, Slash} \cap ToSet(d.vhost) = {}
TcUrlComplete ==
    \A s \in UrlParts.schema, v \in UrlParts.vhost, p \in UrlParts.port, a \in UrlParts.app :
         DiscoveryApp(Assemble(s, v, p, a))
           = [ok |-> TRUE, schema |-> s, vhost |-> v,
              port |-> IF p = <<>> THEN DefaultPort ELSE p, app |-> a]

\* the value of the last property of that name a client wrote
LastWritten(o, k) ==
    LET i == SelectLastInSeq(o, LAMBDA e : e[1] = k)
    IN  IF i = 0 THEN NoValue ELSE o[i][2]

(* A connect whose command object the client wrote with properties in   *)
(* any order, repeated or of the wrong type, decodes, and connect_app    *)
(* accepts it exactly when the last tcUrl written is a string that       *)
(* discovery_app accepts; the request keeps that tcUrl and the connect   *)
(* result echoes the last objectEncoding written when it is a number,    *)
(* 0 otherwise.                                                           *)
ConnectOf(o) ==
    LET d == DecodePacket(RTMP_MSG_AMF0CommandMessage,
                          WriteString(Name["connect"]) \o WriteNumber(One) \o WriteObject(o))
    IN  [d |-> d, req |-> IF d.st = "ok" THEN ConnectApp(d.v.f[3].props) ELSE [ok |-> FALSE],
         url |-> LastWritten(o, Name["tcUrl"]), enc |-> LastWritten(o, Name["objectEncoding"])]
ConnectAccepted ==
    \A c \in {ConnectOf(o) : o \in WireObjects} :
        /\ c.d.st = "ok"
        /\ c.req.ok <=> c.url.marker = RTMP_AMF0_String /\ DiscoveryApp(c.url.val).ok
ConnectReplyEchoes ==
    \A c \in {ConnectOf(o) : o \in WireObjects} :
        c.req.ok =>
            /\ c.req.tcUrl = c.url.val
            /\ GetProperty(ResponseConnectApp(c.req, 0).f[4].props, Name["objectEncoding"])
                 = IF c.enc.marker = N THEN c.enc ELSE Num(Zero)

====

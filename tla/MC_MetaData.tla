----------------------------- MODULE MC_MetaData -----------------------------
(* Two property names, "a" and "server" (so a publisher's own "server" is *)
(* overwritten), and a value of every type the codec writes: the empty   *)
(* string (length 0), true, the number 1.0, null, and an object nesting a *)
(* one-byte string.                                                       *)
(*                                                                         *)
(* The command and property names stand for themselves as distinct one-  *)
(* byte strings.  A client's transaction ids are 1.0 (connect's) and 5.0; *)
(* its stream names empty or one byte; its connect objects cover a        *)
(* missing, non-string, rejected and repeated tcUrl and an objectEncoding *)
(* missing, repeated, of the wrong type or last written as a string.     *)
(* tcUrls are tried up to 8 bytes over "a", ":" and "/" (the shortest    *)
(* accepted one, a://a/a, has 7), and built from parts whose app holds   *)
(* "/", ":" and "://" again.                                              *)
EXTENDS MetaData, Catalog, ChunkEncoder

MCKeys == {<<97>>, <<115, 101, 114, 118, 101, 114>>}
MCValues == {Str(<<>>), Bool(TRUE), Num(<<63, 240, 0, 0, 0, 0, 0, 0>>), NullV,
            Obj(<<<<<<97>>, Str(<<120>>)>>>>)}
MCServerKey == <<115, 101, 114, 118, 101, 114>>
MCServerName == <<82, 83, 83>>
MCSetDataFrame == <<64, 115, 101, 116, 68, 97, 116, 97, 70, 114, 97, 109, 101>>
MCOnMetaData == <<111, 110, 77, 101, 116, 97, 68, 97, 116, 97>>

MCTexts ==
    <<"connect", "createStream", "play", "publish", "releaseStream", "FCPublish", "FCUnpublish",
      "_result", "onBWDone", "onStatus", "onFCPublish", "onFCUnpublish", "|RtmpSampleAccess",
      "tcUrl", "pageUrl", "objectEncoding", "fmsVer", "capabilities", "mode", "level", "code",
      "description", "details", "clientid", "data", "version", "server", "rss_url", "rss_version",
      "FMS/3,5,3,888", "3,5,3,888", "rss(simple rtmp server)", "status", "stream", "ASAICiss",
      "NetConnection.Connect.Success", "Connection succeeded",
      "NetStream.Play.Reset", "Playing and resetting stream.", "NetStream.Play.Start",
      "Started playing stream.", "NetStream.Data.Start", "NetStream.Publish.Start",
      "Started publishing stream.", "NetStream.Unpublish.Success", "Stop publishing stream.",
      "Stream is now unpublished", "live">>
MCName == [t \in ToSet(MCTexts) |-> <<160 + CHOOSE i \in 1..Len(MCTexts) : MCTexts[i] = t>>]

GoodUrl == <<97, 58, 47, 47, 104, 47, 120>>   \* a://h/x
BadUrl == <<97, 58, 47, 104, 47, 120>>        \* a:/h/x
Three == Double(3)
MCTids == {One, Double(5)}
MCStreamNames == {<<>>, <<120>>}
MCWireObjects ==
    LET T == MCName["tcUrl"]
        E == MCName["objectEncoding"]
        P == MCName["pageUrl"]
    IN  {<<>>,
         <<<<T, Str(GoodUrl)>>>>,
         <<<<T, Num(One)>>>>,
         <<<<T, Str(BadUrl)>>>>,
         <<<<T, Str(GoodUrl)>>, <<E, Num(Three)>>>>,
         <<<<E, Num(Three)>>, <<T, Str(GoodUrl)>>, <<E, Str(<<120>>)>>>>,
         <<<<T, Str(BadUrl)>>, <<P, Str(<<120>>)>>, <<T, Str(GoodUrl)>>>>,
         <<<<T, Str(GoodUrl)>>, <<E, Bool(TRUE)>>, <<E, Num(Three)>>>>}
(* The messages the server sends, for the chunk codec: both SetChunkSize *)
(* packets (to 2, the smallest decode accepts, and to the 4096 of        *)
(* RssClient::service), and relayed video, audio and data whose          *)
(* timestamps sit at the 0xFFFFFF boundary, one below it and at 2^31-1,  *)
(* and whose lengths are one over, exactly and under 128 bytes.  Start   *)
(* chunk sizes 2, the default 128, and 65536 (spec 8, law 3).           *)
MCOutMsgs ==
    CommonMessages(SetChunkSizePacket(2), 0) \cup CommonMessages(SetChunkSizePacket(4096), 0)
    \cup {SharedMessage(RTMP_MSG_VideoMessage, 16777215, 1, Pattern(129)),
          SharedMessage(RTMP_MSG_AudioMessage, 16777214, 1, Pattern(128)),
          SharedMessage(RTMP_MSG_AMF0DataMessage, 2147483647, 1, Pattern(3))}
MCChunkSizes == {2, RTMP_DEFAULT_CHUNK_SIZE, 65536}
MCRoundTrip == ChunkRoundTrip(MCOutMsgs, MCChunkSizes, 3)

MCUrlParts ==
    [schema |-> {<<97>>, <<97, 47>>}, vhost |-> {<<104>>, <<104, 104>>},
     port |-> {<<>>, <<49>>, <<49, 58>>},
     app |-> {<<120>>, <<120, 47, 120>>, <<58, 47, 47, 120>>, <<104, 58, 49>>}]
(* The catalog laws of Catalog hold at every step of the relay.  They do *)
(* not depend on the relay's state, so this says that they hold.          *)

(* Every client command, and every chunk size message, decodes as the    *)
(* message table says (decode_message, on_recv_message).                 *)
CommandsFollowCatalog == [][CommandsDecode /\ ChunkSizeMessages]_vars

(* Every packet the RssRtmp calls send has the table's type, chunk id,    *)
(* fields and names, and get_size equals the length encode writes.       *)
RepliesFollowCatalog == [][ReplyRows /\ ReplyBytes]_vars

(* rss_discovery_app accepts exactly schema://vhost[:port]/app and        *)
(* returns those parts.                                                   *)
TcUrlLaw == [][TcUrlSound /\ TcUrlComplete]_vars

(* connect_app accepts a decoded connect exactly when its last tcUrl      *)
(* discovers, and the reply echoes its last numeric objectEncoding.       *)
ConnectExchange == [][ConnectAccepted /\ ConnectReplyEchoes]_vars

(* send_message writes SetChunkSize{4096} and a 300-byte message at       *)
(* timestamp 0x01000000 byte for byte as spec section 8 scenarios B and F *)
(* give them (fmt-0 header, little-endian stream id, extended timestamp  *)
(* repeated on every fmt-3 chunk).                                        *)
SendFollowsScenarios == [][ScenarioB /\ ScenarioF]_vars

(* Any three successive send_message calls, from any start chunk size, are *)
(* read back by a spec reader at that chunk size as the same messages, and *)
(* the reader's in_chunk_size ends equal to out_chunk_size: a SetChunkSize *)
(* takes effect on both ends at the same message boundary.                *)
ChunkStreamRoundTrip == [][MCRoundTrip]_vars
====

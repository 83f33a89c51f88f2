---------------------------- MODULE ChunkEncoder ----------------------------
(***************************************************************************)
(* The send side of the RTMP chunk stream: RssProtocol::send_message and   *)
(* on_send_message, over the messages the server sends (an RssCommonMessage *)
(* carrying a packet of the catalog, or an RssSharedPtrMessage relaying a  *)
(* publisher's payload).  The bytes are modelled exactly: send_message     *)
(* always starts a message with a fmt-0 chunk and continues it with fmt-3  *)
(* chunks, each repeating the extended timestamp, and out_chunk_size only  *)
(* changes after a SetChunkSize message has itself been sent.             *)
(*                                                                         *)
(* A reference reader of spec section 4.4 (fmt 0 and 3, one-byte basic   *)
(* headers, in_chunk_size updated by on_recv_message) reads the bytes back. *)
(***************************************************************************)
EXTENDS Packets

RTMP_EXTENDED_TIMESTAMP == 16777215     \* 0xFFFFFF
RTMP_DEFAULT_CHUNK_SIZE == 128
RTMP_MSG_AudioMessage == 8
RTMP_MSG_VideoMessage == 9
RTMP_CID_OverConnection2 == 4
RTMP_CID_Video == 6
RTMP_CID_Audio == 7

(* An outgoing message as send_message reads it: the header fields, the  *)
(* preferred cid, the payload bytes (msg->payload, msg->size), whether it  *)
(* can_decode, and the packet on_send_message inspects.                   *)
OutMsg(cid, ts, type, len, sid, payload, decodable, pkt) ==
    [cid |-> cid, ts |-> ts, type |-> type, len |-> len, sid |-> sid,
     payload |-> payload, decodable |-> decodable, pkt |-> pkt]

\* RssCommonMessage::set_packet then encode_packet: the header's length is
\* get_payload_length (= get_size), the payload what encode wrote; the
\* timestamp stays the constructor's 0
CommonMessages(pkt, sid) ==
    {OutMsg(ClassOf(pkt).cid, 0, ClassOf(pkt).type, GetSize(pkt), sid, e.v, TRUE, pkt) :
        e \in {r \in Encode(pkt) : r.st = "ok"}}

\* RssSharedPtrMessage::initialize: the received header, the payload's size
\* as its length, and a cid by the message type
SharedMessage(type, ts, sid, payload) ==
    OutMsg(CASE type = RTMP_MSG_VideoMessage -> RTMP_CID_Video
             [] type = RTMP_MSG_AudioMessage -> RTMP_CID_Audio
             [] OTHER -> RTMP_CID_OverConnection2,
           ts, type, Len(payload), sid, payload, FALSE, Raw)

-----------------------------------------------------------------------------
(* The chunk headers send_message writes.  The three-byte fields are the  *)
(* low bytes of the int32 (pp[2], pp[1], pp[0]); the stream id is written *)
(* little-endian, the extended timestamp big-endian.                      *)

Bytes3(n) == SubSeq(Bytes4(n), 2, 4)

Extended(m) == m.ts >= RTMP_EXTENDED_TIMESTAMP

ExtendedTimestamp(m) == IF Extended(m) THEN Bytes4(m.ts) ELSE <<>>

\* (mutant) the stream id written big-endian, as the other fields
Fmt0HeaderBigEndianSid(m) ==
    << m.cid % 64 >>
    \o (IF Extended(m) THEN <<255, 255, 255>> ELSE Bytes3(m.ts))
    \o Bytes3(m.len) \o << m.type % 256 >>
    \o Bytes4(m.sid)
    \o ExtendedTimestamp(m)

Fmt0Header(m) ==
    << m.cid % 64 >>
    \o (IF Extended(m) THEN <<255, 255, 255>> ELSE Bytes3(m.ts))
    \o Bytes3(m.len) \o << m.type % 256 >>
    \o Reverse(Bytes4(m.sid))
    \o ExtendedTimestamp(m)

Fmt3Header(m) == << 192 + (m.cid % 64) >> \o ExtendedTimestamp(m)

(* on_send_message: a message that cannot decode (a shared one) changes   *)
(* nothing; a SetChunkSize packet's chunk_size becomes out_chunk_size.    *)
(* (The `if (!msg)` test after the cast is dead: msg is never NULL.)       *)
OnSendMessage(m, outChunkSize) ==
    IF m.decodable /\ m.type = RTMP_MSG_SetChunkSize THEN m.pkt.n[1] ELSE outChunkSize

\* (mutant) a SetChunkSize applied before its own chunks are written
SendMessageEarly(m, outChunkSize) ==
    LET size == Len(m.payload)
        RECURSIVE Chunks(_)
        Chunks(p) ==
            LET n == Min({size - p, OnSendMessage(m, outChunkSize)})
                q == IF size > 0 THEN p + n ELSE p
            IN  (IF p = 0 THEN Fmt0Header(m) ELSE Fmt3Header(m))
                \o SubSeq(m.payload, p + 1, p + n)
                \o (IF q < size THEN Chunks(q) ELSE <<>>)
    IN  [bytes |-> Chunks(0), chunkSize |-> OnSendMessage(m, outChunkSize)]

(* send_message: encode_packet, then a do-while loop writing one header   *)
(* and at most out_chunk_size payload bytes per writev (a header even for *)
(* an empty payload), then on_send_message.  The result is the bytes and   *)
(* out_chunk_size after the call.                                          *)
SendMessage(m, outChunkSize) ==
    LET size == Len(m.payload)
        RECURSIVE Chunks(_)
        Chunks(p) ==
            LET n == Min({size - p, outChunkSize})
                q == IF size > 0 THEN p + n ELSE p
            IN  (IF p = 0 THEN Fmt0Header(m) ELSE Fmt3Header(m))
                \o SubSeq(m.payload, p + 1, p + n)
                \o (IF q < size THEN Chunks(q) ELSE <<>>)
    IN  [bytes |-> Chunks(0), chunkSize |-> OnSendMessage(m, outChunkSize)]

\* successive send_message calls on one RssProtocol, out_chunk_size carried
\* from each call to the next
SendAll(ms, outChunkSize) ==
    FoldLeft(LAMBDA acc, m : LET s == SendMessage(m, acc.chunkSize)
                             IN  [bytes |-> acc.bytes \o s.bytes, chunkSize |-> s.chunkSize],
             [bytes |-> <<>>, chunkSize |-> outChunkSize], ms)

-----------------------------------------------------------------------------
(* The reference reader (spec section 4.4).  Per cid it keeps the last    *)
(* header and the payload gathered so far; a fmt-3 chunk reuses the header *)
(* and, when that header had an extended timestamp, carries it again.  A  *)
(* completed message goes through on_recv_message (Packets!OnRecvMessage), *)
(* which may change in_chunk_size.                                        *)

Uint24(b, i) == (b[i + 1] * 256 + b[i + 2]) * 256 + b[i + 3]
Uint32(b, i) == Uint24(b, i) * 256 + b[i + 4]
StreamId(b, i) == ((b[i + 4] * 256 + b[i + 3]) * 256 + b[i + 2]) * 256 + b[i + 1]

\* what the reader gives back of a message
Seen(m) == [cid |-> m.cid, ts |-> m.ts, type |-> m.type, len |-> m.len,
            sid |-> m.sid, payload |-> m.payload]

\* reads chunks from p until one message is whole: [st, m, p, streams]
RECURSIVE ReadMessage(_, _, _, _)
ReadMessage(b, p, inChunkSize, streams) ==
    LET fmt == b[p + 1] \div 64
        cid == b[p + 1] % 64
        known == cid \in DOMAIN streams
        tsField == Uint24(b, p + 1)
        h == IF fmt = 0
             THEN [ts |-> IF tsField = RTMP_EXTENDED_TIMESTAMP THEN Uint32(b, p + 12) ELSE tsField,
                   len |-> Uint24(b, p + 4), type |-> b[p + 8], sid |-> StreamId(b, p + 8),
                   ext |-> tsField = RTMP_EXTENDED_TIMESTAMP]
             ELSE streams[cid].h
        hlen == IF fmt = 0 THEN 12 ELSE 1
        elen == IF h.ext THEN 4 ELSE 0
        got == IF fmt = 0 THEN <<>> ELSE streams[cid].got
        q == p + hlen + elen + Min({h.len - Len(got), inChunkSize})
        all == got \o SubSeq(b, p + hlen + elen + 1, q)
        Fail == [st |-> "error", m |-> <<>>, p |-> p, streams |-> streams]
    IN  CASE p = Len(b) -> Fail
          [] fmt \in {1, 2} \/ (fmt = 3 /\ ~known) -> Fail
          [] fmt = 0 /\ known /\ streams[cid].got # <<>> -> Fail
          [] fmt = 0 /\ p + 12 > Len(b) -> Fail
          [] fmt = 0 /\ tsField = RTMP_EXTENDED_TIMESTAMP /\ p + 16 > Len(b) -> Fail
          [] p + hlen + elen > Len(b) -> Fail
          [] h.ext /\ Uint32(b, p + hlen) # h.ts -> Fail
          [] q > Len(b) -> Fail
          [] Len(all) < h.len ->
                ReadMessage(b, q, inChunkSize, (cid :> [h |-> h, got |-> all]) @@ streams)
          [] OTHER ->
                [st |-> "ok", p |-> q, streams |-> (cid :> [h |-> h, got |-> <<>>]) @@ streams,
                 m |-> [cid |-> cid, ts |-> h.ts, type |-> h.type, len |-> h.len,
                        sid |-> h.sid, payload |-> all]]

\* reads messages to the end of the bytes; each whole message goes through
\* on_recv_message, which may set in_chunk_size
RECURSIVE ReadChunks(_, _, _, _, _)
ReadChunks(b, p, inChunkSize, streams, msgs) ==
    IF p = Len(b) THEN [st |-> "ok", msgs |-> msgs, chunkSize |-> inChunkSize]
    ELSE Bind(ReadMessage(b, p, inChunkSize, streams), LAMBDA r :
           IF r.st # "ok" THEN [st |-> "error", msgs |-> msgs, chunkSize |-> inChunkSize]
           ELSE Bind(OnRecvMessage(r.m.type, r.m.payload, inChunkSize), LAMBDA o :
                  IF o.st # "ok" THEN [st |-> "error", msgs |-> msgs, chunkSize |-> inChunkSize]
                  ELSE ReadChunks(b, r.p, o.v, r.streams, Append(msgs, r.m))))

ReadAll(b, inChunkSize) == ReadChunks(b, 0, inChunkSize, <<>>, <<>>)

-----------------------------------------------------------------------------
(* Laws of the send side, over bounded inputs.                            *)

\* a payload of n distinct-looking bytes
Pattern(n) == [i \in 1..n |-> i % 256]

\* Spec section 8, scenario B: SetChunkSize{4096} is the 16 bytes
\* 02 | 00 00 00 00 00 04 01 00 00 00 00 | 00 00 10 00; after it
\* out_chunk_size is 4096, and a reader at 128 reads it back and moves its
\* in_chunk_size to 4096.
ScenarioB ==
    \A m \in CommonMessages(SetChunkSizePacket(4096), 0) :
        LET s == SendMessage(m, RTMP_DEFAULT_CHUNK_SIZE)
        IN  /\ s.bytes = <<2, 0, 0, 0, 0, 0, 4, 1, 0, 0, 0, 0, 0, 0, 16, 0>>
            /\ s.chunkSize = 4096
            /\ ReadAll(s.bytes, RTMP_DEFAULT_CHUNK_SIZE) =
                  [st |-> "ok", msgs |-> <<Seen(m)>>, chunkSize |-> 4096]

\* Spec section 8, scenario F: timestamp 0x01000000, 300 bytes, chunk size
\* 128: a fmt-0 chunk with FF FF FF and extended 01 00 00 00, then two
\* fmt-3 chunks, each with the extended timestamp again, of 128 and 44 bytes.
ScenarioF ==
    LET m == SharedMessage(RTMP_MSG_AudioMessage, 16777216, 1, Pattern(300))
        ext == <<1, 0, 0, 0>>
    IN  SendMessage(m, RTMP_DEFAULT_CHUNK_SIZE).bytes =
            <<RTMP_CID_Audio, 255, 255, 255, 0, 1, 44, RTMP_MSG_AudioMessage, 1, 0, 0, 0>>
            \o ext \o SubSeq(m.payload, 1, 128)
            \o <<192 + RTMP_CID_Audio>> \o ext \o SubSeq(m.payload, 129, 256)
            \o <<192 + RTMP_CID_Audio>> \o ext \o SubSeq(m.payload, 257, 300)

\* Spec section 8, law 3 (and law 4 through the reader): any sequence of at
\* most k messages sent from out_chunk_size cs, read from in_chunk_size cs,
\* gives back the messages, and both ends agree on the chunk size after.
ChunkRoundTrip(msgs, sizes, k) ==
    \A cs \in sizes, ms \in BoundedSeq(msgs, k) :
        LET w == SendAll(ms, cs)
        IN  ReadAll(w.bytes, cs) =
              [st |-> "ok", msgs |-> [i \in DOMAIN ms |-> Seen(ms[i])], chunkSize |-> w.chunkSize]
=============================================================================

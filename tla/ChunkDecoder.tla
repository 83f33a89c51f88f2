---------------------------- MODULE ChunkDecoder ----------------------------
(***************************************************************************)
(* The receive side of the RTMP chunk stream: RssProtocol::recv_message,   *)
(* recv_interlaced_message, read_basic_header, read_message_header,        *)
(* read_message_payload and RssBuffer::ensure_buffer_bytes, for one chunk  *)
(* stream (one cid) fed by a peer that encodes its messages as spec 4.4    *)
(* says.                                                                   *)
(*                                                                         *)
(* The socket buffer only drops a chunk's bytes once its payload is read,  *)
(* so a call that ends in ERROR_SOCKET_TIMEOUT leaves the bytes in place;  *)
(* the next call parses the same chunk again.  What it does not undo is    *)
(* what read_message_header already wrote into the RssChunkStream before   *)
(* the timeout.  Whether a timeout ends the connection or is retried is    *)
(* the caller's choice: fatal in the handshake/identify/publish paths,     *)
(* retried by the play loop (RSS_PULSE_TIMEOUT_MS).                        *)
(*                                                                         *)
(* Byte counts are kept for headers; payloads are counted in abstract      *)
(* units, and ChunkSize and ExtTs are scaled down (128 and 0xFFFFFF in the *)
(* code) so that multi-chunk messages and extended timestamps happen.      *)
(***************************************************************************)
EXTENDS Naturals, Sequences, SequencesExt

CONSTANTS
    ChunkSize,       \* in_chunk_size of the server = the peer's out chunk size
    ExtTs,           \* RTMP_EXTENDED_TIMESTAMP, the 3-byte field's escape value
    MaxTs,           \* largest timestamp the peer uses
    TsBound,         \* largest timestamp a re-parsed header may reach
    Lens,            \* payload lengths the peer sends
    Types,           \* message types the peer sends
    MaxMsgs,         \* bound on the messages the peer sends
    RetryOnTimeout   \* the caller retries recv_message after ERROR_SOCKET_TIMEOUT

ASSUME ChunkSize \in Nat \ {0} /\ ExtTs \in Nat \ {0} /\ MaxTs \in Nat /\ TsBound \in Nat
ASSUME Lens \subseteq Nat /\ MaxMsgs \in Nat /\ RetryOnTimeout \in BOOLEAN

VARIABLES
    wire,       \* chunks sent by the peer and not yet erased from the buffer
    avail,      \* bytes already in the RssBuffer, counted from the first of them
    hdr,        \* RssChunkStream::header: [ts, delta, len, type]
    extended,   \* RssChunkStream::extended_timestamp
    partial,    \* RssChunkStream::msg: NoMsg or [size, alloc] (alloc 0: payload NULL)
    msgCount,   \* RssChunkStream::msg_count, only ever compared with 0: kept as min(msg_count, 1)
    status,     \* "ok", "closed" (fatal socket error/timeout), "error" (protocol
                \* error), "misframed" (the decoder erased a count of bytes other
                \* than the chunk's: every later parse reads the wrong bytes)
    decoded,    \* history: [ts, len, type] of every message recv_message returned
    sentMsgs,   \* history: [ts, len, type] of every message the peer sent
    peerLast,   \* the peer's view of the last header it sent on this cid
    lastCopy    \* the last memcpy into a payload: [at, n, alloc]

vars == <<wire, avail, hdr, extended, partial, msgCount, status, decoded,
          sentMsgs, peerLast, lastCopy>>

NoMsg == [size |-> -1, alloc |-> -1]
MhSize == <<11, 7, 3, 0>>          \* mh_sizes[fmt], indexed by fmt + 1
BhSize == 1                        \* cid 2..63: one-byte basic header
Chunk == [fmt : 0..3, tsField : 0..MaxTs, len : Lens, type : Types,
          ext : BOOLEAN, extVal : 0..MaxTs, pay : 0..ChunkSize]

MinOf(a, b) == IF a < b THEN a ELSE b

-----------------------------------------------------------------------------
(* Byte layout of a chunk and the thresholds ensure_buffer_bytes tests.    *)

HeaderBytes(c) == BhSize + MhSize[c.fmt + 1]
ExtBytes(c) == IF c.ext THEN 4 ELSE 0
ChunkBytes(c) == HeaderBytes(c) + ExtBytes(c) + c.pay

\* byte counts at which a parse step can complete
Thresholds(c) == {BhSize, HeaderBytes(c), HeaderBytes(c) + ExtBytes(c), ChunkBytes(c)}

-----------------------------------------------------------------------------
(* The peer: an encoder following spec 4.4 (fmt 0 first; fmt 1 keeps the *)
(* stream id; fmt 2 also the length and type; fmt 3 also the delta; the    *)
(* extended timestamp carries the absolute timestamp and is repeated on    *)
(* every continuation chunk).                                              *)

FieldOf(v) == IF v >= ExtTs THEN ExtTs ELSE v

\* the chunks of one message whose first chunk has format fmt
Encode(ts, len, type, fmt, delta, ext) ==
    LET n == IF len = 0 THEN 1 ELSE (len + ChunkSize - 1) \div ChunkSize
        first == [fmt |-> fmt, tsField |-> FieldOf(delta), len |-> len, type |-> type,
                  ext |-> ext, extVal |-> ts, pay |-> MinOf(len, ChunkSize)]
        cont(i) == [first EXCEPT !.fmt = 3, !.pay = MinOf(len - (i - 1) * ChunkSize, ChunkSize)]
    IN [i \in 1..n |-> IF i = 1 THEN first ELSE cont(i)]

PeerSend ==
    /\ Len(sentMsgs) < MaxMsgs
    /\ \E ts \in (IF peerLast = NoMsg THEN 0 ELSE peerLast.ts)..MaxTs,
          len \in Lens, type \in Types, fmt \in 0..3 :
        LET first == peerLast = NoMsg
            delta == IF fmt = 0 THEN ts ELSE ts - peerLast.ts
            ext == IF fmt = 3 THEN peerLast.ext ELSE delta >= ExtTs
            d == IF fmt = 3 THEN peerLast.delta ELSE FieldOf(delta)
        IN /\ fmt # 0 => ~first
           /\ fmt \in {2, 3} => len = peerLast.len /\ type = peerLast.type
           /\ fmt = 3 => ~peerLast.ext /\ delta = peerLast.delta
           /\ wire' = wire \o Encode(ts, len, type, fmt, delta, ext)
           /\ sentMsgs' = Append(sentMsgs, [ts |-> ts, len |-> len, type |-> type])
           /\ peerLast' = [ts |-> ts, delta |-> d, len |-> len, type |-> type, ext |-> ext]
    /\ UNCHANGED <<avail, hdr, extended, partial, msgCount, status, decoded, lastCopy>>

\* a broken or malicious peer: any chunk at all
PeerSendHostile ==
    /\ Len(sentMsgs) < MaxMsgs
    /\ \E c \in Chunk :
          /\ c.tsField <= ExtTs /\ c.ext = (c.tsField = ExtTs) /\ c.pay <= c.len
          /\ ~c.ext => c.extVal = 0
          /\ wire' = Append(wire, c)
    /\ sentMsgs' = Append(sentMsgs, [ts |-> 0, len |-> 0, type |-> "hostile"])
    /\ UNCHANGED <<avail, hdr, extended, partial, msgCount, status, decoded,
                   peerLast, lastCopy>>

\* all the bytes the peer has sent and the buffer has not erased
WireBytes == FoldLeft(LAMBDA acc, c : acc + ChunkBytes(c), 0, wire)

\* st_read hands more of the peer's bytes to the buffer
Receive ==
    /\ wire # <<>>
    /\ \E t \in Thresholds(Head(wire)) \cup {WireBytes} :
          /\ t > avail
          /\ avail' = t
    /\ UNCHANGED <<wire, hdr, extended, partial, msgCount, status, decoded,
                   sentMsgs, peerLast, lastCopy>>

-----------------------------------------------------------------------------
(* The decoder.  Each action is one call of recv_interlaced_message, split *)
(* by where it ends.                                                       *)

Init ==
    /\ wire = <<>>
    /\ avail = 0
    /\ hdr = [ts |-> 0, delta |-> 0, len |-> 0, type |-> 0]
    /\ extended = FALSE
    /\ partial = NoMsg
    /\ msgCount = 0
    /\ status = "ok"
    /\ decoded = <<>>
    /\ sentMsgs = <<>>
    /\ peerLast = NoMsg
    /\ lastCopy = [at |-> 0, n |-> 0, alloc |-> 0]

\* ensure_buffer_bytes got ERROR_SOCKET_TIMEOUT: recv_message returns it
OnTimeout ==
    IF RetryOnTimeout THEN UNCHANGED status ELSE status' = "closed"

Fmt == Head(wire).fmt

\* fault model: chunk->msg created before the fmt is validated
ChunkStartViolatedAfterCreate ==
    \/ msgCount = 0 /\ Fmt # 0
    \/ [size |-> 0, alloc |-> 0] # NoMsg /\ Fmt = 0

\* read_message_header: the fmt must start a fresh chunk stream with 0 and
\* must not be 0 while a message is partially read
ChunkStartViolated ==
    \/ msgCount = 0 /\ Fmt # 0
    \/ partial # NoMsg /\ Fmt = 0

\* fault model: a type-1/2 delta subtracted instead of added
ParseHeaderBackwards(c) ==
    IF c.fmt <= 2
    THEN LET ts == IF c.fmt = 0 THEN c.tsField ELSE hdr.ts - c.tsField
         IN [ts |-> IF c.tsField >= ExtTs THEN ExtTs ELSE ts, delta |-> c.tsField,
             len |-> IF c.fmt <= 1 THEN c.len ELSE hdr.len,
             type |-> IF c.fmt <= 1 THEN c.type ELSE hdr.type]
    ELSE hdr

\* fault model: a fresh fmt-3 chunk reuses the timestamp without its delta
ParseHeaderNoFresh3(c) ==
    IF c.fmt <= 2
    THEN LET ts == IF c.fmt = 0 THEN c.tsField ELSE hdr.ts + c.tsField
         IN [ts |-> IF c.tsField >= ExtTs THEN ExtTs ELSE ts, delta |-> c.tsField,
             len |-> IF c.fmt <= 1 THEN c.len ELSE hdr.len,
             type |-> IF c.fmt <= 1 THEN c.type ELSE hdr.type]
    ELSE hdr

\* the message header fields (not the extended timestamp) applied to hdr
ParseHeader(c) ==
    IF c.fmt <= 2
    THEN LET ts == IF c.fmt = 0 THEN c.tsField ELSE hdr.ts + c.tsField
         IN [ts |-> IF c.tsField >= ExtTs THEN ExtTs ELSE ts,
             delta |-> c.tsField,
             len |-> IF c.fmt <= 1 THEN c.len ELSE hdr.len,
             type |-> IF c.fmt <= 1 THEN c.type ELSE hdr.type]
    ELSE IF partial = NoMsg /\ ~extended
         THEN [hdr EXCEPT !.ts = @ + hdr.delta]
         ELSE hdr

ParseExtended(c) == IF c.fmt <= 2 THEN c.tsField >= ExtTs ELSE extended

\* hdr after the extended timestamp, when there is one
ParseFull(c) ==
    IF ParseExtended(c) THEN [ParseHeader(c) EXCEPT !.ts = c.extVal] ELSE ParseHeader(c)

\* fault model: payload_size forgets the bytes already received
ChunkPayloadSizeWhole(h, size) == MinOf(h.len, ChunkSize)

\* read_message_payload: this chunk's share of the payload
ChunkPayloadSize(h, size) == MinOf(h.len - size, ChunkSize)

\* chunk->msg is created before the message header is read
Created == IF partial = NoMsg THEN [size |-> 0, alloc |-> 0] ELSE partial

\* fewer than one byte: read_basic_header times out
TimeoutBasicHeader ==
    /\ status = "ok"
    /\ avail < BhSize
    /\ OnTimeout
    /\ UNCHANGED <<wire, avail, hdr, extended, partial, msgCount, decoded,
                   sentMsgs, peerLast, lastCopy>>

\* read_message_header rejects the fmt: ERROR_RTMP_CHUNK_START, fatal
ChunkStartError ==
    /\ status = "ok"
    /\ wire # <<>>
    /\ avail >= BhSize
    /\ ChunkStartViolated
    /\ status' = "error"
    /\ UNCHANGED <<wire, avail, hdr, extended, partial, msgCount, decoded,
                   sentMsgs, peerLast, lastCopy>>

\* the message header is not all there: chunk->msg stays created
TimeoutMessageHeader ==
    /\ status = "ok"
    /\ wire # <<>>
    /\ avail >= BhSize
    /\ ~ChunkStartViolated
    /\ avail < HeaderBytes(Head(wire))
    /\ partial' = Created
    /\ OnTimeout
    /\ UNCHANGED <<wire, avail, hdr, extended, msgCount, decoded,
                   sentMsgs, peerLast, lastCopy>>

\* the extended timestamp is not all there: the header fields stay applied
TimeoutExtendedTimestamp ==
    LET c == Head(wire) IN
    /\ status = "ok"
    /\ wire # <<>>
    /\ avail >= HeaderBytes(c)
    /\ ~ChunkStartViolated
    /\ ParseExtended(c)
    /\ avail < HeaderBytes(c) + 4
    /\ partial' = Created
    /\ hdr' = ParseHeader(c)
    /\ extended' = TRUE
    /\ OnTimeout
    /\ UNCHANGED <<wire, avail, msgCount, decoded, sentMsgs, peerLast, lastCopy>>

\* read_message_payload: the payload of this chunk is not all there; the
\* header is applied, msg_count counted and the payload allocated
TimeoutPayload ==
    LET c == Head(wire)
        h == ParseFull(c)
        size == Created.size
    IN /\ status = "ok"
       /\ wire # <<>>
       /\ avail >= HeaderBytes(c)
       /\ ~ChunkStartViolated
       /\ avail >= HeaderBytes(c) + (IF ParseExtended(c) THEN 4 ELSE 0)
       /\ h.len > 0
       /\ h.ts <= TsBound
       /\ avail < HeaderBytes(c) + (IF ParseExtended(c) THEN 4 ELSE 0) + ChunkPayloadSize(h, size)
       /\ hdr' = h
       /\ extended' = ParseExtended(c)
       /\ msgCount' = 1
       /\ partial' = IF Created.alloc = 0 THEN [Created EXCEPT !.alloc = h.len] ELSE Created
       /\ OnTimeout
       /\ UNCHANGED <<wire, avail, decoded, sentMsgs, peerLast, lastCopy>>

\* the whole chunk is parsed: its payload copied after the bytes already
\* read, the chunk erased from the buffer; a completed message is handed to
\* recv_message, which drops it when empty
ReadChunk ==
    LET c == Head(wire)
        h == ParseFull(c)
        ext == IF ParseExtended(c) THEN 4 ELSE 0
        size == Created.size
        n == IF h.len = 0 THEN 0 ELSE ChunkPayloadSize(h, size)
        alloc == IF h.len = 0 \/ Created.alloc # 0 THEN Created.alloc ELSE h.len
        done == h.len = 0 \/ h.len = size + n
    IN /\ status = "ok"
       /\ wire # <<>>
       /\ avail >= BhSize
       /\ ~ChunkStartViolated
       /\ avail >= HeaderBytes(c) + ext + n
       /\ hdr' = h
       /\ extended' = ParseExtended(c)
       /\ msgCount' = 1
       /\ IF HeaderBytes(c) + ext + n = ChunkBytes(c)
          THEN /\ wire' = Tail(wire)
               /\ avail' = avail - ChunkBytes(c)
               /\ UNCHANGED status
          ELSE /\ status' = "misframed"
               /\ UNCHANGED <<wire, avail>>
       /\ lastCopy' = IF h.len = 0 THEN lastCopy ELSE [at |-> size, n |-> n, alloc |-> alloc]
       /\ partial' = IF done THEN NoMsg ELSE [size |-> size + n, alloc |-> alloc]
       /\ decoded' = IF h.len > 0 /\ h.len = size + n
                     THEN Append(decoded, [ts |-> h.ts, len |-> h.len, type |-> h.type])
                     ELSE decoded
       /\ UNCHANGED <<sentMsgs, peerLast>>

Next ==
    \/ PeerSend \/ Receive
    \/ TimeoutBasicHeader \/ ChunkStartError \/ TimeoutMessageHeader
    \/ TimeoutExtendedTimestamp \/ TimeoutPayload \/ ReadChunk

Spec == Init /\ [][Next]_vars

\* the same decoder facing a peer that may also break the chunk rules
HostileSpec == Init /\ [][Next \/ PeerSendHostile]_vars

-----------------------------------------------------------------------------
(* Properties.                                                             *)

TypeOK ==
    /\ wire \in Seq(Chunk)
    /\ avail \in Nat
    /\ hdr \in [ts : Nat, delta : 0..ExtTs, len : Lens \cup {0}, type : Types \cup {0}]
    /\ extended \in BOOLEAN
    /\ msgCount \in {0, 1}
    /\ status \in {"ok", "closed", "error", "misframed"}
    /\ partial = NoMsg \/ (partial.size \in Nat /\ partial.alloc \in Nat)

\* The messages recv_message returns are, in order, the non-empty messages
\* the peer sent, with the peer's timestamp, length and type.
DecodedFaithfully ==
    LET real == SelectSeq(sentMsgs, LAMBDA m : m.len > 0)
    IN IsPrefix(decoded, real)

\* A peer that follows the chunk rules never gets ERROR_RTMP_CHUNK_START.
NoSpuriousChunkStart ==
    status # "error"

\* Every memcpy into a partial payload stays inside the buffer allocated for
\* it (payload_length of the message's first chunk).
CopyInBounds ==
    lastCopy.n >= 0 /\ lastCopy.at + lastCopy.n <= lastCopy.alloc
=============================================================================

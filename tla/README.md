# TLA+ models of the RTMP server core

These modules model the live RTMP relay in `src/`. It is a single-process server on
State Threads. Each connection is a cooperative task that yields only inside socket
I/O and in the play loop's `st_usleep(0)`. Publishers push audio, video and metadata
into a per-URL `RssSource`, which fans shared, reference-counted payloads out to the
queues of the attached players.

## The system: parts, state and interactions

| Part | Source | State | Operations | Interacts with |
|---|---|---|---|---|
| ByteStream | `rss_core_stream.cpp` | cursor over a caller buffer | read/write ints and bytes | AMF0, packets |
| ReadBuffer | `rss_core_buffer.cpp` | byte vector | `ensure_buffer_bytes` (reads until n bytes or error/timeout), `erase` | socket, chunk decoder |
| AMF0 codec | `rss_core_amf0.cpp` | ordered key/value maps | read/write of each marker; `UnSortedHashtable::set` | packets |
| Chunk codec | `rss_core_protocol.cpp` | `in_chunk_size`, one `RssChunkStream` per cid (last header, extended flag, partial message, msg_count) | `recv_message` → `recv_interlaced_message` → `read_basic_header`, `read_message_header`, `read_message_payload`; `send_message`; `on_recv_message` (SetChunkSize) | buffer, session |
| Shared payload | `rss_core_protocol.cpp` | `shared_count` per payload | `initialize`, `copy`, destructor | LiveSource, play loop |
| Session | `rss_core_rtmp.cpp`, `rss_core_client.cpp` | connection phase, peer type | handshake, connect_app, identify_client, start_play / start_publish, streaming_play, streaming_publish, fmle_unpublish | chunk codec, LiveSource |
| LiveSource | `rss_core_source.cpp` | consumers, three caches, per-consumer FIFO | on_meta_data, on_audio, on_video, create_consumer, get_packets, consumer destroy | session tasks |
| Server | `rss_core_server.cpp`, `rss_core_conn.cpp` | connection list | accept_client, remove, can_report | sessions |
| Socket, log, main | `rss_core_socket.cpp`, `rss_core_log.cpp`, `rss_main_server.cpp` | — | I/O, formatting, startup | — |

What makes the code hard to get right:
- **Interleavings.** Publisher and player tasks interleave at every socket call. A
  player can attach between any two publisher messages, and a player's send loop
  yields inside each `send_message`.
- **The reference count.** `RssSharedPtrMessage::shared_count` is hand-rolled and off
  by one: it starts at 0 and the payload is freed when a handle is deleted at 0.
- **Re-parsing after a timeout.** The decoder leaves a chunk's bytes in the buffer until
  its payload is read. A recv timeout therefore makes the next call parse the same chunk
  again, after part of the previous parse has already changed the chunk stream.
- **Different timeout policies.** The play loop retries recv timeouts (100 ms pulse).
  Every other path treats a timeout as fatal.

## Modules

### `LiveSource.tla` (+ `MC_LiveSource.tla`)
This module models publishers and players on one stream URL.

State variables:
- `pubState` and `playState`: the phases of each session task.
- `consumers`: the consumer list.
- `queue[q]`: `RssConsumer::msgs`.
- `sending[q]`: the batch that `get_packets` handed to the play loop.
- `cacheMeta`, `cacheVideo`, `cacheAudio`: the caches.
- `shared[m]`: `shared_count` of payload `m` (`Freed` once deleted).
- `leaked`: lost handles.

History variables: `log` (what was published), `sent[q]` and `attachAt[q]`.

Each handler is one action, because the handlers contain no yield point:
- `OnAudio`, `OnVideo`, `OnMetaData`: `initialize`, a `copy` per consumer and for an
  empty cache, then the `RssAutoFree` delete.
- `CreateConsumer`: the cached copies, in the code's order.
- `GetPackets`: one play-loop tick. The control read times out, then `get_packets(0)`
  takes the whole queue.
- `SendMessage`: one `send_message`, which deletes its handle.
- `SendFail`: a send error. streaming_play returns, the batch array is deleted and the
  consumer is destroyed.
- `RecvFail`: a non-timeout error from the control read.
- `StartPublish` and `PublishEnd`: the publish session's start and end.

The reference-count primitives are the operators `Initialize`, `Copy` and `Destroy`.

### `LiveStream.tla`: the abstract stream, and the refinement
`LiveStream` says what the fan-out promises, with no queues, caches or counts.
- Publishers publish payloads of three kinds.
- A player joins after some number of payloads. It is then written, one at a time
  and in order, the late-join headers, followed by every payload published after it
  joined.
- A player may leave at any time. `FairSpec` adds `WF(Write(q))`: a player that stays
  is eventually written everything owed to it.

`LiveSource` defines `Stream == INSTANCE LiveStream WITH joined <- attachAt, written <- sent`,
with `pubState`, `playState` and `log` mapped by name. The passing run checks
`ImplementsLiveStream == Stream!FairSpec` as a property. The steps correspond like this:
- `OnAudio`/`OnVideo`/`OnMetaData` are `Publish`, and `CreateConsumer` is `Join`.
- `SendMessage` is `Write`, and `SendFail`/`RecvFail` are `Leave`.
- `GetPackets` and every reference-count change are stuttering steps.
- The play loop's weak fairness on `GetPackets` and `SendMessage` yields the abstract
  `WF(Write(q))`.

### `ChunkDecoder.tla` (+ `MC_ChunkDecoder.tla`)
This module models the receive side of the chunk codec for one chunk stream.

The environment is a peer that encodes messages as spec section 4.4 says: fmt 0 first,
then fmt 1, 2 or 3 where their fields allow. Extended timestamps carry the absolute
timestamp and are repeated on continuation chunks.

Variables:
- `wire`: the chunks sent and not yet erased from the buffer.
- `avail`: how many of their bytes are in the `RssBuffer`.
- `Receive`: a socket read that appends bytes up to one of the first chunk's parse
  thresholds, or up to everything sent.
- `hdr`, `extended`, `partial`, `msgCount`: the `RssChunkStream` fields.
- `status`: whether the connection is still up.

Each call of `recv_interlaced_message` is one action, split by where it ends:
- `TimeoutBasicHeader`
- `ChunkStartError`
- `TimeoutMessageHeader`: `chunk->msg` has already been created.
- `TimeoutExtendedTimestamp`: the header fields have been applied.
- `TimeoutPayload`: the header is applied, `msg_count` counted and the payload allocated.
- `ReadChunk`: the payload is copied and the chunk erased. A completed message is
  delivered, unless it is empty, which `recv_message` drops.

A timeout ends the connection unless the constant `RetryOnTimeout` is set. Retry is the
play loop's behaviour.

`HostileSpec` adds `PeerSendHostile`, a peer that may send any chunk. A decoder
that erases a byte count different from the chunk's real size records `misframed`
and stops: after that every parse reads the wrong bytes.

### `ChunkEncoder.tla` (checked in `MC_MetaData.tla`)
This module models the send side of the chunk codec byte for byte. It has no state of
its own: it defines operators, and the laws about them are checked in the `amf0_safety`
run.

- **`OutMsg`** is what `send_message` reads of an `IRssMessage`: the header fields,
  the preferred cid, the payload bytes, `can_decode`, and the packet.
  - `CommonMessages(pkt, sid)` is `set_packet` followed by `encode_packet`. It uses
    `Packets`' encoders, and the timestamp stays 0.
  - `SharedMessage` is `RssSharedPtrMessage::initialize`, which picks cid 6, 7 or 4
    by message type.
- **`Fmt0Header` and `Fmt3Header`** are the two header layouts the code writes:
  - the three-byte fields are the low bytes of the `int32`;
  - the stream id is little-endian;
  - the extended timestamp is written when `timestamp >= 0xFFFFFF`, on the first
    chunk and again on every fmt-3 chunk.
- **`SendMessage(m, outChunkSize)`** is the do-while loop of `send_message`. It writes
  one header and at most `out_chunk_size` bytes per `writev`, and a header even for an
  empty payload. It then applies **`OnSendMessage`**, which sets `out_chunk_size` from
  a SetChunkSize packet and leaves it alone for a shared message.
  - It returns the bytes and the new `out_chunk_size`.
  - `SendAll` chains calls on one `RssProtocol`, starting from the constructor's 128.
- **`ReadAll` is the reference reader.** It follows spec 4.4 for fmt 0 and fmt 3 with
  one-byte basic headers, and keeps the last header and the partial payload per cid.
  - It passes every whole message through `Packets!OnRecvMessage`, so a SetChunkSize
    moves its `in_chunk_size` just as `on_recv_message` does.
  - It reads one message per call of `ReadMessage`. This keeps TLC's recursion depth
    at one message's chunks, not the whole stream's.
  - The reference is not mapped to code.

### `Session.tla` (+ `MC_Session.tla`)
This module models one connection's `RssClient::do_cycle`, from the handshake to the end
of its play or publish loop. The chunk layer is abstracted to whole messages.

How the model is built:
- **The client is the environment.** It follows a script (`Scripts`: an FMLE
  publisher, a Flash player, a Flash publisher, a connect without a usable tcUrl). It may
  insert up to `MaxNoise` out-of-turn messages (`Noise`).
- **Transaction ids.** A message's id is its position, so ids are distinct.
- **History variables.** `in` and `out` record every message read and sent.
- **`phase` is the call do_cycle is blocked in:** `connect`, `identify`, `identifyPlay`,
  the three waits of `start_publish`, `publishing`, `playing`.
- **`PacketClass` is `decode_packet`'s dispatch.** releaseStream, FCPublish and
  FCUnpublish all become the same `RssFMLEStartPacket`.
- **`Expect` is `rss_rtmp_expect_message`.** A decode error is fatal, and a message of
  another class is dropped.
- **`Respond` is a run of `send_message` calls.** Any of them may fail, and the session
  then closes with a prefix of the replies sent.
- **`RecvFail`** is a failing read in any phase.
- **`RecvTimeout`** is the 5 s recv timeout `do_cycle` sets before the handshake
  (`RSS_SEND_TIMEOUT_MS`). It fires once the client has nothing more to send, and it is
  fatal in every phase in `TimeoutFatal`. The play loop is the exception: it sets a
  100 ms timeout and retries.
- **`FairSpec`** adds weak fairness. The handshake ends, because its reads are
  bounded by the timeout. The server reads what the client sends (`ServerReads`).
  The timeout fires. Read and send failures stay optional.

There is one action per handler: `HandshakeOK`, `HandshakePlainRequired`, `ConnectApp`
(with the negotiation sends), `IdentifyClient`, `IdentifyPlay` (with set_chunk_size and
start_play), `ExpectFCPublish`, `ExpectCreateStream`, `ExpectPublish`,
`StreamingPublish` (with fmle_unpublish) and `StreamingPlayRecv`.

`SpecOut` is the reference: spec 4.6's state machine, written independently as a fold of
`SpecStep` over the messages read, with its own reply sequences.

### `Amf0.tla`, `Packets.tla`, `MetaData.tla`, `Catalog.tla` (+ `MC_MetaData.tla`)
`Amf0` models the AMF0 codec (`rss_core_amf0.cpp`) over `RssStream`. `Packets`
adds the packet classes of `rss_core_protocol.cpp` on top of it. `MetaData` is the
onMetaData relay (`RssOnMetaDataPacket`, `RssSource::on_meta_data`), and `Catalog`
is the message catalog of spec 4.4/4.5 with the URL discovery of `rss_core_rtmp.cpp`.
`MC_MetaData` instantiates `MetaData` and `Catalog` together.

- **Data.** A buffer is a sequence of bytes 0..255, and a cursor is the code's offset
  `p - bytes`. A value is one record shape for every type: `marker`, `val` (string bytes,
  a number's 8 bytes, `<<0>>`/`<<1>>`), `props` (the `RssUnSortedHashtable` as a
  sequence of name/value pairs) and `count` (an ecma array's associative-count).
  Names such as `"server"` or `"onMetaData"` are their real bytes.
- **Operators, one per code function.**
  - The writers: `WriteUtf8`, `WriteString`, ..., `WriteObject`, `WriteEcmaArray`,
    `WriteAny`.
  - The size functions: `Utf8Size`, ..., `AnySize`.
  - The readers: `ReadUtf8` (with the `int16_t` length; a length <= 0 leaves the
    target string as it was, which the callers pass in as `prior`), `ReadObjectEof` (steps back
    two bytes and asserts `pos() >= 2`), `ReadProps` (the loop of `read_object` and
    `read_ecma_array`), `ReadAny`.
  - `SetProp`, `GetProperty` and `EnsureProperty`, from the hashtable.
  - `DecodeMetaData`, `PacketEncode` and `RelayMetaData`. A reader returns ok with the
    value and the new cursor, an error, or an abort.
  - `RECURSIVE` operators walk nested objects, the way serializers such as
    CommunityModules' `Json` are written.
- **Actions.**
  - `Set` and `Clear` build an object by `set`/`clear` calls. Every object the code
    sends is built this way.
  - `OnMetaData(form)` is the publish loop receiving the current object as a
    publisher's onMetaData message, in one of three shapes: an object, an ecma array, or
    `@setDataFrame` plus an ecma array. It runs decode, then `on_meta_data`. Either one
    failing closes the publisher.
  - `RssPacket::encode` leaves bytes past the encoding uninitialised. The model lets
    them be 0 or 255.
- **Packets.** Each `Rss*Packet` class is a `Class` record: message type, chunk id,
  the field kinds `get_size` adds up (`size`), the fixed sizes of control packets, and
  the field kinds `encode_packet` writes (`enc`). `GetSize`, `EncodePacket` and
  `Encode` (= `RssPacket::encode`) fold over them, so a field that one side forgets
  and the other writes shows up as a size mismatch. The constructors
  (`ConnectAppResPacket`, `OnStatusCallPacket`, `SetPeerBandwidthPacket`, ...) set
  the fields the code's constructors and callers set. `DecodePacket` with
  `DecodeConnect`, `DecodePlay`, `DecodePublish`, ... is `RssProtocol::decode_message`.
- **Catalog.** Pure operators, no variables:
  - `DiscoveryApp` is `rss_discovery_app`'s find/substr arithmetic on a tcUrl, with
    the port defaulting to "1935". `ConnectApp` is `RssRtmp::connect_app`'s checks.
  - `ResponseConnectApp`, `StartPlay`, `StartPublish`, `FmleUnpublish`,
    `IdentifyCreateStreamReply` and `IdentifyFmlePublishReply` build the packets the
    server sends. `Sent` is every such packet over the bounded inputs.
  - The reference side is written from the spec's tables: `InRows`/`OutRows` give
    each message's fields and types, `MessageBytes` its wire bytes, and `Reading`
    what the decoder must return. `Double(n)` builds the IEEE bytes of a small
    integer, so transaction ids and status numbers are real doubles.
  - The catalog laws (`CommandsDecode`, `ChunkSizeMessages`, `ReplyRows`,
    `ReplyBytes`, `TcUrlSound`, `TcUrlComplete`, `ConnectAccepted`,
    `ConnectReplyEchoes`) quantify over constants only, and each property says that
    its two laws hold at every step of the metadata run (`[][A /\ B]_vars`,
    in `MC_MetaData`). TLC evaluates such a constant definition once, at startup,
    and every state's check reuses the value.
    This works only while no operator parameter on the way shares a name with a
    state variable: TLC then takes the definition for a state-level one and
    re-evaluates it in every state. That is why `ConnectAppResPacket`'s first
    parameter is `properties` and not the code's `props`, which is `MetaData`'s
    variable.
  - A reader's next step takes the previous step's result through `Bind`, which
    evaluates it once. With a `LET`, TLC under coverage evaluates the bound
    expression again at every use, which is exponential in the recursive readers.

### `Server.tla` (+ `MC_Server.tla`)
This module models the connection list of `RssServer` and `RssConnection`.

- **Variables.** `conns` is the vector, `running` the connections whose cycle task runs,
  `deleted` the freed objects, and `interval` is `rss_report_interval_ms`.
- **`AcceptClient`** is `accept_client`: enqueue, rescale the interval, start the task.
  With `StartMayFail`, the start can fail, and the listen loop goes on.
- **`CycleEnds`** is `RssConnection::cycle` returning and calling `remove`
  (`ServerRemove`).

## Runs

| Run | Checks | Shows |
|---|---|---|
| `livesource_safety` (pass) | `TypeOK`, `RefCountExact`, `PlayerStream`, `ImplementsLiveStream` | LiveSource refines LiveStream, liveness included. The count equals handles − 1 for every live payload, and a payload is freed exactly at its last handle. Each playing player's sent ++ batch ++ queue equals the join headers followed by every later message, once and in order. Under the play loop's fairness, a player that stays is written everything owed to it (LiveStream's liveness). |
| `livesource_leak` (violation) | `NoLeakedPayload` | A mid-batch send failure leaks the unsent handles (`RssAutoFree(msgs, true)` deletes only the array). |
| `livesource_two_publishers` (violation) | `SinglePublisher` | Two sessions may publish the same URL at once. |
| `decoder_fatal_timeouts` (pass) | `DecodedFaithfully`, `NoSpuriousChunkStart` | With fatal timeouts, the decoded messages are exactly the peer's non-empty messages, in order. A well-formed peer is never rejected. |
| `decoder_retry` (pass) | `TypeOK`, `CopyInBounds` | With retries, a well-formed peer's copies stay inside their allocation. |
| `decoder_retry_timestamp` (violation) | `DecodedFaithfully` | A type-1 chunk retried after a payload timeout gets its delta added twice. |
| `decoder_hostile_copy` (violation) | `CopyInBounds` | A mid-message type-1 chunk with a shorter length makes `payload_size` negative before the memcpy. |
| `session_safety` (pass) | `FollowsSpecScript`, `SessionsSettle` | The server's replies are exactly spec 4.6's replies to what it read, cut short only by a failed send or read. Under `FairSpec`, every connection ends (closed or unpublished) or stays in the play loop. No identify, expect or publish wait lasts forever, not even for the Flash publisher, whose publish the play-identify loop ignores: the recv timeout closes it. |
| `session_unpublish_on_release` (violation) | `UnpublishOnlyOnFCUnpublish` | A releaseStream (or FCPublish) while publishing ends publishing with the unpublish reply. The spec says only FCUnpublish does. |
| `amf0_safety` (pass) | `KeyOrderLaw`, `SizeLaw`, `MetaDataRelay`, `CommandsFollowCatalog`, `RepliesFollowCatalog`, `TcUrlLaw`, `ConnectExchange`, `SendFollowsScenarios`, `ChunkStreamRoundTrip` | Every client command of spec 4.4, with each optional field present or absent and each field of a wrong type, decodes to exactly the fields the table gives (play's defaults included) or is rejected; a set chunk size message sets `in_chunk_size`, failing below 2 or on a short payload. Every reply the server sends has the table's type, chunk id, markers and names, and `get_size` equals the length `encode` writes. `rss_discovery_app` accepts exactly the URLs schema://vhost[:port]/app and splits them back into their parts. `connect_app` accepts an object exactly when its last tcUrl is a string that discovers, and its reply echoes the last objectEncoding when that is a number, 0 otherwise. Properties iterate in the order of their last `set` (spec 8.2). Computed sizes equal encoded lengths for objects and ecma arrays, nested ones included. While the publisher publishes, the cached metadata is "onMetaData" plus its last metadata as an object, in its order, with `server` set last, whichever shape it used. Only metadata holding null/undefined closes the publisher. `send_message` writes spec 8's scenarios B (SetChunkSize 4096) and F (extended timestamp, 300 bytes at chunk size 128) byte for byte. Any three successive sends, from chunk size 2, 128 or 65536, are read back by the spec reader as the same messages, and both ends then agree on the chunk size (spec 8, laws 3 and 4). |
| `amf0_roundtrip` (violation) | `RoundTrip` | An object with a null property does not decode from its own encoding (spec 8.1). `read_any` leaves the null marker unread, and the next name's length is read from it. |
| `server_orphan_connection` (violation) | `ConnectionBookkeeping` | A connection whose task fails to start stays in `conns` for good, with its socket open and counted in the report interval. |

Every property of a passing run has a mutant in `PROJECT.json`: a plausible bug in the
mapped definition that TLC catches with that property.

### Bounds and why they are enough
- **LiveSource.**
  - Two players and three messages in the passing run: enough for a player to attach
    before, between and after the three kinds, and for a batch of two or more to fail
    midway. There is no symmetry reduction, because the same run checks liveness.
  - One publisher in the passing runs. The code serialises one publisher's handlers, and
    a second publisher adds only the interleaving the `SinglePublisher` run already
    shows. The violation runs use two.
- **ChunkDecoder.**
  - `ChunkSize` 2 and lengths {0, 1, 3}: empty, single-chunk and two-chunk messages.
  - `ExtTs` 3 with timestamps up to 4: extended and plain timestamps, and deltas that
    cross the escape value.
  - Three messages, so every fmt follows every other.
  - `TsBound` 6: caps the timestamp that repeated retries may reach. Without it, each
    retry of a type-1 chunk grows the state space.
  - Byte arrival stops at each threshold `ensure_buffer_bytes` tests, so every timeout
    point is reached.

- **Session.**
  - Four client scripts that cover both identify branches, all three start_publish
    waits, unpublish and a rejected connect.
  - Two out-of-turn messages after connect: enough for one before and one after any
    step, and for a decode error at every read.
  - The passing run's clients send no FMLE command out of turn. Sending one is exactly
    what the `session_unpublish_on_release` run shows going wrong.
  - No out-of-turn message before connect. With `NoiseBeforeConnect` TRUE,
    `FollowsSpecScript` fails (see known results).

- **Amf0.**
  - Two names, `"a"` and `"server"`. Three `set` calls: the fewest for "a, server, a"
    to tell erase-and-append from an in-place update.
  - One value of each type the code writes: the empty string (the `len <= 0` path),
    true, 1.0, null, and an object nesting a one-byte string.
  - Lengths stay far below the 32 KiB where the `int16_t` length bites (hazard list).
- **Catalog.**
  - Command and property names are distinct stand-in strings (`MCName`): the
    catalog checks which name is where, not its spelling.
  - Transaction ids 1.0 and 5.0, stream names empty or one byte.
    An empty publish type decodes to the constructor's `"live"` (`StringInit`,
    `RssPublishPacket::RssPublishPacket`), and the table says so.
  - Eight connect objects: a missing, non-string, rejected and repeated tcUrl, and an
    objectEncoding missing, repeated, a string or a Bool.
  - Every tcUrl up to 8 bytes over "a", ":" and "/" (the shortest accepted one has
    7 bytes), and URLs built from parts whose app holds "/", ":" and "://" again.
  - Chunk sizes 0, 1, 2, 128, 4096 and 2^31-1. Sizes of 2^31 and more are rejected
    by the `int32` read at `rss_core_protocol.cpp:2221`; TLC's integers cannot
    hold them (hazard list).
  - The ecma array count of the connect reply's `data` is never initialised in the
    code; the model takes it from `Counts` = {0, 7}.
- **ChunkEncoder.** The messages are:
  - the two SetChunkSize packets the code can send, to 2 (the smallest the peer
    accepts) and to 4096 (`RssClient::service`);
  - relayed video, audio and data at timestamps 0xFFFFFF (the escape value itself),
    0xFFFFFE and 2^31-1, of 129, 128 and 3 bytes: one over, exactly, and below a
    chunk.
  - Every sequence of up to three of them is sent from start sizes 2, 128 and 65536.
    The SetChunkSize packets switch the size in the middle of a sequence, and at
    size 2 a 129-byte message takes 65 chunks.
  - Timestamps of 2^31 and more cannot be built in TLC (hazard list).
- **Server.** Three connection objects: one whose start fails while others run, and an
  end after two accepts.

### Known results not kept as runs
The runs are capped. These two results were shown by violation runs, and their
properties stay checked by the passing runs:
- `ChunkDecoder_retry.cfg` with `INVARIANT NoSpuriousChunkStart`: a type-0 chunk whose
  header arrives after the 100 ms pulse is rejected on retry with ERROR_RTMP_CHUNK_START
  (`rss_core_protocol.cpp:670`). The player is dropped.
- `Session_safety.cfg` with `NoiseBeforeConnect = TRUE`: `FollowsSpecScript` fails.
  `rss_rtmp_expect_message` drops a message sent before connect, and the session
  connects. Spec 4.6 says to fail.

Divergences noted while modelling, with no run of their own:
- `start_play` sends StreamBegin with `set_packet(pkt, 0)`, on stream id 0. Spec 4.6
  says every message of the play-start sequence carries the stream's id.
- `RssPlayResPacket` is declared but never constructed.
- `read_basic_header` adds the second basic-header byte as a signed `char`
  (`rss_core_protocol.cpp:597`). A chunk stream id of 192 or more in the two-byte form
  comes out as 64 + byte − 256, which is another stream's id.
- A timestamp of 2^31 or more reaches the server as a negative `int32`.
  `send_message` then writes its low three bytes with no extended timestamp.
- `RepliesFollowCatalog` and `ConnectExchange` leave out null/undefined inside a
  connect object: `read_any` cannot decode them (the `amf0_roundtrip` run).

### Fairness
`streaming_play` sets a 100 ms recv timeout and calls `st_usleep(0)` on every
iteration. A playing task is therefore always scheduled again, and it repeats
`get_packets` and `send_message` while they are enabled. That justifies weak
fairness on `GetPackets` and `SendMessage`, and on nothing else: publishers and failures
are not obliged to happen.

`Session`'s `FairSpec` is weakly fair to three things:
- the end of the handshake;
- the server's reads (`ServerReads`);
- `RecvTimeout`.

Each connection runs its own st thread, which is scheduled whenever bytes arrive. Every
read outside the play loop returns within `RSS_SEND_TIMEOUT_MS`. Fairness on the reads
also assumes something about the client: it sends the rest of its script. Without
that, every wait would end only by the timeout, and the property would hold trivially.
`RecvFail` and the failing sends are not fair.

## Not modelled, and why
Modelled, in order of importance: LiveSource (fan-out, refcount, join), ChunkDecoder
(reassembly, timeouts), Session (the connection state machine, standalone, with its
receive timeouts and liveness), the Server's connection list, the AMF0 codec with the
onMetaData relay, the LiveStream refinement, and the chunk send side (ChunkEncoder).
Still open, with the reason each one stops here:
1. **Session with LiveSource**: composing them so that publish start and end drive
   the source, and players outlive the publisher (Scenario D). Each module alone
   already fills its state space at the bounds its own hazards need. The product
   would have to shrink both below those bounds, or run far beyond TLC's budget here.
   The interface between the two (`StartPublish`, `PublishEnd`, `CreateConsumer`) is
   checked on the LiveSource side, with the Session's calls as free inputs.
2. **Chunk codec, more of it**: several interleaved cids and SetChunkSize in the
   stateful decoder, and the two- and three-byte basic headers. Per-cid state is
   independent in `recv_interlaced_message`, so a second cid adds states but no
   interleaving the single-cid run misses. The reader beside ChunkEncoder applies
   SetChunkSize. The signed-char cid of `read_basic_header` is recorded below as a
   divergence instead.
3. **AMF0 over hostile bytes**: spec 4.3 (re-encoding what was accepted gives the
   same bytes), over an enumerated space of byte strings. Even short strings give
   256^n inputs. The catalog run already covers every command with wrong-typed and
   missing fields.

Not planned:
- `can_report`, which the play loop calls with its own virtual clock. It changes only
  the log throttle.
- Socket and log: pure I/O. Their outcomes appear as nondeterministic choices.
- ByteStream: its cursor arithmetic is part of `Amf0`'s readers and writers. The
  chunk codec's own byte work is modelled in ChunkDecoder's header sizes.
- The source pool's unbounded growth and the unbounded player queues: a finite model
  cannot show them, and spec sections 5 and 9 record them.

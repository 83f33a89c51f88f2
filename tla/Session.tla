------------------------------ MODULE Session ------------------------------
(***************************************************************************)
(* One RTMP connection, from the handshake to the end of its play or      *)
(* publish loop: RssClient::do_cycle and the RssRtmp calls it makes       *)
(* (rss_core_client.cpp, rss_core_rtmp.cpp).  The chunk layer below is    *)
(* abstracted to whole messages; ChunkDecoder models it.  The media a      *)
(* publisher pushes goes to the LiveSource, which LiveSource models; here *)
(* it only matters that the session reads and ignores it.                 *)
(*                                                                         *)
(* The client is the environment.  It follows a script (the command       *)
(* sequence of a real client) and may slip at most MaxNoise other         *)
(* messages in between.  A message's transaction id is its position in   *)
(* the connection, so ids are distinct and an echoed id names its        *)
(* request.                                                                *)
(***************************************************************************)
EXTENDS Naturals, Sequences, SequencesExt

CONSTANTS
    Scripts,            \* the clients' command scripts (sequences of names)
    Noise,              \* names of the messages a client may send out of turn
    MaxNoise,           \* bound on out-of-turn messages per connection
    NoiseBeforeConnect  \* whether out-of-turn messages may precede connect

VARIABLES
    phase,    \* where do_cycle is: the call it is blocked in
    script,   \* the client's script
    pos,      \* next script position the client sends
    noise,    \* out-of-turn messages sent so far
    in,       \* history: every message the server has read, in order
    out       \* history: every message the server has sent, in order

vars == <<phase, script, pos, noise, in, out>>

Names == {"connect", "connectBadTcUrl", "createStream",
          "play", "publish", "releaseStream", "FCPublish", "FCUnpublish",
          "_checkbw", "undecodable", "audio"}

Phases == {"handshake", "connect", "identify", "identifyPlay",
           "expectFCPublish", "expectCreateStream", "expectPublish",
           "playing", "publishing", "unpublished", "closed"}

Reply(kind, tid) == [kind |-> kind, tid |-> tid]
Msg == [name : Names, tid : Nat]

-----------------------------------------------------------------------------
(* What decode_packet makes of a message: the packet class the session   *)
(* tests with dynamic_cast.  Audio is not a command; a command whose      *)
(* AMF0 body does not parse fails to decode; an unknown command name      *)
(* decodes to the plain RssPacket.                                        *)
IsCommand(m) == m.name # "audio"

PacketClass(m) ==
    CASE m.name \in {"connect", "connectBadTcUrl"}           -> "ConnectApp"
      [] m.name = "createStream"                              -> "CreateStream"
      [] m.name = "play"                                      -> "Play"
      [] m.name = "publish"                                   -> "Publish"
      [] m.name \in {"releaseStream", "FCPublish", "FCUnpublish"} -> "FMLEStart"
      [] m.name = "undecodable"                               -> "DecodeError"
      [] OTHER                                                -> "Packet"

(* The connect handler's checks of the command object: tcUrl must be     *)
(* present (ERROR_RTMP_REQ_CONNECT) and discovery_app must find all four *)
(* parts in it (ERROR_RTMP_REQ_TCURL); connectBadTcUrl fails either.     *)
ConnectAccepted(m) == m.name = "connect"

(* The fixed message sequences the server sends. *)
Negotiate == <<Reply("WindowAckSize", 0), Reply("SetPeerBandwidth", 0),
               Reply("ConnectResult", 1), Reply("OnBWDone", 0)>>
SetChunkSize == <<Reply("SetChunkSize", 0)>>
(* Mutant: start_play sending Play.Start before Play.Reset. *)
PlayStartSwapped == <<Reply("StreamBegin", 0), Reply("PlayStart", 0), Reply("PlayReset", 0),
                      Reply("SampleAccess", 0), Reply("DataStart", 0)>>
PlayStart == <<Reply("StreamBegin", 0), Reply("PlayReset", 0), Reply("PlayStart", 0),
               Reply("SampleAccess", 0), Reply("DataStart", 0)>>
PublishStart == <<Reply("OnFCPublish", 0), Reply("PublishStart", 0)>>
Unpublish(tid) == <<Reply("OnFCUnpublish", 0), Reply("FMLEResult", tid),
                    Reply("UnpublishSuccess", 0)>>

-----------------------------------------------------------------------------
(* The client: the next message of its script, or an out-of-turn one.    *)
Offered ==
    LET tid == Len(in) + 1
    IN  (IF pos <= Len(script) THEN {[name |-> script[pos], tid |-> tid]} ELSE {})
        \cup {[name |-> n, tid |-> tid] :
                n \in IF noise < MaxNoise /\ (pos > 1 \/ NoiseBeforeConnect)
                      THEN Noise ELSE {}}

(* The server reads m: RssProtocol::recv_message returning it. *)
Read(m) ==
    /\ in' = Append(in, m)
    /\ IF pos <= Len(script) /\ m.name = script[pos]
       THEN pos' = pos + 1 /\ UNCHANGED noise
       ELSE noise' = noise + 1 /\ UNCHANGED pos

(* A run of send_message calls, each of which may fail: the first k      *)
(* replies go out, and a failure ends do_cycle with an error.            *)
Respond(replies, next) ==
    \E k \in 0..Len(replies) :
        /\ out' = out \o SubSeq(replies, 1, k)
        /\ phase' = IF k = Len(replies) THEN next ELSE "closed"

Ignore == UNCHANGED <<phase, out>>
Fail == phase' = "closed" /\ UNCHANGED out

-----------------------------------------------------------------------------
Init ==
    /\ phase = "handshake"
    /\ script \in Scripts
    /\ pos = 1
    /\ noise = 0
    /\ in = <<>>
    /\ out = <<>>

(* RssRtmp::handshake: C0 must be 0x03, then S0S1S2 is written and C2    *)
(* read.  A failing C2 read is RecvFail in the next phase.               *)
HandshakeOK ==
    /\ phase = "handshake"
    /\ Respond(<<Reply("S0S1S2", 0)>>, "connect")
    /\ UNCHANGED <<script, pos, noise, in>>

HandshakePlainRequired ==
    /\ phase = "handshake"
    /\ Fail
    /\ UNCHANGED <<script, pos, noise, in>>

(* rss_rtmp_expect_message<T> followed by the reply to what it returns: *)
(* a decode error ends the session, a message of another class is       *)
(* deleted and dropped, and the expected one is answered.               *)
Expect(m, class, replies, next) ==
    CASE PacketClass(m) = "DecodeError" -> Fail
      [] PacketClass(m) # class         -> Ignore
      [] OTHER                          -> Respond(replies, next)

(* connect_app, then do_cycle's window ack size, peer bandwidth,        *)
(* connect response and onBWDone.                                       *)
ConnectApp ==
    /\ phase = "connect"
    /\ \E m \in Offered :
        /\ Read(m)
        /\ IF PacketClass(m) = "ConnectApp" /\ ~ConnectAccepted(m)
           THEN Fail
           ELSE Expect(m, "ConnectApp", Negotiate, "identify")
    /\ UNCHANGED script

(* identify_client: non-commands are skipped, createStream goes to      *)
(* identify_create_stream_client, an FMLE start command to              *)
(* identify_fmle_publish_client; do_cycle then sends SetChunkSize and   *)
(* start_publish begins waiting for FCPublish.                          *)
IdentifyClient ==
    /\ phase = "identify"
    /\ \E m \in Offered :
        /\ Read(m)
        /\ CASE ~IsCommand(m)                      -> Ignore
             [] PacketClass(m) = "DecodeError"     -> Fail
             [] PacketClass(m) = "CreateStream"    ->
                    Respond(<<Reply("CreateStreamResult", m.tid)>>, "identifyPlay")
             [] PacketClass(m) = "FMLEStart"       ->
                    Respond(<<Reply("FMLEResult", m.tid)>> \o SetChunkSize,
                            "expectFCPublish")
             [] OTHER                              -> Ignore
    /\ UNCHANGED script

(* The loop of identify_create_stream_client waiting for play; do_cycle *)
(* then sends SetChunkSize and start_play's five messages.              *)
IdentifyPlay ==
    /\ phase = "identifyPlay"
    /\ \E m \in Offered :
        /\ Read(m)
        /\ CASE ~IsCommand(m)                  -> Ignore
             [] PacketClass(m) = "DecodeError" -> Fail
             [] PacketClass(m) = "Play"        ->
                    Respond(SetChunkSize \o PlayStart, "playing")
             [] OTHER                          -> Ignore
    /\ UNCHANGED script

(* The three expect/reply pairs of start_publish. *)
ExpectFCPublish ==
    /\ phase = "expectFCPublish"
    /\ \E m \in Offered :
        /\ Read(m)
        /\ Expect(m, "FMLEStart", <<Reply("FMLEResult", m.tid)>>, "expectCreateStream")
    /\ UNCHANGED script

ExpectCreateStream ==
    /\ phase = "expectCreateStream"
    /\ \E m \in Offered :
        /\ Read(m)
        /\ Expect(m, "CreateStream", <<Reply("CreateStreamResult", m.tid)>>,
                  "expectPublish")
    /\ UNCHANGED script

ExpectPublish ==
    /\ phase = "expectPublish"
    /\ \E m \in Offered :
        /\ Read(m)
        /\ Expect(m, "Publish", PublishStart, "publishing")
    /\ UNCHANGED script

(* One iteration of streaming_publish: media goes to the source, a      *)
(* command is decoded and an FMLE start packet ends publishing through  *)
(* fmle_unpublish; every other command is ignored.                      *)
StreamingPublish ==
    /\ phase = "publishing"
    /\ \E m \in Offered :
        /\ Read(m)
        /\ CASE ~IsCommand(m)                  -> Ignore
             [] PacketClass(m) = "DecodeError" -> Fail
             [] PacketClass(m) = "FMLEStart"   -> Respond(Unpublish(m.tid), "unpublished")
             [] OTHER                          -> Ignore
    /\ UNCHANGED script

(* streaming_play's control read: a message read is discarded undecoded. *)
StreamingPlayRecv ==
    /\ phase = "playing"
    /\ \E m \in Offered : Read(m) /\ Ignore
    /\ UNCHANGED script

(* A read that fails: socket error, peer close, or a recv timeout where *)
(* it is fatal.  In the play loop only a non-timeout error ends it.     *)
RecvFail ==
    /\ phase \notin {"handshake", "unpublished", "closed"}
    /\ Fail
    /\ UNCHANGED <<script, pos, noise, in>>

(* The recv timeout do_cycle sets before the handshake (RSS_SEND_TIMEOUT_MS, *)
(* 5 s): once the client has nothing more to send, the blocked read gets   *)
(* ERROR_SOCKET_TIMEOUT, which every handler returns -- except the play    *)
(* loop, which switches to RSS_PULSE_TIMEOUT_MS and retries.               *)
TimeoutFatal == {"connect", "identify", "identifyPlay", "expectFCPublish",
                 "expectCreateStream", "expectPublish", "publishing"}

\* (mutant) identify_create_stream_client retrying timeouts like the play loop
RecvTimeoutRetryIdentify ==
    /\ phase \in TimeoutFatal \ {"identifyPlay"}
    /\ Offered = {}
    /\ Fail
    /\ UNCHANGED <<script, pos, noise, in>>

RecvTimeout ==
    /\ phase \in TimeoutFatal
    /\ Offered = {}
    /\ Fail
    /\ UNCHANGED <<script, pos, noise, in>>

Next ==
    \/ HandshakeOK \/ HandshakePlainRequired
    \/ ConnectApp \/ IdentifyClient \/ IdentifyPlay
    \/ ExpectFCPublish \/ ExpectCreateStream \/ ExpectPublish
    \/ StreamingPublish \/ StreamingPlayRecv
    \/ RecvFail \/ RecvTimeout

Spec == Init /\ [][Next]_vars

(* Fairness.  The handshake ends: its reads are bounded by the 5 s       *)
(* timeout.  The server reads what the client sends: each connection has *)
(* its own st thread, and a client sends the rest of its script (and at  *)
(* most MaxNoise extra messages).  A client that has sent everything is  *)
(* timed out.  Failures of reads and sends (RecvFail, and the failing    *)
(* sends inside Respond) may happen but need not.                        *)
ServerReads ==
    \/ ConnectApp \/ IdentifyClient \/ IdentifyPlay
    \/ ExpectFCPublish \/ ExpectCreateStream \/ ExpectPublish
    \/ StreamingPublish \/ StreamingPlayRecv

FairSpec ==
    /\ Spec
    /\ WF_vars(HandshakeOK \/ HandshakePlainRequired)
    /\ WF_vars(ServerReads)
    /\ WF_vars(RecvTimeout)

-----------------------------------------------------------------------------
(* Properties *)

(* The reply sequences as spec 4.6 lists them. *)
SpecNegotiate == <<Reply("WindowAckSize", 0), Reply("SetPeerBandwidth", 0),
                   Reply("ConnectResult", 1), Reply("OnBWDone", 0)>>
SpecPlayStart == <<Reply("StreamBegin", 0), Reply("PlayReset", 0), Reply("PlayStart", 0),
                   Reply("SampleAccess", 0), Reply("DataStart", 0)>>
SpecPublishStart == <<Reply("OnFCPublish", 0), Reply("PublishStart", 0)>>
SpecUnpublish(tid) == <<Reply("OnFCUnpublish", 0), Reply("FMLEResult", tid),
                        Reply("UnpublishSuccess", 0)>>

(* Spec section 4.6 as a function of what the client sent: the state     *)
(* machine's phase and the replies, read message by message.  A fatal    *)
(* decode error and the connect checks end the session; "fail if other" *)
(* while expecting connect; publishing ends on FCUnpublish only.        *)
SpecStep(st, m) ==
    LET done(ph, r) == [ph |-> ph, out |-> st.out \o r]
        skip        == st
        dead        == done("closed", <<>>)
        bad         == m.name = "undecodable"
    IN CASE st.ph = "connect" ->
              IF m.name = "connect" THEN done("identify", SpecNegotiate) ELSE dead
         [] st.ph = "identify" /\ m.name # "audio" ->
              CASE bad -> dead
                [] m.name = "createStream" ->
                     done("identifyPlay", <<Reply("CreateStreamResult", m.tid)>>)
                [] m.name \in {"releaseStream", "FCPublish", "FCUnpublish"} ->
                     done("expectFCPublish", <<Reply("FMLEResult", m.tid), Reply("SetChunkSize", 0)>>)
                [] OTHER -> skip
         [] st.ph = "identifyPlay" /\ m.name # "audio" ->
              CASE bad -> dead
                [] m.name = "play" -> done("playing", <<Reply("SetChunkSize", 0)>> \o SpecPlayStart)
                [] OTHER -> skip
         [] st.ph = "expectFCPublish" ->
              CASE bad -> dead
                [] m.name = "FCPublish" ->
                     done("expectCreateStream", <<Reply("FMLEResult", m.tid)>>)
                [] OTHER -> skip
         [] st.ph = "expectCreateStream" ->
              CASE bad -> dead
                [] m.name = "createStream" ->
                     done("expectPublish", <<Reply("CreateStreamResult", m.tid)>>)
                [] OTHER -> skip
         [] st.ph = "expectPublish" ->
              CASE bad -> dead
                [] m.name = "publish" -> done("publishing", SpecPublishStart)
                [] OTHER -> skip
         [] st.ph = "publishing" /\ m.name # "audio" ->
              CASE bad -> dead
                [] m.name = "FCUnpublish" -> done("unpublished", SpecUnpublish(m.tid))
                [] OTHER -> skip
         [] OTHER -> skip

SpecOut(msgs) ==
    FoldLeft(SpecStep, [ph |-> "connect", out |-> <<Reply("S0S1S2", 0)>>], msgs).out

(* What the server has sent is what spec 4.6 says it sends in reply to  *)
(* what it read, cut short only where a send or read failed and the     *)
(* connection closed.  This relates the whole reply history to the      *)
(* whole request history across every handler of do_cycle.              *)
FollowsSpecScript ==
    out # <<>> =>
        /\ IsPrefix(out, SpecOut(in))
        /\ phase # "closed" => out = SpecOut(in)

(* Every connection settles: it ends (closed, or unpublished after       *)
(* FCUnpublish) or stays in the play loop, which runs until the player    *)
(* leaves.  No identify, expect or publish loop waits forever -- not even *)
(* for a client that never sends what the loop waits for, such as a Flash *)
(* publisher (createStream, then publish) in the loop that waits for play. *)
SessionsSettle == <>[](phase \in {"playing", "unpublished", "closed"})

(* Spec 4.6, publish loop step 5: publishing ends, with the three-      *)
(* message unpublish reply, only when the client sent FCUnpublish.      *)
UnpublishOnlyOnFCUnpublish ==
    phase = "unpublished" => Last(in).name = "FCUnpublish"

=============================================================================

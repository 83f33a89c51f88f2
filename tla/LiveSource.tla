----------------------------- MODULE LiveSource -----------------------------
(***************************************************************************)
(* The live-source fan-out of the server: RssSource (one stream url), its  *)
(* RssConsumer queues, the reference-counted RssSharedPtrMessage payloads, *)
(* and the two loops of RssClient that drive them: streaming_publish (one  *)
(* task per publisher) and streaming_play (one task per player).           *)
(*                                                                         *)
(* Tasks are cooperative (state-threads): a task only yields inside socket *)
(* I/O.  RssSource::on_audio/on_video/on_meta_data and create_consumer do  *)
(* no I/O, so each is one atomic step here.  The play loop yields inside   *)
(* every send_message, so each sent message is a step of its own and the   *)
(* publisher may run between two of them.                                  *)
(*                                                                         *)
(* A payload is identified by the position of its publish in `log`; a     *)
(* handle (an RssSharedPtrMessage object) is an occurrence of that id in   *)
(* a queue, a send batch, a cache slot or the leaked handles.  `shared`    *)
(* is the RssSharedPtr::shared_count of every payload: handles - 1 while   *)
(* the payload lives, Freed once the last handle deleted it.               *)
(***************************************************************************)
EXTENDS Naturals, Sequences, SequencesExt, FiniteSets

CONSTANTS
    Publishers,   \* publisher connections (FMLE / flash publish clients)
    Players,      \* player connections
    MaxMsgs       \* bound on the number of published payloads

ASSUME Publishers # {} /\ Players # {} /\ MaxMsgs \in Nat \ {0}

VARIABLES
    pubState,     \* per publisher: "idle" before streaming_publish, "live" in it, "done" after
    playState,    \* per player: "idle" before streaming_play, "playing" in it, "done" after
    consumers,    \* RssSource::consumers, the attached players
    queue,        \* RssConsumer::msgs of every player
    sending,      \* the msgs array a play loop took from get_packets and is still sending
    cacheMeta,    \* RssSource::cache_metadata
    cacheVideo,   \* RssSource::cache_sh_video
    cacheAudio,   \* RssSource::cache_sh_audio
    shared,       \* RssSharedPtr::shared_count per payload id
    leaked,       \* handles no pointer refers to any more (never deleted)
    log,          \* history: every payload the source dispatched, in order
    sent,         \* history: the payload ids each player's send_message wrote out
    attachAt      \* history: Len(log) when the player's consumer was created

vars == <<pubState, playState, consumers, queue, sending, cacheMeta, cacheVideo,
          cacheAudio, shared, leaked, log, sent, attachAt>>

Ids == 1..MaxMsgs
NoMsg == 0          \* a NULL cache pointer
Freed == -1         \* shared_count of a deleted RssSharedPtr
Unalloc == -2       \* a payload id not published yet
Kinds == {"meta", "audio", "video"}

-----------------------------------------------------------------------------
(* RssSharedPtrMessage: initialize, copy and the destructor.               *)

\* initialize(): a new RssSharedPtr with shared_count 0, owned by this handle
Initialize(sh, m) == [sh EXCEPT ![m] = 0]

\* fault model: copy() counting one handle too many
CopyOneMore(sh, m, n) == [sh EXCEPT ![m] = @ + n + 1]

\* copy(), n times: every copy is a new handle and increments shared_count
Copy(sh, m, n) == [sh EXCEPT ![m] = @ + n]

\* fault model: the destructor reading shared_count as the number of handles
DestroyEager(sh, m) == [sh EXCEPT ![m] = IF @ <= 1 THEN Freed ELSE @ - 1]

\* ~RssSharedPtrMessage(): delete the payload when shared_count is 0, else decrement
Destroy(sh, m) == [sh EXCEPT ![m] = IF @ = 0 THEN Freed ELSE @ - 1]

\* delete every handle of a sequence of handles
DestroyAll(sh, s) == FoldLeft(Destroy, sh, s)

\* RssConsumer::enqueue(msg->copy()) on every attached consumer
FanOut(m) == [q \in Players |-> IF q \in consumers THEN Append(queue[q], m) ELSE queue[q]]

\* ~RssConsumer(): free the queued handles, then RssSource::on_consumer_destroy
DestroyConsumer(q) ==
    /\ consumers' = consumers \ {q}
    /\ queue' = [queue EXCEPT ![q] = <<>>]

NewId == Len(log) + 1

CanDispatch(p) == pubState[p] = "live" /\ Len(log) < MaxMsgs

-----------------------------------------------------------------------------
Init ==
    /\ pubState = [p \in Publishers |-> "idle"]
    /\ playState = [q \in Players |-> "idle"]
    /\ consumers = {}
    /\ queue = [q \in Players |-> <<>>]
    /\ sending = [q \in Players |-> <<>>]
    /\ cacheMeta = NoMsg
    /\ cacheVideo = NoMsg
    /\ cacheAudio = NoMsg
    /\ shared = [m \in Ids |-> Unalloc]
    /\ leaked = <<>>
    /\ log = <<>>
    /\ sent = [q \in Players |-> <<>>]
    /\ attachAt = [q \in Players |-> 0]

\* do_cycle identified a publisher: start_publish done, enter streaming_publish
StartPublish(p) ==
    /\ pubState[p] = "idle"
    /\ pubState' = [pubState EXCEPT ![p] = "live"]
    /\ UNCHANGED <<playState, consumers, queue, sending, cacheMeta, cacheVideo,
                   cacheAudio, shared, leaked, log, sent, attachAt>>

\* RssSource::on_audio: share the payload, copy to every consumer, cache the
\* first audio message ever as the sequence header, then RssAutoFree deletes
\* the owning handle
OnAudio(p) ==
    LET m == NewId
        cacheIt == cacheAudio = NoMsg
        copies == Cardinality(consumers) + (IF cacheIt THEN 1 ELSE 0)
    IN /\ CanDispatch(p)
       /\ queue' = FanOut(m)
       /\ cacheAudio' = IF cacheIt THEN m ELSE cacheAudio
       /\ shared' = Destroy(Copy(Initialize(shared, m), m, copies), m)
       /\ log' = Append(log, "audio")
       /\ UNCHANGED <<pubState, playState, consumers, sending, cacheMeta,
                      cacheVideo, leaked, sent, attachAt>>

\* fault model: on_video replacing the cached sequence header with every
\* video message instead of keeping the first one
OnVideoLatestHeader(p) ==
    LET m == NewId
        dropOld == IF cacheVideo = NoMsg THEN shared ELSE Destroy(shared, cacheVideo)
    IN /\ CanDispatch(p)
       /\ queue' = FanOut(m)
       /\ cacheVideo' = m
       /\ shared' = Destroy(Copy(Initialize(dropOld, m), m, Cardinality(consumers) + 1), m)
       /\ log' = Append(log, "video")
       /\ UNCHANGED <<pubState, playState, consumers, sending, cacheMeta,
                      cacheAudio, leaked, sent, attachAt>>

\* RssSource::on_video, the same with the video sequence-header cache
OnVideo(p) ==
    LET m == NewId
        cacheIt == cacheVideo = NoMsg
        copies == Cardinality(consumers) + (IF cacheIt THEN 1 ELSE 0)
    IN /\ CanDispatch(p)
       /\ queue' = FanOut(m)
       /\ cacheVideo' = IF cacheIt THEN m ELSE cacheVideo
       /\ shared' = Destroy(Copy(Initialize(shared, m), m, copies), m)
       /\ log' = Append(log, "video")
       /\ UNCHANGED <<pubState, playState, consumers, sending, cacheMeta,
                      cacheAudio, leaked, sent, attachAt>>

\* RssSource::on_meta_data: re-encode into a new payload, delete the old cache
\* handle, the new cache handle owns the payload, copy to every consumer
OnMetaData(p) ==
    LET m == NewId
        dropOld == IF cacheMeta = NoMsg THEN shared ELSE Destroy(shared, cacheMeta)
    IN /\ CanDispatch(p)
       /\ queue' = FanOut(m)
       /\ cacheMeta' = m
       /\ shared' = Copy(Initialize(dropOld, m), m, Cardinality(consumers))
       /\ log' = Append(log, "meta")
       /\ UNCHANGED <<pubState, playState, consumers, sending, cacheVideo,
                      cacheAudio, leaked, sent, attachAt>>

\* streaming_publish returns: FCUnpublish answered, or a recv/decode error
PublishEnd(p) ==
    /\ pubState[p] = "live"
    /\ pubState' = [pubState EXCEPT ![p] = "done"]
    /\ UNCHANGED <<playState, consumers, queue, sending, cacheMeta, cacheVideo,
                   cacheAudio, shared, leaked, log, sent, attachAt>>

\* streaming_play starts: RssSource::create_consumer attaches the player and
\* enqueues copies of the metadata, video and audio caches, in that order
CreateConsumer(q) ==
    LET cached == SelectSeq(<<cacheMeta, cacheVideo, cacheAudio>>, LAMBDA m : m # NoMsg)
    IN /\ playState[q] = "idle"
       /\ playState' = [playState EXCEPT ![q] = "playing"]
       /\ consumers' = consumers \cup {q}
       /\ queue' = [queue EXCEPT ![q] = cached]
       /\ shared' = FoldLeft(LAMBDA sh, m : Copy(sh, m, 1), shared, cached)
       /\ attachAt' = [attachAt EXCEPT ![q] = Len(log)]
       /\ UNCHANGED <<pubState, sending, cacheMeta, cacheVideo, cacheAudio,
                      leaked, log, sent>>

\* one play-loop tick: the control read timed out (or its message was
\* discarded), then RssConsumer::get_packets(0) takes the whole queue
GetPackets(q) ==
    /\ playState[q] = "playing"
    /\ sending[q] = <<>>
    /\ queue[q] # <<>>
    /\ sending' = [sending EXCEPT ![q] = queue[q]]
    /\ queue' = [queue EXCEPT ![q] = <<>>]
    /\ UNCHANGED <<pubState, playState, consumers, cacheMeta, cacheVideo,
                   cacheAudio, shared, leaked, log, sent, attachAt>>

\* send_message writes the next message of the batch and deletes its handle
SendMessage(q) ==
    /\ playState[q] = "playing"
    /\ sending[q] # <<>>
    /\ sent' = [sent EXCEPT ![q] = Append(@, Head(sending[q]))]
    /\ sending' = [sending EXCEPT ![q] = Tail(@)]
    /\ shared' = Destroy(shared, Head(sending[q]))
    /\ UNCHANGED <<pubState, playState, consumers, queue, cacheMeta, cacheVideo,
                   cacheAudio, leaked, log, attachAt>>

\* send_message fails: it deletes its own handle, streaming_play returns, the
\* RssAutoFree of the msgs array deletes the array only (the handles still in
\* it are lost) and the RssAutoFree of the consumer destroys it
SendFail(q) ==
    /\ playState[q] = "playing"
    /\ sending[q] # <<>>
    /\ playState' = [playState EXCEPT ![q] = "done"]
    /\ leaked' = leaked \o Tail(sending[q])
    /\ sending' = [sending EXCEPT ![q] = <<>>]
    /\ shared' = DestroyAll(Destroy(shared, Head(sending[q])), queue[q])
    /\ DestroyConsumer(q)
    /\ UNCHANGED <<pubState, cacheMeta, cacheVideo, cacheAudio, log, sent, attachAt>>

\* the control read of a tick fails with anything but a timeout
RecvFail(q) ==
    /\ playState[q] = "playing"
    /\ sending[q] = <<>>
    /\ playState' = [playState EXCEPT ![q] = "done"]
    /\ shared' = DestroyAll(shared, queue[q])
    /\ DestroyConsumer(q)
    /\ UNCHANGED <<pubState, sending, cacheMeta, cacheVideo, cacheAudio, leaked,
                   log, sent, attachAt>>

Next ==
    \/ \E p \in Publishers :
          StartPublish(p) \/ OnAudio(p) \/ OnVideo(p) \/ OnMetaData(p) \/ PublishEnd(p)
    \/ \E q \in Players :
          CreateConsumer(q) \/ GetPackets(q) \/ SendMessage(q) \/ SendFail(q) \/ RecvFail(q)

\* The play loop wakes at least every RSS_PULSE_TIMEOUT_MS and yields with
\* st_usleep(0), so a playing task keeps taking and sending its messages.
Fairness == \A q \in Players : WF_vars(GetPackets(q)) /\ WF_vars(SendMessage(q))

Spec == Init /\ [][Next]_vars
FairSpec == Spec /\ Fairness

-----------------------------------------------------------------------------
(* Properties.                                                             *)

Occurrences(s, m) == Cardinality({i \in DOMAIN s : s[i] = m})

\* every handle of payload m that some pointer still reaches
LiveHandles(m) ==
    Occurrences(<<cacheMeta, cacheVideo, cacheAudio>>, m)
    + MapThenSumSet(LAMBDA q : Occurrences(queue[q], m) + Occurrences(sending[q], m), Players)

Handles(m) == LiveHandles(m) + Occurrences(leaked, m)

TypeOK ==
    /\ pubState \in [Publishers -> {"idle", "live", "done"}]
    /\ playState \in [Players -> {"idle", "playing", "done"}]
    /\ consumers \subseteq Players
    /\ queue \in [Players -> Seq(Ids)]
    /\ sending \in [Players -> Seq(Ids)]
    /\ {cacheMeta, cacheVideo, cacheAudio} \subseteq Ids \cup {NoMsg}
    \* a payload has at most one handle per player and one cache handle
    /\ shared \in [Ids -> {Unalloc, Freed} \cup 0..Cardinality(Players)]
    /\ leaked \in Seq(Ids)
    /\ log \in Seq(Kinds)
    /\ sent \in [Players -> Seq(Ids)]
    /\ attachAt \in [Players -> 0..MaxMsgs]

\* The hand-rolled reference count of RssSharedPtr is exact: a published
\* payload is deleted exactly when its last handle is deleted, and while it
\* lives shared_count is the number of handles minus one.  A lost copy()
\* increment, a handle deleted twice or a missing cache copy shows up here
\* as a payload deleted under a live handle (use after free) or never deleted.
RefCountExact ==
    \A m \in 1..Len(log) :
        IF Handles(m) = 0 THEN shared[m] = Freed ELSE shared[m] = Handles(m) - 1

\* What a player is sent, is being sent and has queued is, in order, the
\* late-join headers (the last metadata, the first video and the first audio
\* message published before it attached, as present) followed by every
\* payload dispatched since it attached, each once.
JoinHeaders(n) ==
    LET upto(k) == {i \in 1..n : log[i] = k}
        last(S) == IF S = {} THEN NoMsg ELSE CHOOSE i \in S : \A j \in S : j <= i
        first(S) == IF S = {} THEN NoMsg ELSE CHOOSE i \in S : \A j \in S : i <= j
    IN SelectSeq(<<last(upto("meta")), first(upto("video")), first(upto("audio"))>>,
                 LAMBDA m : m # NoMsg)

LiveSince(n) == [i \in 1..(Len(log) - n) |-> n + i]

PlayerStream ==
    \A q \in Players :
        playState[q] = "playing" =>
            sent[q] \o sending[q] \o queue[q] = JoinHeaders(attachAt[q]) \o LiveSince(attachAt[q])



\* No payload outlives every pointer to it: a payload that no queue, batch
\* or cache reaches any more has been deleted.
NoLeakedPayload ==
    \A m \in 1..Len(log) : LiveHandles(m) = 0 => shared[m] = Freed

(* LiveSource implements LiveStream: with the source's payload log, the   *)
(* players' phases, their attach points and what send_message wrote as    *)
(* the abstract state, every step of the source, the caches, the queues,  *)
(* the batches and the reference counts is a step of LiveStream or leaves *)
(* it unchanged, and the play loop's fairness gives LiveStream's: a       *)
(* player that stays is eventually written everything owed to it.  It     *)
(* takes a late join, a batch interleaved with publishing and a failing   *)
(* player to tell a queue discipline that merely looks right from this.  *)
Stream == INSTANCE LiveStream WITH joined <- attachAt, written <- sent
ImplementsLiveStream == Stream!FairSpec

\* The spec (section 1) says one publisher per stream key feeds the players.
SinglePublisher ==
    Cardinality({p \in Publishers : pubState[p] = "live"}) <= 1
=============================================================================

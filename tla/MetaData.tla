------------------------------ MODULE MetaData ------------------------------
(***************************************************************************)
(* The onMetaData relay: the publisher's metadata is decoded by           *)
(* RssOnMetaDataPacket::decode, the source sets "server" and re-encodes  *)
(* it into the cached payload every player gets (RssSource::on_meta_data, *)
(* rss_core_source.cpp).  The object the publisher sends is built by the *)
(* set and clear calls of RssUnSortedHashtable, which also builds every  *)
(* object the server sends, so the codec laws are checked on it too.      *)
(***************************************************************************)
EXTENDS Packets

CONSTANTS
    Keys,           \* property names the objects are built from (byte sequences)
    Values,         \* values properties may take
    MaxSets,        \* bound on the set calls since the last clear
    ServerName,     \* RTMP_SIG_RSS_NAME RTMP_SIG_RSS_VERSION, as bytes
    ServerKey       \* "server", as bytes


(* RssSource::on_meta_data: set "server" on the decoded metadata, then   *)
(* encode the packet into the payload of cache_metadata; the possible    *)
(* results.                                                               *)
RelayMetaData(pkt) ==
    LET p2 == [pkt EXCEPT !.metadata = SetProp(@, ServerKey, Str(ServerName))]
    IN  PacketEncode(MetaDataPacketSize(p2), MetaDataPacketBytes(p2))

-----------------------------------------------------------------------------
(* The state: an AMF0 object built by set and clear calls (every object   *)
(* the code sends, and the metadata a decode fills, is built this way),  *)
(* the metadata a publisher sent last, and the source's cached payload.  *)
(* The publisher sends the current object in one of the three shapes    *)
(* encoders use for onMetaData.                                          *)

Forms == {"object", "ecma", "dataframe"}

\* the publisher's AMF0 data message payload
MetaDataPayload(form, ps) ==
    CASE form = "object" -> WriteAny(Str(OnMetaDataName)) \o WriteAny(Obj(ps))
      [] form = "ecma" -> WriteAny(Str(OnMetaDataName)) \o WriteAny(Ecma(Len(ps), ps))
      [] form = "dataframe" -> WriteAny(Str(SetDataFrame)) \o WriteAny(Str(OnMetaDataName))
                                   \o WriteAny(Ecma(Len(ps), ps))

VARIABLES
    props,      \* the RssUnSortedHashtable's properties, in order
    hist,       \* the set calls since the last clear (history)
    publisher,  \* "publishing", or "closed" after the publish loop returned an error
    sent,       \* the metadata the publisher sent last (history)
    cache       \* RssSource::cache_metadata's payload, <<>> before the first

vars == <<props, hist, publisher, sent, cache>>

Init ==
    /\ props = <<>>
    /\ hist = <<>>
    /\ publisher = "publishing"
    /\ sent = <<>>
    /\ cache = <<>>

\* RssUnSortedHashtable::set (RssAmf0Object::set, RssARssAmf0EcmaArray::set)
Set(k, v) ==
    /\ Len(hist) < MaxSets
    /\ props' = SetProp(props, k, v)
    /\ hist' = Append(hist, <<k, v>>)
    /\ UNCHANGED <<publisher, sent, cache>>

\* RssUnSortedHashtable::clear
Clear ==
    /\ props' = <<>>
    /\ hist' = <<>>
    /\ UNCHANGED <<publisher, sent, cache>>

(* RssClient's publish loop on an AMF0 data message: decode_packet (its  *)
(* RssOnMetaDataPacket::decode), then on_meta_data.  Either failing       *)
(* returns the error and ends the publisher's session.                   *)
OnMetaData(form) ==
    LET d == DecodeMetaData(MetaDataPayload(form, props), 0)
    IN  /\ publisher = "publishing"
        /\ sent' = props
        /\ \E r \in IF d.st = "ok" THEN RelayMetaData(d.v) ELSE {d} :
              IF r.st = "ok"
              THEN /\ cache' = r.v
                   /\ UNCHANGED publisher
              ELSE /\ publisher' = "closed"
                   /\ UNCHANGED cache
        /\ UNCHANGED <<props, hist>>

Next ==
    \/ \E k \in Keys, v \in Values : Set(k, v)
    \/ Clear
    \/ \E form \in Forms : OnMetaData(form)

Spec == Init /\ [][Next]_vars

-----------------------------------------------------------------------------
(* Properties                                                              *)

(* Spec section 8, law 2: an object iterates its properties in the order *)
(* of the last set of each name, with the value of that set.  Breaking it *)
(* takes two sets of one name around a set of another, the erase-then-   *)
(* push_back of RssUnSortedHashtable::set.                               *)
SpecProps(h) ==
    LET last == SelectSeq([i \in DOMAIN h |-> i],
                          LAMBDA i : \A j \in i+1..Len(h) : h[j][1] # h[i][1])
    IN  [n \in DOMAIN last |-> h[last[n]]]
KeyOrderLaw == props = SpecProps(hist)

(* Spec section 8, law 1 (second half): the size get_payload_length       *)
(* computes for an object or ecma array, nested ones included, is the    *)
(* number of bytes its encoding writes; RssPacket::encode allocates that *)
(* size and fails, or leaves bytes unwritten, when they differ.          *)
SizeLaw ==
    \A v \in {Obj(props), Ecma(Len(props), props), Obj(<<<<ServerKey, Obj(props)>>>>)} :
        AnySize(v) = Len(WriteAny(v))

(* The onMetaData relay: as long as the publisher is publishing, the     *)
(* cached payload every player gets is "onMetaData" followed by the      *)
(* publisher's last metadata as an object, in the publisher's order,     *)
(* with "server" set last -- whichever of the three shapes the publisher  *)
(* used.  The publisher is cut off only for metadata that holds a null   *)
(* or undefined value somewhere.                                          *)
RECURSIVE Nullish(_)
Nullish(ps) ==
    \E i \in DOMAIN ps :
        \/ ps[i][2].marker \in {RTMP_AMF0_Null, RTMP_AMF0_Undefined}
        \/ Nullish(ps[i][2].props)
RelayedMetaData(ps) ==
    WriteAny(Str(OnMetaDataName))
        \o WriteAny(Obj(Append(SelectSeq(ps, LAMBDA e : e[1] # ServerKey),
                               <<ServerKey, Str(ServerName)>>)))
MetaDataRelay ==
    /\ publisher = "publishing" /\ cache # <<>> => cache = RelayedMetaData(sent)
    /\ publisher = "closed" => Nullish(sent)

(* Spec section 8, law 1: decoding what the codec encodes gives back the *)
(* value and consumes exactly its bytes, for every object the set calls  *)
(* can build.                                                             *)
RoundTrip ==
    \A v \in {Obj(props), Ecma(Len(props), props)} :
        ReadAny(WriteAny(v), 0) = Ok(v, Len(WriteAny(v)))

====

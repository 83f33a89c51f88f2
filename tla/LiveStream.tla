----------------------------- MODULE LiveStream -----------------------------
(***************************************************************************)
(* What a live stream promises its players, with no queues, batches,       *)
(* caches or reference counts: publishers go live and publish payloads of *)
(* three kinds; a player joins at some point of the stream and is then     *)
(* written, one at a time and in order, the late-join headers (the latest *)
(* metadata, the first video and the first audio payload published before *)
(* it joined) followed by every payload published after it joined.  A    *)
(* player may leave at any time.  While it stays, every payload owed to    *)
(* it is eventually written.                                               *)
(***************************************************************************)
EXTENDS Naturals, Sequences, SequencesExt

CONSTANTS Publishers, Players, MaxMsgs

VARIABLES
    pubState,   \* per publisher: "idle", "live" or "done"
    playState,  \* per player: "idle", "playing" or "done"
    log,        \* the kinds of the payloads published, in order
    joined,     \* per player: how many payloads were published when it joined
    written     \* per player: the payloads (positions in log) written to it

vars == <<pubState, playState, log, joined, written>>

\* the positions of the headers a player joining after n payloads gets first
Headers(n) ==
    LET at(k) == {i \in 1..n : log[i] = k}
        pick(S, best(_)) == IF S = {} THEN 0 ELSE best(S)
    IN  SelectSeq(<<pick(at("meta"), Max), pick(at("video"), Min), pick(at("audio"), Min)>>,
                  LAMBDA i : i # 0)

\* everything owed to player q so far
Owed(q) == Headers(joined[q]) \o [i \in 1..(Len(log) - joined[q]) |-> joined[q] + i]

Init ==
    /\ pubState = [p \in Publishers |-> "idle"]
    /\ playState = [q \in Players |-> "idle"]
    /\ log = <<>>
    /\ joined = [q \in Players |-> 0]
    /\ written = [q \in Players |-> <<>>]

GoLive(p) ==
    /\ pubState[p] = "idle"
    /\ pubState' = [pubState EXCEPT ![p] = "live"]
    /\ UNCHANGED <<playState, log, joined, written>>

Publish(p, k) ==
    /\ pubState[p] = "live"
    /\ Len(log) < MaxMsgs
    /\ log' = Append(log, k)
    /\ UNCHANGED <<pubState, playState, joined, written>>

StopPublishing(p) ==
    /\ pubState[p] = "live"
    /\ pubState' = [pubState EXCEPT ![p] = "done"]
    /\ UNCHANGED <<playState, log, joined, written>>

Join(q) ==
    /\ playState[q] = "idle"
    /\ playState' = [playState EXCEPT ![q] = "playing"]
    /\ joined' = [joined EXCEPT ![q] = Len(log)]
    /\ UNCHANGED <<pubState, log, written>>

\* write the next payload owed to q
Write(q) ==
    /\ playState[q] = "playing"
    /\ Len(written[q]) < Len(Owed(q))
    /\ written' = [written EXCEPT ![q] = Append(@, Owed(q)[Len(@) + 1])]
    /\ UNCHANGED <<pubState, playState, log, joined>>

Leave(q) ==
    /\ playState[q] = "playing"
    /\ playState' = [playState EXCEPT ![q] = "done"]
    /\ UNCHANGED <<pubState, log, joined, written>>

Next ==
    \/ \E p \in Publishers :
          GoLive(p) \/ StopPublishing(p) \/ \E k \in {"meta", "audio", "video"} : Publish(p, k)
    \/ \E q \in Players : Join(q) \/ Write(q) \/ Leave(q)

Spec == Init /\ [][Next]_vars

\* a player that stays is eventually written everything owed to it
FairSpec == Spec /\ \A q \in Players : WF_vars(Write(q))

=============================================================================

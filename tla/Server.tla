------------------------------ MODULE Server ------------------------------
(***************************************************************************)
(* The server's connection list (rss_core_server.cpp, rss_core_conn.cpp): *)
(* the listen task accepts a socket, wraps it in a connection, appends it *)
(* to conns, rescales the report interval and starts the connection's    *)
(* task; a task that ends removes its connection from the list and       *)
(* deletes it.  What a connection does in between is Session.            *)
(***************************************************************************)
EXTENDS Naturals, Sequences, SequencesExt

CONSTANTS
    Conns,          \* the connection objects the listen task may create
    ReportUnit,     \* RSS_CONST_REPORT_INTERVAL_MS
    StartMayFail    \* whether st_thread_create may fail in RssConnection::start

VARIABLES
    conns,      \* RssServer::conns, in order
    created,    \* connection objects created so far
    running,    \* connections whose cycle task is running
    deleted,    \* connection objects deleted
    interval    \* rss_report_interval_ms

vars == <<conns, created, running, deleted, interval>>

Init ==
    /\ conns = <<>>
    /\ created = {}
    /\ running = {}
    /\ deleted = {}
    /\ interval = ReportUnit

(* accept_client: new RssClient, push_back, interval := unit * size,    *)
(* then conn->start().  A failing start returns the error to            *)
(* listen_cycle, which logs it and accepts the next socket.             *)
AcceptClient(c) ==
    /\ c \notin created
    /\ created' = created \cup {c}
    /\ conns' = Append(conns, c)
    /\ interval' = ReportUnit * Len(conns')
    /\ \/ running' = running \cup {c}
       \/ StartMayFail /\ UNCHANGED running
    /\ UNCHANGED deleted

(* RssServer::remove (renamed: SequencesExt defines Remove): erase the  *)
(* connection if it is in the list, then delete it.                     *)
ServerRemove(c) ==
    /\ conns' = SelectSeq(conns, LAMBDA x : x # c)
    /\ deleted' = deleted \cup {c}

(* RssConnection::cycle: do_cycle returns, whatever its result, and the *)
(* task calls server->remove(this).                                     *)
CycleEnds(c) ==
    /\ c \in running
    /\ running' = running \ {c}
    /\ ServerRemove(c)
    /\ UNCHANGED <<created, interval>>

Next ==
    \E c \in Conns : AcceptClient(c) \/ CycleEnds(c)

Spec == Init /\ [][Next]_vars

-----------------------------------------------------------------------------
(* The server's bookkeeping reflects the connections being served: the  *)
(* list holds exactly the connections whose task runs (so each listed   *)
(* connection is removed and closed when it ends), and the report       *)
(* interval is 3 s times the number of concurrent connections (spec     *)
(* section 4.8).  It takes an accept whose start fails, or an accept, a   *)
(* second accept and an end, to tell them apart.                        *)
ConnectionBookkeeping ==
    /\ ToSet(conns) = running
    /\ running # {} => interval = ReportUnit * Cardinality(running)

=============================================================================

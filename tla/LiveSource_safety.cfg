\* Fan-out safety and progress: one publisher, two players, three payloads.
\* The payload log does not record which publisher sent a payload, so a
\* second publisher adds no behaviour of the source that these properties
\* can tell apart.  The play loop is weakly fair (it wakes every pulse and
\* yields with st_usleep(0)); no symmetry, as the run checks liveness.
CONSTANTS
    p1 = p1
    p2 = p2
    q1 = q1
    q2 = q2
    Publishers <- MCOnePublisher
    Players <- MCPlayers
    MaxMsgs = 3

SPECIFICATION FairSpec

INVARIANT TypeOK
INVARIANT RefCountExact
INVARIANT PlayerStream
PROPERTY ImplementsLiveStream

\* every session may end and the publish bound may be reached: the server
\* then idles, which is a real terminal state of this model
CHECK_DEADLOCK FALSE

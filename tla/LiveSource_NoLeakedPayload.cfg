\* Violation run: NoLeakedPayload, two publishers, two players, four payloads.
CONSTANTS
    p1 = p1
    p2 = p2
    q1 = q1
    q2 = q2
    Publishers <- MCPublishers
    Players <- MCPlayers
    MaxMsgs = 4

SPECIFICATION Spec

INVARIANT NoLeakedPayload

CHECK_DEADLOCK FALSE

--------------------------- MODULE MC_LiveSource ---------------------------
(* Model-checking instance of LiveSource: publishers and players are model  *)
(* values.                                                                  *)
EXTENDS LiveSource, TLC

CONSTANTS p1, p2, q1, q2

MCPublishers == {p1, p2}
MCOnePublisher == {p1}
MCPlayers == {q1, q2}

=============================================================================

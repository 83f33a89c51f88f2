------------------------------ MODULE MC_Server ------------------------------
EXTENDS Server, TLC

CONSTANTS c1, c2, c3

MCConns == {c1, c2, c3}
=============================================================================

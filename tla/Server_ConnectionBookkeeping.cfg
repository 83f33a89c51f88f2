\* Three connections; st_thread_create may fail.
CONSTANTS
    c1 = c1
    c2 = c2
    c3 = c3
    Conns <- MCConns
    ReportUnit = 3000
    StartMayFail = TRUE
SPECIFICATION Spec
INVARIANT ConnectionBookkeeping
\* Once every connection object is used and every task has ended, the
\* listen task blocks in st_accept for good.
CHECK_DEADLOCK FALSE

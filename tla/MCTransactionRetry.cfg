SPECIFICATION TSpec
CONSTANTS
    None = None
    mux = mux  c1 = c1  c2 = c2  c3 = c3
    Mux = mux
    Begin = c1  Body = c2  Commit = c3
    Fibers <- MCFibers
    Receivers = {}
    Commands = {c1, c2, c3}
    Requests <- MCRequests
    Rejectable = {c2, c3}
    Hello <- MCHello
    MaxSockets = 2
    MaxPieces = 1
    MaxRetryCount = 1
CHECK_DEADLOCK FALSE
INVARIANTS BodyStaysInTransaction

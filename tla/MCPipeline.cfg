SPECIFICATION FairSpec
CONSTANTS
    None = None
    mux = mux  p1 = p1  t1 = t1
    g1 = g1  a1 = a1  b1 = b1  b2 = b2
    Mux = mux
    Fibers <- MCFibers
    Receivers = {}
    Requests <- MCRequests
    Hello <- MCNoHello
    OwnerOf <- MCOwnerOf
    PipeOf <- MCPipeOf
    MaxRetryCount = 1
    Commands = {g1, a1, b1, b2}
    Pipes = {p1, t1}
    Txs = {t1}
    Flushes = {1, 2, 3}
    MaxSockets = 2
    MaxCuts = 1
    MaxCalls = 2
    MaxPieces = 1
    Rejectable = {b1}
VIEW MCView
CHECK_DEADLOCK FALSE
INVARIANTS ResultsMatchCommands NoForeignReply TxIsAtomic EachCommandOnce
PROPERTIES EveryFlushSettles

SPECIFICATION Spec
CONSTANTS
    None = None
    c1 = c1
    c2 = c2
    c3 = c3
    mux = mux
    Mux = mux
    Fibers <- MCFibers
    Receivers = {}
    Commands = {c1, c2}
    Requests <- MCRequests
    Rejectable <- MCRejectable
    MaxSockets = 3
    MaxPieces = 1
    Hello <- MCHello
    MaxRetryCount = 2
INVARIANTS TypeOK NoForeignReply AnsweredIffExecuted DuplicatesNeedRetries
  NoSocketLeak NoStrandedCommand DialBudget CommandsAfterHandshake RetryOnlyOnDeadSocket
PROPERTIES SettledOnceInOrder

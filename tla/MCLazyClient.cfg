SPECIFICATION FairSpec
CONSTANTS
    None = None
    c1 = c1
    c2 = c2
    mux = mux
    boot = boot
    Mux = mux
    Boot = boot
    Fibers <- MCFibers
    Receivers = {}
    Commands = {c1, c2}
    Requests <- MCRequests
    Rejectable <- MCRejectable
    MaxSockets = 2
    MaxPieces = 1
    Hello <- MCHello
    MaxRetryCount = 1
    URLs <- MCURLs
    Backoffs <- MCBackoffs
    MaxAttempts = 12
    Numbers <- MCNumbers
    NaN = NaN
    Inf = 1000
    One = 2
    Huge = 100
    Undefined = Undefined
INVARIANTS OwnReplyInTurn HandshakeFirstInTurn HandshakeOfTheURL DelaysFollowTheOptions
PROPERTIES EveryCallSettles
CHECK_DEADLOCK FALSE

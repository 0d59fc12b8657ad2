SPECIFICATION Spec
CONSTANTS
    None = None
    c1 = c1
    c2 = c2
    c3 = c3
    mux = mux
    Mux = mux
    Fibers <- MCFibers
    Receivers = {}
    Commands = {c1, c2}
    Requests <- MCRequests
    Rejectable <- MCRejectable
    MaxSockets = 2
    MaxPieces = 1
    Hello <- MCHello1
    MaxRetryCount = 1
PROPERTIES CommandAfterCloseFails

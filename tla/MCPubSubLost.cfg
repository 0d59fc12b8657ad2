SPECIFICATION Spec
CONSTANTS
    None = None
    mux = mux  recv = recv  sub1 = sub1  sub2 = sub2  uns1 = uns1  get1 = get1
    res1 = res1  a = a  b = b  m1 = m1  m2 = m2
    Mux = mux
    Recv = recv
    Fibers <- MCFibers
    Receivers <- MCReceivers
    Requests <- MCRequests
    MaxRetryCount = 1
    Rejectable = {}
    Commands = {sub1, res1}
    Messages = {m1, m2}
    Channels = {a, b}
    ChannelOf <- MCChannelOf
    Adds <- MCAddBoth
    Drops <- MCDropNone
    Resubs = {res1}
    TalksWhileReceiving = FALSE
    MaxSockets = 1
    MaxPieces = 1
    MaxCuts = 3
    MaxCalls = 2
    Hello <- MCHello
INVARIANTS NoMessageLost

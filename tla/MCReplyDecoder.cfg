SPECIFICATION Spec
CONSTANTS
    Symbols <- MCSymbols
    Replies <- MCReplies
    Depth <- MCDepth
    Sent <- MCSent
    NextBytes <- MCNext
    Safe = 12
    NaN = NaN
INVARIANTS DecodesWhatWasSent NeverWaitsForMore TornOnlyInLastLine
CHECK_DEADLOCK FALSE

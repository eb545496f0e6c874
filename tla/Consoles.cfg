SPECIFICATION Spec
CONSTANTS
    None = None
    GainLaw <- MCGainLaw
    TrimLaw <- MCTrimLaw
    TrimAsks = {2, 6}
    Deltas <- MCDeltas
    Rigs <- MCRigs
INVARIANTS NothingInvented Reads Settles PeersSettle NudgeIsRelative
CHECK_DEADLOCK FALSE
PROPERTIES HearsAgain

SPECIFICATION FairSpec
CONSTANTS
    foh = foh  mon = mon  spare = spare  None = None
    Devices <- TwoDevices
    Addresses <- GainOf2
    ControlOf <- Apart2
    Values <- Bits
    Start = 0
    Mappings <- BothWays
    Edits <- NoOne
    Reloads <- NoOne
    Confirms <- AllOf2
    Surfaces <- AllOf2
    Offline <- NoOne
    MayRefuse <- NoOne
    MayLeave <- NoOne
    Patient = FALSE
    StreamCap = 2
    MaxSets = 5
PROPERTIES ComesToRest

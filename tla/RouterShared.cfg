SPECIFICATION FairSpec
CONSTANTS
    foh = foh  mon = mon  spare = spare  None = None
    Devices <- ThreeDevices
    Addresses <- GainOf3
    ControlOf <- Shared
    Values <- Four
    Start = 0
    Mappings <- Fan
    Edits <- NoOne
    Reloads <- NoOne
    Confirms <- FohOnly
    Surfaces <- AllOf2
    Offline <- NoOne
    MayRefuse <- NoOne
    MayLeave <- NoOne
    Patient = TRUE
    StreamCap = 5
    MaxSets = 5
INVARIANTS OneSetPerDirection MirrorsHold KnownIsHeld
PROPERTIES ComesToRest

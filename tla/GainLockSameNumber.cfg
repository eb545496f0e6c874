SPECIFICATION Spec
CONSTANTS
    foh = foh  mon = mon  bcast = bcast  c1 = c1  c2 = c2
    None = None  Reread = Reread
    Members <- Either
    Desks <- FohMon
    PreampsOf <- PreampEach
    TrimsOf <- TwoInputs
    Kind <- Asked
    TrimLaw <- Fine
    FirstLeader = foh
    GainMin = 0
    GainMax = 2
    SetValues <- OneUp
    Deltas <- OneUp
    SurfaceGains <- Ends
    LocalTrims <- NoValues
    MayFail <- NoValues
    MayLeave <- NoValues
    Clients <- NoValues
    Poll = FALSE
    SlowEchoes = FALSE
    MayLag = FALSE
    LateMoves = FALSE
    WireCap = 1
    MaxExpected = 1
PROPERTIES NothingCarriesOver

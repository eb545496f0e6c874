SPECIFICATION Spec
CONSTANTS
    foh = foh  mon = mon  bcast = bcast  c1 = c1  c2 = c2
    None = None  Reread = Reread
    Members <- EitherApart
    Desks <- FohMon
    PreampsOf <- PreampApart
    TrimsOf <- TwoInputs
    Kind <- Mixed
    TrimLaw <- Fine
    FirstLeader = foh
    GainMin = 0
    GainMax = 1
    SetValues <- NoValues
    Deltas <- OneUp
    SurfaceGains <- OneUp
    LocalTrims <- NoValues
    MayFail <- MonOnly
    MayLeave <- MonOnly
    Clients <- OneClient
    Poll = FALSE
    SlowEchoes = TRUE
    MayLag = TRUE
    LateMoves = TRUE
    WireCap = 1
    MaxExpected = 1
INVARIANTS Conservation ProblemIsTruthful
PROPERTIES NothingCarriesOver

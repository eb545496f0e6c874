SPECIFICATION Spec
CONSTANTS
    foh = foh  mon = mon  bcast = bcast  c1 = c1  c2 = c2
    None = None  Reread = Reread
    Members <- OneToOne
    Desks <- FohMon
    PreampsOf <- OnePreamp
    TrimsOf <- TwoInputs
    Kind <- X32
    TrimLaw <- Fine
    FirstLeader = foh
    GainMin = 0
    GainMax = 2
    SetValues <- OneAndTwo
    Deltas <- OneUp
    SurfaceGains <- Full
    LocalTrims <- NoValues
    MayFail <- NoValues
    MayLeave <- NoValues
    Clients <- NoValues
    Poll = FALSE
    SlowEchoes = FALSE
    MayLag = FALSE
    LateMoves = FALSE
    WireCap = 2
    MaxExpected = 2
PROPERTIES SwallowLosesNothing

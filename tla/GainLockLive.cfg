SPECIFICATION FairSpec
CONSTANTS
    foh = foh  mon = mon  bcast = bcast  c1 = c1  c2 = c2
    None = None  Reread = Reread
    Members <- OneToTwo
    Desks <- AllDesks
    PreampsOf <- OnePreamp
    TrimsOf <- TwoInputs
    Kind <- Asked
    TrimLaw <- Lopsided
    FirstLeader = foh
    GainMin = 0
    GainMax = 2
    SetValues <- TwoUp
    Deltas <- OneUp
    SurfaceGains <- Ends
    LocalTrims <- NoValues
    MayFail <- MonAndFoh
    MayLeave <- NoValues
    Clients <- NoValues
    Poll = TRUE
    SlowEchoes = FALSE
    MayLag = FALSE
    LateMoves = FALSE
    WireCap = 1
    MaxExpected = 1
INVARIANTS OwedIsExplained
PROPERTIES Compensates OwedIsServed LeaderIsFollowed

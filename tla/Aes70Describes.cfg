SPECIFICATION MCSpec
CONSTANTS
    None = None
    Blank = Blank
    Refused = Refused
    Stride = 3
    Channels = 2
    Inputs = 1
    Levels = {0, 1}
    MaxTurns = 2
    MaxAsks = 1
    Law <- MCLaw
    Starts <- MCStarts
    Steps <- MCSteps
    Reach = 18
    Receivers = {1}
    MicLevels = {1, 2}
    MicCap = 1
    Bars = {3, 4}
    Transient = 1
    AcnCap = 2
    Aes70Devices <- MCDevices
    MaxChanges = 3
    MaxEdits = 4
INVARIANTS DescribesTheDevice
CHECK_DEADLOCK FALSE

\* An unparsable line among good ones, and a container that dies.
SPECIFICATION Spec
CONSTANTS
    k1 = k1  k2 = k2
    None = None
    NumLines = 2
    Kind <- MCPoison2
    Logs <- MCBothLogs
    Ops <- MCStatus
    Keys <- MCKeys
    WinKey <- MCTwoKeys
    Breaks <- MCK2Breaks
    StatKey <- MCAsIs
    RowKey <- MCRowKey
    SlotLen = 1
    MaxNow = 1
    MaxFaults = 2
INVARIANTS StuckAtUnparsable BrokenWindowsReturn
CHECK_DEADLOCK FALSE

\* Clean lines and no failures: what the windows promise.
SPECIFICATION FairSpec
CONSTANTS
    k1 = k1  k2 = k2
    None = None
    NumLines = 3
    Kind <- MCClean3
    Logs <- MCRawLog
    Ops <- MCStatus
    Keys <- MCKeys
    WinKey <- MCTwoKeys
    Breaks <- MCNoBreaks
    StatKey <- MCAsIs
    RowKey <- MCRowKey
    SlotLen = 1
    MaxNow = 2
    MaxFaults = 0
PROPERTIES WindowsAreWritten
CHECK_DEADLOCK FALSE

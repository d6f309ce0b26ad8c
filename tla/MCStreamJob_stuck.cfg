\* The README's promise, against a line that matches the pattern and does not parse.
SPECIFICATION FairSpec
CONSTANTS
    k1 = k1  k2 = k2
    None = None
    NumLines = 3
    Kind <- MCPoison3
    Logs <- MCRawLog
    Ops <- MCStatus
    Keys <- MCKeys
    WinKey <- MCTwoKeys
    Breaks <- MCNoBreaks
    StatKey <- MCAsIs
    RowKey <- MCRowKey
    SlotLen = 1
    MaxNow = 1
    MaxFaults = 0
PROPERTIES EveryEventProcessed
CHECK_DEADLOCK FALSE

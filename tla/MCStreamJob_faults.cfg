\* Two requests, one of them cut to the other in its row: write, task and container failures.
SPECIFICATION Spec
CONSTANTS
    k1 = k1  k2 = k2
    None = None
    NumLines = 2
    Kind <- MCLines2
    Logs <- MCRawLog
    Ops <- MCRequest
    Keys <- MCKeys
    WinKey <- MCTwoKeys
    Breaks <- MCNoBreaks
    StatKey <- MCCut
    RowKey <- MCRowKey
    SlotLen = 1
    MaxNow = 1
    MaxFaults = 2
INVARIANTS TypeOK StatsAccounted CountedOnce CommitBehindSnapshot RowFate
PROPERTIES ForgetsOnlyWithoutSnapshot
CHECK_DEADLOCK FALSE

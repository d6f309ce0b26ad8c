SPECIFICATION FairSpec
CONSTANTS
    Jobs <- MCJobs
    Elements <- MCElements
    Messages <- MCMessages
    Size = 4
INVARIANTS
    TypeOK
    NothingLost
    NothingSkipped
    Delivers
    KeptOrRaised
PROPERTIES
    FilesHandedOver
    WorkerEnds
CHECK_DEADLOCK FALSE

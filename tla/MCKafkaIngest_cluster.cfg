\* Two members: routees come, die and come back; without faults, what fairness delivers.
SPECIFICATION FairSpec
CONSTANTS
    n1 = n1  n2 = n2  nginx = nginx  tomcat = tomcat  t1 = t1  t2 = t2
    Garbled = Garbled  Malformed = Malformed  Unlisted = Unlisted
    Nodes <- MCTwoNodes
    Home = n1
    NumRecords = 2
    Clusters <- MCOneCluster
    ClusterOf <- MCGarbledFirst
    Targets <- MCOneTarget
    FileInit <- MCOneFile
    MaxEdits = 0
    MaxFaults = 2
PROPERTIES ImplementsRelay EventuallyRelayed
CHECK_DEADLOCK FALSE

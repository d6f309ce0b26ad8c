\* One member, as docker-compose deploys the input server: every fault twice.
SPECIFICATION Spec
CONSTANTS
    n1 = n1  n2 = n2  nginx = nginx  tomcat = tomcat  t1 = t1  t2 = t2
    Garbled = Garbled  Malformed = Malformed  Unlisted = Unlisted
    Nodes <- MCOneNode
    Home = n1
    NumRecords = 3
    Clusters <- MCClusters
    ClusterOf <- MCClusterOf3
    Targets <- MCTargets
    FileInit <- MCFile
    MaxEdits = 1
    MaxFaults = 2
INVARIANTS TypeOK OneFate InOrder RedeliveryWindow CommittedWasOffered
PROPERTIES NeverSkipsAfterCommit
CHECK_DEADLOCK FALSE

SPECIFICATION Spec
CONSTANTS
    l1 = l1  l2 = l2  l3 = l3  l4 = l4
    site = site  other = other  v1 = v1  v2 = v2
    Lines <- MCLines
    Owner <- MCOwner
    Logged <- MCLogged
    Addr <- MCAddr
    Cost <- MCCost
    Instants = {1, 2}
    Questions <- MCFlinkQuestions
    Engine = "flink"
    MaxWrites = 3
    MaxAsks = 2
    MaxFaults = 1
CHECK_DEADLOCK FALSE
INVARIANTS TypeOK SoundReports NeverShrinks HoursButNoon

\* No failures: what the actors' fairness delivers.
SPECIFICATION FairSpec
CONSTANTS
    q1 = q1  q2 = q2  q3 = q3  c1 = c1  s1 = s1  p1 = p1  w1 = w1  w2 = w2
    Requests <- MCRequests
    Kind <- MCKind
    Known <- MCKnown
    Start <- MCStart
    End <- MCEnd
    MaxInt = 3
    Servers <- MCLive
    Workers <- MCWorker
    MaxFaults = 0
PROPERTIES ActorsStop
CHECK_DEADLOCK FALSE

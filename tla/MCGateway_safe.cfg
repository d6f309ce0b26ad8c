\* The output server with Flink's RpcActor and the input server with Spark's, two workers.
SPECIFICATION Spec
CONSTANTS
    q1 = q1  q2 = q2  q3 = q3  c1 = c1  s1 = s1  p1 = p1  w1 = w1  w2 = w2
    Requests <- MCRequests
    Kind <- MCKind
    Known <- MCKnown
    Start <- MCStart
    End <- MCEnd
    MaxInt = 3
    Servers <- MCServers
    Workers <- MCWorkers
    MaxFaults = 2
INVARIANTS TypeOK AnswerIsOwn OneCarrier
CHECK_DEADLOCK FALSE

SPECIFICATION TimeSpec
CONSTANTS
    worker = worker
    a = a
    b = b
    Users <- MCUsers
    Workers <- MCWorkers
    Boot <- MCBoot
    Queue = Queue
    NoThread = NoThread
    kPreemptTimeNs = 7
    kMinDelta = 3
    MaxLag = 2
    TickLength = 5
    Sleeps = {4, 7}
INVARIANTS
    
    DeadlineAssertionsHold
PROPERTIES
    ImplementsScheduler
    ReadyThreadRunsInTime
CHECK_DEADLOCK FALSE

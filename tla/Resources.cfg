SPECIFICATION ResourcesSpec
CONSTANTS
    i1 = i1
    i2 = i2
    e1 = e1
    e2 = e2
    e3 = e3
    f1 = f1
    f2 = f2
    b1 = b1
    b2 = b2
    p1 = p1
    p2 = p2
    None = None
    NoBuffer = NoBuffer
    Slot <- MCSlot
    Entry <- MCEntry
    File <- MCFile
    Path <- MCPath
    Buffer <- MCBuffer
    kMaxFdsPerProcess = 3
    kStderrFd = 1
    kMaxSessions = 2
    MaxPids = 4
    Habits = {}
INVARIANTS
    ReferencesCounted
    BuffersInSessions
    PipesOfTheLiving
    
SYMMETRY MCSymmetry

SPECIFICATION VmmSpec
CONSTANTS
    a1 = a1
    a2 = a2
    t1 = t1
    t2 = t2
    t3 = t3
    None = None
    Space = {a1, a2}
    Thread = {t1, t2, t3}
    SpaceOf <- MCSpaceOf
    Programs <- MCPrograms
    Pool <- MCPool
    Levels = 3
    Fan = 2
    TotalPages = 20
    UserEnd = 6
    Touched = {0, 3, 5}
    StackSize = 1
    HeapSize = 1
    BufferSize = 2
    Buffer = 30
    Preempt <- MCPreempt
    MaxPrograms = 2
INVARIANTS
    
    MappingsInAreas
    
    TlbCoherent
    
CHECK_DEADLOCK FALSE

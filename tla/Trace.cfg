CONSTANTS
    kSize = 6
    kBatchSize = 2
    Numbers = 3
    Sizes <- MCSizes
    Overlap = FALSE
SPECIFICATION TraceSpec

    
PROPERTIES
    
    DumpEnds

SPECIFICATION FatSpec
CONSTANTS
    d = d
    f = f
    g = g
    one = one
    two = two
    Name <- MCName
    FilePaths <- MCFilePaths
    DirPaths <- MCDirPaths
    Data <- MCData
    kEOD = kEOD
    kDeletedEntry = kDeletedEntry
    kOld = kOld
    kDot = kDot
    kDotDot = kDotDot
    ClusterCount = 3
    ClusterSize = 3
    RootEntries = 2
    Offsets = {0, 4}
    Sizes = {5}
SYMMETRY MCSymmetry
INVARIANTS
    
    NamesUnique
 

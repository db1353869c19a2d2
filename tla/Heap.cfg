SPECIFICATION HeapSpec
CONSTANTS
    TotalPages = 5
    kMaxOrder = 2
    FreeAtBoot <- MCFreeAtBoot
    PageLimit = 5
    NoOrder = NoOrder
    Cache <- MCCache
    Capacity <- MCCapacity
    BlockOrder <- MCBlockOrder
    MetaCache <- MCMetaCache
    MetaWidths <- MCMetaWidths
    SizeBits = 4
    MaxHeld = 3
    NoCache = NoCache
INVARIANTS
    
    BlocksOwnedOnce
    ChainHoldsTheFree
    HeapAssertionsHold
 

CONSTANTS
    None = None
    Empty = Empty
    Torn = Torn
    Files = {f1, f2, f3}
    MaxState = 3
SPECIFICATION FairSpec
CHECK_DEADLOCK FALSE
INVARIANTS
    WriterOwnsTemporary
PROPERTIES
    ImplementsAtomicFile
    ChangesAreSaved

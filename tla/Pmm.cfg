SPECIFICATION Spec
CONSTANTS
    PageSize = 4
    MaxFrames = 8
    ReserveLow = 1
    E820Maps <- MCE820Maps
    Counts = {0, 1, 2, 3}
INVARIANTS
    UsedFramesExact
    FramesConserved
    HeldIsRam
PROPERTY
    RefinesFrameAllocator

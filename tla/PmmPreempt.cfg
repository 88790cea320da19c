SPECIFICATION PSpec
CONSTANTS
    PageSize = 4
    MaxFrames = 8
    ReserveLow = 1
    E820Maps <- MCE820Maps
    Counts = {}
    BitsPerByte = 2
INVARIANTS
    HeldStaysMarked

SPECIFICATION Spec
CONSTANTS
    Align = 1
    HeaderSize = 2
    MinBlock = 4
    PageSize = 4
    Initial = 24
    GrowMin = 8
    Frames = 1
    Sizes = {0, 1, 3, 7}
INVARIANTS
    ChainCovers
    BlocksDisjoint

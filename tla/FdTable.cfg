SPECIFICATION Spec
CONSTANTS
    MaxFd = 6
    Handles = {h1, h2, h3}
    MaxPipes = 2
    CallSets <- MCCallSets
CONSTRAINT CountsBounded
SYMMETRY HandleSymmetry
INVARIANTS
    HandlesSound
    PipeNotRecycled
    NoHandleLost

SPECIFICATION Spec
CONSTANTS
    KernelTasks = 2
    Sleepers = {2}
    Frames = {3, 8}
    ProgramFrames = 1
    Signals = {9, 15}
    MaxSleep = 1
INVARIANTS
    TypeOK
    RingWellFormed
    ShellLostOnlyToSignal
    AddressSpaceRight
    FramesAccounted

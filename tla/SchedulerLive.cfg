SPECIFICATION Spec
CONSTANTS
    KernelTasks = 3
    Sleepers = {}
    Frames = {7}
    ProgramFrames = 1
    Signals = {9}
    MaxSleep = 1
PROPERTIES
    NoStarvation
    ZombiesReaped

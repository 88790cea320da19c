SPECIFICATION Spec
CONSTANTS
    MaxWindows = 3
    Width <- MCWidth
    Place <- MCPlace
    ScreenW = 4
    Buffers = {b1, b2}
    NoBuf = NoBuf
INVARIANTS
    WindowsSound
    PointersOpen
SYMMETRY MCBuffers

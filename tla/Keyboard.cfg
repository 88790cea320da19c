SPECIFICATION Spec
CONSTANTS
    letter = letter
    arrow = arrow
    lshift = lshift
    rshift = rshift
    Shifts = {lshift, rshift}
    E0 = E0
    Aux = aux
    BufSize = 3
    Plain = {letter}
    Ext = {arrow}
    Mapped <- MCMapped
    Repeatable <- MCRepeatable
    MaxPort = 3
    MaxTyped = 3
INVARIANTS
    TypeOK
    NothingLostOrDoubled
PROPERTY
    RefinesFifo
SYMMETRY MCShiftKeys

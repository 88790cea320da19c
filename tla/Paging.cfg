SPECIFICATION PagingSpec
CONSTANTS
    Entries = 5
    LastFrames = {11, 13, 15, 17, 19}
    FbPage <- MCFbPage
    Segments <- MCSegments
    StackPages <- MCStackPages
    HeapInitial = 4
    GrowPages = 2
    HeapMax = 10
    MaxOthers = 2
    MaxClones = 4
INVARIANTS
    OnlyProgramsHide
    SpacesAgree
    FramesApart
PROPERTIES
    MapsOnlyItsPage

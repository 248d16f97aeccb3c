SPECIFICATION FairSpec
CONSTANTS
    MaxSize = 2
    Compositing = {FALSE, TRUE}
    BitmapMayFail = FALSE
    MappingMayFail = FALSE
    LateTimeout = FALSE
    LateInsert = FALSE
    ScrollOffsets <- NoScroll
    MaxVersion = 2
    MaxEvents = 2
    MaxStateID = 2
PROPERTIES
    ScreenCatchesUp
CHECK_DEADLOCK FALSE

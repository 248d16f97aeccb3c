SPECIFICATION Spec
CONSTANTS
    MaxSize = 2
    Compositing = {TRUE}
    BitmapMayFail = TRUE
    MappingMayFail = TRUE
    LateTimeout = TRUE
    LateInsert = TRUE
    ScrollOffsets <- NoScroll
    MaxVersion = 1
    MaxEvents = 3
    MaxStateID = 1
INVARIANTS
    QuietMeansCurrent
PROPERTIES
    NoTimerWhileWaiting
CHECK_DEADLOCK FALSE

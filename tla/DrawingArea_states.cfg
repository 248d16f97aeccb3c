SPECIFICATION Spec
CONSTANTS
    MaxSize = 2
    Compositing = {FALSE, TRUE}
    BitmapMayFail = FALSE
    MappingMayFail = FALSE
    LateTimeout = FALSE
    LateInsert = FALSE
    ScrollOffsets <- NoScroll
    MaxVersion = 2
    MaxEvents = 3
    MaxStateID = 2
INVARIANTS
    TypeOK
    UpdateIsNotAhead
    StateIsNewer
    UIWaitIsAnswered
    WebWaitIsAnswered
    UpdateFitsStore
CHECK_DEADLOCK FALSE

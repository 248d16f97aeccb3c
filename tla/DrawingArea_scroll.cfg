SPECIFICATION Spec
CONSTANTS
    MaxSize = 3
    Compositing = {FALSE}
    BitmapMayFail = FALSE
    MappingMayFail = TRUE
    LateTimeout = FALSE
    LateInsert = FALSE
    ScrollOffsets <- UpAndDown
    MaxVersion = 3
    MaxEvents = 1
    MaxStateID = 1
INVARIANTS
    QuietMeansCurrent
CHECK_DEADLOCK FALSE

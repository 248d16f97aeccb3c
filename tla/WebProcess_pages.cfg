SPECIFICATION FairSpec
CONSTANTS
    Page = {p1, p2}
    NoPage = NoPage
    MaxProcess = 2
    MaxEvents = 2
    WebMayDie = TRUE
INVARIANTS
    PagesAreAttached
    EventsMatchAnswers
    MessageFindsItsPage
    AlarmHasReason
PROPERTIES
    OldTimerIsSilent
    EventsGetDone
CHECK_DEADLOCK FALSE

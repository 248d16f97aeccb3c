SPECIFICATION FairSpec
CONSTANTS
    w1 = w1
    w2 = w2
    p1 = p1
    p2 = p2
    i1 = i1
    i2 = i2
    i3 = i3
    s1 = s1
    Web = {w1}
    Plugins <- OnePlugin
    Instance = {i1, i2}
    OwnerOf <- MCOwnerOf
    PathOf <- MCPathOf
    SiteCallback = {s1}
    IsClear = {s1}
    Reentrant = {w1}
    Mortal = {}
    PluginMayDie = TRUE
    MaxCalls = 1
INVARIANTS
    DestroyFindsItsController
    CrashNoticeIsForTheDead
PROPERTIES
    CallsReturn
    SiteDataArrives
CHECK_DEADLOCK FALSE

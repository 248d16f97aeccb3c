SPECIFICATION Spec
CONSTANTS
    w1 = w1
    w2 = w2
    p1 = p1
    p2 = p2
    i1 = i1
    i2 = i2
    i3 = i3
    s1 = s1
    Web = {w1, w2}
    Plugins <- TwoPlugins
    Instance = {i1, i3}
    OwnerOf <- MCOwnerOf
    PathOf <- MCPathOf
    SiteCallback = {s1}
    IsClear = {}
    Reentrant = {}
    Mortal = {w2}
    PluginMayDie = TRUE
    MaxCalls = 0
INVARIANTS
    TypeOK
    ConnectionFindsItsRequest
    NobodyIsForgotten
    InitializedBeforeUse
    TerminatesOnlyUnused
PROPERTIES
    ImplementsBroker
CHECK_DEADLOCK FALSE

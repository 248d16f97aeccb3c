SPECIFICATION Spec
CONSTANTS
    ui = ui
    web = web
    plugin = plugin
    ua = ua
    wa = wa
    wb = wb
    pb = pb
    Proc = {ui, web, plugin}
    Endpoint = {ua, wa, wb, pb}
    ProcOf <- MCProcOf
    PeerOf <- MCPeerOf
    OnlySendMarked = {pb}
    ExitOnFailure = {wa}
    HasTimeout = {wb}
    Delayed = {}
    Invalidates = {}
    Mortal = {plugin}
    CrashNotified = {wb}
    MaxSync <- AllButUI
    MaxAsync <- None
    SocketCapacity = 4
INVARIANTS
    NothingStranded
    MarkedCountMatchesStack
CHECK_DEADLOCK FALSE

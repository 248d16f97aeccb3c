SPECIFICATION FairSpec
CONSTANTS
    ui = ui
    web = web
    plugin = plugin
    ua = ua
    wa = wa
    wb = wb
    pb = pb
    Proc = {ui, web, plugin}
    Endpoint = {ua, wa, wb, pb}
    ProcOf <- MCProcOf
    PeerOf <- MCPeerOf
    OnlySendMarked = {pb}
    ExitOnFailure = {wa}
    HasTimeout = {}
    Delayed = {}
    Invalidates = {}
    Mortal = {}
    CrashNotified = {}
    MaxSync <- AllButWebToUI
    MaxAsync <- None
    SocketCapacity = 4
PROPERTIES
    SendSyncReturns
CHECK_DEADLOCK FALSE

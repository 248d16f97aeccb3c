SPECIFICATION FairSpec
CONSTANTS
    ui = ui
    web = web
    plugin = plugin
    ua = ua
    wa = wa
    wb = wb
    pb = pb
    Proc = {ui, web}
    Endpoint = {ua, wa}
    ProcOf <- MCProcOf
    PeerOf <- MCPeerOf
    OnlySendMarked = {}
    ExitOnFailure = {wa}
    HasTimeout = {ua}
    Delayed = {ua}
    Invalidates = {ua}
    Mortal = {web}
    CrashNotified = {}
    MaxSync <- One
    MaxAsync <- None
    SocketCapacity = 4
PROPERTIES
    SendSyncReturns
    CloseIsNoticed
CHECK_DEADLOCK FALSE

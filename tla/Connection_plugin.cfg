SPECIFICATION Spec
CONSTANTS
    ui = ui
    web = web
    plugin = plugin
    ua = ua
    wa = wa
    wb = wb
    pb = pb
    Proc = {web, plugin}
    Endpoint = {wb, pb}
    ProcOf <- MCProcOf
    PeerOf <- MCPeerOf
    OnlySendMarked = {pb}
    ExitOnFailure = {}
    HasTimeout = {wb}
    Delayed = {pb}
    Invalidates = {}
    Mortal = {}
    CrashNotified = {}
    MaxSync <- WebTwo
    MaxAsync <- OneFromPlugin
    SocketCapacity = 1
INVARIANTS
    TypeOK
    NoLostWakeup
    PendingReplyIsMine
    ReplyAnswersRequest
    AtMostOneReply
CHECK_DEADLOCK FALSE

---------------------------- MODULE PluginProcess ----------------------------
(***************************************************************************)
(* Plug-in processes: how a web process obtains a connection to the        *)
(* process that hosts a plug-in, and how such a process is started, used,  *)
(* left, terminated or lost.                                               *)
(*                                                                         *)
(*   UI process       PluginProcessManager, PluginProcessProxy,            *)
(*                    ProcessLauncher, WebPluginSiteDataManager            *)
(*   plug-in process  PluginProcess, ChildProcess, WebProcessConnection,   *)
(*                    PluginControllerProxy                                *)
(*   web process      PluginProcessConnectionManager,                      *)
(*                    PluginProcessConnection, PluginProxy                 *)
(*                                                                         *)
(* A path p names a plug-in and the process that hosts it.  An instance i  *)
(* is one PluginProxy of the web process OwnerOf[i].  Connections are      *)
(* numbered in the order in which they are made; 0 is no connection.       *)
(*                                                                         *)
(* The messages below travel through the connections of module Connection, *)
(* of which this module uses what that one shows: a socket delivers in     *)
(* order, a waiting thread dispatches marked messages only, a wait ends    *)
(* when its reply is there or its connection is closed.                    *)
(***************************************************************************)
EXTENDS Integers, Sequences, FiniteSets, SequencesExt

CONSTANTS
    Web,             \* web processes
    Plugins,         \* PluginInfoStore::plugins(): a sequence of paths
    Instance,        \* plug-in instances, one PluginProxy each
    OwnerOf,         \* the web process of an instance
    PathOf,          \* the plug-in an instance is an instance of
    SiteCallback,    \* site data requests of the application
    IsClear,         \* those that clear site data; the others get it
    Reentrant,       \* web processes that start and stop instances in a
                     \* message dispatched while they wait for a reply
    Mortal,          \* web processes that may die
    PluginMayDie,    \* plug-in processes may crash, or fail to be spawned
    MaxCalls         \* bound: calls from web processes into plug-in code

Path == Range(Plugins)
Conn == 1..(2 * Cardinality(Instance))

ASSUME PluginAssumption ==
    /\ Plugins \in Seq(Range(Plugins)) /\ IsInjective(Plugins)
    /\ IsFiniteSet(Instance) /\ OwnerOf \in [Instance -> Web]
    /\ PathOf \in [Instance -> Range(Plugins)]
    /\ IsClear \subseteq SiteCallback
    /\ Reentrant \subseteq Web /\ Mortal \subseteq Web
    /\ PluginMayDie \in BOOLEAN
    /\ MaxCalls \in Nat

VARIABLES
    \* UI process
    proxy,           \* m_pluginProcesses, by path
    toUI,            \* messages of each web process to the UI process
    toWeb,           \* and of the UI process to it
    site,            \* m_pendingGetSitesWithData, m_pendingClearSiteData
    \* plug-in process of each path
    child,
    toPlugin,        \* messages of the UI process to it
    fromPlugin,      \* and of it to the UI process
    calls,           \* calls into plug-in code so far (bounds the model)
    \* connections between web processes and plug-in processes
    nconn,           \* connections made so far
    controllers,     \* m_pluginControllers of the WebProcessConnection
    requests,        \* sync messages of the web process not yet dispatched
    webEnd,          \* the web process's end
    \* web process
    alive,
    frames,          \* instances with a call waiting on the main thread,
                     \* innermost last
    phase,           \* of each instance
    answer,          \* the reply to the call an instance waits in
    connOf,          \* PluginProxy::m_connection; its inverse is m_plugins
    table,           \* m_pluginProcessConnections
    pathsAndConns    \* m_pathsAndConnections

uiVars == <<proxy, toUI, toWeb, site>>
plugVars == <<child, toPlugin, fromPlugin, calls>>
lineVars == <<nconn, controllers, requests, webEnd>>
webVars == <<alive, frames, phase, answer, connOf, table, pathsAndConns>>
vars == <<proxy, toUI, toWeb, site, child, toPlugin, fromPlugin, calls, nconn,
          controllers, requests, webEnd, alive, frames, phase, answer, connOf,
          table, pathsAndConns>>

-----------------------------------------------------------------------------
(* Data.                                                                   *)

NoConn == 0
NoAnswer == -2
Failed == -1            \* no connection, a false result, or no reply at all
Done == 0               \* a true result

NoProxy == [state |-> "none", replies |-> << >>, requests |-> 0,
            sites |-> {}, getRequests |-> << >>, clearRequests |-> << >>]

(* state: no process, running, or gone with its socket not yet closed here. *)
(* stack: instances whose code is on the main thread, outermost first, each *)
(* in NPP_New (making) or in another call.                                  *)
NoChild == [state |-> "none", initialized |-> FALSE, conns |-> {},
            counter |-> 0, timer |-> FALSE, stack |-> << >>,
            destroyTimers |-> {}]

InitializePluginProcess == [op |-> "initialize", marked |-> FALSE]
CreateWebProcessConnection(marked) == [op |-> "connect", marked |-> marked]
SiteDataMessage(s) == [op |-> "site", marked |-> FALSE, callback |-> s]

PluginsOf(c) == {i \in Instance : connOf[i] = c}
PluginEndOpen(c) == \E p \in Path : c \in child[p].conns

-----------------------------------------------------------------------------
(* Web process.                                                            *)

(* The main thread runs: from its run loop, or in a handler dispatched      *)
(* while it waits.                                                          *)
MainThreadRuns(w) == alive[w] /\ (frames[w] = << >> \/ w \in Reentrant)

Innermost(w) == frames[w][Len(frames[w])]

Entry(w, p) == SelectInSeq(table[w], LAMBDA e : e.path = p)

Waits(i, what) ==
    LET w == OwnerOf[i] IN
    alive[w] /\ frames[w] # << >> /\ Innermost(w) = i /\ phase[i] = what

Return(i) ==
    frames' = [frames EXCEPT ![OwnerOf[i]] = Front(@)]

(* sendSync of CreatePlugin or DestroyPlugin: nothing is sent on a          *)
(* connection that is closed at either end or was never one, and waiting on *)
(* a closed one ends without a reply.                                       *)
SendRequest(i, c, op) ==
    requests' = IF webEnd[c] \in {"none", "open"} /\ PluginEndOpen(c)
                THEN [requests EXCEPT ![c] = Append(@, [op |-> op, instance |-> i])]
                ELSE requests

(* PluginProxy::initialize with the connection it was given: addPluginProxy *)
(* and the call that creates the plug-in.                                   *)
CreateOn(i, c) ==
    /\ connOf' = [connOf EXCEPT ![i] = c]
    /\ phase' = [phase EXCEPT ![i] = "creating"]
    /\ answer' = [answer EXCEPT ![i] = NoAnswer]

(* PluginProxy::initialize, getPluginProcessConnection up to its wait.      *)
Initialize(i) ==
    LET w == OwnerOf[i]
        k == Entry(w, PathOf[i])
    IN  /\ phase[i] = "unborn" /\ MainThreadRuns(w)
        /\ frames' = [frames EXCEPT ![w] = Append(@, i)]
        /\ \/ /\ k # 0
              /\ CreateOn(i, table[w][k].conn)
              /\ SendRequest(i, table[w][k].conn, "create")
              /\ UNCHANGED toUI
           \/ /\ k = 0
              /\ phase' = [phase EXCEPT ![i] = "asking"]
              /\ toUI' = [toUI EXCEPT ![w] =
                    Append(@, [op |-> "getConnection", instance |-> i])]
              /\ UNCHANGED <<connOf, answer, requests>>
        /\ UNCHANGED <<proxy, toWeb, site, plugVars, nconn, controllers,
                       webEnd, alive, table, pathsAndConns>>

(* The rest of getPluginProcessConnection, with a descriptor, and the end   *)
(* of PluginProxy::initialize up to the next wait.                          *)
Enter(i, c, end) ==
    LET w == OwnerOf[i] IN
    /\ table' = [table EXCEPT ![w] = Append(@, [path |-> PathOf[i], conn |-> c])]
    /\ pathsAndConns' = [pathsAndConns EXCEPT ![w][PathOf[i]] = c]
    /\ webEnd' = [webEnd EXCEPT ![c] = end]
    /\ CreateOn(i, c)
    /\ UNCHANGED <<uiVars, plugVars, controllers, alive, frames>>

GotConnection(i) ==
    /\ Waits(i, "asking") /\ answer[i] > 0
    /\ Enter(i, answer[i], "open")
    /\ SendRequest(i, answer[i], "create")
    /\ UNCHANGED nconn

GotNothing(i) ==
    /\ Waits(i, "asking") /\ answer[i] = Failed
    /\ phase' = [phase EXCEPT ![i] = "gone"]
    /\ Return(i)
    /\ UNCHANGED <<uiVars, plugVars, lineVars, alive, answer, connOf, table,
                   pathsAndConns>>

(* The empty Attachment that stands for no connection has no descriptor of  *)
(* its own: m_fileDescriptor is not initialised, here and in the decoder,   *)
(* and may compare unequal to -1.  The connection made from such a value    *)
(* fails to open; what is sent on it goes nowhere.                          *)
GotGarbage(i) ==
    /\ Waits(i, "asking") /\ answer[i] = Failed
    /\ nconn' = nconn + 1
    /\ Enter(i, nconn + 1, "bogus")
    /\ UNCHANGED requests

(* PluginProcessConnection::removePluginProxy and, for the last instance,   *)
(* removePluginProcessConnection.                                           *)
RemovePluginProxy(i) ==
    LET w == OwnerOf[i]
        c == connOf[i]
    IN  /\ connOf' = [connOf EXCEPT ![i] = NoConn]
        /\ IF PluginsOf(c) = {i}
           THEN /\ webEnd' = [webEnd EXCEPT ![c] = "closed"]
                /\ table' = [table EXCEPT ![w] =
                                RemoveAt(@, SelectInSeq(@, LAMBDA e : e.conn = c))]
                /\ pathsAndConns' = [pathsAndConns EXCEPT ![w][PathOf[i]] = NoConn]
           ELSE UNCHANGED <<webEnd, table, pathsAndConns>>

(* sendSync of CreatePlugin and DestroyPlugin returns, with the reply that  *)
(* was stored, or without one once the connection is closed.                *)
CreateReturns(i) ==
    /\ Waits(i, "creating")
    /\ answer[i] # NoAnswer \/ webEnd[connOf[i]] = "down"
    /\ Return(i)
    /\ IF answer[i] = Done
       THEN /\ phase' = [phase EXCEPT ![i] = "started"]
            /\ UNCHANGED <<connOf, webEnd, table, pathsAndConns>>
       ELSE /\ phase' = [phase EXCEPT ![i] = "gone"]
            /\ RemovePluginProxy(i)
    /\ UNCHANGED <<uiVars, plugVars, nconn, controllers, requests, alive, answer>>

Destroy(i) ==
    /\ phase[i] = "started" /\ MainThreadRuns(OwnerOf[i])
    /\ phase' = [phase EXCEPT ![i] = "destroying"]
    /\ answer' = [answer EXCEPT ![i] = NoAnswer]
    /\ frames' = [frames EXCEPT ![OwnerOf[i]] = Append(@, i)]
    /\ SendRequest(i, connOf[i], "destroy")
    /\ UNCHANGED <<uiVars, plugVars, nconn, controllers, webEnd, alive, connOf,
                   table, pathsAndConns>>

DestroyReturns(i) ==
    /\ Waits(i, "destroying")
    /\ answer[i] # NoAnswer \/ webEnd[connOf[i]] = "down"
    /\ Return(i)
    /\ phase' = [phase EXCEPT ![i] = "gone"]
    /\ RemovePluginProxy(i)
    /\ UNCHANGED <<uiVars, plugVars, nconn, controllers, requests, alive, answer>>

(* The wait of 45 seconds ends without a reply: syncMessageSendTimedOut     *)
(* tells the UI process, and the call returns false.                        *)
CallTimesOut(i) ==
    /\ \E what \in {"creating", "destroying"} : Waits(i, what)
    /\ answer[i] = NoAnswer /\ webEnd[connOf[i]] # "down"
    /\ toUI' = [toUI EXCEPT ![OwnerOf[i]] =
                    Append(@, [op |-> "timedOut", instance |-> i])]
    /\ Return(i)
    /\ phase' = [phase EXCEPT ![i] = "gone"]
    /\ RemovePluginProxy(i)
    /\ UNCHANGED <<proxy, toWeb, site, plugVars, nconn, controllers, requests,
                   alive, answer>>

(* Mutant of ReceiveFromUI: the crash notice waits for the main thread, and *)
(* a later reply is stored first.                                           *)
ReceiveNoticeLate(w) ==
    /\ alive[w]
    /\ \E k \in DOMAIN toWeb[w] :
        LET m == toWeb[w][k] IN
        /\ k = 1 \/ m.op = "reply"
        /\ toWeb' = [toWeb EXCEPT ![w] = RemoveAt(@, k)]
        /\ \/ /\ m.op = "reply"
              /\ answer' = [answer EXCEPT ![m.instance] = m.conn]
              /\ UNCHANGED webEnd
           \/ /\ m.op = "crashed"
              /\ webEnd' = LET c == pathsAndConns[w][m.path] IN
                           IF c = NoConn THEN webEnd
                           ELSE [webEnd EXCEPT ![c] = "down"]
              /\ UNCHANGED answer
    /\ UNCHANGED <<proxy, toUI, site, plugVars, nconn, controllers, requests,
                   alive, frames, phase, connOf, table, pathsAndConns>>

(* Connection queue: a reply is stored for the call that waits for it; the  *)
(* crash notice is dispatched on the queue itself.                          *)
ReceiveFromUI(w) ==
    LET m == Head(toWeb[w]) IN
    /\ alive[w] /\ toWeb[w] # << >>
    /\ toWeb' = [toWeb EXCEPT ![w] = Tail(@)]
    /\ \/ /\ m.op = "reply"
          /\ answer' = [answer EXCEPT ![m.instance] = m.conn]
          /\ UNCHANGED webEnd
       \/ /\ m.op = "crashed"
          /\ webEnd' = LET c == pathsAndConns[w][m.path] IN
                       IF c = NoConn THEN webEnd
                       ELSE [webEnd EXCEPT ![c] = "down"]
          /\ UNCHANGED answer
    /\ UNCHANGED <<proxy, toUI, site, plugVars, nconn, controllers, requests,
                   alive, frames, phase, connOf, table, pathsAndConns>>

(* The plug-in process closed its end, or is gone.                          *)
HangUp(c) ==
    /\ webEnd[c] = "open" /\ ~PluginEndOpen(c)
    /\ webEnd' = [webEnd EXCEPT ![c] = "down"]
    /\ UNCHANGED <<uiVars, plugVars, nconn, controllers, requests, webVars>>

(* The process dies: its sockets are closed, with the connections on their  *)
(* way to it.  What it had sent the UI process may still be read there.     *)
WebProcessDies(w) ==
    LET mine == {table[w][k].conn : k \in DOMAIN table[w]}
                \cup {answer[i] : i \in {j \in Instance : OwnerOf[j] = w}}
                \cup {m.conn : m \in {x \in Range(toWeb[w]) : x.op = "reply"}}
    IN  /\ w \in Mortal /\ alive[w]
        /\ alive' = [alive EXCEPT ![w] = FALSE]
        /\ toUI' \in {toUI, [toUI EXCEPT ![w] = << >>]}
        /\ toWeb' = [toWeb EXCEPT ![w] = << >>]
        /\ frames' = [frames EXCEPT ![w] = << >>]
        /\ phase' = [i \in Instance |-> IF OwnerOf[i] = w THEN "gone" ELSE phase[i]]
        /\ connOf' = [i \in Instance |-> IF OwnerOf[i] = w THEN NoConn ELSE connOf[i]]
        /\ table' = [table EXCEPT ![w] = << >>]
        /\ pathsAndConns' = [pathsAndConns EXCEPT ![w] = [p \in Path |-> NoConn]]
        /\ webEnd' = [c \in Conn |-> IF c \in mine THEN "closed" ELSE webEnd[c]]
        /\ UNCHANGED <<proxy, site, plugVars, nconn, controllers, requests, answer>>

-----------------------------------------------------------------------------
(* Plug-in process.                                                        *)

(* Which message of the UI process the main thread takes: the next one, or  *)
(* while it waits for a reply the first one marked to be dispatched then.   *)
Takes(p, k) ==
    /\ child[p].state = "running"
    /\ k \in DOMAIN toPlugin[p]
    /\ IF child[p].stack = << >>
       THEN k = 1
       ELSE /\ toPlugin[p][k].marked
            /\ \A j \in 1..(k - 1) : ~toPlugin[p][j].marked

Take(p, k) == toPlugin' = [toPlugin EXCEPT ![p] = RemoveAt(@, k)]

ReceiveInitialize(p) ==
    \E k \in DOMAIN toPlugin[p] :
        /\ Takes(p, k) /\ toPlugin[p][k].op = "initialize"
        /\ Take(p, k)
        /\ child' = [child EXCEPT ![p].initialized = TRUE]
        /\ UNCHANGED <<uiVars, fromPlugin, calls, lineVars, webVars>>

(* Mutant: the connection does not keep the process alive.                  *)
CreateWithoutDisabling(p) ==
    \E k \in DOMAIN toPlugin[p] :
        /\ Takes(p, k) /\ toPlugin[p][k].op = "connect"
        /\ Take(p, k)
        /\ nconn' = nconn + 1
        /\ child' = [child EXCEPT ![p].conns = @ \cup {nconn + 1}]
        /\ fromPlugin' = [fromPlugin EXCEPT ![p] =
                             Append(@, [op |-> "connection", conn |-> nconn + 1])]
        /\ UNCHANGED <<uiVars, calls, controllers, requests, webEnd, webVars>>

CreateConnection(p) ==
    \E k \in DOMAIN toPlugin[p] :
        /\ Takes(p, k) /\ toPlugin[p][k].op = "connect"
        /\ Take(p, k)
        /\ nconn' = nconn + 1
        /\ child' = [child EXCEPT ![p].conns = @ \cup {nconn + 1},
                                  ![p].counter = @ + 1,
                                  ![p].timer = FALSE]
        /\ fromPlugin' = [fromPlugin EXCEPT ![p] =
                             Append(@, [op |-> "connection", conn |-> nconn + 1])]
        /\ UNCHANGED <<uiVars, calls, controllers, requests, webEnd, webVars>>

(* getSitesWithData and clearSiteData, both under a LocalTerminationDisabler: *)
(* leaving it starts the timer again when nothing else holds the process.   *)
HandleSiteData(p) ==
    \E k \in DOMAIN toPlugin[p] :
        /\ Takes(p, k) /\ toPlugin[p][k].op = "site"
        /\ Take(p, k)
        /\ child' = [child EXCEPT ![p].timer = (child[p].counter = 0)]
        /\ fromPlugin' = [fromPlugin EXCEPT ![p] =
              Append(@, [op |-> "site", callback |-> toPlugin[p][k].callback])]
        /\ UNCHANGED <<uiVars, calls, lineVars, webVars>>

(* Mutant of AfterRemoval: the counter is not looked at.                    *)
AfterRemovalUncounted(p, c, gone) ==
    IF controllers[c] \subseteq gone
    THEN [child[p] EXCEPT !.conns = @ \ {c},
                          !.counter = @ - 1,
                          !.timer = TRUE,
                          !.destroyTimers = @ \ gone]
    ELSE [child[p] EXCEPT !.destroyTimers = @ \ gone]

(* What is left of child[p] when WebProcessConnection c lost the instances  *)
(* gone: the last one closes it, removeWebProcessConnection, enableTermination. *)
AfterRemoval(p, c, gone) ==
    IF controllers[c] \subseteq gone
    THEN [child[p] EXCEPT !.conns = @ \ {c},
                          !.counter = @ - 1,
                          !.timer = (child[p].counter = 1),
                          !.destroyTimers = @ \ gone]
    ELSE [child[p] EXCEPT !.destroyTimers = @ \ gone]

RemoveControllers(c, gone) ==
    controllers' = [controllers EXCEPT ![c] = @ \ gone]

(* What the web process sent on a connection that is closed here is lost.   *)
LoseIfLast(c, gone, queue) ==
    requests' = IF controllers[c] \subseteq gone
                THEN [queue EXCEPT ![c] = << >>] ELSE queue

(* Mutant of Reply: the result of the handler is not looked at.             *)
ReplyDone(i, c, what, value) ==
    answer' = IF phase[i] = what /\ connOf[i] = c /\ webEnd[c] = "open"
              THEN [answer EXCEPT ![i] = Done] ELSE answer

(* The answer reaches the call only if that still waits, on an open end.    *)
Reply(i, c, what, value) ==
    answer' = IF phase[i] = what /\ connOf[i] = c /\ webEnd[c] = "open"
              THEN [answer EXCEPT ![i] = value] ELSE answer

(* The next sync message of connection c; all of them are marked, so they   *)
(* are dispatched in order whether or not the main thread waits.            *)
TakesRequest(p, c, op) ==
    /\ child[p].state = "running" /\ c \in child[p].conns
    /\ requests[c] # << >> /\ Head(requests[c]).op = op

(* createPlugin up to NPP_New, which may call the web process and wait.     *)
BeginCreatePlugin(p, c) ==
    LET i == Head(requests[c]).instance IN
    /\ TakesRequest(p, c, "create")
    /\ requests' = [requests EXCEPT ![c] = Tail(@)]
    /\ controllers' = [controllers EXCEPT ![c] = @ \cup {i}]
    /\ child' = [child EXCEPT ![p].stack =
                    Append(@, [instance |-> i, conn |-> c, making |-> TRUE])]
    /\ UNCHANGED <<uiVars, toPlugin, fromPlugin, calls, nconn, webEnd, webVars>>

Top(p) == child[p].stack[Len(child[p].stack)]

EndCreatePlugin(p) ==
    LET i == Top(p).instance
        c == Top(p).conn
        popped == [child EXCEPT ![p].stack = Front(@)]
    IN  /\ child[p].state = "running" /\ child[p].stack # << >> /\ Top(p).making
        /\ \/ /\ child' = popped
              /\ Reply(i, c, "creating", Done)
              /\ UNCHANGED <<controllers, requests>>
           \/ /\ child' = [popped EXCEPT ![p] =
                            [AfterRemoval(p, c, {i}) EXCEPT !.stack = Front(@)]]
              /\ RemoveControllers(c, {i})
              /\ LoseIfLast(c, {i}, requests)
              /\ IF controllers[c] = {i} THEN UNCHANGED answer
                 ELSE Reply(i, c, "creating", Failed)
        /\ UNCHANGED <<uiVars, toPlugin, fromPlugin, calls, nconn, webEnd, alive,
                       frames, phase, connOf, table, pathsAndConns>>

(* Any other message into plug-in code, which may wait for the web process. *)
EnterPlugin(p, i) ==
    /\ child[p].state = "running" /\ child[p].stack = << >>
    /\ phase[i] = "started" /\ i \in controllers[connOf[i]]
    /\ connOf[i] \in child[p].conns
    /\ calls < MaxCalls
    /\ calls' = calls + 1
    /\ child' = [child EXCEPT ![p].stack =
                    <<[instance |-> i, conn |-> connOf[i], making |-> FALSE]>>]
    /\ UNCHANGED <<uiVars, toPlugin, fromPlugin, lineVars, webVars>>

LeavePlugin(p) ==
    /\ child[p].state = "running" /\ child[p].stack # << >> /\ ~Top(p).making
    /\ child' = [child EXCEPT ![p].stack = Front(@)]
    /\ UNCHANGED <<uiVars, toPlugin, fromPlugin, calls, lineVars, webVars>>

OnStack(p, i) == \E k \in DOMAIN child[p].stack : child[p].stack[k].instance = i

(* PluginControllerProxy::destroy: at once, or from a timer when the        *)
(* plug-in's code is on the stack.  A connection closed by the last         *)
(* instance sends no reply.                                                 *)
DestroyPlugin(p, c) ==
    LET i == Head(requests[c]).instance IN
    /\ TakesRequest(p, c, "destroy")
    /\ IF OnStack(p, i)
       THEN /\ child' = [child EXCEPT ![p].destroyTimers = @ \cup {i}]
            /\ requests' = [requests EXCEPT ![c] = Tail(@)]
            /\ Reply(i, c, "destroying", Done)
            /\ UNCHANGED controllers
       ELSE /\ child' = [child EXCEPT ![p] = AfterRemoval(p, c, {i})]
            /\ RemoveControllers(c, {i})
            /\ LoseIfLast(c, {i}, [requests EXCEPT ![c] = Tail(@)])
            /\ IF controllers[c] = {i} THEN UNCHANGED answer
               ELSE Reply(i, c, "destroying", Done)
    /\ UNCHANGED <<uiVars, toPlugin, fromPlugin, calls, nconn, webEnd, alive,
                   frames, phase, connOf, table, pathsAndConns>>

DestroyTimerFires(p, c, i) ==
    /\ child[p].state = "running" /\ child[p].stack = << >>
    /\ c \in child[p].conns /\ i \in child[p].destroyTimers \cap controllers[c]
    /\ child' = [child EXCEPT ![p] = AfterRemoval(p, c, {i})]
    /\ RemoveControllers(c, {i})
    /\ LoseIfLast(c, {i}, requests)
    /\ UNCHANGED <<uiVars, toPlugin, fromPlugin, calls, nconn, webEnd, webVars>>

(* WebProcessConnection::didClose: every controller is destroyed, the last  *)
(* one takes the connection with it; one that has none stays.  Requests     *)
(* sent before the end was closed may be dispatched first, or be lost.      *)
WebProcessConnectionDidClose(p, c) ==
    /\ child[p].state = "running" /\ child[p].stack = << >>
    /\ c \in child[p].conns /\ webEnd[c] = "closed"
    /\ controllers[c] # {} \/ requests[c] # << >>
    /\ IF controllers[c] = {} THEN UNCHANGED child
       ELSE child' = [child EXCEPT ![p] = AfterRemoval(p, c, controllers[c])]
    /\ RemoveControllers(c, controllers[c])
    /\ requests' = [requests EXCEPT ![c] = << >>]
    /\ UNCHANGED <<uiVars, toPlugin, fromPlugin, calls, nconn, webEnd, webVars>>

(* The process is gone; its sockets are closed.                             *)
Gone(p) ==
    LET lost(c) == c \in child[p].conns IN
    /\ child' = [child EXCEPT ![p] = [NoChild EXCEPT !.state = "gone"]]
    /\ controllers' = [c \in Conn |-> IF lost(c) THEN {} ELSE controllers[c]]
    /\ requests' = [c \in Conn |-> IF lost(c) THEN << >> ELSE requests[c]]

TerminationTimerFires(p) ==
    /\ child[p].state = "running" /\ child[p].stack = << >> /\ child[p].timer
    /\ Gone(p)
    /\ UNCHANGED <<uiVars, toPlugin, fromPlugin, calls, nconn, webEnd, webVars>>

PluginProcessDies(p) ==
    /\ PluginMayDie /\ child[p].state = "running"
    /\ Gone(p)
    /\ UNCHANGED <<uiVars, toPlugin, fromPlugin, calls, nconn, webEnd, webVars>>

-----------------------------------------------------------------------------
(* UI process.                                                             *)

(* ProcessLauncher::launchProcess, on its work queue.  A process that could *)
(* not be spawned leaves a socket without a peer.                           *)
LaunchProcess(p) ==
    /\ proxy[p].state = "launching" /\ child[p].state = "none"
    /\ \/ child' = [child EXCEPT ![p].state = "running"]
       \/ PluginMayDie /\ child' = [child EXCEPT ![p].state = "gone"]
    /\ UNCHANGED <<uiVars, toPlugin, fromPlugin, calls, lineVars, webVars>>

GetOrCreatePluginProcess(px, p) ==
    IF px[p].state = "none" THEN [px EXCEPT ![p].state = "launching"] ELSE px

(* Mutant: m_numPendingConnectionRequests is not counted.                   *)
GetConnectionUncounted(p, i) ==
    LET px == GetOrCreatePluginProcess(proxy, p) IN
    /\ proxy' = [px EXCEPT ![p].replies = Append(@, i)]
    /\ toPlugin' = IF px[p].state = "launching" THEN toPlugin
                   ELSE [toPlugin EXCEPT ![p] =
                           Append(@, CreateWebProcessConnection(TRUE))]

GetPluginProcessConnection(p, i) ==
    LET px == GetOrCreatePluginProcess(proxy, p) IN
    IF px[p].state = "launching"
    THEN /\ proxy' = [px EXCEPT ![p].replies = Append(@, i),
                                ![p].requests = @ + 1]
         /\ UNCHANGED toPlugin
    ELSE /\ proxy' = [px EXCEPT ![p].replies = Append(@, i)]
         /\ toPlugin' = [toPlugin EXCEPT ![p] =
                            Append(@, CreateWebProcessConnection(TRUE))]

(* WebProcessProxy dispatches the next message of web process w.            *)
ReceiveGetConnection(w) ==
    /\ toUI[w] # << >> /\ Head(toUI[w]).op = "getConnection"
    /\ toUI' = [toUI EXCEPT ![w] = Tail(@)]
    /\ GetPluginProcessConnection(PathOf[Head(toUI[w]).instance], Head(toUI[w]).instance)
    /\ UNCHANGED <<toWeb, site, child, fromPlugin, calls, lineVars, webVars>>

(* pluginSyncMessageSendTimedOut kills whatever process hosts that path     *)
(* now; terminateProcess does nothing before it has a process identifier.   *)
ReceiveTimedOut(w) ==
    LET p == PathOf[Head(toUI[w]).instance] IN
    /\ toUI[w] # << >> /\ Head(toUI[w]).op = "timedOut"
    /\ toUI' = [toUI EXCEPT ![w] = Tail(@)]
    /\ IF child[p].state = "running" THEN Gone(p)
       ELSE UNCHANGED <<child, controllers, requests>>
    /\ UNCHANGED <<proxy, toWeb, site, toPlugin, fromPlugin, calls, nconn, webEnd,
                   webVars>>

SiteRequests(asked) == [k \in DOMAIN asked |-> SiteDataMessage(asked[k])]

Unmarked(n) == [k \in 1..n |-> CreateWebProcessConnection(FALSE)]

(* Mutants of DidFinishLaunching: m_numPendingConnectionRequests is not     *)
(* reset; the process is initialised last; site data requests are dropped.  *)
LaunchedWith(p, messages, left) ==
    /\ proxy[p].state = "launching" /\ child[p].state # "none"
    /\ toPlugin' = [toPlugin EXCEPT ![p] = messages]
    /\ proxy' = [proxy EXCEPT ![p].state = "running", ![p].requests = left,
                              ![p].getRequests = << >>, ![p].clearRequests = << >>]
    /\ UNCHANGED <<toUI, toWeb, site, child, fromPlugin, calls, lineVars, webVars>>
LaunchKeepsCount(p) ==
    LaunchedWith(p, <<InitializePluginProcess>> \o SiteRequests(proxy[p].getRequests)
                      \o Unmarked(proxy[p].requests), proxy[p].requests)
LaunchInitializesLast(p) ==
    LaunchedWith(p, SiteRequests(proxy[p].getRequests) \o Unmarked(proxy[p].requests)
                      \o <<InitializePluginProcess>>, 0)
LaunchDropsSites(p) ==
    LaunchedWith(p, <<InitializePluginProcess>> \o Unmarked(proxy[p].requests), 0)

(* What was asked for during the launch is sent, connections last and not   *)
(* marked.                                                                  *)
DidFinishLaunching(p) ==
    /\ proxy[p].state = "launching" /\ child[p].state # "none"
    /\ toPlugin' = [toPlugin EXCEPT ![p] =
          <<InitializePluginProcess>>
            \o SiteRequests(proxy[p].getRequests) \o SiteRequests(proxy[p].clearRequests)
            \o Unmarked(proxy[p].requests)]
    /\ proxy' = [proxy EXCEPT ![p].state = "running", ![p].requests = 0,
                              ![p].getRequests = << >>, ![p].clearRequests = << >>]
    /\ UNCHANGED <<toUI, toWeb, site, child, fromPlugin, calls, lineVars, webVars>>

(* A reply to a web process that is gone is dropped, and its descriptor     *)
(* with it.                                                                 *)
ReplyTo(lines, i, c) ==
    IF alive[OwnerOf[i]]
    THEN [lines EXCEPT ![OwnerOf[i]] =
            Append(@, [op |-> "reply", instance |-> i, conn |-> c])]
    ELSE lines

(* Mutant: everybody who waits is given the connection.                     *)
ReplyToAll(p) ==
    LET c == Head(fromPlugin[p]).conn IN
    /\ proxy[p].state = "running" /\ fromPlugin[p] # << >>
    /\ Head(fromPlugin[p]).op = "connection"
    /\ proxy[p].replies # << >>
    /\ fromPlugin' = [fromPlugin EXCEPT ![p] = Tail(@)]
    /\ proxy' = [proxy EXCEPT ![p].replies = << >>]
    /\ toWeb' = FoldLeft(LAMBDA lines, i : ReplyTo(lines, i, c), toWeb,
                         proxy[p].replies)
    /\ UNCHANGED <<toUI, site, child, toPlugin, calls, lineVars, webVars>>

DidCreateWebProcessConnection(p) ==
    LET c == Head(fromPlugin[p]).conn
        i == Head(proxy[p].replies)
    IN  /\ proxy[p].state = "running" /\ fromPlugin[p] # << >>
        /\ Head(fromPlugin[p]).op = "connection"
        /\ proxy[p].replies # << >>
        /\ fromPlugin' = [fromPlugin EXCEPT ![p] = Tail(@)]
        /\ proxy' = [proxy EXCEPT ![p].replies = Tail(@)]
        /\ toWeb' = ReplyTo(toWeb, i, c)
        /\ webEnd' = IF alive[OwnerOf[i]] THEN webEnd
                     ELSE [webEnd EXCEPT ![c] = "closed"]
        /\ UNCHANGED <<toUI, site, child, toPlugin, calls, nconn, controllers,
                       requests, webVars>>

(* getSitesWithDataForNextPlugin, clearSiteDataForNextPlugin: u holds the   *)
(* UI process's part of the state while several callbacks are run in turn.  *)
ForNextPlugin(u, s) ==
    LET left == u.site[s].left
        p == Last(left)
        px == GetOrCreatePluginProcess(u.proxy, p)
        asked == [px EXCEPT ![p].sites = @ \cup {s}]
        kept == IF s \in IsClear
                THEN [asked EXCEPT ![p].clearRequests = Append(@, s)]
                ELSE [asked EXCEPT ![p].getRequests = Append(@, s)]
        rest == [u.site EXCEPT ![s].left = Front(@)]
    IN  IF left = << >>
        THEN [u EXCEPT !.site[s].state = "performed"]
        ELSE IF px[p].state = "launching"
        THEN [u EXCEPT !.site = rest, !.proxy = kept]
        ELSE [u EXCEPT !.site = rest, !.proxy = asked,
                       !.toPlugin = [u.toPlugin EXCEPT ![p] = Append(@, SiteDataMessage(s))]]

InUI(u) == site' = u.site /\ proxy' = u.proxy /\ toPlugin' = u.toPlugin

GetSiteData(s) ==
    /\ site[s].state = "idle"
    /\ InUI(ForNextPlugin([site |-> [site EXCEPT ![s] =
                                      [state |-> "running", left |-> Plugins]],
                           proxy |-> proxy, toPlugin |-> toPlugin], s))
    /\ UNCHANGED <<toUI, toWeb, child, fromPlugin, calls, lineVars, webVars>>

DidGetSiteData(p) ==
    LET s == Head(fromPlugin[p]).callback IN
    /\ proxy[p].state = "running" /\ fromPlugin[p] # << >>
    /\ Head(fromPlugin[p]).op = "site"
    /\ fromPlugin' = [fromPlugin EXCEPT ![p] = Tail(@)]
    /\ InUI(ForNextPlugin([site |-> site,
                           proxy |-> [proxy EXCEPT ![p].sites = @ \ {s}],
                           toPlugin |-> toPlugin], s))
    /\ UNCHANGED <<toUI, toWeb, child, calls, lineVars, webVars>>

(* PluginProcessProxy::didClose: every web process is told, every web       *)
(* process that waits for a connection gets none, every site data request   *)
(* goes on to the next plug-in, and the proxy is deleted.                   *)
TellAll(p) ==
    [w \in Web |-> IF alive[w] THEN Append(toWeb[w], [op |-> "crashed", path |-> p])
                   ELSE toWeb[w]]

(* takeFirst and send, until no reply is left.                              *)
Refused(lines, replies) ==
    LET told[k \in 0..Len(replies)] ==
          IF k = 0 THEN lines ELSE ReplyTo(told[k - 1], replies[k], Failed)
    IN  told[Len(replies)]

(* The requests in sites go on, one after the other.                        *)
Advanced(u, sites) ==
    LET after[k \in 0..Len(sites)] ==
          IF k = 0 THEN u ELSE ForNextPlugin(after[k - 1], sites[k])
    IN  after[Len(sites)]

(* m_pendingGetSitesReplies and m_pendingClearSiteDataReplies are taken     *)
(* from their tables in any order.                                          *)
SitesGoOn(p) ==
    \E gets \in SetToSeqs(proxy[p].sites \ IsClear),
       clears \in SetToSeqs(proxy[p].sites \cap IsClear) :
        LET u == Advanced([site |-> site,
                           proxy |-> [proxy EXCEPT ![p].sites = {}],
                           toPlugin |-> toPlugin], gets \o clears)
        IN  InUI([u EXCEPT !.proxy[p] = NoProxy, !.toPlugin[p] = << >>])

(* Mutant of CrashedOrFailedToLaunch: the web processes that wait are        *)
(* forgotten with the proxy.                                                *)
CrashForgetsReplies(p) == toWeb' = TellAll(p) /\ SitesGoOn(p)

CrashedOrFailedToLaunch(p) ==
    toWeb' = Refused(TellAll(p), proxy[p].replies) /\ SitesGoOn(p)

DidClose(p) ==
    /\ proxy[p].state = "running" /\ child[p].state = "gone"
    /\ CrashedOrFailedToLaunch(p)
    /\ child' = [child EXCEPT ![p] = NoChild]
    /\ fromPlugin' = [fromPlugin EXCEPT ![p] = << >>]
    /\ UNCHANGED <<toUI, calls, lineVars, webVars>>

-----------------------------------------------------------------------------

Init ==
    /\ proxy = [p \in Path |-> NoProxy]
    /\ toUI = [w \in Web |-> << >>]
    /\ toWeb = [w \in Web |-> << >>]
    /\ site = [s \in SiteCallback |-> [state |-> "idle", left |-> << >>]]
    /\ child = [p \in Path |-> NoChild]
    /\ toPlugin = [p \in Path |-> << >>]
    /\ fromPlugin = [p \in Path |-> << >>]
    /\ calls = 0
    /\ nconn = 0
    /\ controllers = [c \in Conn |-> {}]
    /\ requests = [c \in Conn |-> << >>]
    /\ webEnd = [c \in Conn |-> "none"]
    /\ alive = [w \in Web |-> TRUE]
    /\ frames = [w \in Web |-> << >>]
    /\ phase = [i \in Instance |-> "unborn"]
    /\ answer = [i \in Instance |-> NoAnswer]
    /\ connOf = [i \in Instance |-> NoConn]
    /\ table = [w \in Web |-> << >>]
    /\ pathsAndConns = [w \in Web |-> [p \in Path |-> NoConn]]

(* What the page and the application do, and what may go wrong.             *)
Environment ==
    \/ \E i \in Instance : Initialize(i) \/ Destroy(i)
    \/ \E w \in Web : WebProcessDies(w)
    \/ \E p \in Path : PluginProcessDies(p) \/ TerminationTimerFires(p)
    \/ \E p \in Path, i \in Instance : EnterPlugin(p, i)
    \/ \E s \in SiteCallback : GetSiteData(s)

UIProcess ==
    \/ \E w \in Web : ReceiveGetConnection(w) \/ ReceiveTimedOut(w)
    \/ \E p \in Path : \/ LaunchProcess(p) \/ DidFinishLaunching(p)
                       \/ DidCreateWebProcessConnection(p) \/ DidGetSiteData(p)
                       \/ DidClose(p)

PluginProcessStep(p) ==
    \/ ReceiveInitialize(p) \/ CreateConnection(p) \/ HandleSiteData(p)
    \/ EndCreatePlugin(p) \/ LeavePlugin(p)
    \/ \E c \in Conn : \/ BeginCreatePlugin(p, c) \/ DestroyPlugin(p, c)
                       \/ WebProcessConnectionDidClose(p, c)
                       \/ \E i \in Instance : DestroyTimerFires(p, c, i)

WebProcess(w) ==
    \/ ReceiveFromUI(w)
    \/ \E i \in {j \in Instance : OwnerOf[j] = w} :
          \/ GotConnection(i) \/ GotNothing(i) \/ GotGarbage(i)
          \/ CreateReturns(i) \/ DestroyReturns(i) \/ CallTimesOut(i)

Next ==
    \/ Environment
    \/ UIProcess
    \/ \E p \in Path : PluginProcessStep(p)
    \/ \E w \in Web : WebProcess(w)
    \/ \E c \in Conn : HangUp(c)

Spec == Init /\ [][Next]_vars

(* Every thread keeps running: the UI process's run loop and launcher       *)
(* queue, each plug-in process's main thread (plug-in code returns), each   *)
(* web process's main thread and connection queues.  Nothing makes the page *)
(* or the application act, and nothing needs to die.                        *)
Fairness ==
    /\ WF_vars(UIProcess)
    /\ \A p \in Path : WF_vars(PluginProcessStep(p))
    /\ \A w \in Web : WF_vars(WebProcess(w))
    /\ WF_vars(\E c \in Conn : HangUp(c))

FairSpec == Spec /\ Fairness

-----------------------------------------------------------------------------
(* Properties.                                                             *)

TypeOK ==
    /\ \A p \in Path :
         /\ proxy[p].state \in {"none", "launching", "running"}
         /\ proxy[p].replies \in Seq(Instance)
         /\ proxy[p].requests \in Nat
         /\ proxy[p].sites \subseteq SiteCallback
         /\ child[p].state \in {"none", "running", "gone"}
         /\ child[p].conns \subseteq 1..nconn
         /\ child[p].counter \in Nat
    /\ nconn \in 0..(2 * Cardinality(Instance))
    /\ webEnd \in [Conn -> {"none", "open", "bogus", "down", "closed"}]
    /\ phase \in [Instance -> {"unborn", "asking", "creating", "started",
                               "destroying", "gone"}]
    /\ answer \in [Instance -> {NoAnswer, Failed, Done} \cup Conn]
    /\ connOf \in [Instance -> {NoConn} \cup Conn]

NumberOf(s, Test(_)) == Cardinality({k \in DOMAIN s : Test(s[k])})

(* Connections are matched to the web processes that wait by order alone.   *)
(* While a process runs, the replies its proxy keeps are as many as the     *)
(* requests not yet sent, not yet dispatched and not yet answered, so       *)
(* didCreateWebProcessConnection always finds the reply it takes.           *)
ConnectionFindsItsRequest ==
    \A p \in Path :
        LET made == NumberOf(fromPlugin[p], LAMBDA m : m.op = "connection") IN
        /\ made <= Len(proxy[p].replies)
        /\ child[p].state # "gone" =>
              Len(proxy[p].replies)
                = made + proxy[p].requests
                  + NumberOf(toPlugin[p], LAMBDA m : m.op = "connect")

(* Where the call of instance i that waits for a connection is.             *)
WhereAsked(i) ==
    NumberOf(toUI[OwnerOf[i]], LAMBDA m : m.op = "getConnection" /\ m.instance = i)
    + NumberOf(proxy[PathOf[i]].replies, LAMBDA j : j = i)
    + NumberOf(toWeb[OwnerOf[i]], LAMBDA m : m.op = "reply" /\ m.instance = i)
    + (IF answer[i] # NoAnswer THEN 1 ELSE 0)

(* A web process blocked in getPluginProcessConnection has its request in   *)
(* exactly one place, through launches, crashes and terminations: it is not *)
(* forgotten and not answered twice.                                        *)
NobodyIsForgotten ==
    \A i \in Instance : phase[i] = "asking" => WhereAsked(i) = 1

(* createWebProcessConnection and the site data handlers load the module by *)
(* the path that InitializePluginProcess brings (ASSERT(!m_pluginPath       *)
(* .isNull())): nothing they handle overtakes it, marked or not.            *)
InitializedBeforeUse ==
    \A p \in Path : \A k \in DOMAIN toPlugin[p] :
        Takes(p, k) /\ toPlugin[p][k].op # "initialize" => child[p].initialized

(* The termination timer never runs while there is a connection             *)
(* (PluginProcess::shouldTerminate's assertion), although connections come  *)
(* and go and site data requests disable and enable termination in between. *)
TerminatesOnlyUnused ==
    \A p \in Path : child[p].timer => child[p].conns = {}

(* DestroyPlugin finds the controller it is for (ASSERT in destroyPlugin):  *)
(* neither a deferred destruction nor a failed creation took it away.       *)
DestroyFindsItsController ==
    \A c \in Conn : \A k \in DOMAIN requests[c] :
        requests[c][k].op = "destroy" /\ PluginEndOpen(c) =>
            requests[c][k].instance \in controllers[c]

(* PluginProcessCrashed names a path, not a connection.  When it reaches a  *)
(* web process that knows a connection for that path, the connection's      *)
(* process is really gone: a connection to the next process of that path is *)
(* never closed for the death of the last one.                              *)
CrashNoticeIsForTheDead ==
    \A w \in Web :
        toWeb[w] # << >> /\ Head(toWeb[w]).op = "crashed" =>
            LET c == pathsAndConns[w][Head(toWeb[w]).path]
            IN  c # NoConn => ~PluginEndOpen(c)

(* Nobody waits forever in getPluginProcessConnection or in the calls that  *)
(* create and destroy a plug-in, whatever dies or is terminated meanwhile.  *)
CallsReturn ==
    \A i \in Instance :
        phase[i] \in {"asking", "creating", "destroying"}
            ~> phase[i] \in {"started", "gone"}

(* Every site data request is answered, whatever happens to the plug-in     *)
(* processes it asks.                                                       *)
SiteDataArrives ==
    \A s \in SiteCallback : site[s].state = "running" ~> site[s].state = "performed"

(* Every call of getPluginProcessConnection is answered as ConnectionBroker *)
(* says: with a connection no other call was given, or with none.           *)
Answered(i) == phase[i] = "asking" /\ answer[i] # NoAnswer

Broker == INSTANCE ConnectionBroker WITH
    Caller <- Instance,
    Connection <- Conn,
    call <- [i \in Instance |->
                IF phase[i] # "asking" THEN "idle"
                ELSE IF answer[i] = NoAnswer THEN "waiting"
                ELSE IF answer[i] = Failed THEN "refused" ELSE "given"],
    given <- [i \in Instance |-> IF Answered(i) /\ answer[i] > 0 THEN answer[i] ELSE 0],
    used <- {c \in Conn : webEnd[c] # "none"}
              \cup {answer[i] : i \in {j \in Instance : Answered(j) /\ answer[j] > 0}}

ImplementsBroker == Broker!Spec

(* PluginProcessConnectionManager.cpp:79, ASSERT(!m_pathsAndConnections     *)
(* .contains(path)): a web process has one connection per plug-in.          *)
OneConnectionPerPath ==
    \A w \in Web : \A k, l \in DOMAIN table[w] :
        table[w][k].path = table[w][l].path => k = l

(* PluginProcessProxy.cpp:90, "we need to make sure that this message is    *)
(* always processed, even when the plug-in is waiting for a synchronus      *)
(* reply".                                                                  *)
ConnectIsAlwaysProcessed ==
    \A p \in Path : child[p].state = "running" /\ child[p].stack # << >> =>
        \A k \in DOMAIN toPlugin[p] :
            toPlugin[p][k].op = "connect" => toPlugin[p][k].marked

(* ConnectionUnix.cpp, open(): a connection is opened on a descriptor that  *)
(* is one.                                                                  *)
OpensARealSocket == \A c \in Conn : webEnd[c] # "bogus"
=============================================================================

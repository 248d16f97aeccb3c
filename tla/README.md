# A TLA+ development for the WebKit2 process model

WebKit2 (`src/Source/WebKit2`) runs the browser's user interface, the engine and
the plug-ins in separate processes. The engine (WebCore, JavaScriptCore) is single
threaded and well covered by layout tests; what layout tests hardly reach is the code
that lets the processes work together: message connections with nested synchronous
calls, and the protocols spoken over them. This development models that code. The
commit is the GTK+ port, so wherever a file has a variant per platform the Unix and
GTK+ one is meant.

All paths below are relative to `src/Source/WebKit2/`.

## 1. The system and its parts

| part | code | state it keeps | operations | modelled in |
|---|---|---|---|---|
| Connection | `Platform/CoreIPC/Connection.{h,cpp}` | client, connected flag, outgoing and incoming queues, stack of pending synchronous replies, request counter, count of marked messages being dispatched | `sendMessage`, `sendSyncMessage`, `waitForSyncReply`, `sendSyncReply`, `dispatchMessages`, `invalidate`, `connectionDidClose`, `waitForMessage` | `Connection` (`waitForMessage`: `DrawingArea`) |
| SyncMessageState | `Connection.cpp:41-229` | per run loop: messages to dispatch while waiting, scheduled flag, semaphore | `processIncomingMessage`, `dispatchMessages`, `wait`, `wakeUpClientRunLoop` | `Connection` |
| Unix transport | `Platform/CoreIPC/unix/ConnectionUnix.cpp` | a non-blocking socket | `readyReadHandler`, `sendOutgoingMessage`, `platformInvalidate`, hang-up | `Connection` |
| BinarySemaphore, RunLoop, WorkQueue | `Platform/CoreIPC/BinarySemaphore.cpp`, `../WebCore/platform/RunLoop.cpp`, `Platform/gtk/WorkQueueGtk.cpp` | a flag; queues of functions | `signal`, `wait`; `dispatch`, `performWork` | `Connection` |
| Drawing area, UI side | `UIProcess/DrawingAreaProxyImpl.cpp`, `UIProcess/BackingStore.cpp`, `UIProcess/cairo/BackingStoreCairo.cpp` | current and next state ID, waiting flag, backing store, discard timer | `paint`, `update`, `didUpdateBackingStoreState`, `sizeDidChange`, `visibilityDidChange`, `discardBackingStore` | `DrawingArea` |
| Drawing area, web side | `WebProcess/WebPage/DrawingAreaImpl.cpp` | state ID, dirty region, scroll rectangle and offset, display timer, waiting and suspended flags | `setNeedsDisplay`, `scroll`, `display`, `updateBackingStoreState`, `didUpdate`, `forceRepaint`, `suspendPainting`, `resumePainting` | `DrawingArea` |
| Plug-in processes, UI side | `UIProcess/Plugins/PluginProcessManager.cpp`, `PluginProcessProxy.cpp`, `WebPluginSiteDataManager.cpp` | per path: launch state, FIFO of pending connection replies, requests kept during the launch, site data callbacks | connection request, launch, answer, crash, site data from plug-in to plug-in, kill after a timeout | `PluginProcess` |
| Plug-in process | `PluginProcess/PluginProcess.cpp`, `WebProcessConnection.cpp`, `PluginControllerProxy.cpp`, `Shared/ChildProcess.cpp` | connections, controllers of instances, termination counter and timer, deferred destructions | initialise, connect, create and destroy an instance, terminate | `PluginProcess` |
| Plug-ins, web side | `WebProcess/Plugins/PluginProcessConnectionManager.cpp`, `PluginProcessConnection.cpp`, `PluginProxy.cpp` | table of connections by path, instances of each | `getPluginProcessConnection`, `initialize`, `destroy`, `pluginProcessCrashed` | `PluginProcess`, the notice also in `Connection` |
| Web process lifecycle | `UIProcess/WebContext.cpp`, `UIProcess/WebProcessProxy.cpp`, `UIProcess/Launcher/`, `UIProcess/ResponsivenessTimer.cpp`, `WebProcess/WebProcess.cpp` | launch state, messages kept, map of pages, timer and responsive flag; pages and termination timer of the process | launch, crash, relaunch, asked to end, timer | `WebProcess` |
| Events of a page | `UIProcess/WebPageProxy.cpp`, `WebProcess/WebPage/EventDispatcher.cpp` | valid flag, queues of key and wheel events, mouse move under way and kept | events, loads, close, `didReceiveEvent`, `processDidCrash` | `WebProcess` |
| Visited links | `UIProcess/VisitedLinkProvider.cpp`, `Shared/VisitedLinkTable.cpp` | key count, table in shared memory, waiting links, timer; the table the web process maps, how the document styled its links | add, timer fired, resize, launch, close, look up | `VisitedLinks` |
| Argument coders, frames, services, GTK+ API, WebCore, JavaScriptCore, WTF, ANGLE | see `PROJECT.json` | | | no, see section 11 |

**How they interact.** A process has one client run loop thread, and every
Connection has a work queue thread of its own that reads and writes the socket. The
two threads share the queues of the Connection (under mutexes) and the
SyncMessageState of the run loop, which all connections of that run loop share.
Messages are dispatched on the client thread: from the run loop, or, when they carry
the flag *dispatch when waiting for sync reply*, also inside a synchronous send that
this thread is blocked in. A handler dispatched there may send synchronously again:
calls nest, on the same or on another connection. The drawing areas talk over such
a connection with asynchronous messages; the only place where they block is
`DrawingAreaProxyImpl::paint`, in `Connection::waitForMessage`. A web process asks
the UI process for a connection to a plug-in process and waits; the UI process
launches that process if need be, asks it for a socket and passes the socket on.
From then on web and plug-in process call each other directly. Pages share the web
process of their context, and with it one responsiveness timer; when it dies the
pages learn of it one by one, and any of them may have it launched again. Visited
links go through shared memory, of which the web process is only told when the
table is another one.

**What is hard.** Signals that arrive after the mutex was released; replies for a
call that is not the innermost one; replies after a timeout; two or three processes
that send synchronously to each other at once; a process that dies while another one
waits for it; a full socket; a view that is resized, hidden or loses its backing
store while updates drawn for its old state are under way; a wait that overtakes
messages, and its two unlocked windows; a discard timer at any time; processes that
are launched, crash or end by themselves while others wait for them, and successors
that get messages meant for their predecessors; callbacks of the application in the
middle of a crash being handled; one timer for many requests. `PROJECT.json` lists these hazards with their lines and the properties against them.

**What makes each part correct.**

* *Connection.* No thread sleeps while there is something for it to do; a reply
  reaches the call it answers and no other; every synchronous send returns; a marked
  message is dispatched even if nobody waits any more; a closed connection is noticed.
* *Drawing area.* Both sides agree on what a state ID means; no side waits for an
  answer that is not coming; no update is applied to a store it does not fit; nothing
  the page drew is lost, and the screen catches up with the page.
* *Plug-in processes.* Every waiting web process gets the connection made for it or
  a refusal; only an unused process ends by itself; a crash is reported to those it
  concerns and not to users of the next process; all calls return.
* *Web process and pages.* A page is attached to the process there is; what is sent
  during the launch arrives once and in order; every answer finds its event and no
  event is kept back for ever; no alarm without a reason.
* *Visited links.* A probe of the table ends; a link that was added is shown so.

## 2. `Connection`

The module is parameterised by any set of processes and connection ends
(`Proc`, `Endpoint`, `ProcOf`, `PeerOf`) and by the flags the processes give their
connections (`OnlySendMarked`: the plug-in process; `ExitOnFailure`: the web process
towards the UI process; `HasTimeout`; `Delayed`: ends whose client answers later).

*State.* One variable per member of Connection and SyncMessageState, named in the
comments of `VARIABLES`. The client thread is `stack[p]`, the calls it is in,
innermost first: `dispatchMessages`, a `swap` (SyncMessageState::dispatchMessages
about to take the list), a `batch` (the messages it took), `dispatchMessage` (a
handler of the client, with whether the reply encoder is still to be sent) and
`waitForSyncReply` (about to check, or blocked on the semaphore). The work queue
thread runs `tasks[e]` and reads `wire[e]`; between storing a marked message and
signalling it is in `signalling[e]`, because `processIncomingMessage` signals after
it has released the mutex.

*Granularity.* One action per critical section: everything done while a mutex is
held, or that only this thread touches, is one step; a step ends where the code
releases a lock or blocks. The client behind `Connection::Client` may, whenever it
runs, send asynchronously or synchronously on any of its connections, answer a
delayed reply or invalidate a connection.

*Data.* A message is its kind, the request ID it carries, its flag, and (for the
properties only, read by no action) the call it belongs to. Bytes, attachments and
shared memory are left out. A socket holds `SocketCapacity` messages; what does not
fit is dropped, as `sendOutgoingMessage` does when `sendmsg` would block.

| run | instance | checks |
|---|---|---|
| `connection_plugin` | web and plug-in process; the web process sends two synchronous messages, the plug-in process a synchronous and an asynchronous one; timeouts, delayed replies; a socket that holds one message, so that others are dropped | `TypeOK`, `NoLostWakeup`, `PendingReplyIsMine`, `ReplyAnswersRequest`, `AtMostOneReply` |
| `connection_line` | UI, web and plug-in process in a line; the two connections of the web process share its semaphore; one synchronous message each from the web process (to both sides) and the plug-in process; timeout and plug-in crash with its notice | `NothingStranded`, `MarkedCountMatchesStack` |
| `connection_ui_live` | UI and web process sending to each other at once; the web process may die, the UI process may delay replies and invalidate | `SendSyncReturns`, `CloseIsNoticed` |
| `connection_line_live` | the line, without any timeout that could hide a deadlock | `SendSyncReturns` |

*Bounds.* `MaxSync` bounds the synchronous requests an end makes, `MaxAsync` its
asynchronous messages. Two requests from one end and one from the other is the least
that has a nested call while an outer one is pending, and a late reply (of the timed
out first call) while a second one is pending. Three processes are the longest line
the code forms, and the least with two connections on one semaphore. What is proved
(section 8) has no bounds.

*Fairness* (`FairSpec`). Weak fairness of each run loop thread and of each work queue
thread: the operating system keeps running them. Of the timeout, for ends that have
one: `BinarySemaphore::wait` ends at an absolute time. Of a delayed reply: the two
users of the mechanism in this code answer each request. Nobody has to send,
invalidate or die.

Deadlock is not checked in these runs: when every bound is used up, or every
process is dead, the system may rest. That nothing waits for ever is what
`SendSyncReturns` says.

## 3. `DrawingArea`

The UI process numbers the states of the view's backing store. When the view is
resized, or its store was discarded, it takes the next number and sends
`UpdateBackingStoreState`; the web process enters the state, answers with
`DidUpdateBackingStoreState` and everything it has to draw, and afterwards sends one
`Update` at a time, each after the `DidUpdate` for the one before.

*State.* `ui` is DrawingAreaProxyImpl with its backing store, its widget and what is
on the screen; `web` is DrawingAreaImpl and its page. A view is a column of tiles and
what is drawn in a tile is the number of the page change that drew it, so a lost or
misplaced repaint shows as a wrong number. A rectangle or region is a set of tiles.
`toWeb` and `toUI` are the messages under way; `pc`, `rect` and `slot` are the one
handler that blocks, `paint`, and its entry in `m_waitForMessageMap`.

*Granularity.* A process handles one event at a time and touches nothing shared, so a
handler is one action. Handlers and the methods they call are operators from a state
record to a state record, with the messages sent in its field `sent`. A message the
web process sends is put into `m_incomingMessages` of the UI process in the same
step: delaying it on the socket is the same as running the web process later, since
nothing else orders the two. Messages to the web process stay in `toWeb` until
handled.

*Platform.* `paint` blocks only in a build with accelerated compositing, which
`configure` leaves off by default; `Compositing` is the set of builds a run covers.
Accelerated compositing mode itself is never entered, because
`LayerTreeHost::create` has no implementation in this port. A new backing store is
an X11 pixmap with undefined contents, and scrolling it copies within it. `Expose`,
`SizeDidChange`, `VisibilityDidChange`, `SetBackingStoreIsDiscardable` and
`WebPageProxyForceRepaint` are what the widget and the API do to it.

*Bounds.* `MaxSize` tiles: two tiles tell a resize, a partial repaint and a bounding
box apart; three are needed for scrolling a part of a view that is itself dirty in a
part. `MaxVersion` bounds the page changes and `MaxEvents` the events of the view.
`MaxStateID` bounds the states asked for by discards only: when answers take longer
than the two seconds of the discard timer, the code can repeat a discard for ever.
`LateTimeout` and `LateInsert` open the two windows of `waitForMessage`,
`BitmapMayFail` lets the web process get no bitmap to draw in
(`ShareableBitmap::createShareable`), `MappingMayFail` the UI process fail to map one it
was sent.

*A bitmap that cannot be mapped* (`BackingStore.cpp:57`). `incorporateUpdate` then draws
nothing, but the view is invalidated and the `Update` acknowledged as ever (`DrawInto`).
The tiles that should have changed become `Stale` in the model, a mark that scrolling
moves along and the next drawing of the tile removes; so what is wrong because of a lost
bitmap can be told from what is wrong because a repaint was lost.

| run | instance | checks |
|---|---|---|
| `drawing_states` | both builds; resizes, exposures, hiding, discards, forced repaints | `TypeOK`, `UpdateIsNotAhead`, `StateIsNewer`, `UIWaitIsAnswered`, `WebWaitIsAnswered`, `UpdateFitsStore` |
| `drawing_scroll` | the default build, three tiles, frames that scroll up and down, bitmaps that the UI process cannot map | `QuietMeansCurrent` |
| `drawing_races` | both windows of the wait open, bitmaps may fail on both sides | `QuietMeansCurrent`, `NoTimerWhileWaiting` |
| `drawing_live` | fair behaviours of both builds | `ScreenCatchesUp` |

*Fairness.* Weak fairness of the web process (`WebStep`) and of the UI process
(`UIStep`): both run loops run, the zero-delay display timer fires, the window system
asks for what was invalidated, and the half-second wait ends. The page need not
change and nothing need happen to the view; the discard timer is not fair, since
painting restarts it and `setBackingStoreIsDiscardable(false)` stops it.

## 4. `PluginProcess` and `ConnectionBroker`

A plug-in runs in a process of its own, one per path. A web process that starts an
instance looks for a connection to that process in its table, and otherwise asks the
UI process in a synchronous send. PluginProcessProxy keeps the reply, launches the
process or asks the running one for a connection, and hands the n-th connection to
the n-th reply it keeps. The process ends by itself a while after its last
connection went.

*State.* `proxy[p]` is the PluginProcessProxy of a path, with the replies it keeps, the
number of requests it has to send, and the two vectors of site data requests kept during
a launch (`getRequests`, `clearRequests`); `child[p]` the plug-in process
with its termination counter and timer, the instances whose code is on its stack and
those with a destroy timer; `controllers`, `requests` and `webEnd` are the two ends of
each connection; `table` and `pathsAndConns` are the two tables of a web process
(`m_pluginProcessConnections`, and the copy the connection queue reads); `frames` and
`phase` are the calls its main thread waits in, innermost last. The messages to and
from the UI process are queues. A call of NPP_New, or any other call into plug-in
code, is a frame of `child[p].stack` that stays until the code returns; while it
is there the plug-in process only dispatches marked messages.

*Granularity.* A handler is one action; it ends where it waits. The crash notice is
dispatched on the connection queue of the web process, before or while its main
thread runs, so `ReceiveFromUI` is an action of its own. What `Connection` shows is
used here: a socket keeps the order, a waiting thread dispatches marked messages, a
wait ends with its reply, its timeout or the close of its connection.

*Order of a table.* A crash hands every pending site data request on to the next plug-in,
in the order of two hash tables: first those that get site data, then those that clear
it, each kind in any order (`SitesGoOn`).

*Undefined values.* The refusal that PluginProcessProxy sends is an `Attachment`
whose descriptor is not initialised. `GotNothing` and `GotGarbage` are the two
outcomes: it compares equal to -1, or a connection is made of it.

*Abstract specification.* `ConnectionBroker` says what a caller of
`getPluginProcessConnection` may rely on: it is given a connection that nobody else was
ever given, or none. `ImplementsBroker` is that specification under the mapping at
the end of `PluginProcess` (a call is `waiting` while its reply is not stored; a
connection is `used` once somebody got it or threw it away).

| run | instance | checks |
|---|---|---|
| `plugin_sites` | two web processes, one of which may die, two plug-ins, a site data request through both; failing launches, crashes, terminations, timeouts | `TypeOK`, `ConnectionFindsItsRequest`, `NobodyIsForgotten`, `InitializedBeforeUse`, `TerminatesOnlyUnused`, `ImplementsBroker` |
| `plugin_live` | one web process with two instances that it starts and stops in handlers dispatched while it waits, plug-in code on the stack, crashes | `DestroyFindsItsController`, `CrashNoticeIsForTheDead`, `CallsReturn`, `SiteDataArrives` |

*Bounds.* Two instances are the least with two requests in one FIFO, and with a
connection that one instance leaves and another still uses; each may be started once,
so there are at most two connections per instance (`Conn`), one made by the plug-in
process and one made of garbage. A path can be launched again after each end of its
process. `MaxCalls` bounds calls into plug-in code other than NPP_New.

*Fairness.* Each process's threads run: `WF` of the UI process, of each plug-in
process (whose code returns) and of each web process, and hang-ups are noticed. Nobody
has to start or stop an instance, to die or to end. Every call into a plug-in has the
timeout of 45 seconds, and `CallsReturn` relies on it (`CallTimesOut`).
The code gives no timeout (`NoTimeout`, `PluginProcessConnection.cpp:46-72`) to three
plug-ins known by name, all of another platform, and to all of them when
`disablePluginProcessMessageTimeout` is set, as a debugging client may do. `CallsReturn`
says nothing of these.

*Coarser than the code.* Plug-in code is entered from an empty stack (`EnterPlugin`); a
marked request handled above it is the creation or destruction of an instance, and no call
of another kind nests. `NPP_Destroy` (`PluginControllerProxy.cpp:141`) is part of
`DestroyPlugin`: what plug-in code might call back from there is not modelled.
`plugin_live` has one plug-in, so a site data request going on to the next plug-in is
exercised by `plugin_sites` only.

## 5. `WebProcess`

The pages of a context share one web process. WebProcessProxy keeps the messages for
it until it is launched; when it is lost every page is told in turn, and the
application's callback may load the page again, which launches the next process.
A process without pages asks whether it may end.

*State.* `proxy[n]` is the n-th WebProcessProxy with its ResponsivenessTimer,
`current` the one WebContext uses; `page[p]` is of WebPageProxy what depends on the
process: validity, the process it is attached to, and `waits`, the events it keeps or
waits to be answered; `crashed` and `inClient` are the loop of `didClose` and the page
whose callback it is in; `web[n]` is the process. Operations of the UI process that
call each other are functions of a record of its state (`Send`, `TimerStop`,
`Attach`, `Closed`, `Disconnected`), as in `DrawingArea`.

*Granularity.* A handler is one action, but `didClose` is split around the
application's callbacks, since these call back into the API. A message that is not about
an event is a `request`: one that starts the timer and is answered by
`StopResponsivenessTimer`. `closePage` closes the page; an application that does not heed
it leaves what `stopTimer` leaves.

*Order of messages.* `EventDispatcher` receives wheel events on the connection's queue
(`EventDispatcher.messages.in:24`) and hands each to the main run loop as a function of its
own (`EventDispatcher.cpp:108`), while all else waits in `m_incomingMessages`, which any
`dispatchMessages` empties, also one that was posted for an earlier message. So messages
overtake the wheel events before them, and a wheel event overtakes nothing (`Takes`). A
`Close` may overtake a wheel event of its page, which is then dropped
(`EventDispatcher.cpp:122`); that is harmless, as the page is closed in the UI process and
nobody waits for the answer, and `MessageFindsItsPage` allows just this.

| run | instance | checks |
|---|---|---|
| `web_process` | two pages, two processes one after the other, crashes, failing launches, ends by agreement; two events, loads, closes or hidings of views | `PagesAreAttached`, `EventsMatchAnswers`, `MessageFindsItsPage`, `AlarmHasReason`, `OldTimerIsSilent`, `EventsGetDone` |

*Bounds.* Two pages and two processes are the least in which one page has moved on
while another has not been told of the crash; two events the least with one kept
for the answer to the other, or one from before a crash and one from after it.
The callback of a crash may load any page, the one it is about or another.

*Fairness.* The launcher's queue, the UI process's run loop (callbacks return) and the web
processes run. Timers and the user are not fair.

## 6. `VisitedLinks`

VisitedLinkProvider collects the hashes of visited links and, when its timer fires,
writes them into a hash table in shared memory, making a larger one when half of it
would be full. The web process maps the table read-only and looks links up in it while it
styles a document; a message tells it which links, or that all, need another look.

*State.* The members of the provider; `memory`, the contents of every table made so
far, since the web process may still map an old one; `toWeb`, `toUI`; in the web
process the table it maps, how the document styled each link it checked and which need
their style computed again. A table is a set of hashes, named by its size: sizes are
powers of two and the step of a probe is odd, so a probe meets every bucket. That it
ends, because one is empty, is `TablesAreHalfEmpty`. Hashes of different links are
taken to be different.

| run | instance | checks |
|---|---|---|
| `visited_links` | two links, three additions by the application, the history client or navigations, tables that start with two buckets, two processes, one failure of shared memory | `TablesAreHalfEmpty`, `PendingLinksHaveTimer`, `QuietMeansShown`, `VisitedLinksGetShown` |

*Bounds.* Three additions of two links resize the table twice and add a link again;
`MinTableSize` is the number of hashes in a page of memory, here 2 instead of 512
(64 bits each, in 4 KB), and
`MaxChanged` is 1 instead of 20, so that both kinds of notice are sent.

*Fairness.* What is ready on a run loop runs: timers of zero delay, messages, style
recalculation, the end of a launch and the notice of a close. Nobody has to visit
anything, and a process need not be launched.

## 7. What the runs show

In the default build, whose `paint` never waits, all assertions of the drawing area protocol
hold in every order of events: an update is never ahead of the state the UI process
knows, states only grow, and neither side's waiting flag is set without an answer on
its way, although both sides silently ignore stale messages. With the wait they still
hold as long as no message falls into a window of `waitForMessage`; if one does, the
UI process's assertions fail (section 9), yet a store that is at rest still shows the
page (`QuietMeansCurrent`), but for tiles whose bitmap the UI process could not map. A
bitmap the web process cannot make costs nothing but the assertion about the display timer,
and there is no other way to break that one (`NoTimerWhileWaiting`). With bitmaps that do
not fail, the screen of a visible view comes to show the page once page and view rest.

For the connection: the semaphore shared by nested waits and by several connections
never loses a wake-up, although a signal meant for an outer wait may be consumed by
an inner one, because every wait looks at everything again when it resumes. Replies
are matched by an ID that is never reused, so late ones find nobody. Processes that
send to each other at once dispatch each other's messages; in a line of three this
needs the plug-in process to mark its messages exactly while it handles a marked one.

For plug-in processes: matching connections to callers by order alone is right,
because a proxy keeps as many replies as there are requests on their way and both end
together with the process; and a crash notice, although it names only a path, never
closes a connection to the next process, because it precedes every reply of that
process on the same connection and is handled on the connection queue before the reply
is. Unmarked requests, garbage descriptors and two connections for one path
(section 9) make calls late or useless, but do not keep them from returning.

For the web process: clearing the event queues only after the callback is harmless as
long as no event is sent from the callback itself, although it may load the page.
A process that asks to end is disconnected before a page can be attached to
it, since the UI process decides alone. The shared timer raises no false alarm unless
a page is closed, and the timer of a process that is gone stays off unless a callback loads
a page of it that has not been told.

For visited links: the key count counts links that are added again, which makes tables
larger than needed but never too small. The table is sent before the links it is needed
for, and a new process gets both.

## 8. Proofs

`ConnectionProofs` and `ConnectionReplyProofs` prove about
`Connection`, for all processes, connections, flags and bounds that satisfy
`TopologyAssumption` (the peer relation is an involution between different
processes), `FlagAssumption` and `BoundAssumption` (the constants have their types):

* `TypeCorrect`: `Spec => []TypeOK`;
* `NoLostWakeupHolds`: `Spec => []NoLostWakeup`;
* `PendingReplyIsMineHolds`: `Spec => []PendingReplyIsMine`, the two assertions of
  `sendSyncMessage` and `waitForSyncReply` on `m_pendingSyncReplies`;
* `RepliesAnswerRequests`: `Spec => []ReplyAnswersRequest`;
* `MarkedCountIsExact`: `Spec => []MarkedCountMatchesStack`;
* `StoredIsDispatched`: `Spec => []NothingStranded`;
* `RepliesComeOnce`: `Spec => []AtMostOneReply`.

These are all the invariants the runs check of this module.

*Waits and wake-ups.* Neither `NoLostWakeup` nor `PendingReplyIsMine` is inductive.
`IInv` of `ConnectionProofs` adds to `TypeOK`

* `CallsInv`: a call waits on a connection of its own process, and only the innermost
  call can be blocked; so a step of the work queue can disturb one call only;
* `MatchInv`: the calls on a connection and its pending replies have the same IDs, in
  the same (strictly growing) order, none above the counter. This is what makes the
  last pending reply that of the innermost call on that connection, whatever calls
  on other connections lie in between;
* `WakeInv`: a stored message has a signal set or coming, or the thread is just about
  to take the list. It holds for every state of the thread, not only a blocked one,
  so it survives the step in which the thread blocks;
* `BlockInv`: a blocked call has neither a reply nor a closed connection unless the
  semaphore is set.

A step that only moves the thread between calls other than waits shifts the stack;
a group of lemmas (`ShiftKeepsMatches`, `MatchesPush`, `MatchesTail`,
`MatchesRelabel`, `MatchesCall`, `InnermostIsLast`) says that this keeps `Matches`,
and there is one lemma per kind of step
(`SendSyncStep`, `ReturnStep`, `WakesStep`, `BlocksStep`, `ReplyStep`, `CloseStep`,
`StoreStep`, `SignalStep`, `DispatchStep`, and `MoveStep` and `QuietStep` for the
rest), put together in `InvStep`.

*Messages and replies.* `ConnectionReplyProofs` counts: `Counting` defines how many
entries of a queue are in a set and says how the number changes when entries are
appended, concatenated, taken, changed or cut off.

* `Sharp` is the type invariant sharpened by what a message carries: a reply or a
  synchronous message has the number of its request as its ID, an entry of the pending
  replies holds no other reply than its own, the queues of a run loop hold work for
  connections of its own process only. `ReplyAnswersRequest` is one of its parts.
* `MarkedInv`: the counter of a connection is the number of handlers of marked messages
  of that connection on the stack, wherever they lie among handlers of others.
* `StoredInv`: the run loop has one call that takes the stored messages if
  `m_didScheduleDispatchMessagesWork` is set, else none; and if something is stored, the
  flag is set or the thread is about to take the list. The first half is needed since
  the thread that waits may empty the list before that call runs, which then resets the
  flag.
* `OnceInv`: the number `Copies` of places where request `id` of an end is, as a request
  (to be sent, in the socket, received, stored, in a batch, in a handler that still has
  its encoder, or owed by the client) or as a reply (to be sent, in the socket, stored),
  is at most one, and zero while `id` is above the counter. `AtMostOneReply` speaks of
  two of these places only, but every step moves the request from one place to the next.
  A batch on the stack, or a set of owed replies, that had a request several times would
  count as two (`Held`, `Debt`), so that one number bounds them all.

`VisitedLinksProofs` proves about `VisitedLinks`, for all sets of links, table sizes and
bounds that satisfy `VisitedAssumption` (links are finitely many, sizes are positive and
there is one for twice every number of additions up to the bound):

* `TablesStayHalfEmpty`: `Spec => []TablesAreHalfEmpty`, also for tables that only the
  web process still maps;
* `PendingLinksKeepTimer`: `Spec => []PendingLinksHaveTimer`;
* `QuietLinksAreShown`: `Spec => []QuietMeansShown`.

*Tables.* A table is written with its old entries and those that wait, whose
number is known only as a sum that counts links twice. `KeysAreCounted` relates the
four numbers: entries of the table <= key count, key count + waiting links <= calls of
`addVisitedLink`, and twice the key count <= size. `SizeFits` shows that
`tableSizeForKeyCount` returns at least twice its argument (its `CHOOSE` has a value by
`LeastNumber`), `WritingFits` that a write keeps `KeysAreCounted`, `AddingCounts` that
an addition does; a union has at most as many elements as its parts together
(`LinkSets`). `PendingLinksHaveTimer` is inductive as it stands.

*Links at rest.* `QuietMeansShown` speaks of the moment when nothing is on its way; what
leads to it is `ShownInv`, about the messages that are. Unless shared memory failed, for
every link of the provider's table and a process that has the provider's state,

* the link is in the table that is mapped and in all those still to come, and if it is
  shown as unvisited it is about to be styled again (`Ready`); or
* some message ahead has it styled again, and behind a table (the mapped one or one that
  is to come) that has the link, as have all the tables after it (`Coming`);

and the last table to come is the provider's own (`EndsWith`). A process without that
state has a running timer once there is a table. `OneMoreMessage` and `OneMessageLess`
say what sending and receiving do to these statements, `WritingShows` that the timer
establishes them for the links it wrote and keeps them for the others, even where it
sends no table because the size is the same: the memory is shared, and only grows
(`MoreInTables`).

`WebProcessProofs` proves about `WebProcess`, for all sets of pages and numbers of
processes and events (`WebAssumption`):

* `PagesStayAttached`: `Spec => []PagesAreAttached`;
* `MessagesFindTheirPages`: `Spec => []MessageFindsItsPage`, with messages overtaking wheel
  events;
* `AlarmsHaveReasons`: `Spec => []AlarmHasReason`;
* `EventsStayMatched`: `Spec => []EventsMatchAnswers`;
* `OldTimersStaySilent`: `Spec => OldTimerIsSilent`, an action property: a step after which
  the timer of a disconnected process is on, or that process is held to be unresponsive,
  found it so, or is a callback's load of another page (section 9).

*The argument.* The parts of the invariant are, like the operations of the UI process,
functions of its state, so that a handler made of several operations is treated one
operation at a time.

* `Processes`: only the last process launched is in use, if any is, and all before it are
  disconnected.
* `Pages`: a page is attached to the current process if and only if it is valid and not
  among those still to be told of a crash; the page whose callback runs may be either,
  since it may have been loaded again from there.
* `Shape` and `Lines`: the messages for the current process, whether kept for its launch
  or on the line, begin with the initialisation if that is still to come; each page is
  created before it is used and nothing but wheel events of before, which it overtook, is
  handled after its closing; the pages the process knows or will know are those attached to
  it and closed ones.
* `Alarm`: a running timer, or a process held to be unresponsive, has its reason on the line.
* `Events`: the events a page waits for are as many as `Counting` finds on both lines, and a
  page without a process waits for none, but the one whose callback runs: its queues are
  cleared only after the callback.

`Silent` (the timer of a process is off if the process is disconnected) is no part of the
invariant. Each operation is shown to be `Calm`, that is, to keep it for every process; a
send that starts the timer is, because the page is attached to a process that is connected.
What is left is the load of a page still to be told of the crash (`LateRequest`, `LoadStep`).

There is a lemma for each operation (`Send`, `TimerStop`, `Attach`, `Disconnected` ...) and
each kind of message, and one for each action.

`DrawingAreaProofs` proves about `DrawingArea`, for all view sizes, versions, states, bounds
and builds (`DrawingAreaAssumption`: the constants have their types):

* `TypeCorrect`: `Spec => []TypeOK`;
* `QuietStoreIsCurrent`: `Spec => []QuietMeansCurrent`;
* `TimerIsOffWhileWaiting`: `Spec => NoTimerWhileWaiting`, an action property: a step after
  which the display timer runs during a wait found it so, or announced that nothing was
  drawn, for want of a bitmap;
* `UpdateComesAfterItsState`, `StatesArriveInOrder`, `UIWaitEnds`, `WebWaitEnds` and
  `UpdatesFitTheStore`: `Spec => []UpdateIsNotAhead`, `[]StateIsNewer`, `[]UIWaitIsAnswered`,
  `[]WebWaitIsAnswered` and `[]UpdateFitsStore`, if `NoRace`: a build that waits for its state
  (`TRUE \in Compositing`) has neither of the two races of `waitForMessage`. Section 9 has
  what the races do; a build that never waits needs no assumption.

*What is always kept.* `QuietInv` (`AgreementHolds`) holds in every build, with the races and
with failing bitmaps.

* `TypeInv`, with `WebOK` for the web process: what is scrolled in is dirty, a page with
  nothing dirty has no scroll left to send, and a state still to be announced
  (`shouldSend`) finds the whole page dirty.
* `Asked`: the states asked for and still under way come in order, between the one the web
  process is in and `next`.
* `Answered`: states and updates under way come in the order of their state IDs, none later
  than the one the web process is in; a state is announced first and once; a message of the
  web process's state fits the page, and so does the store once the UI process is there.
* `Current` is the general form of `QuietMeansCurrent`: start from the backing store there
  is, if the UI process is in the web process's state, or from what the message that
  announces that state leaves; apply the updates behind it in turn (`Run`, `Starts`,
  `Applies`), then the scroll that is still pending, and the result is the page wherever it
  is not dirty (`Matches`), or `Stale`. Receiving a message removes the first step of such a
  run and sending one adds the last. A step of the run may miss any of the tiles it should
  draw (`Misses`), which are `Stale` from then on until drawn again; `DrawIntoEffect` shows
  that `DrawInto` is such a step, whether the bitmap was mapped or not, and `MissedMatches`
  that missing tiles keeps `Matches`.

*What the wait keeps.* `RaceFree` (`PromisesHold`) adds

* `WaitsOK`: a thread in the timed wait left no state behind in the queue, and who does not
  composite does not wait;
* `Promises`: every state arrives, before its updates (`Arrives`), all messages of one state
  have the size of its store (`OneSize`), and who waits will be answered (`UIWait`,
  `WebWait`).

There is one lemma for each elementary change of the queues (a message is sent, taken from
the front, or taken out of the middle by the wait) and part of the invariant, one lemma
for what all handlers of a process leave alone (`WebLeavesKeeps`, `UILeavesKeeps`), and one
`...Keeps` lemma per action.

`PluginProcessProofs` and `PluginBrokerProofs` prove about `PluginProcess`, for all sets of
web processes, plug-ins and site data requests and all finite sets of instances
(`PluginAssumption`; finite because connections are numbered and there are two for each
instance at most):

* `UnusedTerminate`: `Spec => []TerminatesOnlyUnused`;
* `InitializedFirst`: `Spec => []InitializedBeforeUse`;
* `RequestIsFound`: `Spec => []ConnectionFindsItsRequest`;
* `NobodyForgotten`: `Spec => []NobodyIsForgotten`;
* `NoticeIsForTheDead`: `Spec => []CrashNoticeIsForTheDead`;
* `DestroyFinds`: `Spec => []DestroyFindsItsController`;
* `TypesHold`: `Spec => []TypeOK`;
* `BrokerImplemented`: `Spec => ImplementsBroker`, the refinement of `ConnectionBroker`.

These are all the safety properties the runs check of this module. None of the invariants
is inductive; eight conjunctions are, each from the ones before it.

* `IInv`, the termination counter. The timer is started by looking at the counter, so the
  counter must be the number of connections (`CountOK`). What removes a connection must
  find it there: a failing `NPP_New` removes the one it was called for, possibly after
  other calls ran above it on the stack. `MakingOK` says that it is still there, because
  its controller is, and that no other such call is about the same controller; this needs
  that an instance is created once on a connection (`LineOK`), which in turn needs that
  nothing was asked for an instance before it has a connection. Connections belong to one
  process (`Disjoint`), and web processes speak of instances there are (`AskingOK`).
* `PInv`, each path by itself. Proxy, process and the two queues between them go through a
  life (`Life`: none, launching, running, gone), in which the initialisation is the first
  message or was handled, and through which replies kept and requests and connections
  under way are counted against each other (`Matched`). A crash reaches other paths too,
  because site data requests go on to them. The two loops of a crash (`Refused`,
  `Advanced`) are recursive functions over the places of a queue; `Induct` (a least
  counterexample, since the library's induction rules cannot be instantiated) and
  `Recursion` (such a function exists and is what its equation says) carry an invariant of
  the loop from each round to the next.
* `WInv`, where a request is. For each call that waits, the places in the queue to the UI
  process, among the replies, in the queue back and in the answer add up to one, and to none for a
  call that does not wait; the sums move by one when a queue gets or loses a message
  (`Counting`), and `Refused` answers each kept reply once.
* `NInv`, which process made a connection. One known or on its way was made by the process
  of its path (`MadeBy`); before each crash notice in a queue, everything known or on its
  way for its path is shut (`Shut`), since the UI process removes the proxy in the step
  that sends the notice.
* `DInv`, settled controllers. An instance that is started has a controller on its
  connection, and no creation, timer or second request that could take it away; one request
  at most asks for its destruction.
* `BInv`, the number of connections. A process makes one when it serves an instance, a web
  process makes one up when an instance goes past its wait, and each happens once for an
  instance.
* `UInv`, the ends of connections. A connection that an instance, a table or the crash
  table knows is one whose end was used, and an end that was used stays so.
* `HInv`, connections on their way. The holders of a connection are the queues to the UI
  process, the queues to web processes and the answered calls; a connection is held by one of
  them, once, and no web process had it before.

*The refinement.* `InitSeen` maps the initial states. `NextSeen` shows that every step is a
step of `ConnectionBroker` or changes nothing it sees: starting an instance asks, a reply
that is stored gives a connection (unused by `HInv`) or refuses, the end of the wait
returns, a connection for a web process that died is thrown away, and the death of a web
process takes its calls and the connections on their way to it. All other steps are
stutters (`Stutters`), because an end that changes was one that was used (`EndsOld`).

*Only model-checked:* the liveness properties
(`SendSyncReturns`, `CloseIsNoticed`, `ScreenCatchesUp`, `CallsReturn`, `SiteDataArrives`,
`EventsGetDone`, `VisitedLinksGetShown`), which are beyond the prover (fairness and
`ENABLED`).

## 9. Expectations the code does not meet

Met while modelling. Those with a definition are stated in the modules and can be seen
violated by checking that definition with the constants given, starting from
the `.cfg` named.

* **A crash is noticed twice** (`Connection.DidCloseOnce`; `Connection_plugin.cfg` with
  `Mortal = {plugin}`, `CrashNotified = {wb}`, `Delayed = {}`). A plug-in process that
  crashes is noticed by the web process as a hang-up and because the UI process tells
  it so, upon which `pluginProcessCrashed` posts a second close. `connectionDidClose`
  asserts `m_shouldWaitForSyncReplies` (`Connection.cpp:579`) and runs twice.
* **A message lost at a timeout** (`DrawingArea.UpdateIsNotAhead`, `DrawingArea_races.cfg`
  with `MaxVersion = 2`, `LateInsert = FALSE` and bitmaps that do not fail). `waitForMessage`
  removes its entry when its timed wait reports a timeout (`Connection.cpp:376`), even
  if the message was stored meanwhile. The `DidUpdateBackingStoreState` is lost and the
  next `Update` is ahead of the UI process (`DrawingAreaProxyImpl.cpp:168`).
* **A message overtaken** (`DrawingArea.StateIsNewer`, `DrawingArea_races.cfg` with
  `LateTimeout = FALSE`). `waitForMessage` looks at the incoming queue, releases it, and
  registers its wait later (`Connection.cpp:345`). A state that arrives in between is
  handled after the next one and takes the UI process back
  (`DrawingAreaProxyImpl.cpp:181`; the comment at line 319 says the oldest is returned).
* **A timer that fires during a wait** (`DrawingArea.TimerWhileWaiting` comes to hold;
  `DrawingArea_live.cfg` with `Compositing = {FALSE}`, `BitmapMayFail = TRUE`). Without a
  bitmap `display` returns before it stops the display timer (`DrawingAreaImpl.cpp:631`);
  its caller `forceRepaint` waits for a `DidUpdate`, and the timer then fires against
  the assertion at line 546. `NoTimerWhileWaiting` says that this is the only way.
* **An update acknowledged, but not drawn.** When the UI process cannot map a bitmap,
  `incorporateUpdate` returns (`BackingStore.cpp:57`) and `update` sends `DidUpdate` as if it
  had been drawn. The web process has forgotten its dirty region, so the tiles stay out of
  date until the page draws them again; `QuietMeansCurrent` excepts them. If it was the
  first bitmap for a new store, there is no `WidgetBackingStore` yet and the next `paint`
  fails the assertion at `cairo/BackingStoreCairo.cpp:47`.
* **Two connections for one path** (`PluginProcess.OneConnectionPerPath`,
  `PluginProcess_live.cfg`). `getPluginProcessConnection` looks its table up, waits, and
  adds an entry; a handler dispatched during the wait may have added one, against the
  assertion at `PluginProcessConnectionManager.cpp:79`. The table the crash notice uses
  then knows only one of the two.
* **A request that is not marked** (`PluginProcess.ConnectIsAlwaysProcessed`,
  `PluginProcess_live.cfg` with `Web = {w1, w2}`, `Instance = {i1, i3}`, `Reentrant = {}`).
  `PluginProcessProxy.cpp:90` says that the message "is always processed, even when the
  plug-in is waiting"; those sent at the end of the launch (line 227) have no such mark.
* **A refusal taken for a connection** (`PluginProcess.OpensARealSocket`,
  `PluginProcess_live.cfg`). `Attachment()` leaves the descriptor uninitialised on this
  platform; `getPluginProcessConnection` compares it with -1.
* **The next process killed.** `PluginSyncMessageSendTimedOut` names a path; when the
  process it is about is gone, the next one of that path is terminated.
* **A connection nobody removes.** A `WebProcessConnection` closed by the web process
  before an instance was made on it stays in `m_webProcessConnections`, and keeps the
  process from ending.
* **An alarm for a closed page.** The answer to an event of a page that was closed is
  dropped (`WebProcessProxy.cpp:328`) and does not stop the timer, which is why
  `AlarmHasReason` excepts closed pages.
* **An alarm of an old process** (`WebProcess.OldTimer` comes to hold;
  `WebProcess_pages.cfg`). A callback that loads another page, which has not been told of
  the crash yet, starts the timer of the process that is gone. `OldTimerIsSilent` says that
  this is the only way.
* **Responsive, but not yet.** `ResponsivenessTimer::stop` tells the pages before it sets
  `m_isResponsive` (`ResponsivenessTimer.cpp:74-83`), so that
  `updateBackingStoreDiscardableState` still finds the process unresponsive.
* **Links left waiting.** When a process ends before the provider's timer fired for the
  first time, the next launch does not start the timer, because `m_keyCount` is 0; the
  links wait until another one is added. `PendingLinksHaveTimer` and
  `VisitedLinksGetShown` except this case. A failure of shared memory loses the links
  that waited, or leaves the web process with its old table.

## 10. Plan

1. `SyncCall`: what a synchronous send promises, as an abstract specification (a call
   is made, handled at most once, and returns with its own reply or fails), and
   `Connection` as its implementation by a refinement mapping, checked by TLC.
2. A proof of that refinement, from the invariants of `ConnectionReplyProofs`.

The liveness properties stay with TLC.

## 11. Not modelled

The repository is all of WebKit, over a million lines; what is modelled is the part
in which processes work together. Most of the rest is single threaded, computes on
large data (layout, styles, scripts, graphics) and is out of a model checker's reach.

* *Argument coders*: byte layout of single values, no state that outlives a call.
* *Frame and history proxies, downloads, cookies, geolocation and other services*: each
  driven by single messages of one sender. That the context does not let a process end
  while one of them is busy is a free choice in `WebProcess`.
* *WebKit2 GTK+ API*: wrappers; what the widget and the application do appears as the
  environment of the modules.
* *WebCore, JavaScriptCore, WTF, ANGLE*: the engine, its language runtime, the base
  library and vendored code. Mutexes, conditions and queues are modelled by the way
  the modelled code uses them.
* Of Connection: invalid messages; a semaphore whose wait times out at the moment it is
  signalled (`WaitTimesOut` needs the flag off), which differs from a signal a moment later
  in nothing the wait looks at. Of the drawing areas: page overlays, custom
  representations and layer tree hosts. Their responsiveness timer is the one of
  `WebProcess`, where a state to be updated is a `request`.
* Of plug-in processes: painting, input and scripting of an instance, which are calls
  into plug-in code; a socket pair that cannot be made; what site data holds.
* Of the web process: touch and gesture events, messages to the injected bundle, the
  thread process model, `enableProcessTermination`, callbacks that spin a nested loop,
  the nested run loop of a modal dialog in the web process (a wheel event might run there
  before the creation of its page), wheel events on a thread of their own
  (`THREADED_SCROLLING`, not in this port), and the destruction of a context.
* Of visited links: colliding hashes, a key count beyond 32 bits, and documents that
  come back from the page cache.

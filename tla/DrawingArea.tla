---------------------------- MODULE DrawingArea ----------------------------
(***************************************************************************)
(* The two halves of a page's drawing area: DrawingAreaProxyImpl in the UI *)
(* process, which owns the backing store the widget is painted from, and   *)
(* DrawingAreaImpl in the web process, which draws the page into bitmaps   *)
(* and sends them over.  They agree on a backing store state ID: the UI    *)
(* process announces a new one with UpdateBackingStoreState when the view  *)
(* is resized or the store is thrown away, the web process answers with    *)
(* DidUpdateBackingStoreState and the bits of the whole page, and sends    *)
(* the changes after that one Update at a time, each after the DidUpdate   *)
(* that acknowledges the one before.                                       *)
(*                                                                         *)
(* A view is a column of tiles 1..n and what is drawn in a tile is the     *)
(* number of the page change that drew it.  Each process handles one       *)
(* message or event at a time, so a handler is one action: an operator     *)
(* that maps the process's state (record w or u) to the state it leaves,   *)
(* the messages it sends in its field sent.  The only handler that blocks  *)
(* is paint, in Connection::waitForMessage.  Accelerated compositing mode  *)
(* itself is never entered: LayerTreeHost::create has no implementation in *)
(* this port.                                                              *)
(***************************************************************************)
EXTENDS Integers, Sequences, FiniteSets, SequencesExt

CONSTANTS
    MaxSize,          \* tiles of the largest view
    Compositing,      \* values of USE(ACCELERATED_COMPOSITING), one per build
    BitmapMayFail,    \* the web process may get no memory for a bitmap
    MappingMayFail,   \* the UI process may fail to map a bitmap's memory
    LateTimeout,      \* a timed wait may time out as its message arrives
    LateInsert,       \* a message may arrive before the wait is registered
    ScrollOffsets,    \* offsets by which the page scrolls
    MaxVersion,       \* bound on the changes of the page
    MaxEvents,        \* bound on what happens to the view
    MaxStateID        \* bound on the states that discards ask for

ASSUME DrawingAreaAssumption ==
    /\ MaxSize \in Nat /\ MaxVersion \in Nat /\ MaxEvents \in Nat
    /\ MaxStateID \in Nat
    /\ Compositing \subseteq BOOLEAN /\ BitmapMayFail \in BOOLEAN
    /\ MappingMayFail \in BOOLEAN
    /\ LateTimeout \in BOOLEAN /\ LateInsert \in BOOLEAN
    /\ ScrollOffsets \subseteq Int \ {0}

Tiles == 1..MaxSize

(* What ShareableBitmap::createShareable may come to in the web process.   *)
Bitmaps == IF BitmapMayFail THEN BOOLEAN ELSE {TRUE}

(* What ShareableBitmap::create of a handle may come to in the UI process. *)
Mappings == IF MappingMayFail THEN BOOLEAN ELSE {TRUE}

(* What a pixel of a new pixmap or of a lost window shows.                 *)
Undefined == -1

(* What a tile shows that missed an update: whatever it showed before.     *)
Stale == -2

VARIABLES
    ui,       \* DrawingAreaProxyImpl, its backing store and its widget
    web,      \* DrawingAreaImpl and its page
    toWeb,    \* messages for the web process, oldest first
    toUI,     \* m_incomingMessages of the UI process
    pc,       \* where paint is: "idle", or in waitForMessage
    rect,     \* the rectangle being painted
    slot,     \* what m_waitForMessageMap holds for the wait
    events    \* events that have happened to the view

vars == <<ui, web, toWeb, toUI, pc, rect, slot, events>>

-----------------------------------------------------------------------------
(* Messages.                                                               *)

UpdateInfo(size, rects, bits, scrollRect, scrollOffset) ==
    [size |-> size, rects |-> rects, bits |-> bits,
     scrollRect |-> scrollRect, scrollOffset |-> scrollOffset]

NoUpdate(size) == UpdateInfo(size, {}, <<>>, {}, 0)

UpdateBackingStoreStateMessage(id, respondImmediately, size) ==
    [type |-> "UpdateBackingStoreState", id |-> id,
     respondImmediately |-> respondImmediately, size |-> size]

DidUpdateBackingStoreStateMessage(id, info) ==
    [type |-> "DidUpdateBackingStoreState", id |-> id, info |-> info]

UpdateMessage(id, info) == [type |-> "Update", id |-> id, info |-> info]

Plain(type) == [type |-> type]

Init ==
    \E n \in 0..MaxSize, visible \in BOOLEAN, compositing \in Compositing :
      /\ ui = [compositing |-> compositing, current |-> 0, next |-> 0, waiting |-> FALSE,
               hasReceivedFirstUpdate |-> FALSE, store |-> <<>>,
               discardable |-> TRUE, discardTimer |-> FALSE, size |-> n,
               visible |-> visible, invalid |-> 1..n,
               screen |-> [t \in Tiles |-> Undefined], sent |-> <<>>]
      /\ web = [stateID |-> 0, size |-> n, shouldSend |-> FALSE,
                waiting |-> FALSE, suspended |-> ~visible, dirty |-> {},
                scrollRect |-> {}, scrollOffset |-> 0, displayTimer |-> FALSE,
                content |-> [t \in Tiles |-> 0], version |-> 0, sent |-> <<>>]
      /\ toWeb = <<>> /\ toUI = <<>>
      /\ pc = "idle" /\ rect = {} /\ slot = <<>> /\ events = 0

-----------------------------------------------------------------------------
(* DrawingAreaImpl: the web process.                                       *)

ScheduleDisplay(w) ==
    IF w.waiting \/ w.suspended \/ w.dirty = {} THEN w
    ELSE [w EXCEPT !.displayTimer = TRUE]

SetNeedsDisplay(w, r) ==
    LET dirtyRect == r \cap (1..w.size)
    IN  IF dirtyRect = {} THEN w
        ELSE ScheduleDisplay([w EXCEPT !.dirty = @ \cup dirtyRect])

Translate(S, k) == {t + k : t \in S}

(* Defect: the dirty part of the scroll rectangle is not moved.            *)
ScrollIntoWithoutMoving(w, r, k) ==
    [ScheduleDisplay([w EXCEPT !.dirty = @ \cup (r \ Translate(r, k))])
       EXCEPT !.scrollRect = r, !.scrollOffset = @ + k]

(* The dirty part of the scroll rectangle moves with it, what scrolls in   *)
(* is dirty, and one scroll rectangle at a time is kept: the smaller of    *)
(* two is repainted instead of scrolled.                                   *)
ScrollInto(w, r, k) ==
    LET moved == Translate(w.dirty \cap r, k) \cap r
        dirty == (w.dirty \ r) \cup moved \cup (r \ Translate(r, k))
    IN  [ScheduleDisplay([w EXCEPT !.dirty = dirty])
           EXCEPT !.scrollRect = r, !.scrollOffset = @ + k]

ScrollWeb(w, r, k) ==
    IF w.scrollRect = {} \/ w.scrollRect = r THEN ScrollInto(w, r, k)
    ELSE IF Cardinality(w.scrollRect) >= Cardinality(r)
    THEN SetNeedsDisplay(w, r)
    ELSE ScrollInto([SetNeedsDisplay(w, w.scrollRect)
                       EXCEPT !.scrollRect = {}, !.scrollOffset = 0], r, k)

Hull(S) == {t \in Tiles : \E a \in S, b \in S : a <= t /\ t <= b}

(* shouldPaintBoundsRect compares areas: either answer is possible.        *)
Rects(dirty) == {dirty, Hull(dirty)}

(* display(UpdateInfo&): what it draws, and the drawing area it leaves.    *)
(* Without a bitmap it returns early, still dirty and with the timer on.   *)
Drawn(w, ok, rects) ==
    IF ~ok THEN NoUpdate(w.size)
    ELSE UpdateInfo(w.size, rects, [t \in rects |-> w.content[t]],
                    w.scrollRect, w.scrollOffset)

(* Defect: the display timer is left on.                                   *)
AfterDrawingTimerOn(w, ok) ==
    IF ~ok THEN w
    ELSE [w EXCEPT !.dirty = {}, !.scrollRect = {}, !.scrollOffset = 0]

AfterDrawing(w, ok) ==
    IF ~ok THEN w
    ELSE [w EXCEPT !.dirty = {}, !.scrollRect = {}, !.scrollOffset = 0,
                   !.displayTimer = FALSE]

SendDidUpdateBackingStoreState(w, ok, rects) ==
    LET info == IF w.suspended THEN NoUpdate(w.size) ELSE Drawn(w, ok, rects)
        drawn == IF w.suspended THEN w ELSE AfterDrawing(w, ok)
    IN  [drawn EXCEPT !.shouldSend = FALSE,
           !.sent = <<DidUpdateBackingStoreStateMessage(w.stateID, info)>>]

(* Defect: an Update is sent although the new state was never answered.    *)
DisplayWithoutState(w, ok, rects) ==
    IF w.suspended \/ w.dirty = {} THEN w
    ELSE [AfterDrawing(w, ok) EXCEPT !.waiting = TRUE,
            !.sent = <<UpdateMessage(w.stateID, Drawn(w, ok, rects))>>]

Display(w, ok, rects) ==
    IF w.suspended \/ w.dirty = {} THEN w
    ELSE IF w.shouldSend THEN SendDidUpdateBackingStoreState(w, ok, rects)
    ELSE [AfterDrawing(w, ok) EXCEPT !.waiting = TRUE,
            !.sent = <<UpdateMessage(w.stateID, Drawn(w, ok, rects))>>]

ResumePainting(w) ==
    IF ~w.suspended THEN w
    ELSE SetNeedsDisplay([w EXCEPT !.suspended = FALSE], 1..w.size)

(* WebPage::setSize (WebPage.cpp:776) invalidates within the old bounds,   *)
(* and the layout that follows redraws the page.                           *)
SetSize(w, n) ==
    IF n = w.size THEN w
    ELSE LET resized == [SetNeedsDisplay(w, 1..n) EXCEPT !.size = n,
                           !.content = [t \in Tiles |-> w.version + 1],
                           !.version = @ + 1]
         IN  SetNeedsDisplay(resized, 1..n)

(* Defect: the dirty region is not reset to the new bounds.                *)
EnterStateStillDirty(w, m) ==
    IF m.id = w.stateID THEN w
    ELSE SetSize([w EXCEPT !.stateID = m.id, !.shouldSend = TRUE], m.size)

(* Defect: every UpdateBackingStoreState is answered, a repeated one too.  *)
EnterStateAgain(w, m) ==
    [SetSize([w EXCEPT !.stateID = m.id, !.shouldSend = TRUE], m.size)
       EXCEPT !.dirty = 1..m.size]

(* The part of updateBackingStoreState before the early return.            *)
EnterState(w, m) ==
    IF m.id = w.stateID THEN w
    ELSE [SetSize([w EXCEPT !.stateID = m.id, !.shouldSend = TRUE], m.size)
            EXCEPT !.dirty = 1..m.size]

(* And the part after it, up to the answer.                                *)
LeaveWait(w, m) ==
    LET free == [w EXCEPT !.waiting = FALSE]
    IN  IF m.respondImmediately THEN ResumePainting(free) ELSE free

(* Connection::processIncomingMessage on the UI process's work queue: a     *)
(* message the main thread waits for goes to the wait, over what is there. *)
Awaited(sent) ==
    /\ pc = "blocked" /\ sent # <<>>
    /\ sent[1].type = "DidUpdateBackingStoreState"

WebLeaves(w) ==
    /\ web' = [w EXCEPT !.sent = <<>>]
    /\ slot' = IF Awaited(w.sent) THEN w.sent ELSE slot
    /\ toUI' = IF Awaited(w.sent) THEN toUI ELSE toUI \o w.sent

(* Script, layout or a timer changes a tile of the page.                   *)
PageChanges(t) ==
    /\ web.version < MaxVersion
    /\ WebLeaves(SetNeedsDisplay([web EXCEPT !.version = @ + 1,
                                     !.content[t] = web.version + 1], {t}))
    /\ UNCHANGED <<ui, toWeb, pc, rect, events>>

(* A frame that covers the tiles r scrolls by k.                           *)
PageScrolls(r, k) ==
    /\ web.version < MaxVersion
    /\ LET new == web.version + 1
           content == [t \in Tiles |-> IF t \notin r THEN web.content[t]
                                       ELSE IF t - k \in r THEN web.content[t - k]
                                       ELSE new]
       IN  WebLeaves(ScrollWeb([web EXCEPT !.version = new,
                                           !.content = content], r, k))
    /\ UNCHANGED <<ui, toWeb, pc, rect, events>>

DisplayTimerFires ==
    /\ web.displayTimer
    /\ \E ok \in Bitmaps, rects \in Rects(web.dirty) :
         WebLeaves(Display([web EXCEPT !.displayTimer = FALSE], ok, rects))
    /\ UNCHANGED <<ui, toWeb, pc, rect, events>>

WebReceives(type) ==
    /\ toWeb # <<>> /\ Head(toWeb).type = type
    /\ toWeb' = Tail(toWeb)
    /\ UNCHANGED <<ui, pc, rect, events>>

UpdateBackingStoreState ==
    /\ WebReceives("UpdateBackingStoreState")
    /\ LET m == Head(toWeb)
           entered == EnterState(web, m)
           free == LeaveWait(entered, m)
       IN  IF ~entered.shouldSend THEN WebLeaves(web)
           ELSE IF ~m.respondImmediately THEN WebLeaves(free)
           ELSE \E ok \in Bitmaps, rects \in Rects(free.dirty) :
                  WebLeaves(SendDidUpdateBackingStoreState(free, ok, rects))

(* Defect: the acknowledgement does not display what became dirty.         *)
DidUpdateWithoutDisplay ==
    /\ WebReceives("DidUpdate")
    /\ WebLeaves([web EXCEPT !.waiting = FALSE])

DidUpdate ==
    /\ WebReceives("DidUpdate")
    /\ \E ok \in Bitmaps, rects \in Rects(web.dirty) :
         WebLeaves(Display([web EXCEPT !.waiting = FALSE], ok, rects))

SuspendPainting ==
    /\ WebReceives("SuspendPainting")
    /\ WebLeaves([web EXCEPT !.suspended = TRUE, !.displayTimer = FALSE])

ReceiveResumePainting ==
    /\ WebReceives("ResumePainting")
    /\ WebLeaves(ResumePainting(web))

ForceRepaint ==
    /\ WebReceives("ForceRepaint")
    /\ LET w == [SetNeedsDisplay(web, 1..web.size) EXCEPT !.waiting = FALSE]
       IN  \E ok \in Bitmaps, rects \in Rects(w.dirty) :
             WebLeaves(Display(w, ok, rects))

-----------------------------------------------------------------------------
(* Defect: the UI process always waits.                                    *)
SendUpdateBackingStoreStateWaits(u, respondImmediately) ==
    IF u.waiting \/ u.size = 0 THEN u
    ELSE [u EXCEPT !.waiting = TRUE,
           !.sent = Append(@, UpdateBackingStoreStateMessage(
                                u.next, respondImmediately, u.size))]

(* DrawingAreaProxyImpl: the UI process.                                   *)
SendUpdateBackingStoreState(u, respondImmediately) ==
    IF u.waiting \/ u.size = 0 THEN u
    ELSE [u EXCEPT !.waiting = respondImmediately,
           !.sent = Append(@, UpdateBackingStoreStateMessage(
                                u.next, respondImmediately, u.size))]

BackingStoreStateDidChange(u, respondImmediately) ==
    SendUpdateBackingStoreState([u EXCEPT !.next = @ + 1], respondImmediately)

(* WidgetBackingStore::scroll of the X11 back end.                         *)
ScrollStore(store, r, k) ==
    [t \in DOMAIN store |->
       IF t \notin r \/ t - k \notin r THEN store[t]
       ELSE IF t - k \in DOMAIN store THEN store[t - k] ELSE Undefined]

(* BackingStore::incorporateUpdate: the bits scroll and the rectangles are *)
(* painted.  A bitmap that cannot be mapped leaves the store as it was,    *)
(* and every tile that should have changed is out of date.                 *)
DrawInto(store, info, mapped) ==
    LET scrolled == ScrollStore(store, info.scrollRect, info.scrollOffset)
        drawn == [t \in DOMAIN store |->
                    IF t \in info.rects THEN info.bits[t] ELSE scrolled[t]]
    IN  [t \in DOMAIN store |->
           IF mapped \/ drawn[t] = store[t] THEN drawn[t] ELSE Stale]

(* The view is invalidated whether anything was drawn or not.              *)
IncorporateUpdate(u, info, mapped) ==
    IF info.rects = {} THEN u
    ELSE LET store == IF u.store # <<>> THEN u.store
                      ELSE [t \in 1..info.size |-> Undefined]
         IN  [u EXCEPT
                !.store = DrawInto(store, info, mapped),
                !.invalid = (@ \cup info.scrollRect \cup info.rects)
                              \cap (1..u.size)]

(* Defect: an Update is ignored, unacknowledged, once a state is asked for.*)
UpdateProxyIgnores(u, m, mapped) ==
    IF m.id < u.next THEN u
    ELSE [IncorporateUpdate(u, m.info, mapped)
            EXCEPT !.sent = Append(@, Plain("DidUpdate"))]

UpdateProxy(u, m, mapped) ==
    IF m.id < u.current THEN u
    ELSE [IncorporateUpdate(u, m.info, mapped)
            EXCEPT !.sent = Append(@, Plain("DidUpdate"))]

(* Defect: a backing store of another size is kept.                        *)
DidUpdateBackingStoreStateKeeps(u, m, mapped) ==
    LET arrived == [u EXCEPT !.current = m.id, !.waiting = FALSE]
        asked == IF arrived.next # m.id
                 THEN SendUpdateBackingStoreState(arrived, TRUE)
                 ELSE [arrived EXCEPT !.hasReceivedFirstUpdate = TRUE]
    IN  IncorporateUpdate(asked, m.info, mapped)

DidUpdateBackingStoreState(u, m, mapped) ==
    LET arrived == [u EXCEPT !.current = m.id, !.waiting = FALSE]
        asked == IF arrived.next # m.id
                 THEN SendUpdateBackingStoreState(arrived, TRUE)
                 ELSE [arrived EXCEPT !.hasReceivedFirstUpdate = TRUE]
        kept == IF Len(asked.store) = m.info.size THEN asked
                ELSE [asked EXCEPT !.store = <<>>]
    IN  IncorporateUpdate(kept, m.info, mapped)

DiscardBackingStoreSoon(u) == [u EXCEPT !.discardTimer = @ \/ u.discardable]

(* The end of paint: the rectangle r shows the store, or nothing.          *)
PaintNothing(u, r) ==
    [u EXCEPT !.screen = [t \in Tiles |-> IF t \in r THEN Undefined ELSE @[t]]]

PaintStore(u, r) ==
    IF u.store = <<>> THEN PaintNothing(u, r)
    ELSE DiscardBackingStoreSoon([u EXCEPT !.screen =
           [t \in Tiles |-> IF t \notin r THEN @[t]
                            ELSE IF t \in DOMAIN u.store THEN u.store[t]
                            ELSE Undefined]])

UILeaves(u) ==
    /\ ui' = [u EXCEPT !.sent = <<>>]
    /\ toWeb' = toWeb \o u.sent

Happens == events < MaxEvents /\ events' = events + 1

(* waitForMessage first looks at what has arrived already: the oldest      *)
(* DidUpdateBackingStoreState, 0 if there is none.                         *)
IncomingState(q) ==
    SelectInSeq(q, LAMBDA m : m.type = "DidUpdateBackingStoreState")

(* The window system asks for the invalid part of the widget.              *)
Paint ==
    /\ pc = "idle" /\ ui.visible /\ ui.invalid # {}
    /\ LET r == ui.invalid
           u == [ui EXCEPT !.invalid = {}]
           asked == SendUpdateBackingStoreState(u, TRUE)
           found == IncomingState(toUI)
       IN  \/ /\ u.current = u.next
              /\ UILeaves(PaintStore(u, r))
              /\ UNCHANGED <<toUI, pc, rect>>
           \/ /\ u.current < u.next /\ ~u.hasReceivedFirstUpdate
              /\ UILeaves(PaintNothing(asked, r))
              /\ UNCHANGED <<toUI, pc, rect>>
           \/ /\ u.current < u.next /\ u.hasReceivedFirstUpdate
              /\ ~ (u.compositing /\ asked.waiting)
              /\ UILeaves(PaintStore(asked, r))
              /\ UNCHANGED <<toUI, pc, rect>>
           \/ /\ u.current < u.next /\ u.hasReceivedFirstUpdate
              /\ u.compositing /\ asked.waiting /\ found # 0
              /\ \E mapped \in Mappings :
                   UILeaves(PaintStore(DidUpdateBackingStoreState(
                                         asked, toUI[found], mapped), r))
              /\ toUI' = RemoveAt(toUI, found)
              /\ UNCHANGED <<pc, rect>>
           \/ /\ u.current < u.next /\ u.hasReceivedFirstUpdate
              /\ u.compositing /\ asked.waiting /\ found = 0
              /\ UILeaves(asked)
              /\ pc' = IF LateInsert THEN "insert" ELSE "blocked"
              /\ rect' = r
              /\ UNCHANGED toUI
    /\ UNCHANGED <<web, slot, events>>

(* Connection::waitForMessage registers the wait.                          *)
WaitInserts ==
    /\ pc = "insert"
    /\ pc' = "blocked"
    /\ UNCHANGED <<ui, web, toWeb, toUI, rect, slot, events>>

PaintReturns ==
    /\ pc' = "idle" /\ rect' = {} /\ slot' = <<>>
    /\ UNCHANGED <<web, toUI, events>>

WaitGetsMessage ==
    /\ pc = "blocked" /\ slot # <<>>
    /\ \E mapped \in Mappings :
         UILeaves(PaintStore(
                    DidUpdateBackingStoreState(ui, slot[1], mapped), rect))
    /\ PaintReturns

(* The timed wait gives up and removes its entry, full or not.             *)
WaitTimesOut ==
    /\ pc = "blocked"
    /\ slot = <<>> \/ LateTimeout
    /\ UILeaves(PaintStore(ui, rect))
    /\ PaintReturns

UIReceives(type) ==
    /\ pc = "idle"
    /\ toUI # <<>> /\ Head(toUI).type = type
    /\ toUI' = Tail(toUI)
    /\ UNCHANGED <<web, pc, rect, slot, events>>

Update ==
    /\ UIReceives("Update")
    /\ \E mapped \in Mappings : UILeaves(UpdateProxy(ui, Head(toUI), mapped))

ReceiveDidUpdateBackingStoreState ==
    /\ UIReceives("DidUpdateBackingStoreState")
    /\ \E mapped \in Mappings :
         UILeaves(DidUpdateBackingStoreState(ui, Head(toUI), mapped))

DiscardBackingStore ==
    /\ pc = "idle" /\ ui.discardTimer /\ ui.next < MaxStateID
    /\ UILeaves(BackingStoreStateDidChange(
                  [ui EXCEPT !.discardTimer = FALSE, !.store = <<>>], FALSE))
    /\ UNCHANGED <<web, toUI, pc, rect, slot, events>>

(* What the user and the window system do to the view.                     *)
ViewEvent == pc = "idle" /\ Happens /\ UNCHANGED <<web, toUI, pc, rect, slot>>

Lost(u) == [u EXCEPT !.invalid = 1..u.size,
                     !.screen = [t \in Tiles |-> Undefined]]

Expose == ViewEvent /\ UILeaves(Lost(ui))

SizeDidChange(n) ==
    /\ n # ui.size
    /\ ViewEvent
    /\ UILeaves(BackingStoreStateDidChange(Lost([ui EXCEPT !.size = n]), TRUE))

VisibilityDidChange ==
    /\ ViewEvent
    /\ IF ui.visible
       THEN UILeaves([ui EXCEPT !.visible = FALSE,
                                !.sent = <<Plain("SuspendPainting")>>])
       ELSE LET u == Lost([ui EXCEPT !.visible = TRUE,
                                     !.sent = <<Plain("ResumePainting")>>])
            IN  UILeaves(IF u.compositing /\ u.store = <<>>
                         THEN BackingStoreStateDidChange(u, FALSE) ELSE u)

SetBackingStoreIsDiscardable ==
    /\ ViewEvent
    /\ UILeaves(IF ui.discardable
                THEN [ui EXCEPT !.discardable = FALSE, !.discardTimer = FALSE]
                ELSE DiscardBackingStoreSoon([ui EXCEPT !.discardable = TRUE]))

(* WebPageProxy::forceRepaint (WebPageProxy.cpp:1500).                     *)
WebPageProxyForceRepaint ==
    /\ ViewEvent
    /\ UILeaves([ui EXCEPT !.hasReceivedFirstUpdate = TRUE,
                           !.sent = <<Plain("ForceRepaint")>>])

-----------------------------------------------------------------------------
WebStep ==
    \/ DisplayTimerFires \/ UpdateBackingStoreState \/ DidUpdate
    \/ SuspendPainting \/ ReceiveResumePainting \/ ForceRepaint

UIStep ==
    \/ Paint \/ WaitInserts \/ WaitGetsMessage \/ WaitTimesOut
    \/ Update \/ ReceiveDidUpdateBackingStoreState

Environment ==
    \/ \E t \in 1..web.size : PageChanges(t)
    \/ \E a \in 1..web.size, k \in ScrollOffsets : PageScrolls(a..web.size, k)
    \/ \E n \in 0..MaxSize : SizeDidChange(n)
    \/ Expose \/ VisibilityDidChange \/ SetBackingStoreIsDiscardable
    \/ WebPageProxyForceRepaint

Next == WebStep \/ UIStep \/ DiscardBackingStore \/ Environment

Spec == Init /\ [][Next]_vars

(* Both run loops keep running, the display timer fires, the window system *)
(* asks for what is invalid and a timed wait ends.  The page need not      *)
(* change, nothing need happen to the view, and the discard timer, two     *)
(* seconds long, may always be restarted or stopped in time.               *)
FairSpec == Spec /\ WF_vars(WebStep) /\ WF_vars(UIStep)

-----------------------------------------------------------------------------
(* Properties.                                                             *)

(* The messages on their way to the UI process, the awaited one included.  *)
InFlight == ToSet(toUI) \cup ToSet(slot)

Requested == ToSet(toWeb)

IsUpdateInfo(i) ==
    /\ i.size \in 0..MaxSize
    /\ i.rects \subseteq 1..i.size /\ i.scrollRect \subseteq Tiles
    /\ i.scrollOffset \in Int
    /\ DOMAIN i.bits = i.rects /\ \A t \in i.rects : i.bits[t] \in Nat

(* Every variable keeps its type; the dirty region, and with it what a     *)
(* message draws, stays within the page, as display asserts.               *)
TypeOK ==
    /\ ui.current \in Nat /\ ui.next \in Nat
    /\ \A b \in {ui.compositing, ui.waiting, ui.hasReceivedFirstUpdate, ui.discardable,
                 ui.discardTimer, ui.visible} : b \in BOOLEAN
    /\ ui.size \in 0..MaxSize /\ ui.invalid \subseteq 1..ui.size
    /\ Len(ui.store) \in 0..MaxSize /\ ui.store \in Seq(Int)
    /\ ui.screen \in [Tiles -> Int] /\ ui.sent = <<>>
    /\ web.stateID \in Nat /\ web.version \in Nat
    /\ \A b \in {web.shouldSend, web.waiting, web.suspended,
                 web.displayTimer} : b \in BOOLEAN
    /\ web.size \in 0..MaxSize /\ web.dirty \subseteq 1..web.size
    /\ web.scrollRect \subseteq Tiles /\ web.scrollOffset \in Int
    /\ web.content \in [Tiles -> Nat] /\ web.sent = <<>>
    /\ \A m \in InFlight :
         /\ m.type \in {"Update", "DidUpdateBackingStoreState"}
         /\ m.id \in Nat /\ IsUpdateInfo(m.info)
    /\ \A m \in Requested :
         \/ /\ m.type = "UpdateBackingStoreState"
            /\ m.id \in Nat /\ m.size \in 1..MaxSize
            /\ m.respondImmediately \in BOOLEAN
         \/ m.type \in {"DidUpdate", "SuspendPainting", "ResumePainting",
                        "ForceRepaint"}
    /\ pc \in {"idle", "insert", "blocked"} /\ rect \subseteq Tiles
    /\ Len(slot) <= 1 /\ events \in Nat

(* update's assertion: the web process sends an Update only in a state the *)
(* UI process has been told of before that message is handled, so an       *)
(* Update is never for a state later than the current one.                 *)
UpdateIsNotAhead ==
    (pc = "idle" /\ toUI # <<>> /\ Head(toUI).type = "Update")
      => Head(toUI).id <= ui.current

(* didUpdateBackingStoreState's two assertions: every state that arrives,  *)
(* in turn or out of turn through waitForMessage, is newer than the        *)
(* current one and was asked for.                                          *)
ArrivingState ==
    IF pc = "blocked" THEN slot
    ELSE IF pc = "idle" /\ toUI # <<>> THEN <<Head(toUI)>> ELSE <<>>

StateIsNewer ==
    \A i \in DOMAIN ArrivingState :
      ArrivingState[i].type = "DidUpdateBackingStoreState"
        => ui.current < ArrivingState[i].id /\ ArrivingState[i].id <= ui.next

(* While m_isWaitingForDidUpdateBackingStoreState suppresses every further *)
(* UpdateBackingStoreState, an answer is on its way: a request to respond  *)
(* immediately that the web process will answer, or the answer itself.     *)
UIWaitIsAnswered ==
    ui.waiting =>
      \/ \E m \in InFlight : m.type = "DidUpdateBackingStoreState"
      \/ \E m \in Requested : /\ m.type = "UpdateBackingStoreState"
                              /\ m.respondImmediately
                              /\ m.id > web.stateID \/ web.shouldSend

(* While m_isWaitingForDidUpdate keeps the web process from displaying, an *)
(* Update the UI process will acknowledge, an acknowledgement or a new     *)
(* state is on its way.                                                    *)
WebWaitIsAnswered ==
    web.waiting =>
      \/ \E m \in InFlight : m.type = "Update" /\ m.id = web.stateID
      \/ \E m \in Requested : \/ m.type = "DidUpdate"
                              \/ /\ m.type = "UpdateBackingStoreState"
                                 /\ m.id > web.stateID

(* BackingStore::incorporateUpdate's assertion: the bits of an Update that *)
(* will not be ignored fit the backing store there is.                     *)
UpdateFitsStore ==
    (/\ pc = "idle" /\ toUI # <<>> /\ Head(toUI).type = "Update"
     /\ Head(toUI).id >= ui.current /\ ui.store # <<>>
     /\ Head(toUI).info.rects # {})
      => Head(toUI).info.size = Len(ui.store)

(* When both sides agree on the state, nothing is under way and the web    *)
(* process has nothing left to draw, the backing store holds the page: the *)
(* dirty region, the scroll rectangle and the discarded stores have lost   *)
(* nothing.  (A tile the page has not drawn yet is 0.)  The exception is a *)
(* tile that missed an update, its bitmap not mapped: update acknowledges  *)
(* it all the same, so the web process will not draw the tile again.       *)
QuietMeansCurrent ==
    (/\ pc = "idle" /\ toUI = <<>> /\ web.dirty = {} /\ ui.store # <<>>
     /\ ui.current = web.stateID /\ ui.next = web.stateID)
      => \A t \in 1..web.size :
           web.content[t] # 0 => ui.store[t] \in {web.content[t], Stale}

(* display's assertion, that the display timer does not run while the web  *)
(* process waits for a DidUpdate, comes to fail in one way only: a display *)
(* that gets no bitmap sends an Update of nothing and leaves the timer on. *)
TimerWhileWaiting == web.displayTimer /\ web.waiting

SendsNothingDrawn ==
    Len(toUI') > Len(toUI) /\ Last(toUI').info.rects = {}

NoTimerWhileWaiting ==
    [][TimerWhileWaiting' => TimerWhileWaiting \/ SendsNothingDrawn]_vars

(* Once the page and the view stop changing, a visible view shows the page.*)
ScreenShowsPage ==
    ui.visible =>
      /\ ui.size > 0 => ui.size = web.size
      /\ \A t \in 1..ui.size :
           web.content[t] # 0 => ui.screen[t] = web.content[t]

ScreenCatchesUp == <>[]ScreenShowsPage
=============================================================================

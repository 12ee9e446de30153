---------------------------- MODULE Interactions ----------------------------
(****************************************************************************)
(* Dragging, and what is displayed on top of a page.                        *)
(****************************************************************************)
EXTENDS Integers, Sequences, FiniteSets, SequencesExt, FiniteSetsExt

(****************************************************************************)
(* Dragging the items of a form array: the state machine of the directive   *)
(* (vue/directives/touch.js), whose variables are shared by all elements,   *)
(* and the list of the array (form/element/array.vue) that a drop moves.    *)
(* The pointer is pressed, moves, and is released here or, unseen, outside  *)
(* of the window.  Where the placeholder goes depends on the layout: any    *)
(* place between the children.                                              *)
(****************************************************************************)
CONSTANTS
  Items,       \* items of the array
  FirstItems   \* the array at the start

ASSUME TouchAssumption == FirstItems \in Seq(Items)

VARIABLES
  touchState,   \* idle, pressed (STATE_TRIGGER_DRAG_AFTER_MOVE) or drag
  listening,    \* the document has the handlers of moves and releases
  held,         \* originalElt: index of the item that was pressed
  holder,       \* children of the array when the drag started
  place,        \* children before the placeholder, -1 when it is not in the document
  effects,      \* what a drag changes in the page
  valueList     \* the items

touchVars == <<touchState, listening, held, holder, place, effects, valueList>>

\* pointer-events off, bodyDragClass, the dragged element, the item hidden, no scrolling, the timer.
DragEffects == {"pointer", "class", "element", "hidden", "scroll", "timer"}

TouchInit ==
  /\ touchState = "idle" /\ listening = FALSE /\ held = 0 /\ holder = 0 /\ place = -1 /\ effects = {}
  /\ valueList = FirstItems

\* activateTouch(): possible while the page takes pointer events.
Press(i) ==
  /\ "pointer" \notin effects /\ i \in DOMAIN valueList
  /\ held' = i /\ listening' = TRUE /\ touchState' = "pressed"
  /\ UNCHANGED <<holder, place, effects, valueList>>

\* dragStart(): the array drags when it has several items.  The timer looks for a place at once.
DragStart ==
  /\ listening /\ touchState = "pressed" /\ touchState' = "drag"
  /\ IF Len(valueList) > 1
     THEN /\ effects' = DragEffects /\ holder' = Len(valueList) /\ place' \in 0 .. Len(valueList)
     ELSE effects' = {"pointer", "scroll"} /\ UNCHANGED <<holder, place>>
  /\ UNCHANGED <<listening, held, valueList>>
\* detectDropZone(): the placeholder is taken out and put before or after a child, or last.
DetectDropZone ==
  /\ "timer" \in effects /\ place' \in 0 .. holder
  /\ UNCHANGED <<touchState, listening, held, holder, effects, valueList>>

\* itemMove() of the array: from and to are indexes from 0.
\* Mutant: the item is inserted before it is removed.
ItemMoveInsertsFirst(list, from, to) == RemoveAt(InsertAt(list, to + 1, list[from + 1]), from + 1)
ItemMove(list, from, to) ==
  LET rest == RemoveAt(list, from + 1) IN
  InsertAt(rest, IF to > Len(rest) THEN Len(rest) + 1 ELSE to + 1, list[from + 1])

\* reset(), by a release or by a move without the button: in the state of a drag the drop is
\* handled and the item is shown again, all else is undone in any case.
\* Mutant: the state is left first.
LeftStateFirst == effects \ {"pointer", "element", "scroll", "timer"}
Left == IF touchState = "drag" THEN {} ELSE effects \ {"pointer", "element", "scroll", "timer"}
ResetDrag ==
  /\ listening /\ listening' = FALSE /\ touchState' = "idle" /\ place' = -1 /\ effects' = Left
  /\ valueList' = IF touchState = "drag" /\ place # -1 THEN ItemMove(valueList, held - 1, place) ELSE valueList
  /\ UNCHANGED <<held, holder>>

\* itemAdd() and itemDelete() by a click; the index given to pop() has no effect.
ItemAdd(x) ==
  /\ "pointer" \notin effects /\ x \notin Range(valueList) /\ valueList' = Append(valueList, x)
  /\ UNCHANGED <<touchState, listening, held, holder, place, effects>>
ItemDelete(i) ==
  /\ "pointer" \notin effects /\ touchState = "idle" /\ i \in DOMAIN valueList /\ valueList' = Front(valueList)
  /\ UNCHANGED <<touchState, listening, held, holder, place, effects>>

TouchNext ==
  \/ \E i \in 1 .. Cardinality(Items) : Press(i) \/ ItemDelete(i)
  \/ DragStart \/ DetectDropZone \/ ResetDrag
  \/ \E x \in Items : ItemAdd(x)

-----------------------------------------------------------------------------
\* Whatever way a drag ends, and whatever is pressed meanwhile, the page is as before: the
\* item is shown, the placeholder is gone, pointer and scrolling work (touch.js:529-651).
DragCleanedUp ==
  /\ touchState # "drag" => effects = {} /\ place = -1
  /\ listening <=> touchState # "idle"

\* A drop moves an item and neither loses nor repeats one (array.vue:212-217).
ItemsKept == \A i, j \in DOMAIN valueList : valueList[i] = valueList[j] => i = j

-----------------------------------------------------------------------------
(****************************************************************************)
(* What the pages put over or around their elements: the tooltip            *)
(* (vue/directives/tooltip.js), the notifications (vue/notification.js),    *)
(* the observers of the size of an element (vue/directives/resize.js) and   *)
(* the size of a font that fits (vue/directives/auto_size.js).              *)
(* One of them at a time, chosen at the start.                              *)
(****************************************************************************)
CONSTANTS
  TipElements,      \* elements with a tooltip
  MaxTipMoves,      \* bound: moves of the mouse
  NoteKeys,         \* keys of notifications
  MaxNotes,         \* bound: notifications
  ElementSizes,     \* sizes of an element
  MaxResizes,       \* bound: changes of the size
  ParentHeight      \* height that a text must fit in

VARIABLES
  overlay,     \* "tooltip", "notification", "resize" or "auto size"
  tips,        \* element -> its text: none, pending (onceAsync), asked or known; and whether it is still in the page
  tipShown,    \* current.elt, "none" if hidden
  tipWatched,  \* the element of the watcher whose timer is armed, "none" if there is none
  tipHover,    \* the element below the mouse
  tipMoves,
  tipPlace,    \* the positions that fit, and the one that was taken
  notes,       \* entries: key, type and time on screen
  noteTimers,  \* timers: the key of their entry, and which of the entries with this key it is
  noteCount,
  resize,      \* the element: its size, the observer, the size not yet observed, the timer, what the callback was told
  fontSize     \* auto size: the size at which the text starts, the largest that fits, and the result

tipVars == <<tips, tipShown, tipWatched, tipHover, tipMoves, tipPlace>>
noteVars == <<notes, noteTimers, noteCount>>
overlayVars == <<overlay, tipVars, noteVars, resize, fontSize>>
OverlayStep(o) == overlay = o /\ UNCHANGED overlay

-----------------------------------------------------------------------------
(* The tooltip.                                                             *)

\* positionSequences: in the order of the preferred side, then the others, until one is within the screen.
\* Mutant: the last one is not tried.
PositionTakenButLast(list, fits) ==
  IF \E i \in 1 .. Len(list) - 1 : list[i] \in fits THEN list[Min({i \in 1 .. Len(list) - 1 : list[i] \in fits})] ELSE list[Len(list) - 1]
PositionTaken(list, fits) == IF \E i \in DOMAIN list : list[i] \in fits THEN list[Min({i \in DOMAIN list : list[i] \in fits})] ELSE Last(list)
PositionList(side) ==
  CASE side = "w" -> <<"w", "e", "n", "s">> [] side = "e" -> <<"e", "w", "n", "s">>
    [] side = "n" -> <<"n", "s", "w", "e">> [] side = "s" -> <<"s", "n", "w", "e">>
\* tooltip(): without a text nothing changes; otherwise it is placed, displayed and watched.
ShowTip(e, fits) ==
  IF tips[e].text = "known"
    THEN tipShown' = e /\ tipWatched' = e /\ tipPlace' = [fits |-> fits, at |-> PositionTaken(PositionList("e"), fits)]
    ELSE UNCHANGED <<tipShown, tipWatched, tipPlace>>
\* tooltipFromEvent(): mouseenter; a text that is made on demand is asked for once.
TipEnter(e, fits) ==
  /\ tipHover = "none" /\ tips[e].inPage /\ tipMoves < MaxTipMoves /\ tipMoves' = tipMoves + 1 /\ tipHover' = e
  /\ ShowTip(e, fits)
  /\ tips' = [tips EXCEPT ![e].async = IF @ = "pending" THEN "asked" ELSE @]
\* tooltipHide(): mouseleave, or a scroll of the page.
HideTip == tipShown' = "none" /\ tipWatched' = "none"
TipLeave == tipHover # "none" /\ tipHover' = "none" /\ HideTip /\ UNCHANGED <<tips, tipMoves, tipPlace>>
TipScroll == tipHover # "none" /\ HideTip /\ UNCHANGED <<tips, tipHover, tipMoves, tipPlace>>
\* The text arrives: it is displayed if the tooltip of the element still is.
\* Mutant: it is displayed.
MayShowAlways(e) == TRUE
MayShow(e) == tipShown = e
TipText(e) ==
  /\ tips[e].async = "asked" /\ tips' = [tips EXCEPT ![e].async = "done", ![e].text = "known"]
  /\ IF MayShow(e) THEN tipShown' = e /\ tipWatched' = e ELSE UNCHANGED <<tipShown, tipWatched>>
  /\ UNCHANGED <<tipHover, tipMoves, tipPlace>>
\* The element is removed from the page: no mouseleave.
TipRemoved(e) ==
  /\ tips[e].inPage /\ tips' = [tips EXCEPT ![e].inPage = FALSE]
  /\ tipHover' = (IF tipHover = e THEN "none" ELSE tipHover)
  /\ UNCHANGED <<tipShown, tipWatched, tipMoves, tipPlace>>
\* hideFct(): every period, for ever until another tooltip is displayed or this one is hidden by the mouse.
TipWatch ==
  /\ tipWatched # "none"
  /\ tipShown' = IF tips[tipWatched].inPage THEN tipShown ELSE "none"
  /\ UNCHANGED <<tips, tipWatched, tipHover, tipMoves, tipPlace>>

-----------------------------------------------------------------------------
(* Notifications.                                                           *)

NoteIndex(key) == IF \E i \in DOMAIN notes : notes[i].key = key THEN CHOOSE i \in DOMAIN notes : notes[i].key = key ELSE 0
\* notifySingle(): the entry with this key, or a new one; errors stay, the others have a timer.
\* Mutant: the timer is set when the entry is made.
NoteTimerSetFirst(new, entry) == new /\ entry.time > 0
NoteTimerSet(new, entry) == entry.time > 0
Notify(key, type) ==
  /\ noteCount < MaxNotes /\ noteCount' = noteCount + 1
  /\ LET i == NoteIndex(key)
         entry == [key |-> key, type |-> type, id |-> IF i = 0 THEN noteCount + 1 ELSE notes[i].id,
                   time |-> IF type = "error" THEN 0 ELSE IF type = "timed error" THEN 5 ELSE IF i = 0 THEN 5 ELSE notes[i].time]
     IN  /\ notes' = IF i = 0 THEN Append(notes, entry) ELSE [notes EXCEPT ![i] = entry]
         /\ noteTimers' = IF NoteTimerSet(i = 0, entry) THEN Append(noteTimers, entry.id) ELSE noteTimers
\* notificationClose(): by the timer or by the user.
NoteClosed(id) == SelectSeq(notes, LAMBDA n : n.id # id)
NoteTimeout(i) ==
  /\ i \in DOMAIN noteTimers /\ notes' = NoteClosed(noteTimers[i]) /\ noteTimers' = RemoveAt(noteTimers, i) /\ UNCHANGED noteCount
NoteClose(i) == i \in DOMAIN notes /\ notes' = NoteClosed(notes[i].id) /\ UNCHANGED <<noteTimers, noteCount>>

-----------------------------------------------------------------------------
(* Observers of the size.                                                   *)

NoResize == [size |-> 0, observer |-> "none", seen |-> TRUE, timer |-> FALSE, told |-> -1, failed |-> FALSE, inPage |-> TRUE, changes |-> 0]
\* unregisterObserver(): its timer goes with it.
\* Mutant: the timer is left.
UnregisteredTimer(r) == [r EXCEPT !.observer = "none"]
Unregistered(r) == [r EXCEPT !.observer = "none", !.timer = FALSE]
\* inserted or componentUpdated: a new observer with the callback, whose hash is empty, and the timer.
ResizeBound == resize.inPage /\ resize' = [Unregistered(resize) EXCEPT !.observer = "set", !.timer = TRUE, !.told = -1]
ResizeChanged(s) ==
  /\ resize.changes < MaxResizes /\ s # resize.size /\ resize.inPage
  /\ resize' = [resize EXCEPT !.size = s, !.seen = FALSE, !.changes = @ + 1]
\* The observer: the timer is set anew.
ResizeObserved == resize.observer = "set" /\ ~resize.seen /\ resize' = [resize EXCEPT !.seen = TRUE, !.timer = TRUE]
\* The timer: an element that left the page is unregistered; the callback is told a size that is another one.
ResizeTimeout ==
  /\ resize.timer
  /\ resize' = IF resize.observer = "none" THEN [resize EXCEPT !.timer = FALSE, !.failed = TRUE]
               ELSE IF ~resize.inPage THEN Unregistered(resize)
               ELSE [resize EXCEPT !.timer = FALSE, !.told = resize.size]
ResizeUnbound == resize.observer = "set" /\ resize' = Unregistered(resize)
ResizeRemoved == resize.inPage /\ resize' = [resize EXCEPT !.inPage = FALSE]

-----------------------------------------------------------------------------
(* The size of a font.                                                      *)

MinFontSize == 3
\* One turn of the loop at size f between the bounds; fits tells whether the text does.
\* Mutant: a size that does not fit is the lower bound as well.
FontTurnSwapped(t) == [t EXCEPT !.min = t.f, !.f = (t.max + t.f) \div 2]
FontTurn(t) ==
  IF t.f > fontSize.largest THEN [t EXCEPT !.max = t.f, !.f = (t.f + t.min) \div 2] ELSE [t EXCEPT !.min = t.f, !.f = (t.max + t.f) \div 2]
FontDistance(t) == IF t.max > t.min THEN t.max - t.min ELSE t.min - t.max
\* The loop, a turn at a time.
AutoResize ==
  /\ fontSize.at = "loop"
  /\ LET t == FontTurn(fontSize.turn)
     IN  fontSize' = [fontSize EXCEPT !.turn = t, !.at = IF FontDistance(t) >= 2 THEN "loop" ELSE "done", !.turns = @ + 1]

-----------------------------------------------------------------------------
\* A font starts at the size it had, or in the middle.
FontInit ==
  \E start \in 0 .. 2 * ParentHeight, largest \in MinFontSize .. ParentHeight :
    fontSize = [at |-> "loop", start |-> start, largest |-> largest, turns |-> 0,
                turn |-> [min |-> MinFontSize, max |-> ParentHeight,
                          f |-> IF start = 0 THEN (ParentHeight + MinFontSize) \div 2 ELSE start]]
NoFont == fontSize = [at |-> "none", start |-> 0, largest |-> 0, turns |-> 0, turn |-> [min |-> 0, max |-> 0, f |-> 0]]
OverlaysInit ==
  /\ overlay \in {"tooltip", "notification", "resize", "auto size"}
  /\ IF overlay = "auto size" THEN FontInit ELSE NoFont
  /\ IF overlay = "tooltip"
       THEN tips \in [TipElements -> {[text |-> "known", async |-> a, inPage |-> TRUE] : a \in {"none", "pending"}} \cup
                                     {[text |-> "none", async |-> "pending", inPage |-> TRUE]}]
       ELSE tips = [e \in TipElements |-> [text |-> "none", async |-> "none", inPage |-> TRUE]]
  /\ tipShown = "none" /\ tipWatched = "none" /\ tipHover = "none" /\ tipMoves = 0 /\ tipPlace = [fits |-> {}, at |-> "e"]
  /\ notes = <<>> /\ noteTimers = <<>> /\ noteCount = 0 /\ resize = NoResize

OverlaysNext ==
  \/ /\ OverlayStep("tooltip") /\ UNCHANGED <<noteVars, resize, fontSize>>
     /\ \/ \E e \in TipElements : (\E fits \in SUBSET {"n", "e", "s", "w"} : TipEnter(e, fits)) \/ TipText(e) \/ TipRemoved(e)
        \/ TipLeave \/ TipScroll \/ TipWatch
  \/ /\ OverlayStep("notification") /\ UNCHANGED <<tipVars, resize, fontSize>>
     /\ \/ \E key \in NoteKeys, type \in {"info", "error", "timed error"} : Notify(key, type)
        \/ \E i \in 1 .. MaxNotes : NoteTimeout(i) \/ NoteClose(i)
  \/ /\ OverlayStep("resize") /\ UNCHANGED <<tipVars, noteVars, fontSize>>
     /\ \/ ResizeBound \/ ResizeObserved \/ ResizeTimeout \/ ResizeUnbound \/ ResizeRemoved
        \/ \E s \in ElementSizes : ResizeChanged(s)
  \/ OverlayStep("auto size") /\ AutoResize /\ UNCHANGED <<tipVars, noteVars, resize>>

-----------------------------------------------------------------------------
\* The tooltip that is displayed is the one of the element below the mouse, whenever the text arrives; when the element
\* left the page with it, it is watched, so that the next period hides it.
TipIsHovered == tipShown # "none" => tipShown = tipHover \/ (~tips[tipShown].inPage /\ tipWatched = tipShown)

\* The tooltip is within the screen if one of the sides is.
TipInScreen == tipPlace.fits # {} => tipPlace.at \in tipPlace.fits

\* There is one entry for a key, and one that has a time on the screen has a timer that closes it.
NotesClose ==
  /\ \A i, j \in DOMAIN notes : notes[i].key = notes[j].key => i = j
  /\ \A i \in DOMAIN notes : notes[i].time > 0 => notes[i].id \in ToSet(noteTimers)

\* A timer of the observers finds its observer, and when nothing is to come any more the callback knows the size.
ResizeTold ==
  /\ ~resize.failed
  /\ resize.observer = "set" /\ resize.seen /\ ~resize.timer => resize.told = resize.size

\* The search ends, within a number of turns that grows with the logarithm, at a size that fits, and the next one
\* does not or is the height of the parent.
FontFits ==
  /\ fontSize.turns <= 2 + Cardinality({i \in 1 .. 7 : 2 ^ i <= 2 * ParentHeight})
  /\ fontSize.at = "done" => /\ fontSize.turn.min <= fontSize.largest
                             /\ fontSize.turn.min + 1 >= fontSize.largest


-----------------------------------------------------------------------------
\* A drag ends with its traces removed and no item lost; overlays close once and where they opened.
InteractionsSafe ==
  /\ DragCleanedUp
  /\ ItemsKept
  /\ TipIsHovered
  /\ TipInScreen
  /\ NotesClose
  /\ ResizeTold
  /\ FontFits
=============================================================================

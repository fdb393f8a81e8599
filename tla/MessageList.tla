---------------------------- MODULE MessageList -----------------------------
(***************************************************************************)
(* The messages of a room as the user handles them: MessageItem.jsx with   *)
(* its gestures, menu and timers, and MessageList.jsx with the selection   *)
(* and the place the list is scrolled to.                                  *)
(*                                                                         *)
(* A page is on a touch screen or it has a mouse.  A timer's callback is   *)
(* the one of the render that started it: what it knows of the selection   *)
(* is as old as itself.  Only the order of taps and timers is modelled,    *)
(* not their milliseconds; a timer that is cleared never fires.            *)
(*                                                                         *)
(* A definition marked "fault" is no part of the system: it is the bug a   *)
(* slip in the definition after it would be.                               *)
(***************************************************************************)
EXTENDS Naturals

CONSTANTS
    MaxMessages,  \* bound: messages that come
    MaxScrolls    \* bound: smooth scrolls that wait

ASSUME ListAssumption == MaxMessages \in Nat /\ MaxScrolls \in Nat \ {0}

Message == 1..MaxMessages
NoMessage == 0

VARIABLES
    touch,        \* isTouchEnv
    last,         \* the list is 1..last
    erased,       \* messages that are deleted, and drawn no more
    selectionMode, selectedIds,
    menus,        \* messages whose contextMenu is visible
    grids,        \* messages whose menu shows all reactions
    held,         \* longPressTimers and mouseHoldTimers that run: <<message,
                  \* selectionMode as it was>>
    moved,        \* messages whose finger has moved (hasMoved)
    tapped,       \* tapTimeouts: <<message, selectionMode as it was>>
    suppressed,   \* suppressNextClick
    inited,       \* hasInitializedRef
    lastSeen,     \* lastMessageIdRef
    place,        \* where the list is scrolled to
    scrolls,      \* smooth scrolls to the bottom that wait
    jumps,        \* the page gave a message to jump to, in this list
    late          \* history: a tap of a selection that was left toggled

gesture  == <<held, moved, tapped, suppressed>>
picking  == <<selectionMode, selectedIds, late>>
popups   == <<menus, grids>>
where    == <<inited, lastSeen, place, scrolls, jumps>>
listVars == <<touch, last, erased, picking, popups, gesture, where>>

Drawn == (1..last) \ erased

----------------------------------------------------------------------------
(* The selection, in MessageList.                                          *)

ModeKept(set)  == selectionMode  \* fault
ModeAfter(set) == selectionMode /\ set # {}

(* onToggleSelect of a tap, a click or the menu button.                    *)
Toggle(m) ==
    LET set == IF m \in selectedIds THEN selectedIds \ {m} ELSE selectedIds \cup {m} IN
    /\ selectedIds' = set
    /\ selectionMode' = ModeAfter(set)
    /\ late' = IF selectionMode THEN late ELSE set # {}

EnterSelection(m) ==
    /\ selectionMode' = TRUE /\ selectedIds' = {m}
    /\ late' = FALSE

(* Only the toolbar's button ends a selection with messages in it.         *)
ExitSelection ==
    /\ selectionMode
    /\ selectionMode' = FALSE /\ selectedIds' = {} /\ late' = FALSE
    /\ menus' = menus \cap grids /\ grids' = {}
    /\ UNCHANGED <<touch, last, erased, gesture, where>>

----------------------------------------------------------------------------
(* The menu.                                                               *)

(* openContextMenuAt tells all other messages to close theirs.             *)
OpenMenu(m) ==
    /\ menus' = {m}
    /\ grids' = grids \cap {m}

(* handleGlobalClick, for any click outside a menu: a grid goes first.     *)
GlobalClick == menus' = menus \cap grids /\ grids' = {}

(* The button of the mouse that opens menus, when there is a mouse.        *)
ContextMenu(m) ==
    /\ ~touch /\ m \in Drawn
    /\ IF selectionMode
       THEN Toggle(m) /\ UNCHANGED popups
       ELSE OpenMenu(m) /\ UNCHANGED picking
    /\ UNCHANGED <<touch, last, erased, gesture, where>>

ToggleGrid(m) ==
    /\ m \in menus \cap Drawn
    /\ grids' = IF m \in grids THEN grids \ {m} ELSE grids \cup {m}
    /\ UNCHANGED <<touch, last, erased, picking, menus, gesture, where>>

(* While all reactions are shown, the other items are not.                 *)
ItemsShown(m) == m \in (menus \ grids) \cap Drawn

MenuCloses(m) ==
    /\ menus' = menus \ {m} /\ grids' = grids \ {m}
    /\ UNCHANGED <<touch, last, erased, picking, gesture, where>>

(* Copy, reply, forward, edit, download, receipts: the context or a dialog *)
(* takes over (Composer, ChatClient).                                      *)
ChooseItem(m) == ItemsShown(m) /\ MenuCloses(m)

(* One of the reactions, few or all (ChatClient sends it).                 *)
HandleReaction(m) == m \in menus \cap Drawn /\ MenuCloses(m)

(* handleDelete's answer, or the deletion of another: the message is drawn *)
(* no more, but its component stays, and so does its place in a selection. *)
EraseMessage(m) ==
    /\ m \in Drawn
    /\ erased' = erased \cup {m}
    /\ UNCHANGED <<touch, last, picking, popups, gesture, where>>

----------------------------------------------------------------------------
(* Fingers.                                                                *)

Of(m, timers) == {t \in timers : t[1] = m}

TouchStart(m) ==
    /\ touch /\ m \in Drawn /\ Of(m, held) = {}
    /\ held' = held \cup {<<m, selectionMode>>} /\ moved' = moved \ {m}
    /\ UNCHANGED <<touch, last, erased, picking, popups, tapped, suppressed, where>>

TouchMove(m) ==
    /\ touch /\ Of(m, held) # {}
    /\ moved' = moved \cup {m} /\ held' = held \ Of(m, held)
    /\ UNCHANGED <<touch, last, erased, picking, popups, tapped, suppressed, where>>

(* The long press, of the finger or of the mouse; one that began in a      *)
(* selection does nothing.                                                 *)
HoldFires(t) ==
    /\ t \in held
    /\ held' = held \ {t}
    /\ IF t[2] THEN UNCHANGED <<picking, suppressed>>
       ELSE EnterSelection(t[1]) /\ suppressed' = suppressed \cup {t[1]}
    /\ UNCHANGED <<touch, last, erased, popups, moved, tapped, where>>

(* A finger that goes up: after a long press or a move nothing; a second   *)
(* tap opens the menu; a first one waits for the second.  The browser then *)
(* sends a click, unless the second tap took the event.                    *)
TouchEnd(m) ==
    /\ touch /\ m \in Drawn
    /\ held' = held \ Of(m, held) /\ moved' = moved \ {m}
    /\ IF m \in suppressed \cup moved
       THEN UNCHANGED <<popups, tapped>>
       ELSE IF Of(m, tapped) # {}
       THEN /\ tapped' = tapped \ Of(m, tapped)
            /\ IF selectionMode THEN UNCHANGED popups ELSE OpenMenu(m)
       ELSE /\ tapped' = tapped \cup {<<m, selectionMode>>}
            /\ UNCHANGED popups
    /\ UNCHANGED <<touch, last, erased, picking, suppressed, where>>

TapFires(t) ==
    /\ t \in tapped
    /\ tapped' = tapped \ {t}
    /\ IF t[2] THEN Toggle(t[1]) ELSE UNCHANGED picking
    /\ UNCHANGED <<touch, last, erased, popups, held, moved, suppressed, where>>

----------------------------------------------------------------------------
(* The mouse.                                                              *)

MouseDown(m) ==
    /\ ~touch /\ m \in Drawn /\ ~selectionMode /\ held = {}
    /\ held' = {<<m, FALSE>>}
    /\ UNCHANGED <<touch, last, erased, picking, popups, moved, tapped, suppressed, where>>

(* Up, or out of the message: then no click follows.                       *)
MouseUp ==
    /\ ~touch /\ held # {}
    /\ held' = {}
    /\ UNCHANGED <<touch, last, erased, picking, popups, moved, tapped, suppressed, where>>

(* A click, of the mouse or of a tap, on a message and on the document.    *)
Click(m) ==
    /\ m \in Drawn
    /\ held' = held \ Of(m, held)
    /\ suppressed' = suppressed \ {m}
    /\ IF m \notin suppressed /\ ~touch /\ selectionMode THEN Toggle(m) ELSE UNCHANGED picking
    /\ GlobalClick
    /\ UNCHANGED <<touch, last, erased, moved, tapped, where>>

ClickElsewhere ==
    /\ menus # {}
    /\ GlobalClick
    /\ UNCHANGED <<touch, last, erased, picking, gesture, where>>

----------------------------------------------------------------------------
(* The place.                                                              *)

LayoutNever(to) == FALSE  \* fault
LayoutInits(to) == ~inited /\ to # NoMessage

(* The effects of a render with the messages 1..to: the layout effect goes *)
(* to the bottom, once; the next one asks for a smooth scroll when the     *)
(* last message is another; the last jumps.                                *)
Render(to) ==
    LET seen == IF LayoutInits(to) THEN to ELSE lastSeen
        on   == inited \/ LayoutInits(to)
        more == on /\ seen # NoMessage /\ to # seen
    IN
    /\ lastSeen' = to
    /\ scrolls' = IF more /\ scrolls < MaxScrolls THEN scrolls + 1 ELSE scrolls
    /\ place' = IF jumps /\ to # NoMessage THEN "target"
                ELSE IF LayoutInits(to) THEN "bottom"
                ELSE IF to # last THEN "up" ELSE place
    /\ inited' = on

(* New messages, or a change in the old ones: a tick, a reaction.          *)
Messages(to) ==
    /\ to \in last..MaxMessages
    /\ Render(to)
    /\ last' = to
    /\ UNCHANGED <<touch, erased, picking, popups, gesture, jumps>>

ScrollFires ==
    /\ scrolls > 0
    /\ scrolls' = scrolls - 1 /\ place' = "bottom"
    /\ UNCHANGED <<touch, last, erased, picking, popups, gesture, inited, lastSeen, jumps>>

UserScrolls ==
    /\ last # NoMessage
    /\ place' \in {"read", "bottom"}
    /\ UNCHANGED <<touch, last, erased, picking, popups, gesture, inited, lastSeen, scrolls, jumps>>

(* jumpToMessageId is set once the page has loaded what is around it, and  *)
(* never taken back.                                                       *)
Jump ==
    /\ ~jumps /\ last # NoMessage
    /\ jumps' = TRUE /\ place' = "target"
    /\ UNCHANGED <<touch, last, erased, picking, popups, gesture, inited, lastSeen, scrolls>>

----------------------------------------------------------------------------

(* Mounting, with the messages the page has of the room: the effect on     *)
(* roomId comes after the layout effect, and takes its mark back.          *)
ListInit ==
    /\ touch \in BOOLEAN
    /\ last \in {NoMessage, 1} \cap 0..MaxMessages
    /\ erased = {} /\ selectionMode = FALSE /\ selectedIds = {} /\ late = FALSE
    /\ menus = {} /\ grids = {}
    /\ held = {} /\ moved = {} /\ tapped = {} /\ suppressed = {}
    /\ inited = FALSE /\ lastSeen = last /\ scrolls = 0 /\ jumps = FALSE
    /\ place = IF last = NoMessage THEN "top" ELSE "bottom"

(* The place is nothing to the gestures, nor they to it, so that each can  *)
(* be looked at while the other rests.                                     *)
GestureNext ==
    \/ ExitSelection \/ MouseUp \/ ClickElsewhere
    \/ \E m \in Message :
        \/ ContextMenu(m) \/ ToggleGrid(m) \/ ChooseItem(m) \/ HandleReaction(m)
        \/ EraseMessage(m) \/ Click(m)
        \/ TouchStart(m) \/ TouchMove(m) \/ TouchEnd(m) \/ MouseDown(m)
        \/ Messages(m)
    \/ \E t \in tapped : TapFires(t)
    \/ \E t \in held : HoldFires(t)

PlaceNext ==
    \/ \E m \in Message : Messages(m)
    \/ ScrollFires \/ UserScrolls \/ Jump

ListSpec == ListInit /\ [][GestureNext \/ PlaceNext]_listVars

----------------------------------------------------------------------------
(* Properties.                                                             *)

(* The selection's toolbar is there exactly while messages are selected,   *)
(* through taps, holds, clicks and the timers between them -- until a tap  *)
(* whose timer outlives the selection it was meant for toggles its message *)
(* outside of any.                                                         *)
SelectionShown == late \/ (selectionMode <=> selectedIds # {})

(* The list is at its newest message, or about to scroll there, until the  *)
(* user scrolls or the page jumps to a message.                            *)
FollowsNewest == last # NoMessage /\ ~jumps => place \in {"bottom", "read"} \/ scrolls > 0

=============================================================================

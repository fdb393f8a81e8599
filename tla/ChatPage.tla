------------------------------ MODULE ChatPage ------------------------------
(***************************************************************************)
(* The chat page, Chat.jsx: how the address, the room that is shown and    *)
(* the hub's groups follow each other through clicks, the back button,     *)
(* lists that load, messages to forward, mutes and deletions.              *)
(*                                                                         *)
(* handleRoomSelect waits four times: for a forwarded message, for the hub *)
(* to leave a room, for it to enter one, and for the messages.  Meanwhile  *)
(* the page goes on, and every render may start another selection, from    *)
(* the effect on the address; each works with the state of the render that *)
(* started it.  An effect runs before anything else does (due).            *)
(*                                                                         *)
(* A definition marked "fault" is no part of the system: it is the bug a   *)
(* slip in the definition after it would be.                               *)
(***************************************************************************)
EXTENDS Naturals, Sequences

CONSTANTS
    Room,       \* rooms of the user
    Later,      \* those of them that are created later
    NoRoom,     \* none
    MaxMoves    \* bound: what the user and the network do

ASSUME PageAssumption == NoRoom \notin Room /\ Later \subseteq Room /\ MaxMoves \in Nat

MaybeRoom == Room \cup {NoRoom}

VARIABLES
    addr,       \* the room of /chat/:roomId
    jump,       \* the room of ?jumpToMessageId='s message, if it is another one
    currentRoom,
    rooms,      \* the list the page has
    alive,      \* the rooms the server has
    unborn,     \* the rooms nobody has created yet
    isLoading, tried,
    loads,      \* requests for the list under way
    isForwarding,  \* a message waits for its room
    forwards,   \* selections that wait for a forwarded message
    calls,      \* selections that wait for the hub, which answers in order
    pulls,      \* selections that wait for messages, or what is around one
    isLoadingMessages,
    link,       \* the connection to the hub is up
    groups,     \* the rooms whose group it is in
    mutes, deletions,  \* requests under way, and the room shown at their start
    due,        \* what the effects depend on has changed
    moves,      \* how many of MaxMoves
    strayed     \* history: rooms a mute that was answered late brought back

list == <<rooms, alive, unborn, isLoading, tried, loads>>
work == <<isForwarding, forwards, calls, pulls, isLoadingMessages>>
seen == <<addr, currentRoom, rooms, isLoading, isForwarding, isLoadingMessages>>
hub  == <<link, groups>>
asks == <<mutes, deletions>>
vars == <<addr, jump, currentRoom, list, work, hub, asks, due, moves, strayed>>

Move == ~due /\ moves < MaxMoves /\ moves' = moves + 1
Turn == ~due /\ UNCHANGED moves

(* Effects run after a render in which something they depend on changed.   *)
Render == due' = (seen' # seen)

----------------------------------------------------------------------------
(* Selecting a room.                                                       *)

(* setCurrentRoom and the call of joinRoom, which sends nothing while      *)
(* there is no connection.                                                 *)
JoinSkipped(r) == groups  \* fault
Joined(r) == IF link THEN groups \cup {r} ELSE groups

(* handleRoomSelect from navigate to its next wait, for a selection s in   *)
(* which s.from is the room its render showed.                             *)
Go(s) ==
    /\ addr' = s.to /\ jump' = NoRoom
    /\ IF s.from = NoRoom
       THEN /\ currentRoom' = s.to
            /\ groups' = Joined(s.to)
            /\ calls' = Append(calls, [s EXCEPT !.at = "join"])
       ELSE /\ groups' = groups \ {s.from}
            /\ calls' = Append(calls, [s EXCEPT !.at = "leave"])
            /\ UNCHANGED currentRoom

Selection(r) == [to |-> r, from |-> currentRoom, jump |-> IF jump = r THEN NoRoom ELSE jump, at |-> "forward",
                 busy |-> isLoadingMessages]

(* The whole of it, from its guards on; what a render showed is also what  *)
(* its isLoading was.                                                      *)
HandleRoomSelect(r) ==
    IF currentRoom = r \/ isLoading
    THEN UNCHANGED <<addr, jump, currentRoom, forwards, calls, groups>>
    ELSE IF isForwarding
    THEN /\ forwards' = forwards \cup {Selection(r)}
         /\ UNCHANGED <<addr, jump, currentRoom, calls, groups>>
    ELSE Go(Selection(r)) /\ UNCHANGED forwards

Click(r) ==
    /\ Move
    /\ r \in rooms
    /\ HandleRoomSelect(r)
    /\ UNCHANGED <<list, isForwarding, pulls, isLoadingMessages, link, asks, strayed>>
    /\ Render

(* The message is forwarded, or not: then the selection ends there.        *)
Forwarded(s) ==
    /\ Turn
    /\ s \in forwards
    /\ forwards' = forwards \ {s}
    /\ isForwarding' = FALSE
    /\ \/ Go(s)
       \/ UNCHANGED <<addr, jump, currentRoom, calls, groups>>
    /\ UNCHANGED <<list, pulls, isLoadingMessages, link, asks, strayed>>
    /\ Render

(* The hub has left the old room, or the call failed: all the same.        *)
Left ==
    /\ Turn
    /\ calls # <<>> /\ Head(calls).at = "leave"
    /\ LET s == Head(calls) IN
       /\ currentRoom' = s.to
       /\ groups' = Joined(s.to)
       /\ calls' = Append(Tail(calls), [s EXCEPT !.at = "join"])
    /\ UNCHANGED <<addr, jump, list, isForwarding, forwards, pulls, isLoadingMessages, link, asks, strayed>>
    /\ Render

Entered ==
    /\ Turn
    /\ calls # <<>> /\ Head(calls).at = "join"
    /\ LET s == Head(calls) IN
       /\ pulls' = pulls \cup {[to |-> s.to, jump |-> s.jump, busy |-> s.busy]}
       /\ isLoadingMessages' = (isLoadingMessages \/ ~s.busy)
    /\ calls' = Tail(calls)
    /\ UNCHANGED <<addr, jump, currentRoom, list, isForwarding, forwards, hub, asks, strayed>>
    /\ Render

(* loadMessages is over -- at once, if its render saw another load.  With  *)
(* a message to jump to, what is around it is loaded too; its room may be  *)
(* another one, and then the address goes there.                           *)
Pulled(s) ==
    /\ Turn
    /\ s \in pulls
    /\ pulls' = pulls \ {s}
    /\ isLoadingMessages' = (isLoadingMessages /\ s.busy)
    /\ IF s.jump \in Room
       THEN addr' = s.jump /\ jump' = NoRoom
       ELSE UNCHANGED <<addr, jump>>
    /\ UNCHANGED <<currentRoom, list, isForwarding, forwards, calls, hub, asks, strayed>>
    /\ Render

----------------------------------------------------------------------------
(* The list of rooms.                                                      *)

(* loadRooms, which does nothing while a list is being loaded.             *)
LoadRooms ==
    IF isLoading THEN UNCHANGED <<isLoading, loads>>
    ELSE isLoading' = TRUE /\ loads' = loads + 1

RoomsAnswered ==
    /\ Turn
    /\ loads > 0
    /\ loads' = loads - 1
    /\ isLoading' = FALSE
    /\ rooms' \in {alive, rooms}
    /\ tried' = (tried /\ rooms' = {})
    /\ due' = TRUE
    /\ UNCHANGED <<addr, jump, currentRoom, alive, unborn, work, hub, asks, strayed>>

(* The two effects that look at the list and the address.                  *)
EffectSelects(r) == r \in rooms /\ ~isLoading /\ currentRoom # r

TriesAgain == rooms = {} /\ ~isLoading  \* fault
TriesOnce  == rooms = {} /\ ~isLoading /\ ~tried

Effects ==
    /\ due
    /\ IF EffectSelects(addr)
       THEN HandleRoomSelect(addr)
       ELSE UNCHANGED <<addr, jump, currentRoom, forwards, calls, groups>>
    /\ IF TriesOnce
       THEN LoadRooms /\ tried' = TRUE
       ELSE UNCHANGED <<isLoading, loads, tried>>
    /\ UNCHANGED <<rooms, alive, unborn, isForwarding, pulls, isLoadingMessages, link, asks, moves, strayed>>
    /\ Render

----------------------------------------------------------------------------
(* The other ways to change rooms.                                         *)

(* The header of the room that is shown, with its buttons.                 *)
HeaderShown == currentRoom # NoRoom

(* handleMobileBack, also from popstate.                                   *)
Back ==
    /\ Move
    /\ HeaderShown
    /\ groups' = groups \ {currentRoom}
    /\ currentRoom' = NoRoom /\ addr' = NoRoom /\ jump' = NoRoom
    /\ LoadRooms
    /\ due' = TRUE
    /\ UNCHANGED <<rooms, alive, unborn, tried, work, link, asks, strayed>>

(* The browser's history, a notification's link, or the address line's     *)
(* room as the page starts.                                                *)
Visit(a, j) ==
    /\ Move
    /\ addr' = a /\ jump' = j
    /\ due' = TRUE
    /\ UNCHANGED <<currentRoom, list, work, hub, asks, strayed>>

(* setForwardingMessage, from a message's menu, and the banner's cancel.   *)
Forward ==
    /\ Move
    /\ currentRoom # NoRoom
    /\ isForwarding' = ~isForwarding
    /\ due' = TRUE
    /\ UNCHANGED <<addr, jump, currentRoom, list, forwards, calls, pulls, isLoadingMessages, hub, asks, strayed>>

(* handleNewRoomCreated: the new room is selected once the list has come.  *)
NewRoom(r) ==
    /\ Move
    /\ r \in unborn /\ rooms # {} /\ ~isLoading
    /\ unborn' = unborn \ {r} /\ alive' = alive \cup {r} /\ rooms' = rooms \cup {r}
    /\ HandleRoomSelect(r)
    /\ due' = TRUE
    /\ UNCHANGED <<isLoading, tried, loads, isForwarding, pulls, isLoadingMessages, link, asks, strayed>>

(* handleToggleMute: its answer shows the room of its render again.        *)
Mute ==
    /\ Move
    /\ HeaderShown
    /\ mutes' = mutes \cup {currentRoom}
    /\ UNCHANGED <<addr, jump, currentRoom, list, work, hub, deletions, due, strayed>>

Muted(r) ==
    /\ Turn
    /\ r \in mutes
    /\ mutes' = mutes \ {r}
    /\ currentRoom' = r
    /\ strayed' = IF currentRoom = r THEN strayed ELSE strayed \cup {r}
    /\ LoadRooms
    /\ due' = TRUE
    /\ UNCHANGED <<addr, jump, rooms, alive, unborn, tried, work, hub, deletions>>

(* handleDeleteChat, and what GroupManagementModal reports: the room is    *)
(* gone, or only changed.  The page of now shows none then, if the page of *)
(* the request showed that room.                                           *)
Delete ==
    /\ Move
    /\ HeaderShown
    /\ deletions' = deletions \cup {currentRoom}
    /\ UNCHANGED <<addr, jump, currentRoom, list, work, hub, mutes, due, strayed>>

Deleted(r) ==
    /\ Turn
    /\ r \in deletions
    /\ deletions' = deletions \ {r}
    /\ alive' \in {alive, alive \ {r}}
    /\ LoadRooms
    /\ currentRoom' = NoRoom /\ addr' = NoRoom /\ jump' = NoRoom
    /\ due' = TRUE
    /\ UNCHANGED <<rooms, unborn, tried, work, hub, mutes, strayed>>

(* The connection: calls that wait fail one by one, and a new connection   *)
(* is put into the group of every room.                                    *)
LinkDown ==
    /\ Move
    /\ link
    /\ link' = FALSE /\ groups' = {}
    /\ UNCHANGED <<addr, jump, currentRoom, list, work, asks, due, strayed>>

LinkUp ==
    /\ Turn
    /\ ~link
    /\ link' = TRUE /\ groups' = alive
    /\ UNCHANGED <<addr, jump, currentRoom, list, work, asks, due, strayed>>

----------------------------------------------------------------------------

Init ==
    /\ addr \in MaybeRoom /\ jump = NoRoom
    /\ currentRoom = NoRoom /\ rooms = {} /\ alive = Room \ Later /\ unborn = Later
    /\ isLoading = FALSE /\ tried = FALSE /\ loads = 0
    /\ isForwarding = FALSE /\ forwards = {} /\ calls = <<>> /\ pulls = {} /\ isLoadingMessages = FALSE
    /\ link = TRUE /\ groups = alive
    /\ mutes = {} /\ deletions = {} /\ due = TRUE /\ moves = 0 /\ strayed = {}

Answers ==
    \/ Effects \/ Left \/ Entered \/ RoomsAnswered \/ LinkUp
    \/ \E s \in forwards : Forwarded(s)
    \/ \E s \in pulls : Pulled(s)
    \/ \E r \in mutes : Muted(r)
    \/ \E r \in deletions : Deleted(r)

User ==
    \/ Back \/ Forward \/ Mute \/ Delete \/ LinkDown
    \/ \E r \in Room : Click(r) \/ NewRoom(r)
    \/ \E a \in MaybeRoom : \E j \in {NoRoom} \cup (IF a = NoRoom THEN {} ELSE Room \ {a}) : Visit(a, j)

Next == Answers \/ User

(* React runs effects, and requests and hub calls are answered or fail.    *)
FairSpec == Init /\ [][Next]_vars /\ WF_vars(Answers)

----------------------------------------------------------------------------
(* Properties.                                                             *)

AtRest == ~due /\ loads = 0 /\ calls = <<>> /\ forwards = {} /\ pulls = {} /\ mutes = {} /\ deletions = {}

(* Every variable has its type; only live requests keep the page from its  *)
(* list; and the page at rest shows the room of its address, if it has it. *)
TypeOK ==
    /\ {addr, jump, currentRoom} \subseteq MaybeRoom
    /\ {rooms, alive, unborn, groups} \subseteq SUBSET Room
    /\ isLoading => loads > 0
    /\ AtRest /\ addr \in rooms => currentRoom = addr

(* A page at rest that shows a room gets its messages: the connection is   *)
(* in the room's group, whatever was clicked, answered late or cut off --  *)
(* unless the answer to a mute brought a room back that had been left.     *)
HearsRoom ==
    AtRest /\ link /\ currentRoom \in alive => currentRoom \in groups \cup strayed

(* Selections do not chase each other for ever: once the user stops, the   *)
(* page comes to rest.                                                     *)
Settles == <>[]AtRest

=============================================================================

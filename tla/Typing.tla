------------------------------- MODULE Typing -------------------------------
(***************************************************************************)
(* The typing indicator: handleTyping of MessageInput.jsx with its one     *)
(* timer, and StartTyping, StopTyping and OnDisconnectedAsync of the hub,  *)
(* which tell the others in a room.  The input line stays mounted while    *)
(* the user goes from room to room, and its timer is not the room's; the   *)
(* hub remembers one room for each connection (_typingUsers).  What the    *)
(* page invokes waits on its connection, which may break; the hub serves   *)
(* the calls of a connection in their order and then hears of its end.     *)
(* The failure of a query inside of a handler is left out.                 *)
(***************************************************************************)
EXTENDS Naturals, Sequences

CONSTANTS
    TypingRoom,  \* rooms of the user
    Nowhere,     \* no room is shown or remembered, or no timer runs
    Socket,      \* connections of the page to the hub
    NoSocket,    \* the page has none
    MaxInvoked   \* bound: calls that wait on a connection

ASSUME TypingAssumption ==
    Nowhere \notin TypingRoom /\ NoSocket \notin Socket /\ MaxInvoked \in Nat

VARIABLES
    shown,     \* the room that is shown
    timer,     \* the room of typingTimeoutRef, or Nowhere
    orphans,   \* rooms of timers whose component is gone
    socket,    \* the connection calls go out on, or NoSocket
    invoked,   \* of each connection, the calls the hub has not served
    remembered,\* _typingUsers: of each connection the room it types in
    typing     \* rooms whose others were told last that the user types

typingVars == <<shown, timer, orphans, socket, invoked, remembered, typing>>
hubsTyping == <<remembered, typing>>

TypingCall == [ask : {"StartTyping", "StopTyping"}, room : TypingRoom]

----------------------------------------------------------------------------
(* The page.                                                               *)

(* Without a connection, or while it reconnects, nothing is sent, and the  *)
(* page goes on as if it were.                                             *)
Invoke(ask, r) ==
    invoked' = IF socket = NoSocket THEN invoked
               ELSE [invoked EXCEPT ![socket] = Append(@, [ask |-> ask, room |-> r])]

Roomy == socket # NoSocket => Len(invoked[socket]) < MaxInvoked

(* The hub is told at the first key, and then the timer that takes it back *)
(* is put off -- for the room of the last key, whichever the hub knows of. *)
HandleTyping ==
    /\ shown \in TypingRoom /\ Roomy
    /\ IF timer = Nowhere THEN Invoke("StartTyping", shown) ELSE UNCHANGED invoked
    /\ timer' = shown
    /\ UNCHANGED <<shown, orphans, socket, hubsTyping>>

TimerFires ==
    /\ timer # Nowhere /\ Roomy
    /\ Invoke("StopTyping", timer)
    /\ timer' = Nowhere
    /\ UNCHANGED <<shown, orphans, socket, hubsTyping>>

(* Nothing clears the timer when the component goes: it still fires.       *)
OrphanFires(r) ==
    /\ r \in orphans /\ Roomy
    /\ Invoke("StopTyping", r)
    /\ orphans' = orphans \ {r}
    /\ UNCHANGED <<shown, timer, socket, hubsTyping>>

ShowRoom(r) ==
    /\ r # shown
    /\ shown' = r
    /\ UNCHANGED <<timer, orphans, socket, invoked, hubsTyping>>

HideRoom ==
    /\ shown # Nowhere
    /\ shown' = Nowhere /\ timer' = Nowhere
    /\ orphans' = IF timer = Nowhere THEN orphans ELSE orphans \cup {timer}
    /\ UNCHANGED <<socket, invoked, hubsTyping>>

(* The link breaks, for the page; the hub may not know for a while.        *)
SocketLost ==
    /\ socket # NoSocket /\ socket' = NoSocket
    /\ UNCHANGED <<shown, timer, orphans, invoked, hubsTyping>>

(* The page is back on a connection the hub knows nothing of.              *)
SocketBack(c) ==
    /\ socket = NoSocket
    /\ remembered[c] = Nowhere /\ invoked[c] = <<>>
    /\ socket' = c
    /\ UNCHANGED <<shown, timer, orphans, invoked, hubsTyping>>

----------------------------------------------------------------------------
(* The hub.                                                                *)

(* Who starts in one room has ended in the one before.  "fault" marks what *)
(* a slip in the line after would be.                                      *)
Unsaid(c, r)   == typing  \* fault
EndedIn(c, r)  == IF remembered[c] = r THEN typing ELSE typing \ {remembered[c]}

StartTyping(c, r) ==
    /\ typing' = EndedIn(c, r) \cup {r}
    /\ remembered' = [remembered EXCEPT ![c] = r]

(* A stop for another room than the one that is remembered is ignored.     *)
StopTyping(c, r) ==
    IF remembered[c] = r
    THEN typing' = typing \ {r} /\ remembered' = [remembered EXCEPT ![c] = Nowhere]
    ELSE UNCHANGED hubsTyping

ServeNext(c) ==
    /\ invoked[c] # <<>>
    /\ LET call == Head(invoked[c]) IN
       IF call.ask = "StartTyping" THEN StartTyping(c, call.room) ELSE StopTyping(c, call.room)
    /\ invoked' = [invoked EXCEPT ![c] = Tail(@)]
    /\ UNCHANGED <<shown, timer, orphans, socket>>

(* The hub finds that a connection has ended; what it has not read of it   *)
(* by then is lost.                                                        *)
SocketEnds(c) ==
    /\ c # socket
    /\ invoked[c] # <<>> \/ remembered[c] # Nowhere
    /\ typing' = typing \ {remembered[c]}
    /\ remembered' = [remembered EXCEPT ![c] = Nowhere]
    /\ invoked' = [invoked EXCEPT ![c] = <<>>]
    /\ UNCHANGED <<shown, timer, orphans, socket>>

----------------------------------------------------------------------------
TypingInit ==
    /\ shown = Nowhere /\ timer = Nowhere /\ orphans = {}
    /\ socket = NoSocket
    /\ invoked = [c \in Socket |-> <<>>]
    /\ remembered = [c \in Socket |-> Nowhere]
    /\ typing = {}

TypingNext ==
    \/ HandleTyping \/ TimerFires \/ HideRoom \/ SocketLost
    \/ \E r \in TypingRoom : ShowRoom(r) \/ OrphanFires(r)
    \/ \E c \in Socket : SocketBack(c) \/ ServeNext(c) \/ SocketEnds(c)

TypingSpec == TypingInit /\ [][TypingNext]_typingVars

(* The page may forget to take an indicator back: its one timer goes along *)
(* to another room, and calls are lost with a connection.  But wherever    *)
(* others see the user type, the hub remembers it for a connection, so     *)
(* that the end of that connection, or the next start on it, takes it      *)
(* back: StartTyping, StopTyping and OnDisconnectedAsync of ChatHub.cs.    *)
IndicatorIsHeld == \A r \in typing : \E c \in Socket : remembered[c] = r

=============================================================================

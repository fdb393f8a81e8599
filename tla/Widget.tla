------------------------------- MODULE Widget -------------------------------
(***************************************************************************)
(* LiveChatWidget.jsx, the window in which a visitor talks to support: it  *)
(* registers a guest, builds a hub connection, starts or finds the support *)
(* chat, and shows the message it sends at once, until the server's own    *)
(* copy of it comes back by the connection (lastPendingClientMessageRef).  *)
(*                                                                         *)
(* A connection is shared with the page (window.chatHubConnection) only    *)
(* once it has started.  Whoever uses the widget stays a guest or a user   *)
(* while the page is shown; both hubs treat the widget alike.              *)
(*                                                                         *)
(* A definition marked "fault" is no part of the system: it is the bug a   *)
(* slip in the definition after it would be.                               *)
(***************************************************************************)
EXTENDS Naturals, Sequences, FiniteSets

CONSTANTS
    Phrase,     \* texts a visitor sends
    MaxWires,   \* bound: connections built that have not failed
    MaxWritten, \* bound: messages of the visitor
    MaxSaved    \* bound: messages in the chat

(* A file's message is of another type than a text, whatever its name.     *)
ASSUME WidgetAssumption ==
    {MaxWires, MaxWritten, MaxSaved} \subseteq Nat /\ "file" \notin Phrase

VARIABLES
    isOpen, isRegistered,
    registering,  \* requests of handleRegistration
    wires,        \* each connection: its state, and what it does for the chat
    shared,       \* window.chatHubConnection, or 0
    ticketIs,     \* the support chat at the server: "none", "open", "closed"
    saved,        \* its messages
    inChat,       \* chatRoomId is set
    bubbles,      \* messages
    awaited,      \* lastPendingClientMessageRef
    letters,      \* the visitor's messages under way
    wrote,        \* how many there were
    doubtful      \* history: see WidgetInSync

window     == <<isOpen, isRegistered, registering>>
chat       == <<ticketIs, saved>>
talk       == <<inChat, bubbles, awaited, letters, wrote>>
widgetVars == <<window, wires, shared, chat, talk, doubtful>>

Wire    == DOMAIN wires
Failed  == {c \in Wire : wires[c].is = "failed"}
NewWire == [is |-> "starting", starts |-> "no", history |-> 0, hears |-> FALSE, mail |-> <<>>]

(* What the page shows: a message of the server by its number, or one of   *)
(* the visitor's that waits for it.                                        *)
Bubble(row, letter, status) == [row |-> row, letter |-> letter, status |-> status]
FromServer(i) == Bubble(i, 0, "saved")

----------------------------------------------------------------------------
(* The window.                                                             *)

(* The effect on isOpen and isRegistered: a second connection is built     *)
(* while the first one starts.  Its cleanup stops a connection only of a   *)
(* page that is not registered, which has none.                            *)
ConnectionBuilt ==
    IF isOpen' /\ isRegistered' /\ shared = 0
    THEN /\ \/ \E c \in Failed : wires' = [wires EXCEPT ![c] = NewWire]
            \/ Failed = {} /\ Len(wires) < MaxWires /\ wires' = Append(wires, NewWire)
         /\ doubtful' = (doubtful \/ Wire # Failed)
    ELSE UNCHANGED <<wires, doubtful>>

OpenWidget ==
    /\ ~isOpen /\ isOpen' = TRUE
    /\ UNCHANGED <<isRegistered, registering>>
    /\ ConnectionBuilt
    /\ UNCHANGED <<shared, chat, talk>>

CloseWidget ==
    /\ isOpen /\ isOpen' = FALSE
    /\ UNCHANGED <<isRegistered, registering, wires, shared, chat, talk, doubtful>>

HandleRegistration ==
    /\ isOpen /\ ~isRegistered /\ ~registering
    /\ registering' = TRUE
    /\ UNCHANGED <<isOpen, isRegistered, wires, shared, chat, talk, doubtful>>

Registration(done) ==
    /\ registering /\ registering' = FALSE
    /\ isRegistered' = done
    /\ UNCHANGED isOpen
    /\ IF done THEN ConnectionBuilt ELSE UNCHANGED <<wires, doubtful>>
    /\ UNCHANGED <<shared, chat, talk>>

----------------------------------------------------------------------------
(* Connections.                                                            *)

(* A guest's connection is in the group of a chat there is already.        *)
WireStarts(c) ==
    /\ wires[c].is = "starting"
    /\ wires' = [wires EXCEPT ![c] = [wires[c] EXCEPT !.is = "up", !.starts = "asked",
                                                     !.hears = ticketIs # "none"]]
    /\ shared' = c
    /\ UNCHANGED <<window, chat, talk, doubtful>>

(* Nothing tries again before the window is opened again.                  *)
WireFails(c) ==
    /\ wires[c].is = "starting"
    /\ wires' = [wires EXCEPT ![c].is = "failed"]
    /\ UNCHANGED <<window, shared, chat, talk, doubtful>>

WireBreaks(c) ==
    /\ wires[c].is = "up"
    /\ wires' = [wires EXCEPT ![c] = [wires[c] EXCEPT !.is = "down", !.hears = FALSE, !.mail = <<>>]]
    /\ doubtful' = (doubtful \/ wires[c].mail # <<>>)
    /\ UNCHANGED <<window, shared, chat, talk>>

(* The automatic reconnection, or its end: a connection that is closed     *)
(* stays shared, and no other one is built.                                *)
WireReturns(c) ==
    /\ wires[c].is = "down"
    /\ wires' = [wires EXCEPT ![c] = [wires[c] EXCEPT !.is = "up", !.hears = ticketIs # "none"]]
    /\ UNCHANGED <<window, shared, chat, talk, doubtful>>

WireCloses(c) ==
    /\ wires[c].is = "down"
    /\ wires' = [wires EXCEPT ![c].is = "closed"]
    /\ UNCHANGED <<window, shared, chat, talk, doubtful>>

----------------------------------------------------------------------------
(* The chat at the server.                                                 *)

(* A message is saved and sent to the group.  It is missed by a connection *)
(* that is not there, unless the history it will ask for has it.           *)
Misses(w) == ~w.hears /\ ~(w.is \in {"starting", "failed"} \/ (w.is = "up" /\ w.starts = "asked"))

SavedBy(own, phrase) ==
    /\ ticketIs = "open" /\ Len(saved) < MaxSaved
    /\ saved' = Append(saved, [own |-> own, phrase |-> phrase])
    /\ wires' = [c \in Wire |-> IF wires[c].hears
                                THEN [wires[c] EXCEPT !.mail = Append(wires[c].mail, Len(saved'))]
                                ELSE wires[c]]
    /\ doubtful' = (doubtful \/ \E c \in Wire : Misses(wires[c]))

AgentWrites == SavedBy(FALSE, "agent") /\ UNCHANGED <<window, shared, ticketIs, talk>>

(* handleFileUpload, its two requests; the page shows nothing meanwhile.   *)
FileSent == inChat /\ SavedBy(TRUE, "file") /\ UNCHANGED <<window, shared, ticketIs, talk>>

TicketCloses ==
    /\ ticketIs = "open" /\ ticketIs' = "closed"
    /\ UNCHANGED <<window, wires, shared, saved, talk, doubtful>>

(* StartSupportChatCommand.  A chat after a closed one would be another:   *)
(* BOUND.                                                                  *)
ChatStartedByServer(c) ==
    /\ wires[c].starts = "asked" /\ ticketIs # "closed"
    /\ ticketIs' = "open"
    /\ saved' = IF ticketIs = "none" THEN <<[own |-> TRUE, phrase |-> "first"]>> ELSE saved
    /\ wires' = [wires EXCEPT ![c] = [wires[c] EXCEPT !.starts = "answered", !.history = Len(saved')]]
    /\ doubtful' = (doubtful \/ wires[c].mail # <<>>)
    /\ UNCHANGED <<window, shared, talk>>

----------------------------------------------------------------------------
(* The chat on the page.                                                   *)

(* startSupportChat: what was shown is replaced by the history.            *)
ChatStarted(c) ==
    /\ wires[c].starts = "answered"
    /\ wires' = [wires EXCEPT ![c].starts = "joining"]
    /\ inChat' = TRUE
    /\ bubbles' = [i \in 1..wires[c].history |-> FromServer(i)]
    /\ UNCHANGED <<window, shared, chat, awaited, letters, wrote, doubtful>>

(* It is the shared connection that joins.                                 *)
JoinsChat(c) ==
    /\ wires[c].starts = "joining"
    /\ wires' = [d \in Wire |->
                   [wires[d] EXCEPT !.starts = IF d = c THEN "no" ELSE wires[d].starts,
                                    !.hears = wires[d].hears \/ (d = shared /\ wires[d].is = "up")]]
    /\ UNCHANGED <<window, shared, chat, talk, doubtful>>

(* The visitor is told to try again, and has nothing to do it with.        *)
ChatNotStarted(c) ==
    /\ wires[c].starts \in {"asked", "answered"}
    /\ wires' = [wires EXCEPT ![c].starts = "no"]
    /\ doubtful' = TRUE
    /\ UNCHANGED <<window, shared, chat, talk>>

(* sendMessage: a second message takes the place of the first one that is  *)
(* awaited.                                                                *)
SendMessage(phrase) ==
    /\ isOpen /\ inChat /\ wrote < MaxWritten
    /\ wrote' = wrote + 1
    /\ bubbles' = Append(bubbles, Bubble(0, wrote', "sending"))
    /\ awaited' = [letter |-> wrote', phrase |-> phrase]
    /\ letters' = letters \cup {[letter |-> wrote', phrase |-> phrase, saved |-> FALSE]}
    /\ doubtful' = (doubtful \/ awaited.letter # 0)
    /\ UNCHANGED <<window, wires, shared, chat, inChat>>

LetterSaved(l) ==
    /\ ~l.saved
    /\ SavedBy(TRUE, l.phrase)
    /\ letters' = (letters \ {l}) \cup {[l EXCEPT !.saved = TRUE]}
    /\ UNCHANGED <<window, shared, ticketIs, inChat, bubbles, awaited, wrote>>

LetterAnswered(l) ==
    /\ l.saved
    /\ letters' = letters \ {l}
    /\ UNCHANGED <<window, wires, shared, chat, inChat, bubbles, awaited, wrote, doubtful>>

Nobody == [letter |-> 0, phrase |-> "none"]

(* The chat is closed, or the request or its answer is lost.               *)
LetterFails(l) ==
    /\ letters' = letters \ {l}
    /\ bubbles' = [k \in DOMAIN bubbles |->
                     IF bubbles[k].letter = l.letter THEN [bubbles[k] EXCEPT !.status = "failed"]
                     ELSE bubbles[k]]
    /\ awaited' = Nobody
    /\ doubtful' = (doubtful \/ l.saved)
    /\ UNCHANGED <<window, wires, shared, chat, inChat, wrote>>

(* An event: the copy of the message that is awaited takes its place, if   *)
(* it is still shown; any other message is added, whatever is shown.       *)
Awaits(i) == awaited.letter # 0 /\ saved[i].own /\ saved[i].phrase = awaited.phrase

EchoAdded(i) == Append(bubbles, FromServer(i))  \* fault
Echoed(i) ==
    IF Awaits(i) /\ \E k \in DOMAIN bubbles : bubbles[k].letter = awaited.letter
    THEN [k \in DOMAIN bubbles |->
            IF bubbles[k].letter = awaited.letter THEN FromServer(i) ELSE bubbles[k]]
    ELSE Append(bubbles, FromServer(i))

Receives(c) ==
    /\ wires[c].mail # <<>>
    /\ LET i == Head(wires[c].mail)
       IN  /\ bubbles' = Echoed(i)
           /\ awaited' = IF Awaits(i) THEN Nobody ELSE awaited
    /\ wires' = [wires EXCEPT ![c].mail = Tail(wires[c].mail)]
    /\ doubtful' = (doubtful \/ \E w \in Wire : wires[w].starts = "answered")
    /\ UNCHANGED <<window, shared, chat, inChat, letters, wrote>>

----------------------------------------------------------------------------

(* A guest who is known to the browser, or a user, is registered; a chat   *)
(* may be left from an earlier visit.                                      *)
WidgetInit ==
    /\ isOpen = FALSE /\ isRegistered \in BOOLEAN /\ registering = FALSE
    /\ wires = <<>> /\ shared = 0
    /\ \/ ticketIs = "none" /\ saved = <<>>
       \/ ticketIs = "open" /\ saved = <<[own |-> TRUE, phrase |-> "first"]>>
    /\ inChat = FALSE /\ bubbles = <<>> /\ awaited = Nobody
    /\ letters = {} /\ wrote = 0 /\ doubtful = FALSE

WidgetNext ==
    \/ OpenWidget \/ CloseWidget \/ HandleRegistration
    \/ \E done \in BOOLEAN : Registration(done)
    \/ \E c \in Wire : WireStarts(c) \/ WireFails(c) \/ WireBreaks(c) \/ WireReturns(c) \/ WireCloses(c)
    \/ AgentWrites \/ FileSent \/ TicketCloses
    \/ \E c \in Wire :
          \/ ChatStartedByServer(c) \/ ChatStarted(c) \/ JoinsChat(c) \/ ChatNotStarted(c)
          \/ Receives(c)
    \/ \E phrase \in Phrase : SendMessage(phrase)
    \/ \E l \in letters : LetterSaved(l) \/ LetterAnswered(l) \/ LetterFails(l)

WidgetSpec == WidgetInit /\ [][WidgetNext]_widgetVars

----------------------------------------------------------------------------
(* Properties.                                                             *)

(* When nothing is under way, the widget shows every message of the chat   *)
(* once, and none of the visitor's is left as if it were being sent -- if  *)
(* one connection was built, the chat was quiet while its history was      *)
(* fetched, no event was lost, and the visitor waited for the copy of one  *)
(* message before sending the next.                                        *)
WidgetInSync ==
    /\ ~doubtful /\ inChat /\ letters = {}
    /\ \A c \in Wire : wires[c].starts = "no" /\ wires[c].mail = <<>>
    => /\ \A i \in DOMAIN saved : Cardinality({k \in DOMAIN bubbles : bubbles[k].row = i}) = 1
       /\ \A k \in DOMAIN bubbles : bubbles[k].status # "sending"

=============================================================================

----------------------------- MODULE ChatClient -----------------------------
(***************************************************************************)
(* What a page of the web client knows of its user's rooms: the reducer,   *)
(* the hub listeners and the operations of ChatContext.jsx, against the    *)
(* rows of the server and the events ChatHub sends about them.             *)
(*                                                                         *)
(* State comes to the page in two ways that are not ordered with each      *)
(* other: answers to its REST calls, which replace what it knew, and       *)
(* events, which change it.  Events of one connection arrive in order, and *)
(* a page may hold more than one connection (HubClient): every event then  *)
(* comes once on each, but only the link joins and leaves groups.          *)
(* Server handlers are atomic here; their interleavings are the subject of *)
(* ReadReceipts.  The ticks of messages are there, too.                    *)
(*                                                                         *)
(* A definition marked "fault" is no part of the system: it is the bug a   *)
(* slip in the definition after it would be.                               *)
(***************************************************************************)
EXTENDS Integers, Sequences, FiniteSets, Functions

CONSTANTS
    Room,       \* rooms the user is a member of
    NoRoom,     \* currentRoom is null
    Peer,       \* the other members
    Me,         \* the user of the page
    Emoji,      \* reactions that can be given
    None,       \* no reaction
    Conn,       \* connections of the page to the hub
    Link,       \* the connection the service invokes on
    PageSize,   \* messages an answer brings, before a target and after it
    Window,     \* messages of a room that the list of rooms counts in
    MaxEffort,  \* bound: messages after the first, changes and losses
    MaxQueue,   \* bound: events on their way when the server does more
    MaxCalls,   \* bound: invocations on their way when the page does more
    MaxAsks     \* bound: answers on their way to the page

ASSUME ClientAssumption ==
    /\ IsFiniteSet(Peer)
    /\ NoRoom \notin Room /\ Me \notin Peer /\ None \notin Emoji
    /\ Link \in Conn
    /\ {PageSize, Window, MaxEffort, MaxQueue, MaxCalls, MaxAsks} \subseteq Nat

VARIABLES
    rows,       \* ChatMessages with their MessageReactions; back, a history: edited
                \* since it was deleted
    lastRead,   \* the user's LastReadMessageId in a room
    changes,    \* edits, deletions and reactions so far
    up,         \* connections that are up
    joined,     \* rooms whose group the link is in
    queue,      \* events on their way to the page, of each connection
    calls,      \* invocations on their way to the hub
    items,      \* state.messages[room].items
    beyond,     \* history: messages of a room that the answer it shows left out
    badge,      \* unreadCount of the entries of state.rooms
    current,    \* state.currentRoom
    armed,      \* the currentRoom the listeners in place have captured
    load,       \* the page's request for the messages of a room
    list,       \* its request for the rooms
    deletions,  \* deletions of the user that are done and not answered yet
    losses,     \* connections that broke so far
    hazy,       \* history: rooms the page may have missed an event of
    dim         \* history: rooms whose count it may have missed

server == <<rows, lastRead, changes>>
wire   == <<up, joined, queue, calls, losses>>
page   == <<items, beyond, badge, current, armed>>
asks   == <<load, list, deletions>>
doubts == <<hazy, dim>>
vars   == <<server, wire, page, asks, doubts>>

User == Peer \cup {Me}
RowId == 1..Len(rows)

(* BOUND: a message costs two, but the first; a change and a loss cost one.*)
Effort == 2 * (Len(rows) - 1) + changes + losses

----------------------------------------------------------------------------
(* The server's answers and events.                                        *)

(* The reactions of a row as ChatMessageDto lists them, with full names as *)
(* the REST answers write them.                                            *)
Givers(row, e) == {<<u, "rest">> : u \in {v \in User : row.react[v] = e}}

Reactions(row) ==
    {[emoji |-> e, names |-> Givers(row, e), count |-> Cardinality(Givers(row, e))]
       : e \in {row.react[v] : v \in User} \ {None}}

MessageDto(i, row) ==
    [id |-> i, by |-> row.by, rev |-> row.rev, gone |-> FALSE, react |-> Reactions(row)]

(* A room's messages in the order of their ids, which there is one of.     *)
Ascending(S) == {f \in [1..Cardinality(S) -> S] : \A j, k \in DOMAIN f : j < k => f[j] < f[k]}
AnswerOf(S) == {[k \in DOMAIN f |-> MessageDto(f[k], rows[f[k]])] : f \in Ascending(S)}

(* GetChatMessages answers with the last messages that are not deleted,    *)
(* GetMessageContext with those before and after a target.                 *)
Kept(r)    == {i \in RowId : rows[i].room = r /\ ~rows[i].gone}
LastOf(S)  == {i \in S : Cardinality({j \in S : j > i}) < PageSize}
FirstOf(S) == {i \in S : Cardinality({j \in S : j < i}) < PageSize}
Around(i)  == LET S == Kept(rows[i].room)
              IN  LastOf({j \in S : j <= i}) \cup FirstOf({j \in S : j > i})

(* Unread counts: some of the server counts deleted messages too, and the  *)
(* list of rooms counts among the newest of a room only; here as it does   *)
(* when the table is k rows long.                                          *)
UnreadOf(tab, r, mark) ==
    Cardinality({i \in DOMAIN tab : tab[i].room = r /\ tab[i].by # Me /\ i > mark})
UnreadKept(tab, r, mark) ==
    Cardinality({i \in DOMAIN tab :
        tab[i].room = r /\ tab[i].by # Me /\ i > mark /\ ~tab[i].gone})
Recent(tab, r, k) ==
    {i \in 1..k : tab[i].room = r /\ Cardinality({j \in 1..k : tab[j].room = r /\ j > i}) < Window}
UnreadListed(tab, r, mark, k) ==
    Cardinality({i \in Recent(tab, r, k) : tab[i].by # Me /\ i > mark})

Event(k, r, d) == [kind |-> k, room |-> r, data |-> d]
IsCount(e) == e.kind \in {"room", "unread"}

(* A count goes to the user; the rest to the room's group, which every     *)
(* connection enters when it is made and only the link can leave.          *)
Hears(c, e) == c \in up /\ (IsCount(e) \/ c # Link \/ e.room \in joined)

Heard(c, es) == IF es # <<>> /\ Hears(c, es[1]) THEN es ELSE <<>>

(* What a handler sends: an event or none, and after it another or none.   *)
Send(first, second) ==
    /\ \A c \in Conn : Len(queue[c]) <= MaxQueue
    /\ queue' = [c \in Conn |-> queue[c] \o Heard(c, first) \o Heard(c, second)]
    /\ LET unheard == {e \in Range(first) \cup Range(second) : \E c \in Conn : ~Hears(c, e)}
       IN  /\ hazy' = hazy \cup {e.room : e \in {x \in unheard : ~IsCount(x)}}
           /\ dim'  = dim \cup {e.room : e \in {x \in unheard : IsCount(x)}}

(* SendMessageCommand, and ForwardMessageCommand in the target room.       *)
Post(u, r) ==
    /\ Effort + 2 <= MaxEffort
    /\ LET row == [room |-> r, by |-> u, rev |-> 0, gone |-> FALSE, back |-> FALSE,
                   react |-> [v \in User |-> None]]
           new == Append(rows, row)
       IN  /\ rows' = new
           /\ Send(<<Event("message", r, MessageDto(Len(new), row))>>,
                   IF u = Me THEN <<>> ELSE <<Event("room", r, UnreadOf(new, r, lastRead[r]))>>)
    /\ UNCHANGED <<lastRead, changes, up, joined, calls, losses, page, asks>>

(* A deleted message can be changed as well: another page of its author    *)
(* may not know.                                                           *)
Change(i) ==
    /\ Effort < MaxEffort
    /\ changes' = changes + 1
    /\ UNCHANGED <<lastRead, up, joined, calls, losses, page, load, list>>

(* EditMessageCommand: the row as its author sees it goes to everybody.    *)
Edit(i) ==
    /\ Change(i)
    /\ rows' = [rows EXCEPT ![i].rev = rows[i].rev + 1,
                             ![i].back = rows[i].back \/ rows[i].gone]
    /\ Send(<<Event("edited", rows[i].room, MessageDto(i, rows'[i]))>>, <<>>)
    /\ UNCHANGED deletions

Delete(i) ==
    /\ Change(i)
    /\ rows' = [rows EXCEPT ![i].gone = TRUE]
    /\ LET r == rows[i].room
       IN  Send(<<Event("deleted", r, i)>>,
                <<Event("room", r, UnreadKept(rows', r, lastRead[r]))>>)
    /\ deletions' = IF rows[i].by = Me THEN deletions \cup {i} ELSE deletions

(* ReactToMessageCommand keeps one reaction per user; the event names the  *)
(* emoji given or taken back, never the one it replaces, and writes the    *)
(* full name in its own way.                                               *)
React(u, i, e) ==
    /\ Change(i)
    /\ LET removed == rows[i].react[u] = e
       IN  /\ rows' = [rows EXCEPT ![i].react[u] = IF removed THEN None ELSE e]
           /\ Send(<<Event("reacted", rows[i].room,
                             [id |-> i, name |-> <<u, "live">>, emoji |-> e, removed |-> removed])>>, <<>>)
    /\ UNCHANGED deletions

(* MarkRoomAsRead and the group calls: one at a time, in order.            *)
Incoming(r) == {i \in RowId : /\ rows[i].room = r /\ rows[i].by # Me
                              /\ ~rows[i].gone /\ i > lastRead[r]}
Newest(S) == CHOOSE i \in S : \A j \in S : j <= i

HubCall ==
    /\ calls # <<>> /\ Link \in up
    /\ calls' = Tail(calls)
    /\ LET op == Head(calls).op
           r  == Head(calls).room
       IN  \/ /\ op = "mark"
              /\ lastRead' = [lastRead EXCEPT ![r] =
                                IF Incoming(r) = {} THEN @ ELSE Newest(Incoming(r))]
              /\ Send(<<Event("unread", r, UnreadKept(rows, r, lastRead'[r]))>>,
                      IF Incoming(r) = {} THEN <<>> ELSE <<Event("room", r, 0)>>)
              /\ UNCHANGED joined
           \/ /\ op = "join"
              /\ joined' = joined \cup {r}
              /\ UNCHANGED <<lastRead, queue, doubts>>
           \/ /\ op = "leave"
              /\ joined' = joined \ {r}
              /\ UNCHANGED <<lastRead, queue, doubts>>
    /\ UNCHANGED <<rows, changes, up, losses, page, asks>>

(* A connection breaks: what was on its way is lost, in both directions.   *)
(* When it is back, the hub puts it into all its groups again; nothing is  *)
(* sent a second time, and the page does not ask.                          *)
Drop(c) ==
    /\ c \in up /\ Effort < MaxEffort
    /\ up' = up \ {c}
    /\ losses' = losses + 1
    /\ queue' = [queue EXCEPT ![c] = <<>>]
    /\ hazy' = hazy \cup {e.room : e \in {x \in Range(queue[c]) : ~IsCount(x)}}
    /\ calls' = IF c = Link THEN <<>> ELSE calls
    /\ dim' = dim \cup {e.room : e \in {x \in Range(queue[c]) : IsCount(x)}}
                  \cup {x.room : x \in Range(calls) \ Range(calls')}
    /\ UNCHANGED <<server, joined, page, asks>>

Return(c) ==
    /\ c \notin up
    /\ up' = up \cup {c}
    /\ joined' = IF c = Link THEN Room ELSE joined
    /\ UNCHANGED <<server, queue, calls, losses, page, asks, doubts>>

----------------------------------------------------------------------------
(* The reducer: what an event does to the page.                            *)

InList(r, i) == \E k \in DOMAIN items[r] : items[r][k].id = i

AddAnyway(e) == Append(items[e.room], e.data)  \* fault
AddMessage(e) ==
    IF InList(e.room, e.data.id) THEN items[e.room] ELSE Append(items[e.room], e.data)

(* handleMessageReceived asks the room its closure holds, the reducer the  *)
(* one that is current.                                                    *)
MarksRead(e) == e.kind = "message" /\ e.data.by # Me /\ e.room = armed

CountsOwn(e) == e.room # current  \* fault
Counts(e)    == e.room # current /\ e.data.by # Me
CountUp(e) ==
    badge[e.room] + (IF ~InList(e.room, e.data.id) /\ Counts(e) THEN 1 ELSE 0)

(* An entry that loses its last name goes; a name is not taken twice.      *)
Give(x, n) ==
    IF n \in x.names THEN x ELSE [x EXCEPT !.names = x.names \cup {n}, !.count = x.count + 1]
Take(x, n) == [x EXCEPT !.names = x.names \ {n}, !.count = Cardinality(x.names \ {n})]

ReactedList(S, d) ==
    LET old == {x \in S : x.emoji = d.emoji}
    IN  (S \ old) \cup
        (IF d.removed THEN {y \in {Take(x, d.name) : x \in old} : y.names # {}}
         ELSE IF old = {} THEN {[emoji |-> d.emoji, names |-> {d.name}, count |-> 1]}
         ELSE {Give(x, d.name) : x \in old})

EditKept(m, d) == m  \* fault
Edited(m, d) == d
Erased(m)    == [m EXCEPT !.gone = TRUE]

ReactedTo(m, d) == [m EXCEPT !.react = ReactedList(m.react, d)]

About(e) == IF e.kind = "deleted" THEN e.data ELSE e.data.id

Changed(m, e) ==
    CASE e.kind = "edited"  -> Edited(m, e.data)
      [] e.kind = "deleted" -> Erased(m)
      [] e.kind = "reacted" -> ReactedTo(m, e.data)

Reduced(e) ==
    CASE e.kind = "message" -> AddMessage(e)
      [] e.kind \in {"edited", "deleted", "reacted"} ->
           [k \in DOMAIN items[e.room] |->
              LET m == items[e.room][k] IN IF m.id = About(e) THEN Changed(m, e) ELSE m]
      [] IsCount(e) -> items[e.room]

(* What the entry of the room in the list of rooms shows.                  *)
RoomUpserted(e)  == [badge EXCEPT ![e.room] = e.data]
UnreadUpdated(e) == [badge EXCEPT ![e.room] = e.data]
AllRead(r)       == [badge EXCEPT ![r] = 0]

BadgeReduced(e) ==
    CASE e.kind = "room"    -> RoomUpserted(e)
      [] e.kind = "unread"  -> UnreadUpdated(e)
      [] MarksRead(e)       -> AllRead(e.room)
      [] e.kind = "message" /\ ~MarksRead(e) -> [badge EXCEPT ![e.room] = CountUp(e)]
      [] OTHER              -> badge

(* An invocation is skipped, or fails and is caught, while the link is not *)
(* up.                                                                     *)
Invoke(op, r) ==
    /\ calls' = IF Link \in up THEN Append(calls, [op |-> op, room |-> r]) ELSE calls
    /\ dim' = IF Link \notin up /\ op = "mark" THEN dim \cup {r} ELSE dim

(* A request that was answered before this event, and is applied after it, *)
(* takes the event back.                                                   *)
Overtake(e) ==
    /\ load' = [load EXCEPT ![e.room].late =
                  load[e.room].late \/ (load[e.room].at = "answered" /\ ~IsCount(e))]
    /\ list' = IF list.at = "answered" THEN [list EXCEPT !.late = @ \cup {e.room}] ELSE list

Handle(c) ==
    /\ queue[c] # <<>>
    /\ LET e == Head(queue[c]) IN
       /\ items' = [items EXCEPT ![e.room] = Reduced(e)]
       /\ badge' = BadgeReduced(e)
       /\ IF MarksRead(e) THEN Invoke("mark", e.room) ELSE UNCHANGED <<calls, dim>>
       /\ Overtake(e)
    /\ queue' = [queue EXCEPT ![c] = Tail(queue[c])]
    /\ UNCHANGED <<server, up, joined, losses, beyond, current, armed, deletions, hazy>>

----------------------------------------------------------------------------
(* The operations of the context, in whatever order pages call them.       *)

SetCurrentRoom(r) ==
    /\ r # current /\ armed = current  \* bound: one change before the effect runs
    /\ current' = r
    /\ UNCHANGED <<server, wire, items, beyond, badge, armed, asks, doubts>>

(* The effect puts the listeners of the present render in place.           *)
Rearm ==
    /\ armed # current
    /\ armed' = current
    /\ UNCHANGED <<server, wire, items, beyond, badge, current, asks, doubts>>

JoinRoom(r) ==
    /\ r \notin joined /\ Len(calls) < MaxCalls
    /\ Invoke("join", r)
    /\ UNCHANGED <<server, up, joined, queue, losses, page, asks, hazy>>

LeaveRoom(r) ==
    /\ r \in joined /\ Len(calls) < MaxCalls
    /\ Invoke("leave", r)
    /\ UNCHANGED <<server, up, joined, queue, losses, page, asks, hazy>>

MarkAll(r) ==
    /\ Len(calls) < MaxCalls
    /\ badge' = AllRead(r)
    /\ Invoke("mark", r)
    /\ UNCHANGED <<server, up, joined, queue, losses, items, beyond, current, armed, asks, hazy>>

(* loadMessages refuses while its render shows a load under way; a caller  *)
(* may hold the callback of an earlier render, so that loads overlap.  A   *)
(* load begins where the server reads: a request on its way there changes  *)
(* nothing, nor does one that fails.                                       *)
NoLoad == [at |-> "no", rows |-> <<>>, left |-> {}, late |-> FALSE]
NoList == [at |-> "no", count |-> [r \in Room |-> 0], late |-> {}]

MayAsk ==
    Cardinality({r \in Room : load[r].at # "no"}) + (IF list.at = "no" THEN 0 ELSE 1) < MaxAsks

(* What answers a request for the list of room r: the messages S of room s.*)
Ask(r, s, S) ==
    /\ load[r].at = "no" /\ MayAsk
    /\ \E answer \in AnswerOf(S) :
          load' = [load EXCEPT ![r] = [at |-> "answered", rows |-> answer,
                                       left |-> Kept(r) \ S, late |-> FALSE]]
    /\ hazy' = IF s # r THEN hazy \cup {r}
               ELSE IF \E c \in Conn : \E e \in Range(queue[c]) : e.room = r THEN hazy
               ELSE hazy \ {r}
    /\ UNCHANGED <<server, wire, page, list, deletions, dim>>

LoadMessages(r) == Ask(r, r, LastOf(Kept(r)))

(* The page jumps to message i when it has loaded the messages of the room *)
(* it selects, and puts what is around it in their place: in the list of   *)
(* that room, even if the address was of a message of another one.         *)
LoadContext(r, i) ==
    /\ Around(i) # {}
    /\ Ask(r, rows[i].room, Around(i))

MessagesApplied(r) ==
    /\ load[r].at = "answered"
    /\ items' = [items EXCEPT ![r] = load[r].rows]
    /\ beyond' = [beyond EXCEPT ![r] = load[r].left]
    /\ hazy' = IF load[r].late THEN hazy \cup {r} ELSE hazy
    /\ load' = [load EXCEPT ![r] = NoLoad]
    /\ UNCHANGED <<server, wire, badge, current, armed, list, deletions, dim>>

LoadRooms ==
    /\ list.at = "no" /\ MayAsk
    /\ list' = [at |-> "answered", late |-> {},
                count |-> [r \in Room |-> UnreadListed(rows, r, lastRead[r], Len(rows))]]
    /\ dim' = {x.room : x \in {y \in Range(calls) : y.op = "mark" /\ Link \notin up}}
    /\ UNCHANGED <<server, wire, page, load, deletions, hazy>>

RoomsApplied ==
    /\ list.at = "answered"
    /\ badge' = list.count
    /\ dim' = dim \cup list.late
    /\ list' = NoList
    /\ UNCHANGED <<server, wire, items, beyond, current, armed, load, deletions, hazy>>

(* The answer to the user's own deletion marks the message at once.        *)
DeletionAnswered(i) ==
    /\ i \in deletions
    /\ deletions' = deletions \ {i}
    /\ items' = [items EXCEPT ![rows[i].room] = Reduced(Event("deleted", rows[i].room, i))]
    /\ UNCHANGED <<server, wire, beyond, badge, current, armed, load, list, doubts>>

----------------------------------------------------------------------------

Init ==
    /\ rows = <<>> /\ changes = 0 /\ losses = 0
    /\ lastRead = [r \in Room |-> 0]
    /\ up = Conn /\ joined = Room
    /\ queue = [c \in Conn |-> <<>>] /\ calls = <<>>
    /\ items = [r \in Room |-> <<>>] /\ beyond = [r \in Room |-> {}] /\ badge = [r \in Room |-> 0]
    /\ current = NoRoom /\ armed = NoRoom
    /\ load = [r \in Room |-> NoLoad]
    /\ list = NoList
    /\ deletions = {} /\ hazy = {} /\ dim = {}

Next ==
    \/ \E u \in User, r \in Room : Post(u, r)
    \/ \E i \in RowId : Edit(i) \/ Delete(i) \/ DeletionAnswered(i)
    \/ \E i \in RowId, u \in User, e \in Emoji : React(u, i, e)
    \/ HubCall
    \/ \E c \in Conn : Drop(c) \/ Return(c) \/ Handle(c)
    \/ \E r \in Room \cup {NoRoom} : SetCurrentRoom(r)
    \/ Rearm
    \/ \E r \in Room : JoinRoom(r) \/ LeaveRoom(r) \/ MarkAll(r)
    \/ \E r \in Room : LoadMessages(r) \/ MessagesApplied(r)
    \/ \E r \in Room : \E i \in RowId : LoadContext(r, i)
    \/ LoadRooms \/ RoomsApplied

Spec == Init /\ [][Next]_vars

----------------------------------------------------------------------------
(* Properties.                                                             *)

Shape(m) ==
    /\ m.id \in RowId /\ m.by \in User /\ m.rev \in 0..changes /\ m.gone \in BOOLEAN
    /\ \A x \in m.react : x.emoji \in Emoji /\ x.count \in Nat

(* Every variable has its type.                                            *)
TypeOK ==
    /\ lastRead \in [Room -> 0..Len(rows)]
    /\ up \subseteq Conn /\ joined \subseteq Room /\ deletions \subseteq RowId
    /\ badge \in [Room -> Nat]
    /\ {current, armed} \subseteq Room \cup {NoRoom}
    /\ \A r \in Room : load[r].at \in {"no", "answered"}
    /\ \A r \in Room : \A k \in DOMAIN items[r] : Shape(items[r][k])

(* However often an event comes, on however many connections, and however  *)
(* loads and events overtake each other, a list shows a message once       *)
(* (ADD_MESSAGE), under it an emoji once, and there the number of the      *)
(* names that gave it (MESSAGE_REACTION_SUCCESS).                          *)
NoDuplicates ==
    \A r \in Room :
        /\ \A j, k \in DOMAIN items[r] : items[r][j].id = items[r][k].id => j = k
        /\ \A j \in DOMAIN items[r] : \A x, y \in items[r][j].react :
              /\ x.count = Cardinality(x.names) /\ x.count > 0
              /\ x.emoji = y.emoji => x = y

AtRest ==
    /\ \A c \in Conn : queue[c] = <<>>
    /\ calls = <<>> /\ deletions = {} /\ list.at = "no"
    /\ \A r \in Room : load[r].at = "no"

(* When nothing is on its way, a room's list shows only messages of the    *)
(* room that the server has not deleted, each with its latest text, and    *)
(* all of those but what the answer it came from left out -- unless the    *)
(* page was not in the room's group or not connected when something        *)
(* happened, a load was overtaken by an event, or a jump brought another   *)
(* room's messages; a message edited after its deletion is shown again.    *)
(* Nothing else puts a list out of step, and a load with no event of the   *)
(* room on its way puts it back.                                           *)
InSync ==
    AtRest => \A r \in Room \ hazy :
        LET shown == {m \in Range(items[r]) : ~m.gone}
        IN  /\ \A m \in shown :
                  rows[m.id].back \/ (m.id \in Kept(r) /\ m.rev = rows[m.id].rev)
            /\ \A i \in Kept(r) \ beyond[r] : \E m \in shown : m.id = i

(* The lengths of the table since the last message of another in a room.   *)
SinceTheirs(tab, r) ==
    {k \in 0..Len(tab) : \A i \in DOMAIN tab : i > k /\ tab[i].room = r => tab[i].by = Me}

CountsGiven(tab, r, mark) ==
    {UnreadOf(tab, r, mark), UnreadKept(tab, r, mark)}
        \cup {UnreadListed(tab, r, mark, k) : k \in SinceTheirs(tab, r)}

(* When nothing is on its way, the badge of a room is a number of unread   *)
(* messages the server gives: with deleted messages or without, or among   *)
(* the newest of the room, as the list of rooms did since the last message *)
(* of another; although the page counts for itself too and resets the      *)
(* badge before the server does -- unless a count was lost or overtaken by *)
(* a load of the rooms, or a mark could not be sent.                       *)
BadgeIsCount ==
    AtRest => \A r \in Room \ dim : badge[r] \in CountsGiven(rows, r, lastRead[r])

=============================================================================

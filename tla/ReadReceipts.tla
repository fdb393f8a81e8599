---------------------------- MODULE ReadReceipts ----------------------------
(***************************************************************************)
(* Delivery and read receipts in one chat room: the rows of                *)
(* MessageStatuses, each member's LastReadMessageId, and the ticks that    *)
(* the author of a message sees.                                           *)
(*                                                                         *)
(* A page of the web client holds a connection to ChatHub.  What it        *)
(* invokes is queued at the server, which runs the calls of one            *)
(* connection one at a time and the calls of different connections side    *)
(* by side, each with a database context of its own and no transaction.    *)
(* A call reads in steps of its own, saves once, and then tells the        *)
(* authors.  A user may have several pages open, and a page that loses its *)
(* connection goes on with a new one while a call of the old one may still *)
(* run.                                                                    *)
(*                                                                         *)
(* A definition marked "fault" is no part of the system: it is the bug a   *)
(* slip in the definition after it would be, kept to show that the         *)
(* properties notice it.                                                   *)
(***************************************************************************)
EXTENDS Integers, Sequences

CONSTANTS
    User,       \* members of the room
    Guest,      \* the author of a guest's message (a null SenderId)
    Nobody,     \* the author of a message that is not written yet
    Author,     \* who writes in this instance
    Conn,       \* connections to ChatHub
    Spare,      \* connections that are not made yet at the start
    UserOf,     \* the user of a connection
    OneByOne,   \* does some client invoke MarkMessageAsRead?
    Loader,     \* users whose page loads its messages again
    Erasable,   \* messages that may be deleted
    MaxMsg,     \* bound: messages written
    MaxQueue,   \* bound: invocations a page waits for before its user goes on
    MaxLosses   \* bound: connections and events lost

ASSUME ReceiptAssumption ==
    /\ Guest \notin User /\ Nobody \notin User /\ Guest # Nobody
    /\ Author \subseteq User \cup {Guest}
    /\ Spare \subseteq Conn
    /\ UserOf \in [Conn -> User]
    /\ OneByOne \in BOOLEAN
    /\ Loader \subseteq User
    /\ MaxMsg \in Nat /\ MaxQueue \in Nat /\ MaxLosses \in Nat

Msg == 1..MaxMsg

(* A row's ReadStatus, and the same scale for the ticks of a page; no row, *)
(* and a message the page does not show, are below all of them.            *)
Nothing   == -1
Sent      == 0
Delivered == 1
Read      == 2
Grade     == {Nothing, Sent, Delivered, Read}

VARIABLES
    author,     \* ChatMessages: who wrote a message, or Nobody
    deleted,    \* messages with IsDeleted
    out,        \* messages the room's group has been sent
    status,     \* MessageStatuses of a user
    last,       \* LastReadMessageId of a user; 0 is null
    live,       \* connections that are up
    joined,     \* connections in the room's SignalR group
    open,       \* pages whose current room is this one
    opening,    \* how far a page has come with opening the room
    queue,      \* invocations of a connection that wait at the server
    call,       \* the invocation of a connection that runs
    view,       \* the ticks the author's page shows for a message
    page,       \* the answer to a user's page that loads the messages
    losses      \* connections and events lost so far

rows  == <<author, deleted, out>>
pages == <<live, joined, open, opening>>
shown == <<view, page, losses>>
vars  == <<author, deleted, out, status, last, live, joined, open, opening,
           queue, call, view, page, losses>>

Request == [op : {"join", "leave", "room"}, msg : {0}]
             \cup [op : IF OneByOne THEN {"ack", "one"} ELSE {"ack"}, msg : Msg]

Idle == [op |-> "none", pc |-> "idle", ids |-> {}, left |-> {},
         seen |-> [m \in Msg |-> Nothing], mark |-> 0, top |-> 0]

Saved       == {m \in Msg : author[m] # Nobody}
Incoming(u) == {m \in Saved : author[m] # u}

----------------------------------------------------------------------------
(* Messages and pages.                                                     *)

(* SendMessageCommand and GuestChatHub.SendMessage: the row is saved, and  *)
(* only then sent to the room's group.                                     *)
Post(a) ==
    \E m \in Msg \ Saved :
        /\ \A n \in 1..(m - 1) : n \in Saved
        /\ author' = [author EXCEPT ![m] = a]
        /\ UNCHANGED <<deleted, out, status, last, pages, queue, call, shown>>

(* A page acknowledges what it receives, its user's own messages too, and  *)
(* marks the room when someone else wrote and the room is the one it shows. *)
ArrivalsAckOnly(c, m) ==  \* fault
    IF c \in joined THEN <<[op |-> "ack", msg |-> m]>> ELSE <<>>
Arrivals(c, m) ==
    IF c \notin joined THEN <<>>
    ELSE <<[op |-> "ack", msg |-> m]>> \o
         (IF c \in open /\ author[m] # UserOf[c] THEN <<[op |-> "room", msg |-> 0]>> ELSE <<>>)

(* The author's page adds the message with one tick, unless the event is   *)
(* lost.                                                                   *)
Broadcast(m) ==
    /\ m \in Saved \ out
    /\ out' = out \cup {m}
    /\ queue' = [c \in Conn |-> queue[c] \o Arrivals(c, m)]
    /\ \/ /\ view' = [view EXCEPT ![m] = IF view[m] = Nothing THEN Sent ELSE view[m]]
          /\ UNCHANGED losses
       \/ /\ losses < MaxLosses
          /\ losses' = losses + 1
          /\ UNCHANGED view
    /\ UNCHANGED <<author, deleted, status, last, pages, call, page>>

(* Only the author may delete; a guest cannot.                             *)
Delete(m) ==
    /\ m \in Erasable \ deleted /\ author[m] \in User
    /\ deleted' = deleted \cup {m}
    /\ UNCHANGED <<author, out, status, last, pages, queue, call, shown>>

Invoke(c, op, m) == queue' = [queue EXCEPT ![c] = Append(queue[c], [op |-> op, msg |-> m])]

(* Selecting the room: it becomes the current one, the page joins the      *)
(* group, loads the messages and then marks the room, whether or not the   *)
(* user has left again meanwhile.                                          *)
Open(c) ==
    /\ c \in live \ open /\ opening[c] = "no" /\ Len(queue[c]) < MaxQueue
    /\ open' = open \cup {c}
    /\ opening' = [opening EXCEPT ![c] = "join"]
    /\ Invoke(c, "join", 0)
    /\ UNCHANGED <<rows, status, last, live, joined, call, shown>>

Loaded(c) ==
    /\ c \in live /\ opening[c] = "load"
    /\ opening' = [opening EXCEPT ![c] = "no"]
    /\ Invoke(c, "room", 0)
    /\ UNCHANGED <<rows, status, last, live, joined, open, call, shown>>

Close(c) ==
    /\ c \in live \cap open /\ Len(queue[c]) < MaxQueue
    /\ open' = open \ {c}
    /\ Invoke(c, "leave", 0)
    /\ UNCHANGED <<rows, status, last, live, joined, opening, call, shown>>

AskOne(c, m) ==
    /\ OneByOne /\ c \in live /\ Len(queue[c]) < MaxQueue
    /\ m \in Saved
    /\ Invoke(c, "one", m)
    /\ UNCHANGED <<rows, status, last, pages, call, shown>>

(* A connection is lost with everything that waits on it; the page goes on *)
(* with another one, which OnConnectedAsync puts in all groups of its      *)
(* user.  A call that runs is not told, unless its process has ended too.  *)
Reconnect(c, d) ==
    /\ losses < MaxLosses
    /\ c \in live /\ d \in Conn \ live /\ UserOf[d] = UserOf[c] /\ call[d].pc = "idle"
    /\ losses' = losses + 1
    /\ live' = (live \ {c}) \cup {d}
    /\ joined' = (joined \ {c}) \cup {d}
    /\ open' = IF c \in open THEN (open \ {c}) \cup {d} ELSE open
    /\ opening' = [opening EXCEPT ![c] = "no",
                                  ![d] = IF opening[c] = "no" THEN "no" ELSE "load"]
    /\ queue' = [queue EXCEPT ![c] = <<>>]
    /\ call' \in {call, [call EXCEPT ![c] = Idle]}
    /\ UNCHANGED <<rows, status, last, view, page>>

----------------------------------------------------------------------------
(* The hub.                                                                *)

Takes(c, op) ==
    /\ call[c].pc = "idle" /\ queue[c] # <<>> /\ Head(queue[c]).op = op
    /\ queue' = [queue EXCEPT ![c] = Tail(queue[c])]

JoinRoom(c) ==
    /\ Takes(c, "join")
    /\ joined' = joined \cup {c}
    /\ opening' = [opening EXCEPT ![c] = IF opening[c] = "join" THEN "load" ELSE opening[c]]
    /\ UNCHANGED <<rows, status, last, live, open, call, shown>>

LeaveRoom(c) ==
    /\ Takes(c, "leave")
    /\ joined' = joined \ {c}
    /\ UNCHANGED <<rows, status, last, live, open, opening, call, shown>>

(* AcknowledgeDelivered and MarkMessageAsRead ignore the user's own        *)
(* messages and look at one row; the second reads the member's row as well. *)
MarkOne(c, op) ==
    /\ Takes(c, op)
    /\ LET u == UserOf[c]  m == Head(queue[c]).msg
       IN  IF m \notin Incoming(u) THEN UNCHANGED call
           ELSE call' = [call EXCEPT ![c] =
             [op |-> op, pc |-> "save", ids |-> {m}, left |-> {},
              seen |-> [Idle.seen EXCEPT ![m] = status[u][m]], mark |-> last[u], top |-> m]]
    /\ UNCHANGED <<rows, status, last, pages, shown>>

AcknowledgeDelivered(c) == MarkOne(c, "ack")
MarkMessageAsRead(c)    == MarkOne(c, "one")

(* MarkRoomAsRead takes the member's row and the messages after its mark,  *)
(* and then looks at their rows one by one.                                *)
UnreadButNewest(u) ==  \* fault
    {m \in Incoming(u) \ deleted : m > last[u] + 1}
Unread(u) == {m \in Incoming(u) \ deleted : m > last[u]}

MarkRoomAsRead(c) ==
    /\ Takes(c, "room")
    /\ LET u == UserOf[c]  ids == Unread(u)
       IN  \/ ids = {} /\ UNCHANGED call
           \/ \E t \in ids :
                /\ \A m \in ids : m <= t
                /\ call' = [call EXCEPT ![c] =
                     [op |-> "room", pc |-> "look", ids |-> ids, left |-> ids,
                      seen |-> Idle.seen, mark |-> last[u], top |-> t]]
    /\ UNCHANGED <<rows, status, last, pages, shown>>

Lowest(S) == {m \in S : \A n \in S : m <= n}

Look(c) ==
    /\ call[c].pc = "look"
    /\ \E m \in Lowest(call[c].left) :
         LET left == call[c].left \ {m}
         IN  call' = [call EXCEPT ![c] = [call[c] EXCEPT
                        !.left = left,
                        !.seen = [call[c].seen EXCEPT ![m] = status[UserOf[c]][m]],
                        !.pc   = IF left = {} THEN "save" ELSE "look"]]
    /\ UNCHANGED <<rows, status, last, pages, queue, shown>>

(* The grade a call gives a row it has seen.                               *)
WantedAnyway(op, seen) ==  \* fault
    IF op = "ack" THEN Delivered ELSE Read
WantedOnlyUpdates(op, seen) ==  \* fault
    IF seen = Nothing THEN Nothing ELSE IF op = "ack" THEN seen ELSE Read
Wanted(op, seen) ==
    IF op # "ack" THEN Read ELSE IF seen \in {Nothing, Sent} THEN Delivered ELSE seen

(* The unique index on message and user.                                   *)
Clashes(c) ==
    \E m \in call[c].ids : call[c].seen[m] = Nothing /\ status[UserOf[c]][m] # Nothing

(* The mark a call writes: the later of the one it read and its newest     *)
(* message, if that is a change.                                           *)
MarkOneMore(k, now) ==  \* fault
    IF k.op # "ack" /\ k.top > k.mark THEN k.top + 1 ELSE now
MarkAfter(k, now) == IF k.op # "ack" /\ k.top > k.mark THEN k.top ELSE now

ToTell(c) == {m \in call[c].ids : author[m] \in User}

Written(c, m) ==
    LET seen == call[c].seen[m]  wanted == Wanted(call[c].op, seen)
    IN  IF m \in call[c].ids /\ wanted # seen THEN wanted ELSE status[UserOf[c]][m]

Save(c) ==
    /\ call[c].pc = "save" /\ ~Clashes(c)
    /\ status' = [status EXCEPT ![UserOf[c]] = [m \in Msg |-> Written(c, m)]]
    /\ last' = [last EXCEPT ![UserOf[c]] = MarkAfter(call[c], last[UserOf[c]])]
    /\ call' = [call EXCEPT ![c] = IF ToTell(c) = {} THEN Idle
                                   ELSE [call[c] EXCEPT !.pc = "tell", !.left = ToTell(c)]]
    /\ UNCHANGED <<rows, pages, queue, shown>>

(* SaveChanges throws and nothing is written.                              *)
Clash(c) ==
    /\ call[c].pc = "save" /\ Clashes(c)
    /\ call' = [call EXCEPT ![c] = Idle]
    /\ UNCHANGED <<rows, status, last, pages, queue, shown>>

(* The page's reducer: a delivery only lifts one tick to two, a reading    *)
(* always shows; both need the message to be there.                        *)
Ticks(op, old) ==
    IF op = "ack" THEN IF old = Sent THEN Delivered ELSE old
    ELSE IF old = Nothing THEN Nothing ELSE Read

(* One event for each message; its author's page may miss it.              *)
Tell(c) ==
    /\ call[c].pc = "tell"
    /\ \E m \in Lowest(call[c].left) :
         LET left == call[c].left \ {m}
         IN  /\ \/ /\ view' = [view EXCEPT ![m] = Ticks(call[c].op, view[m])]
                   /\ UNCHANGED losses
                \/ /\ losses < MaxLosses
                   /\ losses' = losses + 1
                   /\ UNCHANGED view
             /\ call' = [call EXCEPT ![c] = IF left = {} THEN Idle
                                            ELSE [call[c] EXCEPT !.left = left]]
    /\ UNCHANGED <<rows, status, last, pages, queue, page>>

----------------------------------------------------------------------------
(* A user's page loads the messages: GetChatMessagesQuery reads, and the   *)
(* answer replaces, later, whatever the page shows.                        *)

Summary(m) ==
    LET others == {status[u][m] : u \in User \ {author[m]}}
    IN  IF Read \in others THEN Read ELSE IF Delivered \in others THEN Delivered ELSE Sent

LoadAsk(u) ==
    /\ u \in Loader /\ ~page[u].asked
    /\ page' = [page EXCEPT ![u] =
         [asked |-> TRUE,
          rows  |-> [m \in Msg |-> IF author[m] = u /\ m \notin deleted THEN Summary(m)
                                   ELSE Nothing]]]
    /\ UNCHANGED <<rows, status, last, pages, queue, call, view, losses>>

LoadApply(u) ==
    /\ page[u].asked
    /\ view' = [m \in Msg |-> IF author[m] = u THEN page[u].rows[m] ELSE view[m]]
    /\ page' = [page EXCEPT ![u] = [asked |-> FALSE, rows |-> [m \in Msg |-> Nothing]]]
    /\ UNCHANGED <<rows, status, last, pages, queue, call, losses>>

----------------------------------------------------------------------------
Init ==
    /\ author = [m \in Msg |-> Nobody]
    /\ deleted = {} /\ out = {}
    /\ status = [u \in User |-> [m \in Msg |-> Nothing]]
    /\ last = [u \in User |-> 0]
    /\ live = Conn \ Spare /\ joined = Conn \ Spare /\ open = {}
    /\ opening = [c \in Conn |-> "no"]
    /\ queue = [c \in Conn |-> <<>>]
    /\ call = [c \in Conn |-> Idle]
    /\ view = [m \in Msg |-> Nothing]
    /\ page = [u \in User |-> [asked |-> FALSE, rows |-> [m \in Msg |-> Nothing]]]
    /\ losses = 0

(* What the server does with a connection's invocations.                   *)
Serve(c) ==
    \/ JoinRoom(c) \/ LeaveRoom(c)
    \/ AcknowledgeDelivered(c) \/ MarkMessageAsRead(c) \/ MarkRoomAsRead(c)
    \/ Look(c) \/ Save(c) \/ Clash(c) \/ Tell(c)

Next ==
    \/ \E a \in Author : Post(a)
    \/ \E m \in Msg : Broadcast(m) \/ Delete(m)
    \/ \E c \in Conn : Open(c) \/ Loaded(c) \/ Close(c) \/ Serve(c)
    \/ \E c \in Conn, m \in Msg : AskOne(c, m)
    \/ \E c, d \in Conn : Reconnect(c, d)
    \/ \E u \in User : LoadAsk(u) \/ LoadApply(u)

Spec == Init /\ [][Next]_vars

(* The server runs what it has received, and a page that waits for its     *)
(* messages gets an answer or an error.                                    *)
FairSpec == Spec /\ \A c \in Conn : WF_vars(Serve(c)) /\ WF_vars(Loaded(c))

----------------------------------------------------------------------------
(* The types of the state.                                                 *)
CallRecord == [op : {"none", "ack", "one", "room"}, pc : {"idle", "look", "save", "tell"},
               ids : SUBSET Msg, left : SUBSET Msg, seen : [Msg -> Grade],
               mark : 0..MaxMsg, top : 0..MaxMsg]

TypeOK ==
    /\ author \in [Msg -> User \cup {Guest, Nobody}]
    /\ deleted \subseteq Msg /\ out \subseteq Msg
    /\ status \in [User -> [Msg -> Grade]]
    /\ last \in [User -> 0..MaxMsg]
    /\ live \subseteq Conn /\ joined \subseteq Conn /\ open \subseteq Conn
    /\ opening \in [Conn -> {"no", "join", "load"}]
    /\ queue \in [Conn -> Seq(Request)]
    /\ call \in [Conn -> CallRecord]
    /\ view \in [Msg -> Grade]
    /\ page \in [User -> [asked : BOOLEAN, rows : [Msg -> Grade]]]
    /\ losses \in 0..MaxLosses

(* A receipt never goes back: not when an acknowledgement overlaps or      *)
(* follows a reading, and not when two pages of one user overlap           *)
(* ("Only upgrade status", ChatHub.cs).                                    *)
StatusNeverGoesBack ==
    [][\A u \in User, m \in Msg : status'[u][m] >= status[u][m]]_vars

(* Two ticks and blue ticks are true: some other member has received, or   *)
(* read, what the author's page says so of, however old the answer it      *)
(* loaded and in whatever order the events came.                           *)
ReceiptsAreTrue ==
    \A m \in Msg : view[m] >= Delivered =>
        \E u \in User : u # author[m] /\ status[u][m] >= view[m]

(* A message that no longer counts as unread has a reading: whoever wrote  *)
(* it sees blue ticks.  Needs that clients mark rooms and not messages.    *)
CountedIsRead ==
    ~OneByOne => \A u \in User : \A m \in Incoming(u) \ deleted :
        m <= last[u] => status[u][m] = Read

(* A message that has reached a user all of whose pages stay on the room   *)
(* does not stay unread.                                                   *)
Lingers(u, m) == m \in (Incoming(u) \cap out) \ deleted /\ status[u][m] # Read

SeenIsRead ==
    \A u \in User, m \in Msg :
        ~<>[](Lingers(u, m) /\ \A c \in Conn : UserOf[c] = u => c \in open)

=============================================================================

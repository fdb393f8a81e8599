----------------------------- MODULE Dashboard ------------------------------
(***************************************************************************)
(* The administrator's page of chats, AdminChatDashboard.jsx: the list of  *)
(* chats by search, filters and page, and the messages of one chat.  Each  *)
(* is a machine of its own.  Answers come in any order.                    *)
(*                                                                         *)
(* The list's loadChats is made anew with the query and the page, and two  *)
(* effects depend on it: one loads at once, one half a second later.       *)
(***************************************************************************)
EXTENDS Naturals, Sequences

CONSTANTS
    Filter,   \* searches with their filters
    Chat,     \* chats
    NoChat,   \* no chat is selected
    MaxPages, \* pages of every search
    MaxLoads  \* bound: requests under way when one more is made

ASSUME DashboardAssumption ==
    NoChat \notin Chat /\ MaxPages \in Nat \ {0} /\ MaxLoads \in Nat

VARIABLES
    filter,      \* searchTerm and filters
    currentPage,
    debounce,    \* the timer of the second effect runs
    loads,       \* requests for chats, in the order they were made
    loading,     \* the list of users is hidden
    chats,       \* what the list shows
    missed,      \* the last answer was overtaken, or an error
    userShown,   \* selectedUser is set
    selectedChat,
    onlyDeleted, \* messagesIsDeletedFilter
    reads,       \* requests for messages, in their order
    chatMessages,
    misread      \* as missed, of the messages

listSide    == <<filter, currentPage, debounce, loads, loading, chats, missed>>
messageSide == <<userShown, selectedChat, onlyDeleted, reads, chatMessages, misread>>
dashboardVars == <<listSide, messageSide>>

(* A request, and whether one made after it has ended.                     *)
Query(of) == [of |-> of, late |-> FALSE]
Ended(s, i) == [j \in 1..(Len(s) - 1) |->
                  IF j < i THEN [s[j] EXCEPT !.late = TRUE] ELSE s[j + 1]]

----------------------------------------------------------------------------
(* The list.                                                               *)

(* loadChats has changed: the first effect loads, the second starts its    *)
(* timer anew.                                                             *)
LoadChats ==
    /\ loads' = Append(loads, Query(<<filter', currentPage'>>))
    /\ debounce' = TRUE /\ loading' = TRUE
    /\ UNCHANGED <<chats, missed, messageSide>>

RoomToLoad == Len(loads) < MaxLoads

SearchChats(f) ==
    /\ RoomToLoad /\ f # filter
    /\ filter' = f /\ UNCHANGED currentPage
    /\ LoadChats

(* handleApplyFilters and handleResetFilters: new filters, if only a copy. *)
ApplyFilters(f) ==
    /\ RoomToLoad
    /\ filter' = f /\ currentPage' = 1
    /\ LoadChats

TurnPage(p) ==
    /\ RoomToLoad /\ p \in {currentPage - 1, currentPage + 1} \cap 1..MaxPages
    /\ currentPage' = p /\ UNCHANGED filter
    /\ LoadChats

(* The half second is over: the page is the first again, and loaded, after *)
(* the one that was asked for.                                             *)
DebounceDue ==
    /\ debounce /\ RoomToLoad
    /\ currentPage' = 1 /\ loading' = TRUE
    /\ LET again == Append(loads, Query(<<filter, currentPage>>))
       IN  IF currentPage = 1 THEN loads' = again /\ debounce' = FALSE
           ELSE loads' = Append(again, Query(<<filter, 1>>)) /\ debounce' = TRUE
    /\ UNCHANGED <<filter, chats, missed, messageSide>>

ChatsLoaded(i) ==
    /\ loads' = Ended(loads, i) /\ loading' = FALSE
    /\ chats' = loads[i].of /\ missed' = loads[i].late
    /\ UNCHANGED <<filter, currentPage, debounce, messageSide>>

ChatsFail(i) ==
    /\ loads' = Ended(loads, i) /\ missed' = TRUE /\ loading' = FALSE
    /\ UNCHANGED <<filter, currentPage, debounce, chats, messageSide>>

----------------------------------------------------------------------------
(* The messages.  The answer names its page pageNumber, where the page     *)
(* looks for currentPage: there is never a second page to load.            *)

GetChatMessages(c, deleted) == Append(reads, Query(<<c, deleted>>))
ReadChat == reads' = GetChatMessages(selectedChat', onlyDeleted')

RoomToRead == Len(reads) < MaxLoads

(* A panel is empty until something is selected in the panel before it;    *)
(* the first is hidden by any request for chats until one is answered.     *)
UsersOffered == ~loading /\ chats # <<>>
ChatsOffered == userShown
PanelOffered == selectedChat # NoChat

(* handleUserSelect: no chat, and no messages.  A late answer fills them.  *)
SelectUser ==
    /\ UsersOffered
    /\ userShown' = TRUE
    /\ selectedChat' = NoChat /\ chatMessages' = <<>>
    /\ misread' = (reads # <<>>)
    /\ UNCHANGED <<onlyDeleted, reads, listSide>>

SelectChat(c) ==
    /\ RoomToRead /\ ChatsOffered
    /\ selectedChat' = c /\ UNCHANGED <<userShown, onlyDeleted>>
    /\ ReadChat
    /\ UNCHANGED <<chatMessages, misread, listSide>>

(* "All messages" is asked for like those that are not deleted.            *)
FilterMessages(d) ==
    /\ RoomToRead /\ PanelOffered
    /\ onlyDeleted' = d /\ UNCHANGED <<userShown, selectedChat>>
    /\ ReadChat
    /\ UNCHANGED <<chatMessages, misread, listSide>>

MessagesRead(i) ==
    /\ reads' = Ended(reads, i)
    /\ chatMessages' = reads[i].of /\ misread' = reads[i].late
    /\ UNCHANGED <<userShown, selectedChat, onlyDeleted, listSide>>

MessagesFail(i) ==
    /\ reads' = Ended(reads, i) /\ misread' = TRUE
    /\ UNCHANGED <<userShown, selectedChat, onlyDeleted, chatMessages, listSide>>

----------------------------------------------------------------------------

DashboardInit ==
    /\ filter \in Filter /\ currentPage = 1 /\ debounce = TRUE
    /\ loads = <<Query(<<filter, 1>>)>> /\ loading = TRUE /\ chats = <<>> /\ missed = FALSE
    /\ userShown = FALSE /\ selectedChat = NoChat /\ onlyDeleted = FALSE
    /\ reads = <<>> /\ chatMessages = <<>> /\ misread = FALSE

ChatsNext ==
    \/ \E f \in Filter : SearchChats(f) \/ ApplyFilters(f)
    \/ \E p \in 1..MaxPages : TurnPage(p)
    \/ DebounceDue
    \/ \E i \in DOMAIN loads : ChatsLoaded(i) \/ ChatsFail(i)

MessageNext ==
    \/ SelectUser
    \/ \E c \in Chat : SelectChat(c)
    \/ \E d \in BOOLEAN : FilterMessages(d)
    \/ \E i \in DOMAIN reads : MessagesRead(i) \/ MessagesFail(i)

DashboardNext == ChatsNext \/ MessageNext

DashboardSpec == DashboardInit /\ [][DashboardNext]_dashboardVars

----------------------------------------------------------------------------
(* Properties.                                                             *)

(* When nothing is under way, the list is the one its search, its filters  *)
(* and its page number ask for -- which is the first page, whatever page   *)
(* was turned to -- and the messages are the selected chat's, unless the   *)
(* last answer was overtaken by that of a later request, or was an error   *)
(* (loadChats, handleChatSelect).                                          *)
ListFits == loads = <<>> /\ ~debounce /\ ~missed => chats = <<filter, currentPage>> /\ currentPage = 1

MessagesFit ==
    reads = <<>> /\ ~misread /\ selectedChat # NoChat => chatMessages = <<selectedChat, onlyDeleted>>

=============================================================================

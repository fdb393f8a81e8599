----------------------------- MODULE RoomSearch -----------------------------
(***************************************************************************)
(* The search field over the list of rooms, ChatRoomList.jsx: by the pen   *)
(* it looks for users to talk to (compose), by the glass for users and     *)
(* messages (global).  Every key asks the server at once; answers come in  *)
(* any order.                                                              *)
(***************************************************************************)
EXTENDS Naturals, Sequences

CONSTANTS
    Term,     \* texts that are searched for
    NoTerm,   \* the empty field
    NoResult, \* nothing is listed
    MaxAsked  \* bound: searches under way when a key is hit

ASSUME RoomSearchAssumption ==
    NoTerm \notin Term /\ NoResult \notin Term \cup {NoTerm} /\ MaxAsked \in Nat

VARIABLES
    searchMode,  \* "none" when the field is not there
    searchTerm,
    suggesting,  \* showUserSearchResults
    blurs,       \* timers of the field that lost the focus: currentRoom then
    inRoom,      \* currentRoom
    inquiries,   \* searches under way, in their order
    users,       \* usersWithoutActiveChat: found for which text
    everything,  \* globalResults
    creating,    \* a private chat is being made
    amiss        \* in which mode the last answer was overtaken or an error,
                 \* or what was found outlived its text

roomSearchVars == <<searchMode, searchTerm, suggesting, blurs, inRoom, inquiries, users,
                    everything, creating, amiss>>

Inquiry(mode, term) == [mode |-> mode, term |-> term, late |-> FALSE]

(* Searches of one mode that another search or a cleared list overtakes,   *)
(* and what is left when one is over.                                      *)
Passed(q, mode) == [q EXCEPT !.late = q.late \/ q.mode = mode]
Overtaken(s, mode) == [j \in DOMAIN s |-> Passed(s[j], mode)]
Over(i) == [j \in 1..(Len(inquiries) - 1) |->
              IF j < i THEN Passed(inquiries[j], inquiries[i].mode) ELSE inquiries[j + 1]]

AllOvertaken == Overtaken(Overtaken(inquiries, "compose"), "global")

Inquire(mode, term) == inquiries' = Append(inquiries, Inquiry(mode, term))
MayInquire == Len(inquiries) < MaxAsked

(* What the bar above the list shows, and what is listed below it.         *)
FieldShown    == searchMode # "none"
UsersListed   == searchMode = "compose" /\ suggesting /\ users # NoResult
ResultsListed == searchMode = "global" /\ everything # NoResult

----------------------------------------------------------------------------

(* activateSearch; to compose looks for users at once, with an empty text. *)
Activate(mode) ==
    /\ ~FieldShown /\ MayInquire
    /\ searchMode' = mode
    /\ IF mode = "compose" THEN suggesting' = TRUE /\ Inquire("compose", searchTerm)
       ELSE UNCHANGED <<suggesting, inquiries>>
    /\ UNCHANGED <<searchTerm, blurs, inRoom, users, everything, creating, amiss>>

(* deactivateSearch: the arrow, or another tab.                            *)
Deactivate ==
    /\ FieldShown
    /\ searchMode' = "none" /\ suggesting' = FALSE /\ searchTerm' = NoTerm
    /\ everything' = NoResult
    /\ inquiries' = Overtaken(inquiries, "global") /\ amiss' = amiss \ {"global"}
    /\ UNCHANGED <<blurs, inRoom, users, creating>>

(* onChange.  Users are looked for only while they are listed.             *)
KeyAsks(t) ==
    IF searchMode = "compose"
    THEN /\ IF suggesting THEN Inquire("compose", t) ELSE UNCHANGED inquiries
         /\ UNCHANGED <<everything, amiss>>
    ELSE IF t # NoTerm
    THEN Inquire("global", t) /\ UNCHANGED <<everything, amiss>>
    ELSE /\ everything' = NoResult
         /\ inquiries' = Overtaken(inquiries, "global") /\ amiss' = amiss \ {"global"}

Key(t) ==
    /\ FieldShown /\ MayInquire /\ t # searchTerm
    /\ searchTerm' = t /\ KeyAsks(t)
    /\ UNCHANGED <<searchMode, suggesting, blurs, inRoom, users, creating>>

(* handleSearchBlur: after 200 milliseconds the users are listed no more,  *)
(* even if the field was opened anew meanwhile; whether the text goes too  *)
(* depends on the room that was shown when the field lost the focus.       *)
Blur ==
    /\ searchMode = "compose" /\ blurs = {}
    /\ blurs' = {inRoom}
    /\ UNCHANGED <<searchMode, searchTerm, suggesting, inRoom, inquiries, users, everything, creating, amiss>>

BlurDue ==
    /\ blurs # {} /\ blurs' = {}
    /\ suggesting' = FALSE
    /\ IF TRUE \in blurs THEN UNCHANGED <<searchTerm, inquiries, amiss>>
       ELSE /\ searchTerm' = NoTerm
            /\ inquiries' = AllOvertaken /\ amiss' = amiss \cup {"global"}
    /\ UNCHANGED <<searchMode, inRoom, users, everything, creating>>

ChangeOfRoom ==
    /\ inRoom' = ~inRoom
    /\ UNCHANGED <<searchMode, searchTerm, suggesting, blurs, inquiries, users, everything, creating, amiss>>

(* handleUserSelectForChat, of a user who is listed.                       *)
SelectUserForChat ==
    /\ ~creating /\ (UsersListed \/ ResultsListed)
    /\ creating' = TRUE
    /\ UNCHANGED <<searchMode, searchTerm, suggesting, blurs, inRoom, inquiries, users, everything, amiss>>

(* The chat is shown; the text goes, and with it the users, but not what   *)
(* was found by the glass.                                                 *)
ChatCreated ==
    /\ creating /\ creating' = FALSE
    /\ inRoom' = TRUE
    /\ searchTerm' = NoTerm /\ suggesting' = FALSE /\ users' = NoResult
    /\ inquiries' = AllOvertaken
    /\ amiss' = (amiss \ {"compose"}) \cup {"global"}
    /\ UNCHANGED <<searchMode, blurs, everything>>

ChatNotCreated ==
    /\ creating /\ creating' = FALSE
    /\ UNCHANGED <<searchMode, searchTerm, suggesting, blurs, inRoom, inquiries, users, everything, amiss>>

----------------------------------------------------------------------------

Lists(mode, what) ==
    IF mode = "compose" THEN users' = what /\ UNCHANGED everything
    ELSE everything' = what /\ UNCHANGED users

Found(i) ==
    LET x == inquiries[i]
    IN  /\ inquiries' = Over(i)
        /\ Lists(x.mode, x.term)
        /\ amiss' = IF x.late THEN amiss \cup {x.mode} ELSE amiss \ {x.mode}
        /\ UNCHANGED <<searchMode, searchTerm, suggesting, blurs, inRoom, creating>>

FindFails(i) ==
    LET x == inquiries[i]
    IN  /\ inquiries' = Over(i)
        /\ Lists(x.mode, NoResult)
        /\ amiss' = amiss \cup {x.mode}
        /\ UNCHANGED <<searchMode, searchTerm, suggesting, blurs, inRoom, creating>>

RoomSearchInit ==
    /\ searchMode = "none" /\ searchTerm = NoTerm /\ suggesting = FALSE /\ blurs = {}
    /\ inRoom \in BOOLEAN /\ inquiries = <<>> /\ users = NoResult /\ everything = NoResult
    /\ creating = FALSE /\ amiss = {}

RoomSearchNext ==
    \/ \E mode \in {"compose", "global"} : Activate(mode)
    \/ \E t \in Term \cup {NoTerm} : Key(t)
    \/ Deactivate \/ Blur \/ BlurDue \/ ChangeOfRoom
    \/ SelectUserForChat \/ ChatCreated \/ ChatNotCreated
    \/ \E i \in DOMAIN inquiries : Found(i) \/ FindFails(i)

RoomSearchSpec == RoomSearchInit /\ [][RoomSearchNext]_roomSearchVars

----------------------------------------------------------------------------
(* Properties.                                                             *)

(* When no search is under way, what is listed was found for the text in   *)
(* the field -- unless the last answer was overtaken or an error, or the   *)
(* text was taken away from under it.                                      *)
FoundFit ==
    inquiries = <<>> =>
        /\ searchMode = "compose" /\ suggesting /\ "compose" \notin amiss => users = searchTerm
        /\ searchMode = "global" /\ "global" \notin amiss =>
               everything = IF searchTerm = NoTerm THEN NoResult ELSE searchTerm

=============================================================================

------------------------------- MODULE Picker -------------------------------
(***************************************************************************)
(* The choice of members in the dialogs NewRoomModal.jsx, which makes a    *)
(* group, and GroupManagementModal.jsx, which manages one (Groups).  Both  *)
(* stay mounted while the page is shown, so that a search is answered when *)
(* they are closed, or open for another group.                             *)
(*                                                                         *)
(* A query is searched for half a second after the last key, and answers   *)
(* come in any order.  A query of less than two letters is Blank: it is    *)
(* not searched for, it clears the results.                                *)
(*                                                                         *)
(* A definition marked "fault" is no part of the system: it is the bug a   *)
(* slip in the definition after it would be.                               *)
(***************************************************************************)
EXTENDS Naturals, FiniteSets

CONSTANTS
    Word,       \* queries that are searched for
    Blank,      \* a query that is not
    Nothing,    \* no results
    MaxSearches \* bound: searches of one query under way

ASSUME PickerAssumption ==
    Blank \notin Word /\ Nothing \notin Word \cup {Blank} /\ MaxSearches \in Nat

VARIABLES
    modal,     \* the dialog: "new" or "manage"
    open,      \* show
    query,     \* searchQuery
    waiting,   \* its timer of half a second runs
    searches,  \* searches under way, of each query
    searching, \* isSearching
    results,   \* the query whose users are listed
    focused,   \* isSearchFocused
    chosen,    \* some users are selected
    saving,    \* isLoading: the group is being made
    submitted, \* isSubmitting
    crossed    \* history: a search failed, or another step overtook it

searched   == <<query, waiting, searches, searching, results, focused, crossed>>
pickerVars == <<modal, open, searched, chosen, saving, submitted>>

Queries  == Word \cup {Blank}
Underway == {q \in Queries : searches[q] > 0}

----------------------------------------------------------------------------
(* Searching.                                                              *)

(* A key; the effect on the query starts its timer anew.                   *)
Type(q) ==
    /\ open
    /\ query' = q /\ waiting' = TRUE
    /\ UNCHANGED <<modal, open, searches, searching, results, focused, chosen, saving, submitted, crossed>>

Asks(q) ==
    /\ searches[q] < MaxSearches
    /\ searches' = [searches EXCEPT ![q] = searches[q] + 1]
    /\ searching' = TRUE

(* The half second is over.                                                *)
ClearedNever == results  \* fault
Cleared == Nothing

SearchDue ==
    /\ waiting /\ waiting' = FALSE
    /\ \/ query \in Word /\ Asks(query) /\ UNCHANGED results
       \/ query = Blank /\ results' = Cleared /\ UNCHANGED <<searches, searching>>
    /\ crossed' = (crossed \/ Underway # {})
    /\ UNCHANGED <<modal, open, query, focused, chosen, saving, submitted>>

(* The field gets the focus for the first time: loadInitialUsers, if there *)
(* is nothing to show.                                                     *)
Focus ==
    /\ open /\ ~focused
    /\ focused' = TRUE
    /\ IF results = Nothing /\ ~searching
       THEN Asks(Blank) /\ crossed' = (crossed \/ Underway # {} \/ query # Blank)
       ELSE UNCHANGED <<searches, searching, crossed>>
    /\ UNCHANGED <<modal, open, query, waiting, results, chosen, saving, submitted>>

Ends(q) ==
    /\ q \in Underway
    /\ searches' = [searches EXCEPT ![q] = searches[q] - 1]
    /\ searching' = FALSE
    /\ UNCHANGED <<modal, open, query, waiting, focused, chosen, saving, submitted>>

(* The answer, with users or without.  An answer to the initial load comes *)
(* too late when a word has been typed.                                    *)
Searched(q, found) ==
    /\ Ends(q)
    /\ results' = IF found THEN q ELSE Nothing
    /\ UNCHANGED crossed

(* A search that fails leaves the users of the query before.               *)
SearchFails(q) ==
    /\ Ends(q)
    /\ crossed' = TRUE
    /\ UNCHANGED results

(* handleUserSelect of a user who is listed; removeSelectedUser.           *)
Choose ==
    /\ open /\ results # Nothing
    /\ chosen' = TRUE
    /\ UNCHANGED <<modal, open, searched, saving, submitted>>

Unchoose ==
    /\ open /\ chosen
    /\ chosen' = FALSE
    /\ UNCHANGED <<modal, open, searched, saving, submitted>>

----------------------------------------------------------------------------
(* The dialog.                                                             *)

(* An emptied query starts the timer, too.                                 *)
Emptied ==
    /\ query' = Blank /\ results' = Nothing /\ chosen' = FALSE
    /\ waiting' = (waiting \/ query # Blank)
    /\ crossed' = (crossed \/ Underway # {})
    /\ UNCHANGED <<searches, searching>>

(* Only the dialog of a new group forgets that its field had the focus.    *)
OpenDialog ==
    /\ ~open /\ open' = TRUE
    /\ Emptied
    /\ focused' = (focused /\ modal = "manage")
    /\ submitted' = FALSE
    /\ UNCHANGED <<modal, saving>>

(* By its cross or Escape, also when something is under way.               *)
CloseDialog ==
    /\ open /\ open' = FALSE
    /\ UNCHANGED <<modal, searched, chosen, saving, submitted>>

(* The management dialog empties the picker when the room changes or the   *)
(* members are added, open or not.                                         *)
EmptiedAgain ==
    /\ modal = "manage"
    /\ Emptied
    /\ UNCHANGED <<modal, open, focused, saving, submitted>>

(* handleSubmit of the new group: two flags keep a second one out, of      *)
(* which opening the dialog again takes down one.                          *)
Submit ==
    /\ modal = "new" /\ open /\ chosen /\ ~saving /\ ~submitted
    /\ saving' = TRUE /\ submitted' = TRUE
    /\ UNCHANGED <<modal, open, searched, chosen>>

Created ==
    /\ saving
    /\ saving' = FALSE /\ open' = FALSE
    /\ UNCHANGED <<modal, searched, chosen, submitted>>

NotCreated ==
    /\ saving
    /\ saving' = FALSE /\ submitted' = FALSE
    /\ UNCHANGED <<modal, open, searched, chosen>>

----------------------------------------------------------------------------

PickerInit ==
    /\ modal \in {"new", "manage"} /\ open = FALSE
    /\ query = Blank /\ waiting = TRUE /\ searches = [q \in Queries |-> 0]
    /\ searching = FALSE /\ results = Nothing /\ focused = FALSE
    /\ chosen = FALSE /\ saving = FALSE /\ submitted = FALSE /\ crossed = FALSE

PickerNext ==
    \/ \E q \in Queries : Type(q) \/ SearchFails(q)
    \/ \E q \in Queries, found \in BOOLEAN : Searched(q, found)
    \/ SearchDue \/ Focus \/ Choose \/ Unchoose
    \/ OpenDialog \/ CloseDialog \/ EmptiedAgain
    \/ Submit \/ Created \/ NotCreated

PickerSpec == PickerInit /\ [][PickerNext]_pickerVars

----------------------------------------------------------------------------
(* Properties.                                                             *)

(* When no key and no search is on its way, the users listed are those the *)
(* query asks for, whatever was typed, opened and closed before -- unless  *)
(* a search failed, or a later step overtook one: then users of an earlier *)
(* query stay listed under a later one (searchUsers).                      *)
PickedFit ==
    ~waiting /\ Underway = {} /\ ~crossed /\ results # Nothing => results = query

=============================================================================

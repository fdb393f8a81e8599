------------------------------- MODULE Groups -------------------------------
(***************************************************************************)
(* The dialog that manages a group, GroupManagementModal.jsx, and what the *)
(* server lets it do.  It stays mounted while the page is shown, so that   *)
(* its requests are answered when it is closed, or open for another group. *)
(* Its choice of users to add is in Picker; here users are chosen or not.  *)
(*                                                                         *)
(* A definition marked "fault" is no part of the system: it is the bug a   *)
(* slip in the definition after it would be.                               *)
(***************************************************************************)
EXTENDS Naturals, FiniteSets

CONSTANTS
    Group,      \* groups the user is a member of
    NoGroup,    \* no room is shown
    MaxRequests \* bound: requests under way

ASSUME GroupsAssumption == NoGroup \notin Group /\ MaxRequests \in Nat

VARIABLES
    dialog,   \* show
    group,    \* chatRoom: the room the page shows
    role,     \* the user's role in each group, as the server has it
    members,  \* the list shown: of which group, and the user's role in it
    busy,     \* isLoading
    requests, \* requests under way
    orphaned, \* history: an owner left a group
    muddled   \* history: a request failed, or began while another was shown

groupVars == <<dialog, group, role, members, busy, requests, orphaned, muddled>>

Role == {"owner", "admin", "member", "none"}

----------------------------------------------------------------------------
(* The dialog.                                                             *)

MayRequest == Cardinality(requests) < MaxRequests

Request(op) ==
    /\ MayRequest
    /\ requests' = requests \cup {[op |-> op, of |-> group', at |-> "asked", got |-> "none"]}
    /\ busy' = TRUE
    /\ muddled' = (muddled \/ (busy /\ requests # {}))

(* The effect on show and chatRoom loads the members; the list of the      *)
(* group before stays until they are there.                                *)
LoadUnseen ==
    /\ MayRequest
    /\ requests' = requests \cup {[op |-> "load", of |-> group', at |-> "asked", got |-> "none"]}
    /\ muddled' = (muddled \/ (busy /\ requests # {}))
    /\ UNCHANGED busy  \* fault
Load == Request("load")

Manage ==
    /\ ~dialog /\ group # NoGroup
    /\ dialog' = TRUE
    /\ UNCHANGED group /\ Load
    /\ UNCHANGED <<role, members, orphaned>>

CloseManage ==
    /\ dialog /\ dialog' = FALSE
    /\ UNCHANGED <<group, role, members, busy, requests, orphaned, muddled>>

(* The page goes to another room; the dialog may be open.                  *)
Enter(g) ==
    /\ g # group /\ group' = g
    /\ IF dialog /\ g # NoGroup THEN Load ELSE UNCHANGED <<busy, requests, muddled>>
    /\ UNCHANGED <<dialog, role, members, orphaned>>

IsOwner == members.role = "owner"

(* The buttons of addMembers, removeMember, updateGroupInfo, deleteGroup   *)
(* and leaveGroup; none while busy.  Without a room they throw and are     *)
(* caught.                                                                 *)
Shows(op) ==
    CASE op \in {"add", "remove", "delete"} -> IsOwner
      [] op = "update" -> members.role \in {"owner", "admin"}
      [] op = "leave"  -> ~IsOwner

Press(op) ==
    /\ dialog /\ group # NoGroup /\ ~busy /\ Shows(op)
    /\ UNCHANGED group /\ Request(op)
    /\ UNCHANGED <<dialog, role, members, orphaned>>

----------------------------------------------------------------------------
(* The server.                                                             *)

(* Anybody can leave, the owner as well; only an owner or administrator    *)
(* changes a group, and only an owner deletes it.                          *)
May(op, r) ==
    CASE op \in {"load", "added", "removed"} -> TRUE
      [] op = "leave"  -> r # "none"
      [] op = "delete" -> r = "owner"
      [] OTHER -> r \in {"owner", "admin"}

Serve(x) ==
    /\ x.at = "asked" /\ May(x.op, role[x.of])
    /\ requests' = (requests \ {x}) \cup {[x EXCEPT !.at = "served", !.got = role[x.of]]}
    /\ role' = IF x.op \in {"leave", "delete"} THEN [role EXCEPT ![x.of] = "none"] ELSE role
    /\ orphaned' = (orphaned \/ (x.op = "leave" /\ role[x.of] = "owner"))
    /\ UNCHANGED <<dialog, group, members, busy, muddled>>

(* Somebody else removes the user; nobody removes the owner.               *)
Removed(g) ==
    /\ role[g] \in {"admin", "member"}
    /\ role' = [role EXCEPT ![g] = "none"]
    /\ UNCHANGED <<dialog, group, members, busy, requests, orphaned, muddled>>

----------------------------------------------------------------------------
(* The answers.                                                            *)

Answer(x) ==
    /\ x.at = "served"
    /\ requests' = requests \ {x}
    /\ busy' = FALSE
    /\ UNCHANGED muddled

(* onGroupUpdated is of the render that asked: the page leaves whatever    *)
(* room it shows by now, and the dialog closes.                            *)
Updated == group' = NoGroup /\ dialog' = FALSE

Listed(x) == members' = [of |-> x.of, role |-> x.got]

MembersLoaded(x) ==
    /\ x.op = "load"
    /\ Answer(x) /\ Listed(x)
    /\ UNCHANGED <<dialog, group, role, orphaned>>

(* Members that were added or removed are loaded again first.              *)
MembersChanged(x) ==
    /\ x.op \in {"add", "remove"} /\ x.at = "served"
    /\ requests' = (requests \ {x}) \cup
          {[x EXCEPT !.op = IF x.op = "add" THEN "added" ELSE "removed", !.at = "asked"]}
    /\ busy' = TRUE
    /\ UNCHANGED <<dialog, group, role, members, orphaned, muddled>>

ListedAgain(x) ==
    /\ x.op \in {"added", "removed"}
    /\ Answer(x) /\ Listed(x) /\ Updated
    /\ UNCHANGED <<role, orphaned>>

GroupChanged(x) ==
    /\ x.op \in {"update", "delete", "leave"}
    /\ Answer(x) /\ Updated
    /\ UNCHANGED <<role, members, orphaned>>

(* The server refuses, or the answer is lost.  loadMembers catches, so     *)
(* that a change is reported without its list.                             *)
Fails(x) ==
    /\ requests' = requests \ {x}
    /\ busy' = FALSE /\ muddled' = TRUE
    /\ IF x.op \in {"added", "removed"} THEN Updated ELSE UNCHANGED <<dialog, group>>
    /\ UNCHANGED <<role, members, orphaned>>

----------------------------------------------------------------------------

GroupsInit ==
    /\ dialog = FALSE /\ group = NoGroup
    /\ role \in [Group -> Role \ {"none"}]
    /\ members = [of |-> NoGroup, role |-> "none"]
    /\ busy = FALSE /\ requests = {} /\ orphaned = FALSE /\ muddled = FALSE

GroupsNext ==
    \/ Manage \/ CloseManage
    \/ \E g \in Group \cup {NoGroup} : Enter(g)
    \/ \E g \in Group : Removed(g)
    \/ \E op \in {"add", "remove", "update", "delete", "leave"} : Press(op)
    \/ \E x \in requests :
          \/ Serve(x) \/ Fails(x)
          \/ MembersLoaded(x) \/ MembersChanged(x) \/ ListedAgain(x) \/ GroupChanged(x)

GroupsSpec == GroupsInit /\ [][GroupsNext]_groupVars

----------------------------------------------------------------------------
(* Properties.                                                             *)

(* No group loses its owner: the dialog hides the button from owners.  It  *)
(* knows them by the list it shows, though, so that a request that failed, *)
(* or two that overlapped, can let an owner leave, and the server agrees   *)
(* (leaveGroup, isOwner).                                                  *)
OwnerStays == orphaned => muddled

=============================================================================

------------------------------ MODULE Screens -------------------------------
(***************************************************************************)
(* The parts of the pages that keep to themselves: what one of them does   *)
(* depends on no other's state, only on its user, the browser and the      *)
(* server.  Their product says no more than each of them does, so that a   *)
(* behaviour of this module is a behaviour of one of them, its subject,    *)
(* while the others rest.                                                  *)
(***************************************************************************)
EXTENDS Composer, Typing, VoiceRecorder, MessageList, Picker, Groups, RoomSearch,
        Agents, Inspector, Dashboard, Widget

VARIABLE subject  \* the part that moves

input == <<composerVars, typingVars, voiceVars>>
rooms == <<listVars, pickerVars, groupVars, roomSearchVars>>
admin == <<agentVars, inspectorVars, dashboardVars>>
vars  == <<subject, input, rooms, admin, widgetVars>>

(* Where a part can start in several ways and is not the subject, it rests *)
(* in one of them.                                                         *)
Resting ==
    /\ subject # "recorder"  => supported
    /\ subject # "list"      => ~touch
    /\ subject \notin {"list", "place"} => last = NoMessage
    /\ subject # "picker"    => modal = "new"
    /\ subject # "group"     => \A g \in Group : role[g] = "member"
    /\ subject # "search"    => ~inRoom
    /\ subject # "agents"    => agents = {}
    /\ subject # "inspector" => \A t \in Ticket : handledBy[t] = CHOOSE c \in Clerk : TRUE
    /\ subject # "chats"     => filter = CHOOSE f \in Filter : TRUE
    /\ subject # "widget"    => ~isRegistered /\ ticketIs = "none"

Init ==
    /\ subject \in {"composer", "typing", "recorder", "list", "place", "picker", "group", "search",
                    "agents", "inspector", "chats", "widget"}
    /\ ComposerInit /\ TypingInit /\ VoiceInit
    /\ ListInit /\ PickerInit /\ GroupsInit /\ RoomSearchInit
    /\ AgentsInit /\ InspectorInit /\ DashboardInit /\ WidgetInit
    /\ Resting

(* One action for each part.                                               *)
InputLineMoves == subject = "composer" /\ ComposerNext /\ UNCHANGED <<subject, typingVars, voiceVars, rooms, admin, widgetVars>>
IndicatorMoves == subject = "typing" /\ TypingNext /\ UNCHANGED <<subject, composerVars, voiceVars, rooms, admin, widgetVars>>
RecorderMoves == subject = "recorder" /\ VoiceNext /\ UNCHANGED <<subject, composerVars, typingVars, rooms, admin, widgetVars>>
MessagesMoves == subject = "list" /\ GestureNext /\ UNCHANGED <<subject, pickerVars, groupVars, roomSearchVars, input, admin, widgetVars>>
ScrollMoves == subject = "place" /\ PlaceNext /\ UNCHANGED <<subject, pickerVars, groupVars, roomSearchVars, input, admin, widgetVars>>
MembersMoves == subject = "picker" /\ PickerNext /\ UNCHANGED <<subject, listVars, groupVars, roomSearchVars, input, admin, widgetVars>>
ManagedGroupMoves == subject = "group" /\ GroupsNext /\ UNCHANGED <<subject, listVars, pickerVars, roomSearchVars, input, admin, widgetVars>>
RoomFieldMoves == subject = "search" /\ RoomSearchNext /\ UNCHANGED <<subject, listVars, pickerVars, groupVars, input, admin, widgetVars>>
AgentTableMoves == subject = "agents" /\ AgentsNext /\ UNCHANGED <<subject, inspectorVars, dashboardVars, input, rooms, widgetVars>>
TicketPanelMoves == subject = "inspector" /\ InspectorNext /\ UNCHANGED <<subject, agentVars, dashboardVars, input, rooms, widgetVars>>
ChatPanelsMove == subject = "chats" /\ DashboardNext /\ UNCHANGED <<subject, agentVars, inspectorVars, input, rooms, widgetVars>>
SupportWindowMoves == subject = "widget" /\ WidgetNext /\ UNCHANGED <<subject, input, rooms, admin>>

Next ==
    \/ InputLineMoves \/ IndicatorMoves \/ RecorderMoves
    \/ MessagesMoves \/ ScrollMoves \/ MembersMoves \/ ManagedGroupMoves \/ RoomFieldMoves
    \/ AgentTableMoves \/ TicketPanelMoves \/ ChatPanelsMove
    \/ SupportWindowMoves

Spec == Init /\ [][Next]_vars

----------------------------------------------------------------------------
(* Properties.  Each part states its own.                                  *)

(* What a search lists was found for the text of its field, in the dialogs *)
(* of groups and over the list of rooms.                                   *)
ResultsFit == PickedFit /\ FoundFit

(* What the administrator's pages show is what the server has of what is   *)
(* selected on them.                                                       *)
AdminPagesFit == TableFits /\ PanelFits /\ ListFits /\ MessagesFit

=============================================================================

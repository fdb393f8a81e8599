----------------------------- MODULE Inspector ------------------------------
(***************************************************************************)
(* The inspector of the administrator's page AgentManagement.jsx: the      *)
(* tickets of an agent, the messages of the selected one, and the agents   *)
(* it can be transferred to.  Nothing is disabled while a request is under *)
(* way, except what its spinner hides, and answers come in any order.      *)
(***************************************************************************)
EXTENDS Naturals, FiniteSets

CONSTANTS
    Clerk,       \* agents
    Ticket,      \* tickets
    Place,       \* regions
    Unset,       \* nothing of the kind
    PlaceOf,     \* the region of each ticket, or Unset
    MaxErrands   \* bound: requests under way when a gesture starts more

ASSUME InspectorAssumption ==
    /\ Unset \notin Clerk \cup Ticket \cup Place
    /\ PlaceOf \in [Ticket -> Place \cup {Unset}]
    /\ MaxErrands \in Nat

VARIABLES
    handledBy,  \* whose each ticket is
    viewed,     \* selectedAgentForView, and the tickets listed for it
    listed,
    selected,   \* selectedTicket
    texts,      \* ticketMessages: of which tickets they are
    options,    \* availableAgents: of which region they are
    target,     \* transferAgentId: of which region it is
    spinners,   \* what is hidden while it loads
    errands,    \* requests under way
    strayed     \* history: an answer came to another selection, or failed

inspectorVars == <<handledBy, viewed, listed, selected, texts, options, target, spinners,
                   errands, strayed>>

(* A request: op, the agent, ticket or region it asks about, the agent     *)
(* viewed when the gesture was made, and the ticket it ends with.          *)
Errand(op, of, from, ticket) == [op |-> op, of |-> of, from |-> from, ticket |-> ticket]

Idle == Cardinality(errands) < MaxErrands
Rest(e) == errands \ {e}

----------------------------------------------------------------------------
(* The effect on selectedTicket: its region's agents are asked for, and    *)
(* those of the ticket before stay until they are there.                   *)
OptionsGone == options' = Unset /\ target' = Unset

Effect(ticket, asked, hidden) ==
    IF ticket = Unset \/ (ticket # Unset /\ PlaceOf[ticket] = Unset)
    THEN OptionsGone /\ errands' = asked /\ spinners' = hidden
    ELSE /\ errands' = asked \cup {Errand("options", PlaceOf[ticket], Unset, Unset)}
         /\ spinners' = hidden \cup {"options"}
         /\ UNCHANGED <<options, target>>

(* viewAgentTickets, up to its request, and with whatever follows it.      *)
ViewAgentTickets(a, then, ticket, asked) ==
    /\ viewed' = a /\ listed' = {}
    /\ spinners' = spinners \cup {"tickets"}
    /\ errands' = asked \cup {Errand(then, a, a, ticket)}

(* Its spinners hide the list of tickets and the list of agents.           *)
TicketsOffered == IF "tickets" \in spinners THEN {} ELSE listed
TargetsOffered == IF "options" \in spinners THEN {} ELSE {Unset, options}

View(a) ==
    /\ Idle
    /\ ViewAgentTickets(a, "view", Unset, errands)
    /\ UNCHANGED <<handledBy, selected, texts, options, target, strayed>>

(* The effect runs when the object selected is another, which it need not  *)
(* be when a ticket is opened again.                                       *)
OpenTicket(t) ==
    /\ Idle /\ t \in TicketsOffered
    /\ selected' = t
    /\ LET asked == errands \cup {Errand("messages", t, Unset, t)}
           hidden == spinners \cup {"messages"}
       IN  \/ Effect(t, asked, hidden)
           \/ t = selected /\ errands' = asked /\ spinners' = hidden /\ UNCHANGED <<options, target>>
    /\ UNCHANGED <<handledBy, viewed, listed, texts, strayed>>

PickTarget(x) ==
    /\ selected # Unset
    /\ x \in TargetsOffered /\ x # target
    /\ target' = x
    /\ UNCHANGED <<handledBy, viewed, listed, selected, texts, options, spinners, errands, strayed>>

(* sendMessageToTicket, closeSelectedTicket and transferSelectedTicket, of *)
(* the ticket selected when they are called.                               *)
Gesture(op, of) ==
    /\ Idle /\ selected # Unset
    /\ errands' = errands \cup {Errand(op, of, viewed, selected)}
    /\ UNCHANGED <<handledBy, viewed, listed, selected, texts, options, target, spinners, strayed>>

SendMessageToTicket    == Gesture("send", Unset)
CloseSelectedTicket    == Gesture("close", Unset)
TransferSelectedTicket == target # Unset /\ Gesture("transfer", target)

----------------------------------------------------------------------------
(* The answers.                                                            *)

OptionsLoaded(e) ==
    /\ e.op = "options"
    /\ errands' = Rest(e) /\ spinners' = spinners \ {"options"}
    /\ options' = e.of /\ target' \in {e.of, Unset}
    /\ strayed' = (strayed \/ (selected # Unset /\ PlaceOf[selected] # e.of))
    /\ UNCHANGED <<handledBy, viewed, listed, selected, texts>>

Elsewhere(e) == selected \notin {Unset, e.ticket}

TextsLoaded(e) ==
    /\ e.op \in {"messages", "reload"}
    /\ errands' = Rest(e)
    /\ spinners' = IF e.op = "messages" THEN spinners \ {"messages"} ELSE spinners
    /\ texts' = {e.ticket}
    /\ strayed' = (strayed \/ Elsewhere(e))
    /\ UNCHANGED <<handledBy, viewed, listed, selected, options, target>>

(* The message is added to whatever is shown by then.                      *)
SentToTicket(e) ==
    /\ e.op = "send"
    /\ errands' = Rest(e)
    /\ texts' = texts \cup {e.ticket}
    /\ strayed' = (strayed \/ Elsewhere(e))
    /\ UNCHANGED <<handledBy, viewed, listed, selected, options, target, spinners>>

(* The ticket is closed; the tickets are listed, of the agent viewed when  *)
(* it was asked for, and then it is selected again, without its messages.  *)
ClosedByServer(e) ==
    /\ e.op = "close"
    /\ ViewAgentTickets(e.from, "closed", e.ticket, Rest(e))
    /\ UNCHANGED <<handledBy, selected, texts, options, target, strayed>>

(* TransferChatCommand takes an agent of the ticket's region only.         *)
Transferred(e) ==
    /\ e.op = "transfer" /\ e.of = PlaceOf[e.ticket]
    /\ \E a \in Clerk : handledBy' = [handledBy EXCEPT ![e.ticket] = a]
    /\ ViewAgentTickets(e.from, "moved", e.ticket, Rest(e))
    /\ UNCHANGED <<selected, texts, options, target, strayed>>

TransferRefused(e) ==
    /\ e.op = "transfer" /\ e.of # PlaceOf[e.ticket]
    /\ errands' = Rest(e)
    /\ UNCHANGED <<handledBy, viewed, listed, selected, texts, options, target, spinners, strayed>>

(* What follows viewAgentTickets, whether it has failed or not.            *)
Follow(e, left) ==
    LET shown2 == spinners \ {"tickets"}
    IN  CASE e.op = "view"   -> selected' = left /\ Effect(left, Rest(e), shown2)
          [] e.op = "closed" -> selected' = e.ticket /\ Effect(e.ticket, Rest(e), shown2)
          [] e.op = "moved"  -> selected' = left /\
                 Effect(left, Rest(e) \cup {Errand("reload", e.ticket, Unset, e.ticket)}, shown2)

TicketsLoaded(e) ==
    /\ e.op \in {"view", "closed", "moved"}
    /\ viewed' = e.of /\ listed' = {t \in Ticket : handledBy[t] = e.of}
    /\ texts' = {}
    /\ Follow(e, Unset)
    /\ UNCHANGED <<handledBy, strayed>>

TicketsFail(e) ==
    /\ e.op \in {"closed", "moved"}
    /\ strayed' = TRUE
    /\ Follow(e, selected)
    /\ UNCHANGED <<handledBy, viewed, listed, texts>>

(* Any other request fails, or its answer is lost.                         *)
ErrandFails(e) ==
    /\ e.op \notin {"closed", "moved"}
    /\ errands' = Rest(e) /\ strayed' = TRUE
    /\ spinners' = spinners \ CASE e.op = "view"     -> {"tickets"}
                                [] e.op = "messages" -> {"messages"}
                                [] e.op = "options"  -> {"options"}
                                [] OTHER             -> {}
    /\ \/ UNCHANGED handledBy
       \/ e.op = "transfer" /\ e.of = PlaceOf[e.ticket]
          /\ \E a \in Clerk : handledBy' = [handledBy EXCEPT ![e.ticket] = a]
    /\ UNCHANGED <<viewed, listed, selected, texts, options, target>>

----------------------------------------------------------------------------

InspectorInit ==
    /\ handledBy \in [Ticket -> Clerk]
    /\ viewed = Unset /\ listed = {} /\ selected = Unset /\ texts = {}
    /\ options = Unset /\ target = Unset
    /\ spinners = {} /\ errands = {} /\ strayed = FALSE

InspectorNext ==
    \/ \E a \in Clerk : View(a)
    \/ \E t \in Ticket : OpenTicket(t)
    \/ \E x \in Place \cup {Unset} : PickTarget(x)
    \/ SendMessageToTicket \/ CloseSelectedTicket \/ TransferSelectedTicket
    \/ \E e \in errands :
          \/ OptionsLoaded(e) \/ TextsLoaded(e) \/ SentToTicket(e)
          \/ ClosedByServer(e) \/ Transferred(e) \/ TransferRefused(e)
          \/ TicketsLoaded(e) \/ TicketsFail(e) \/ ErrandFails(e)

InspectorSpec == InspectorInit /\ [][InspectorNext]_inspectorVars

----------------------------------------------------------------------------
(* Properties.                                                             *)

(* When no request is under way, the messages shown are the selected       *)
(* ticket's, and the agents it is offered to are of its region -- unless   *)
(* an answer found another ticket selected, or a request failed: then the  *)
(* administrator reads one ticket's messages under another's name, or is   *)
(* offered agents the server refuses (openTicket, sendMessageToTicket).    *)
PanelFits ==
    errands = {} /\ ~strayed /\ selected # Unset =>
        /\ texts \subseteq {selected}
        /\ options = PlaceOf[selected]
        /\ target \in {Unset, options}

=============================================================================

----------------------------- MODULE SupportDesk -----------------------------
(***************************************************************************)
(* The assignment core of the support desk: which agent owns which ticket, *)
(* who sits in the ticket's room, and the counter of active chats each     *)
(* agent carries.                                                          *)
(*                                                                         *)
(* The rows of the database are the variables agent, ticket and room.      *)
(* Every HTTP request and every cycle of the background service runs with  *)
(* an EF Core context of its own and no transaction around it, so a        *)
(* handler is a "call" that reads rows, keeps the copies it read, and      *)
(* later writes the columns it changed; other calls run in between.  One   *)
(* action is one SaveChanges together with the reads that lead to it.      *)
(*                                                                         *)
(* A definition marked "fault" is no part of the desk: it is the bug a     *)
(* slip in the definition after it would be, kept to show that the         *)
(* properties notice it.                                                   *)
(***************************************************************************)
EXTENDS Integers, FiniteSets

CONSTANTS
    Agent,          \* rows of Support_Agents that are people
    Bot,            \* the row of the virtual bot
    NoAgent,        \* a null AssignedAgentUserId
    Region,         \* regions
    NoRegion,       \* a null RegionId
    HomeRegion,     \* KciUser.RegionId of an agent; the bot has none
    ExtraRegions,   \* KciUser.UserRegions of an agent; the bot has none
    Requester,      \* registered users, agents among them, and guests who ask for support
    AskRegion,      \* the regions a chat is started from
    Call,           \* slots for handlers in flight
    Limit,          \* values an administrator gives MaxConcurrentChats
    Choice,         \* statuses an agent can be put in
    Kinds,          \* the requests that reach the desk in this instance
    Managed,        \* agents an administrator deactivates or deletes
    MaxTickets,     \* bound: tickets ever created
    MaxChats,       \* bound: the counter an agent is taken out of service with
    MaxFaults       \* bound: handlers that die half way

Staff  == Agent \cup {Bot}
Ticket == 1..MaxTickets

AgentStatus  == {"Available", "Busy", "Away", "Offline"}
TicketStatus == {"none", "Open", "InProgress", "Closed", "Transferred"}
LiveUntilTaken == {"Open"}  \* fault
Live         == {"Open", "InProgress"}
AllKinds     == {"start", "close", "transfer", "reassign", "deactivate", "delete"}

ASSUME DeskAssumption ==
    /\ Bot \notin Agent \cup Requester /\ NoAgent \notin Agent \cup Requester \cup {Bot}
    /\ NoRegion \notin Region
    /\ HomeRegion \in [Agent \cup {Bot} -> Region \cup {NoRegion}]
    /\ ExtraRegions \in [Agent \cup {Bot} -> SUBSET Region]
    /\ HomeRegion[Bot] = NoRegion /\ ExtraRegions[Bot] = {}
    /\ AskRegion \subseteq Region \cup {NoRegion}
    /\ Limit \subseteq Nat
    /\ Choice \subseteq AgentStatus
    /\ Kinds \subseteq AllKinds
    /\ Managed \subseteq Agent \cup {Bot}
    /\ MaxTickets \in Nat /\ MaxChats \in Nat /\ MaxFaults \in Nat

VARIABLES
    agent,   \* Support_Agents: [row, active, status, chats, max]
    ticket,  \* SupportTickets: [stat, owner, region, by]
    room,    \* the staff rows of ChatRoomMembers of the ticket's room
    call,    \* what each handler in flight has read and still means to do
    faults   \* handlers that have died so far

vars == <<agent, ticket, room, call, faults>>

Idle  == [op |-> "idle"]
NoRow == [row |-> "none", active |-> FALSE, status |-> "Offline", chats |-> 0, max |-> 0]

Init ==
    /\ agent = [a \in Staff |-> NoRow]
    /\ ticket = [t \in Ticket |-> [stat |-> "none", owner |-> NoAgent,
                                   region |-> NoRegion, by |-> NoAgent]]
    /\ room = [t \in Ticket |-> {}]
    /\ call = [c \in Call |-> Idle]
    /\ faults = 0

-----------------------------------------------------------------------------
(* Queries.                                                                *)

Created(t) == ticket[t].stat # "none"
IsNext(t)  == ~Created(t) /\ \A u \in Ticket : u < t => Created(u)

Covers(a, rg) == rg = NoRegion \/ HomeRegion[a] = rg \/ rg \in ExtraRegions[a]

OpenThoughInactive(a) == agent[a].row = "live" /\ agent[a].status = "Available" \* fault
OpenForWork(a) ==
    agent[a].row = "live" /\ agent[a].active /\ agent[a].status = "Available"

Free(a)         == OpenForWork(a) /\ agent[a].chats < agent[a].max

(* The WHERE clause every automatic assignment shares; the bot is left out. *)
CandidatesAnywhere(rg) == {a \in Agent : Free(a)}                         \* fault
CandidatesWithBot(rg)  == {a \in Staff : Free(a) /\ (a = Bot \/ Covers(a, rg))} \* fault
CandidatesWhenFull(rg) == {a \in Agent : OpenForWork(a) /\ Covers(a, rg)} \* fault
Candidates(rg) == {a \in Agent : Free(a) /\ Covers(a, rg)}

(* ORDER BY CurrentActiveChats; the tie-break by LastActivityAt is left open. *)
LeastBusy(S, rows) == {a \in S : \A b \in S : rows[a].chats <= rows[b].chats}

BotIsNobody == NoAgent  \* fault
BotIfActive ==
    IF agent[Bot].row = "live" /\ agent[Bot].active THEN Bot ELSE NoAgent

(* The change tracker: a row that is already loaded keeps the values it had. *)
Track(copies, S, rows) ==
    [x \in DOMAIN copies \cup S |-> IF x \in DOMAIN copies THEN copies[x] ELSE rows[x]]

(* A tracked agent takes one more chat. *)
TakeChat(copy) ==
    [copy EXCEPT !.chats = @ + 1,
                 !.status = IF copy.chats + 1 >= copy.max THEN "Busy" ELSE @]

(* UPDATE writes exactly the columns whose tracked value differs from the loaded one. *)
WriteAgent(row, loaded, now) ==
    [row EXCEPT !.chats  = IF now.chats  # loaded.chats  THEN now.chats  ELSE @,
                !.status = IF now.status # loaded.status THEN now.status ELSE @]

WriteWholeTicket(row, loaded, now) == now  \* fault
WriteTicket(row, loaded, now) ==
    [row EXCEPT !.stat  = IF now.stat  # loaded.stat  THEN now.stat  ELSE @,
                !.owner = IF now.owner # loaded.owner THEN now.owner ELSE @]

(* An UPDATE of a deleted row, or a foreign key to one, makes SaveChanges throw. *)
RowLives(a) == agent[a].row = "live"
KeyHolds(a) == a # NoAgent => RowLives(a)

Return(c) == call' = [call EXCEPT ![c] = Idle]
Go(c, rec) == call' = [call EXCEPT ![c] = rec]

(* The handler ends in an exception: nothing of this SaveChanges is written. *)
Throw(c) == Return(c) /\ UNCHANGED <<agent, ticket, room, faults>>

-----------------------------------------------------------------------------
(* Starting a support chat.                                                *)

InFlightStarts == {c \in Call : call[c].op = "start"}
CreatedTickets == {t \in Ticket : Created(t)}

(* The requester has no live ticket; the bot is created if it is missing; the
   best agent is read, or else the bot, which is never counted. *)
StartLookup(c, r, rg) ==
    /\ call[c] = Idle
    /\ Cardinality(CreatedTickets) + Cardinality(InFlightStarts) < MaxTickets
    /\ ~ \E t \in Ticket : ticket[t].by = r /\ ticket[t].stat \in Live
    /\ agent' = IF agent[Bot].row = "live" THEN agent
                ELSE [agent EXCEPT ![Bot] = [row |-> "live", active |-> TRUE,
                        status |-> "Available", chats |-> 0, max |-> 9999]]
    /\ \/ \E a \in LeastBusy(Candidates(rg), agent) :
             Go(c, [op |-> "start", pc |-> "picked", by |-> r, region |-> rg,
                    owner |-> a, copy |-> agent[a]])
       \/ /\ Candidates(rg) = {}
          /\ Go(c, [op |-> "start", pc |-> "reserved", by |-> r, region |-> rg,
                    owner |-> BotIfActive', copy |-> NoRow])
    /\ UNCHANGED <<ticket, room, faults>>

(* SaveChanges of GetBestAvailableAgentAsync: the counter is taken first. *)
StartReserve(c) ==
    /\ call[c].op = "start" /\ call[c].pc = "picked"
    /\ LET k == call[c]
       IN \/ /\ RowLives(k.owner)
             /\ agent' = [agent EXCEPT
                    ![k.owner] = WriteAgent(@, k.copy, TakeChat(k.copy))]
             /\ Go(c, [k EXCEPT !.pc = "reserved"])
             /\ UNCHANGED <<ticket, room, faults>>
          \/ ~RowLives(k.owner) /\ Throw(c)

(* The room, its members and the ticket, which is Open whoever owns it.  Who
   asks is a member too, and so an agent who asks and has been chosen for the
   own chat would be one twice: the unique index makes the save throw. *)
StartCreate(c) ==
    /\ call[c].op = "start" /\ call[c].pc = "reserved"
    /\ LET k == call[c]
           saves == KeyHolds(k.owner) /\ k.owner # k.by
       IN \/ /\ saves
             /\ \E t \in Ticket :
                   /\ IsNext(t)
                   /\ ticket' = [ticket EXCEPT ![t] = [stat |-> "Open",
                          owner |-> k.owner, region |-> k.region, by |-> k.by]]
                   /\ room' = [room EXCEPT ![t] = {k.owner, k.by} \cap Staff]
             /\ Return(c)
             /\ UNCHANGED <<agent, faults>>
          \/ ~saves /\ Throw(c)

-----------------------------------------------------------------------------
(* Closing a ticket: whatever its status, by any agent or administrator.   *)

CloseLoad(c, t) ==
    /\ call[c] = Idle /\ Created(t)
    /\ Go(c, [op |-> "close", t |-> t, loaded |-> ticket[t],
              copy |-> IF ticket[t].owner = NoAgent THEN NoRow
                       ELSE agent[ticket[t].owner]])
    /\ UNCHANGED <<agent, ticket, room, faults>>

(* There is an owner with a chat to take off its counter. *)
CountedAtZero(k) == k.loaded.owner # NoAgent  \* fault
CountedNever(k)  == FALSE                     \* fault
Counted(k) == k.loaded.owner # NoAgent /\ k.copy.chats > 0

(* The owner's counter goes down and a full agent becomes available again. *)
ReleaseChat(copy) ==
    [copy EXCEPT !.chats = @ - 1,
                 !.status = IF @ = "Busy" /\ copy.chats - 1 < copy.max THEN "Available" ELSE @]

CloseSave(c) ==
    /\ call[c].op = "close"
    /\ LET k == call[c]
           a == k.loaded.owner
       IN \/ /\ Counted(k) => RowLives(a)
             /\ ticket' = [ticket EXCEPT ![k.t] =
                    WriteTicket(@, k.loaded, [k.loaded EXCEPT !.stat = "Closed"])]
             /\ agent' = IF Counted(k)
                         THEN [agent EXCEPT ![a] = WriteAgent(@, k.copy, ReleaseChat(k.copy))]
                         ELSE agent
             /\ Return(c)
             /\ UNCHANGED <<room, faults>>
          \/ Counted(k) /\ ~RowLives(a) /\ Throw(c)

-----------------------------------------------------------------------------
(* Transferring a ticket to a named agent.                                 *)

(* No look at the ticket's status, the agent's status or capacity.  Only the
   home region counts: UserRegions is not loaded by this query. *)
TransferAnywhere(c, t, a) ==                                             \* fault
    /\ call[c] = Idle /\ Created(t) /\ RowLives(a)
    /\ Go(c, [op |-> "transfer", t |-> t, to |-> a, loaded |-> ticket[t], members |-> room[t]])
    /\ UNCHANGED <<agent, ticket, room, faults>>
TransferLoad(c, t, a) ==
    /\ call[c] = Idle /\ Created(t) /\ RowLives(a)
    /\ ticket[t].region \in {NoRegion, HomeRegion[a]}
    /\ Go(c, [op |-> "transfer", t |-> t, to |-> a, loaded |-> ticket[t], members |-> room[t]])
    /\ UNCHANGED <<agent, ticket, room, faults>>

(* The old agent's membership row is deleted; the new one is inserted unless the
   members loaded before, the deleted one included, hold the agent already. *)
TransferSave(c) ==
    /\ call[c].op = "transfer"
    /\ LET k == call[c]
           leaving  == {k.loaded.owner} \cap k.members
           entering == {k.to} \ k.members
           saves == /\ RowLives(k.to)
                    /\ leaving \subseteq room[k.t]
                    /\ entering \cap room[k.t] = {}
       IN \/ /\ saves
             /\ ticket' = [ticket EXCEPT ![k.t] = WriteTicket(@, k.loaded,
                    [k.loaded EXCEPT !.owner = k.to, !.stat = "Transferred"])]
             /\ room' = [room EXCEPT ![k.t] = (@ \ leaving) \cup entering]
             /\ Return(c)
             /\ UNCHANGED <<agent, faults>>
          \/ ~saves /\ Throw(c)

-----------------------------------------------------------------------------
(* A cycle that hands the bot's tickets to people: every 30 seconds, and    *)
(* whenever an agent declares itself Available.                             *)

BotTicketsAndDone == {t \in Ticket : ticket[t].owner = Bot}     \* fault
BotTickets == {t \in Ticket : ticket[t].owner = Bot /\ ticket[t].stat \in Live}

ActiveAgents == {a \in Agent : RowLives(a) /\ agent[a].active}

ReassignBegin(c) ==
    /\ call[c] = Idle /\ BotTickets # {}
    /\ Go(c, [op |-> "reassign", left |-> BotTickets,
              loaded |-> [t \in BotTickets |-> ticket[t]],
              copies |-> [a \in ActiveAgents |-> agent[a]]])
    /\ UNCHANGED <<agent, ticket, room, faults>>

Oldest(S) == CHOOSE t \in S : \A u \in S : t <= u

(* When the last ticket of the list is done the cycle is over. *)
ContinueNever(c, k) == Go(c, Idle)  \* fault
Continue(c, k) == Go(c, IF k.left = {} THEN Idle ELSE k)

SeatedNowhere(t, a) == room  \* fault
Seated(t, a) == [room EXCEPT ![t] = @ \cup {a}]

(* The next ticket of the list: the WHERE clause runs on the database, the
   order and the new counter come from the tracked copies.  The room's members
   are not loaded, so the new member is always inserted, the bot's membership
   is never removed, and an agent already in the room makes the cycle throw. *)
ReassignNext(c) ==
    /\ call[c].op = "reassign"
    /\ LET k == call[c]
           t == Oldest(k.left)
           copies == Track(k.copies, Candidates(NoRegion), agent)
           rest == [k EXCEPT !.left = @ \ {t}, !.copies = copies]
           able == Candidates(k.loaded[t].region)
       IN \/ able = {} /\ Continue(c, rest) /\ UNCHANGED <<agent, ticket, room, faults>>
          \/ \E a \in LeastBusy(able, copies) :
                \/ /\ a \notin room[t]
                   /\ agent' = [agent EXCEPT
                          ![a] = WriteAgent(@, copies[a], TakeChat(copies[a]))]
                   /\ ticket' = [ticket EXCEPT ![t] = WriteTicket(@, k.loaded[t],
                          [k.loaded[t] EXCEPT !.owner = a, !.stat = "InProgress"])]
                   /\ room' = Seated(t, a)
                   /\ Continue(c, [rest EXCEPT !.copies[a] = TakeChat(@)])
                   /\ UNCHANGED faults
                \/ a \in room[t] /\ Throw(c)
-----------------------------------------------------------------------------
(* An agent leaves: an administrator deactivates or deletes it.             *)

TicketsOf(a, stats) == {t \in Ticket : ticket[t].owner = a /\ ticket[t].stat \in stats}

(* UpdateAgentStatusAsync(Offline) has the status in memory only; its queries
   see the agent as the database still has it.  now/base are the tracked
   tickets and what the database has of them, self/was the same of the agent. *)
LeaveRecord(a, row, delete) ==
    LET mine == TicketsOf(a, Live)
    IN [op |-> "leave", who |-> a, delete |-> delete, pc |-> "handoff", left |-> mine,
        was |-> row, self |-> [row EXCEPT !.status = "Offline"],
        copies |-> [x \in {} |-> NoRow],
        base |-> [t \in mine |-> ticket[t]], now |-> [t \in mine |-> ticket[t]]]

(* UpdateSupportAgentCommand: IsActive = false is saved before the hand-off. *)
DeactivateBegin(c, a) ==
    /\ call[c] = Idle /\ RowLives(a) /\ agent[a].active
    /\ agent' = [agent EXCEPT ![a].active = FALSE]
    /\ Go(c, LeaveRecord(a, agent'[a], FALSE))
    /\ UNCHANGED <<ticket, room, faults>>

DeleteBegin(c, a) ==
    /\ call[c] = Idle /\ RowLives(a)
    /\ Go(c, LeaveRecord(a, agent[a], TRUE))
    /\ UNCHANGED <<agent, ticket, room, faults>>

(* SaveChanges of everything tracked that has changed since the last one. *)
Dirty(k) == {t \in DOMAIN k.now : k.now[t] # k.base[t]}
CanSave(k) ==
    /\ k.self # k.was => RowLives(k.who)
    /\ \A t \in Dirty(k) : KeyHolds(k.now[t].owner)
SavedTickets(k) ==
    [t \in Ticket |-> IF t \in Dirty(k) THEN WriteTicket(ticket[t], k.base[t], k.now[t])
                      ELSE ticket[t]]
SavedSelf(k, rows) == [rows EXCEPT ![k.who] = WriteAgent(@, k.was, k.self)]
Clean(k) == [k EXCEPT !.was = k.self, !.base = k.now]

HandedOverOwnerOnly(x, pc, b) == [x EXCEPT !.owner = b]  \* fault

(* The new owner in memory; the hand-off also sets the status, the sweep of
   the deletion does not. *)
HandedOver(x, pc, b) ==
    [x EXCEPT !.owner = b,
              !.stat = CASE pc = "sweep"                    -> @
                         [] pc = "handoff" /\ b = NoAgent -> "Open"
                         [] OTHER -> IF @ = "Open" THEN "InProgress" ELSE @]

Assign(k, t, b) == [k EXCEPT !.left = @ \ {t}, !.now[t] = HandedOver(@, k.pc, b)]

(* GetBestAvailableAgentAsync has chosen the person b, which may be the leaving
   agent itself: what the handler tracks now, and b's row after the save. *)
Busier(k, b) ==
    LET copies == Track(k.copies, {b}, agent)
    IN IF b = k.who THEN [k EXCEPT !.self = TakeChat(@)]
       ELSE [k EXCEPT !.copies = [copies EXCEPT ![b] = TakeChat(@)]]
BusierRows(k, b) ==
    LET copies == Track(k.copies, {b}, agent)
    IN IF b = k.who THEN agent
       ELSE [agent EXCEPT ![b] = WriteAgent(@, copies[b], TakeChat(copies[b]))]

(* One ticket of the loop.  A person found is saved at once, with all that was
   pending; the bot, or nobody, is only noted in memory until the next save. *)
LeaveNext(c) ==
    /\ call[c].op = "leave" /\ call[c].left # {}
    /\ LET k == call[c]
           t == Oldest(k.left)
           able == Candidates(k.now[t].region)
       IN \/ /\ able = {}
             /\ Go(c, Assign(k, t, BotIfActive))
             /\ UNCHANGED <<agent, ticket, room, faults>>
          \/ \E b \in LeastBusy(able, agent) :
                \/ /\ CanSave(Busier(k, b))
                   /\ agent' = SavedSelf(Busier(k, b), BusierRows(k, b))
                   /\ ticket' = SavedTickets(Busier(k, b))
                   /\ Go(c, Assign(Clean(Busier(k, b)), t, b))
                   /\ UNCHANGED <<room, faults>>
                \/ ~CanSave(Busier(k, b)) /\ Throw(c)

(* The end of UpdateAgentStatusAsync; a deletion goes on with every ticket the
   agent still owns, closed ones included. *)
LeaveSettle(c) ==
    /\ call[c].op = "leave" /\ call[c].left = {} /\ call[c].pc = "handoff"
    /\ LET k == [call[c] EXCEPT !.self.chats = 0]
           stuck == {t \in Ticket : SavedTickets(k)[t].owner = k.who}
           sweep == [Clean(k) EXCEPT !.pc = "sweep", !.left = stuck,
                        !.base = Track(k.now, stuck, SavedTickets(k)),
                        !.now  = Track(k.now, stuck, SavedTickets(k))]
       IN \/ /\ CanSave(k)
             /\ agent' = SavedSelf(k, agent)
             /\ ticket' = SavedTickets(k)
             /\ Go(c, IF k.delete THEN sweep ELSE Idle)
             /\ UNCHANGED <<room, faults>>
          \/ ~CanSave(k) /\ Throw(c)

(* The sweep is saved, and then the row is removed: tracked tickets that still
   point to it lose their owner; a ticket it has gained meanwhile holds the key
   and makes the DELETE throw, with the sweep already saved. *)
DeleteSweep(c) ==
    /\ call[c].op = "leave" /\ call[c].left = {} /\ call[c].pc = "sweep"
    /\ LET k == call[c]
       IN \/ /\ CanSave(k)
             /\ agent' = SavedSelf(k, agent)
             /\ ticket' = SavedTickets(k)
             /\ Go(c, [Clean(k) EXCEPT !.pc = "remove"])
             /\ UNCHANGED <<room, faults>>
          \/ ~CanSave(k) /\ Throw(c)

DeleteRemove(c) ==
    /\ call[c].op = "leave" /\ call[c].pc = "remove"
    /\ LET k == call[c]
           own == {t \in DOMAIN k.now : k.now[t].owner = k.who}
           removes == RowLives(k.who) /\ \A t \in Ticket \ own : ticket[t].owner # k.who
       IN \/ /\ removes
             /\ ticket' = [t \in Ticket |-> IF t \in own
                                THEN [ticket[t] EXCEPT !.owner = NoAgent] ELSE ticket[t]]
             /\ agent' = [agent EXCEPT ![k.who] = [NoRow EXCEPT !.row = "gone"]]
             /\ Return(c)
             /\ UNCHANGED <<room, faults>>
          \/ ~removes /\ Throw(c)

-----------------------------------------------------------------------------
(* Handlers of a single save.                                               *)

(* CreateSupportAgentCommand.  A row that was deleted does not come back: a new
   row has a new key. *)
Hire(a, m) ==
    /\ agent[a].row = "none"
    /\ agent' = [agent EXCEPT ![a] = [row |-> "live", active |-> TRUE,
                                      status |-> "Offline", chats |-> 0, max |-> m]]
    /\ UNCHANGED <<ticket, room, call, faults>>

(* UpdateSupportAgentCommand without a deactivation. *)
Reactivate(a) ==
    /\ RowLives(a) /\ ~agent[a].active
    /\ agent' = [agent EXCEPT ![a].active = TRUE]
    /\ UNCHANGED <<ticket, room, call, faults>>

SetLimit(a, m) ==
    /\ RowLives(a)
    /\ agent' = [agent EXCEPT ![a].max = m]
    /\ UNCHANGED <<ticket, room, call, faults>>

(* SetManualStatusAsync by an active agent, and the monitor that puts an agent
   whose manual status has expired back to a detected one. *)
SetStatus(a, s) ==
    /\ RowLives(a) /\ agent[a].active
    /\ agent' = [agent EXCEPT ![a].status = s]
    /\ UNCHANGED <<ticket, room, call, faults>>

(* The process dies, or a query or save throws, between two saves of a call. *)
Die(c) ==
    /\ call[c] # Idle /\ faults < MaxFaults
    /\ faults' = faults + 1
    /\ Return(c)
    /\ UNCHANGED <<agent, ticket, room>>

-----------------------------------------------------------------------------
Step(c) ==
    \/ StartReserve(c) \/ StartCreate(c)
    \/ CloseSave(c) \/ TransferSave(c) \/ ReassignNext(c)
    \/ LeaveNext(c) \/ LeaveSettle(c) \/ DeleteSweep(c) \/ DeleteRemove(c)

Arrive(c) ==
    \/ "start" \in Kinds /\ \E r \in Requester, rg \in AskRegion : StartLookup(c, r, rg)
    \/ "close" \in Kinds /\ \E t \in Ticket : CloseLoad(c, t)
    \/ "transfer" \in Kinds /\ \E t \in Ticket, a \in Staff : TransferLoad(c, t, a)
    \/ "reassign" \in Kinds /\ ReassignBegin(c)
    \/ "deactivate" \in Kinds /\ \E a \in Managed :
           agent[a].chats <= MaxChats /\ DeactivateBegin(c, a)
    \/ "delete" \in Kinds /\ \E a \in Managed :
           agent[a].chats <= MaxChats /\ DeleteBegin(c, a)

Settings ==
    \/ \E a \in Agent, m \in Limit : Hire(a, m) \/ SetLimit(a, m)
    \/ \E a \in Staff : Reactivate(a)
    \/ \E a \in Agent, s \in Choice : SetStatus(a, s)

Next == Settings \/ \E c \in Call : Step(c) \/ Arrive(c) \/ Die(c)

Spec == Init /\ [][Next]_vars

-----------------------------------------------------------------------------
(* Properties.                                                              *)

AgentRow  == [row : {"none", "live", "gone"}, active : BOOLEAN,
              status : AgentStatus, chats : Nat, max : Nat]
TicketRow == [stat : TicketStatus, owner : Staff \cup {NoAgent},
              region : Region \cup {NoRegion}, by : Requester \cup {NoAgent}]

(* Tracked copies of some of the rows S. *)
CopiesOf(f, S, Row) == DOMAIN f \subseteq S /\ f \in [DOMAIN f -> Row]

StartCall    == [op : {"start"}, pc : {"picked", "reserved"}, by : Requester,
                 region : AskRegion, owner : Staff \cup {NoAgent}, copy : AgentRow]
CloseCall    == [op : {"close"}, t : Ticket, loaded : TicketRow, copy : AgentRow]
TransferCall == [op : {"transfer"}, t : Ticket, to : Staff, loaded : TicketRow,
                 members : SUBSET Staff]

StartOK(k)    == k \in StartCall /\ (k.pc = "picked" => k.owner \in Agent)
CloseOK(k)    == k \in CloseCall
TransferOK(k) == k \in TransferCall

ReassignOK(k) ==
    /\ k \in [op : {"reassign"}, left : SUBSET Ticket, loaded : {k.loaded}, copies : {k.copies}]
    /\ CopiesOf(k.loaded, Ticket, TicketRow) /\ CopiesOf(k.copies, Agent, AgentRow)
    /\ k.left # {} /\ k.left \subseteq DOMAIN k.loaded

LeaveOK(k) ==
    /\ k \in [op : {"leave"}, who : Staff, delete : BOOLEAN, pc : {"handoff", "sweep", "remove"},
              left : SUBSET Ticket, was : AgentRow, self : AgentRow,
              copies : {k.copies}, base : {k.base}, now : {k.now}]
    /\ CopiesOf(k.copies, Agent, AgentRow)
    /\ CopiesOf(k.base, Ticket, TicketRow) /\ CopiesOf(k.now, Ticket, TicketRow)
    /\ DOMAIN k.base = DOMAIN k.now /\ k.left \subseteq DOMAIN k.now
    /\ k.pc = "remove" => k.left = {} /\ k.base = k.now

CallOK(k) ==
    \/ k = Idle
    \/ k.op = "start" /\ StartOK(k)
    \/ k.op = "close" /\ CloseOK(k)
    \/ k.op = "transfer" /\ TransferOK(k)
    \/ k.op = "reassign" /\ ReassignOK(k)
    \/ k.op = "leave" /\ LeaveOK(k)

CallsOK == call = [c \in Call |-> call[c]] /\ \A c \in Call : CallOK(call[c])

(* Every row and every tracked copy has the columns of its entity. *)
TypeOK ==
    /\ agent \in [Staff -> AgentRow]
    /\ ticket \in [Ticket -> TicketRow]
    /\ room \in [Ticket -> SUBSET Staff]
    /\ CallsOK
    /\ faults \in 0..MaxFaults

(* Nobody outside a ticket's region ever owns it or sits in its room, but who has
   asked, whatever stale copies the handlers write and however they interleave. *)
RegionIsolation ==
    \A t \in Ticket : \A a \in Agent :
        ticket[t].owner = a \/ a \in room[t] \ {ticket[t].by} => Covers(a, ticket[t].region)

(* The bot is unlimited: no path ever counts a chat of the bot. *)
BotNeverCounted == agent[Bot].chats = 0

(* Automatic assignment fills an agent up to its limit and not beyond it. *)
CapacityRespected == \A a \in Agent : agent[a].chats <= agent[a].max

(* A ticket that nobody owns and nobody has closed waits as Open. *)
UnownedIsOpen ==
    \A t \in Ticket : Created(t) /\ ticket[t].owner = NoAgent
                      => ticket[t].stat \in {"Open", "Closed"}

(* Who comes back while a chat is under way is led to it: a requester never has
   two chats that are Open or InProgress. *)
OneLiveChat ==
    \A t, u \in Ticket :
        ticket[t].stat \in {"Open", "InProgress"} /\ ticket[u].stat \in {"Open", "InProgress"}
            => t = u \/ ticket[t].by # ticket[u].by

AllIdle == \A c \in Call : call[c] = Idle

OpenTicketsOf(a) == {t \in Ticket : ticket[t].owner = a /\ ticket[t].stat # "Closed"}

(* Chats call c has counted at agent a, as <<c, ticket>>, and not yet given it. *)
Promised(c, a) ==
    CASE call[c].op = "start" -> IF call[c].pc = "reserved" /\ call[c].owner = a THEN {<<c, 0>>} ELSE {}
      [] call[c].op = "leave" -> {<<c, t>> : t \in {u \in Dirty(call[c]) : call[c].now[u].owner = a}}
      [] OTHER -> {}

(* The chats an agent's counter has beyond its tickets and those it is about to get. *)
Unbacked(a) == agent[a].chats - Cardinality(OpenTicketsOf(a))
                              - Cardinality(UNION {Promised(c, a) : c \in Call})

(* Capacity is lost in three places only.  An agent's counter runs ahead of its
   tickets when a handler that has counted a chat ends before it gives the agent
   the ticket, by a crash or because the agent itself had asked for the chat; when
   a transfer takes a ticket away, which counts nothing; and while the agent's
   own departure is under way, which sets the counter to zero at its end. *)
CapacityLost ==
    [][\A a \in Agent : Unbacked(a)' > Unbacked(a) /\ Unbacked(a)' > 0 =>
          \E c \in Call : \/ Promised(c, a) # {} /\ call'[c] = Idle /\ ticket' = ticket
                          \/ TransferSave(c) /\ call[c].loaded.owner = a
                          \/ call[c].op = "leave" /\ call[c].who = a]_vars

(* Who is deactivated, and not brought back meanwhile, keeps no ticket under way
   when the hand-over is through: it is inactive in the database before a successor
   is looked for, so that neither an agent nor the bot succeeds itself. *)
NothingLeftBehind ==
    [][\A c \in Call, t \in Ticket :
          LeaveSettle(c) /\ ~call[c].delete /\ ~agent[call[c].who].active
              => ticket'[t].owner # call[c].who \/ ticket'[t].stat \notin Live]_vars

(* The owner of a ticket under way is a member of its room and can answer. *)
OwnerSitsInRoom ==
    \A t \in Ticket : ticket[t].stat \in Live /\ ticket[t].owner # NoAgent
                      => ticket[t].owner \in room[t]

(* Call c has a copy of agent a that is not a's row any more. *)
HoldsOld(c, a) ==
    LET k == call[c]
    IN \/ k.op = "start" /\ k.owner = a /\ k.copy # agent[a]
       \/ k.op = "close" /\ k.loaded.owner = a /\ k.copy # agent[a]
       \/ k.op = "reassign" /\ a \in DOMAIN k.copies /\ k.copies[a] # agent[a]
       \/ k.op = "leave" /\ a \in DOMAIN k.copies /\ k.copies[a] # agent[a]
       \/ k.op = "leave" /\ k.who = a /\ k.was # agent[a]

(* However handlers overlap, an agent gets more chats than its limit only when the
   limit is lowered, or from a handler that counts on an old copy of the agent:
   the test of the limit and the counting never disagree about a fresh one. *)
OverfilledByStaleCopyOnly ==
    [][\A a \in Agent : agent[a].chats <= agent[a].max /\ agent'[a].chats > agent'[a].max
          => \/ agent'[a].max < agent[a].max
             \/ \E c \in Call : HoldsOld(c, a) /\ call'[c] # call[c]]_vars

(* A ticket loses its owner only when the owner's row is deleted. *)
NeverAbandoned ==
    [][\A t \in Ticket : LET a == ticket[t].owner
          IN a # NoAgent /\ ticket'[t].owner = NoAgent => agent'[a].row = "gone"]_vars

(* The tickets whose unfinished copy call c still holds. *)
HoldsLive(c, t) ==
    \/ call[c].op = "reassign" /\ t \in DOMAIN call[c].loaded /\ call[c].loaded[t].stat \in Live
    \/ call[c].op = "leave" /\ t \in DOMAIN call[c].base /\ call[c].base[t].stat \in Live

(* The worst an overlap can do to a finished ticket: it comes back to life only
   through a handler that had read it before it was finished. *)
RevivedByStaleCopyOnly ==
    [][\A t \in Ticket : ticket[t].stat \in {"Closed", "Transferred"} /\ ticket'[t].stat \in Live
                         => \E c \in Call : HoldsLive(c, t) /\ call'[c] # call[c]]_vars

(* The states of ticket t that call k has read, or written, and may still change. *)
Reads(k, t) ==
    CASE k.op \in {"close", "transfer"} -> IF k.t = t THEN {k.loaded} ELSE {}
      [] k.op = "reassign" -> IF t \in k.left THEN {k.loaded[t]} ELSE {}
      [] k.op = "leave" -> IF t \in DOMAIN k.base THEN {k.base[t]} ELSE {}
      [] OTHER -> {}

Held(t) == UNION {Reads(call[c], t) : c \in Call}

(* The desk implements the life of a ticket: the strict one while one handler
   runs at a time; the loose one, whose changes start from what somebody has
   read, however handlers overlap. *)
Life == INSTANCE TicketLife WITH
            Person <- Agent, Nobody <- NoAgent, life <- ticket,
            held <- [t \in Ticket |-> Held(t)],
            Serves <- {p \in Agent \X (Region \cup {NoRegion}) : Covers(p[1], p[2])}

LifeWhenSerial == Life!Spec
LifeWhenOverlapping == Life!LooseSpec

-----------------------------------------------------------------------------
(* Fairness.  A handler that has begun goes on, and the background service
   comes round every 30 seconds.  It has a thread of its own: that all slots of
   Call may be taken when it is due is an artefact of the bound, hence the
   strong fairness. *)
Fairness ==
    /\ \A c \in Call : WF_vars(Step(c))
    /\ SF_vars(\E c \in Call : ReassignBegin(c))

FairSpec == Spec /\ Fairness

(* No ticket stays with the bot for ever while one same agent could take it. *)
BotQueueDrains ==
    \A t \in Ticket, a \in Agent :
        []<>~(t \in BotTickets /\ Free(a) /\ Covers(a, ticket[t].region))

(* Somebody sits already in the room of a ticket the cycle may choose it for. *)
Jammed == \E t \in BotTickets : Candidates(ticket[t].region) \cap room[t] # {}

(* Nor does it while the queue moves: all that can hold it up for ever is a ticket
   in it that would go to somebody who is in the ticket's room, as the one who
   asked or as a former owner, and holds up every ticket after it. *)
BotQueueMoves ==
    \A t \in Ticket, a \in Agent :
        []<>~(t \in BotTickets /\ Free(a) /\ Covers(a, ticket[t].region) /\ ~Jammed)
=============================================================================

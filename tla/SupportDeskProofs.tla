-------------------------- MODULE SupportDeskProofs --------------------------
(***************************************************************************)
(* Theorems about SupportDesk for any number of agents, requesters and     *)
(* tickets: first those that hold of any number of overlapping handlers,   *)
(* then those of handlers that run one after the other (Serial).           *)
(***************************************************************************)
EXTENDS SupportDesk, FiniteSetTheorems, WellFoundedInduction, TLAPS

-----------------------------------------------------------------------------
(* The operators the handlers are built from.                               *)

(* The list a cycle works off has a first ticket: Ticket is bounded. *)
LEMMA OldestInS ==
    ASSUME NEW S, S \subseteq Ticket, S # {}
    PROVE  Oldest(S) \in S
<1> DEFINE R == {p \in Nat \X Nat : p[1] < p[2]}
<1>1. R = OpToRel(<, Nat)
  BY Zenon DEF OpToRel
<1>2. IsWellFoundedOn(R, Nat)
  BY <1>1, NatLessThanWellFounded
<1>3. S \subseteq Nat
  BY DeskAssumption DEF Ticket
<1>4. PICK t \in S : \A u \in S : ~(<<u, t>> \in R)
  BY <1>2, <1>3, WFMin
<1>5. \A u \in S : t <= u
  <2> SUFFICES ASSUME NEW u \in S, u < t PROVE FALSE
    BY <1>3
  <2>1. <<u, t>> \in Nat \X Nat /\ <<u, t>>[1] < <<u, t>>[2]
    BY <1>3
  <2>2. <<u, t>> \in R
    BY <2>1, Zenon
  <2> QED
    BY <1>4, <2>2
<1> QED
  BY <1>5 DEF Oldest

(* What is written back to a row is a row. *)
LEMMA WriteAgentType ==
    ASSUME NEW row \in AgentRow, NEW loaded \in AgentRow, NEW now \in AgentRow
    PROVE  WriteAgent(row, loaded, now) \in AgentRow
BY DEF WriteAgent, AgentRow

LEMMA WriteTicketType ==
    ASSUME NEW row \in TicketRow, NEW loaded \in TicketRow, NEW now \in TicketRow
    PROVE  WriteTicket(row, loaded, now) \in TicketRow
BY DEF WriteTicket, TicketRow

LEMMA TakeChatType ==
    ASSUME NEW copy \in AgentRow
    PROVE  TakeChat(copy) \in AgentRow
<1>1. copy.chats + 1 \in Nat
  BY DEF AgentRow
<1>2. (IF copy.chats + 1 >= copy.max THEN "Busy" ELSE copy.status) \in AgentStatus
  BY DEF AgentRow, AgentStatus
<1> QED
  BY <1>1, <1>2 DEF TakeChat, AgentRow

LEMMA ReleaseChatType ==
    ASSUME NEW copy \in AgentRow, copy.chats > 0
    PROVE  ReleaseChat(copy) \in AgentRow
<1>1. copy.chats - 1 \in Nat
  BY DEF AgentRow
<1>2. (IF copy.status = "Busy" /\ copy.chats - 1 < copy.max
       THEN "Available" ELSE copy.status) \in AgentStatus
  BY DEF AgentRow, AgentStatus
<1> QED
  BY <1>1, <1>2 DEF ReleaseChat, AgentRow

(* Tracked copies are rows of some of the keys. *)
LEMMA CopiesIff ==
    ASSUME NEW S, NEW Row, NEW f
    PROVE  CopiesOf(f, S, Row) <=> DOMAIN f \subseteq S /\ f \in [DOMAIN f -> Row]
BY DEF CopiesOf

(* Loading rows keeps what is tracked already and adds the rest. *)
LEMMA TrackType ==
    ASSUME NEW X, NEW Row, NEW copies, CopiesOf(copies, X, Row),
           NEW S \in SUBSET X, NEW rows, \A x \in S : rows[x] \in Row
    PROVE  CopiesOf(Track(copies, S, rows), X, Row)
<1>1. DOMAIN copies \subseteq X /\ copies \in [DOMAIN copies -> Row]
  BY CopiesIff
<1>2. DOMAIN Track(copies, S, rows) \subseteq X
      /\ Track(copies, S, rows) \in [DOMAIN Track(copies, S, rows) -> Row]
  BY <1>1 DEF Track
<1> QED
  BY <1>2, CopiesIff

LEMMA TrackedRows ==
    ASSUME NEW copies, NEW S, NEW rows
    PROVE  /\ DOMAIN Track(copies, S, rows) = DOMAIN copies \cup S
           /\ \A x \in DOMAIN copies : Track(copies, S, rows)[x] = copies[x]
           /\ \A x \in S \ DOMAIN copies : Track(copies, S, rows)[x] = rows[x]
BY DEF Track

(* Only people are candidates, and only of the region. *)
LEMMA CandidatesServe ==
    ASSUME NEW rg
    PROVE  /\ Candidates(rg) \subseteq Agent
           /\ \A a \in Candidates(rg) : Covers(a, rg) /\ RowLives(a)
BY DEF Candidates, Free, OpenForWork, RowLives

LEMMA BotIfActiveType == BotIfActive \in {Bot, NoAgent}
BY DEF BotIfActive

-----------------------------------------------------------------------------
(* Types.                                                                   *)

(* A handler that moves on leaves the others as they are. *)
LEMMA CallsKept ==
    ASSUME CallsOK, NEW c \in Call, NEW rec, CallOK(rec), Go(c, rec)
    PROVE  CallsOK'
BY DEF CallsOK, Go

LEMMA IdleOK == CallOK(Idle)
BY DEF CallOK

LEMMA ReturnKept ==
    ASSUME CallsOK, NEW c \in Call, Return(c)
    PROVE  CallsOK'
<1>1. Go(c, Idle)
  BY DEF Return, Go
<1> QED
  BY <1>1, CallsKept, IdleOK

(* An exception leaves the database alone. *)
LEMMA ThrowKept ==
    ASSUME TypeOK, NEW c \in Call, Throw(c)
    PROVE  TypeOK'
<1>1. CallsOK'
  BY ReturnKept DEF Throw, TypeOK
<1> QED
  BY <1>1 DEF Throw, TypeOK

LEMMA NoRowType == NoRow \in AgentRow
BY DEF NoRow, AgentRow, AgentStatus

LEMMA InitType == Init => TypeOK
<1> SUFFICES ASSUME Init PROVE TypeOK
  OBVIOUS
<1>1. CallsOK
  BY IdleOK DEF Init, CallsOK
<1>2. agent \in [Staff -> AgentRow]
  BY NoRowType DEF Init
<1>3. ticket \in [Ticket -> TicketRow]
  BY DEF Init, TicketRow, TicketStatus
<1> QED
  BY <1>1, <1>2, <1>3, DeskAssumption DEF Init, TypeOK

LEMMA StartLookupType ==
    ASSUME TypeOK, NEW c \in Call, NEW r \in Requester, NEW rg \in AskRegion,
           StartLookup(c, r, rg)
    PROVE  TypeOK'
<1>1. agent' \in [Staff -> AgentRow]
  BY DEF StartLookup, TypeOK, AgentRow, AgentStatus, Staff
<1>2. CASE \E a \in LeastBusy(Candidates(rg), agent) :
             Go(c, [op |-> "start", pc |-> "picked", by |-> r, region |-> rg,
                    owner |-> a, copy |-> agent[a]])
  <2>1. PICK a \in LeastBusy(Candidates(rg), agent) :
             Go(c, [op |-> "start", pc |-> "picked", by |-> r, region |-> rg,
                    owner |-> a, copy |-> agent[a]])
    BY <1>2
  <2>2. a \in Agent /\ agent[a] \in AgentRow
    BY CandidatesServe DEF LeastBusy, TypeOK, Staff
  <2>3. CallOK([op |-> "start", pc |-> "picked", by |-> r, region |-> rg,
                owner |-> a, copy |-> agent[a]])
    BY <2>2 DEF CallOK, StartOK, StartCall, Staff
  <2>4. CallsOK'
    BY <2>1, <2>3, CallsKept DEF TypeOK
  <2> QED
    BY <1>1, <2>4 DEF StartLookup, TypeOK
<1>3. CASE Go(c, [op |-> "start", pc |-> "reserved", by |-> r, region |-> rg,
                  owner |-> BotIfActive', copy |-> NoRow])
  <2>1. BotIfActive' \in Staff \cup {NoAgent}
    BY DEF BotIfActive, Staff
  <2>2. CallOK([op |-> "start", pc |-> "reserved", by |-> r, region |-> rg,
                owner |-> BotIfActive', copy |-> NoRow])
    BY <2>1, NoRowType DEF CallOK, StartOK, StartCall
  <2>3. CallsOK'
    BY <1>3, <2>2, CallsKept DEF TypeOK
  <2> QED
    BY <1>1, <2>3 DEF StartLookup, TypeOK
<1> QED
  BY <1>2, <1>3 DEF StartLookup

LEMMA StartReserveType ==
    ASSUME TypeOK, NEW c \in Call, StartReserve(c)
    PROVE  TypeOK'
<1> DEFINE k == call[c]
<1>1. StartOK(k) /\ k.owner \in Agent /\ k.copy \in AgentRow
  BY DEF StartReserve, TypeOK, CallsOK, CallOK, StartOK, StartCall, Idle
<1>2. CASE RowLives(k.owner)
  <2>1. agent' \in [Staff -> AgentRow]
    <3>1. WriteAgent(agent[k.owner], k.copy, TakeChat(k.copy)) \in AgentRow
      BY <1>1, WriteAgentType, TakeChatType DEF TypeOK, Staff
    <3> QED
      BY <1>1, <1>2, <3>1 DEF StartReserve, Throw, TypeOK
  <2>2. CallsOK'
    <3>1. CallOK([k EXCEPT !.pc = "reserved"])
      BY <1>1 DEF CallOK, StartOK, StartCall
    <3> QED
      BY <1>2, <3>1, CallsKept DEF StartReserve, TypeOK
  <2> QED
    BY <1>2, <2>1, <2>2 DEF StartReserve, TypeOK
<1>3. CASE ~RowLives(k.owner)
  BY <1>3, ThrowKept DEF StartReserve
<1> QED
  BY <1>2, <1>3

LEMMA StartCreateType ==
    ASSUME TypeOK, NEW c \in Call, StartCreate(c)
    PROVE  TypeOK'
<1> DEFINE k == call[c]
<1>1. StartOK(k) /\ k.owner \in Staff \cup {NoAgent} /\ k.by \in Requester
      /\ k.region \in Region \cup {NoRegion}
  BY DeskAssumption DEF StartCreate, TypeOK, CallsOK, CallOK, StartOK, StartCall, Idle
<1>2. CASE KeyHolds(k.owner) /\ k.owner # k.by
  <2>1. PICK t \in Ticket :
            /\ ticket' = [ticket EXCEPT ![t] = [stat |-> "Open",
                   owner |-> k.owner, region |-> k.region, by |-> k.by]]
            /\ room' = [room EXCEPT ![t] = {k.owner, k.by} \cap Staff]
    BY <1>2 DEF StartCreate
  <2>2. ticket' \in [Ticket -> TicketRow]
    BY <1>1, <2>1 DEF TypeOK, TicketRow, TicketStatus
  <2>3. room' \in [Ticket -> SUBSET Staff]
    BY <1>1, <2>1 DEF TypeOK
  <2>4. CallsOK'
    BY <1>2, ReturnKept DEF StartCreate, TypeOK
  <2> QED
    BY <1>2, <2>2, <2>3, <2>4 DEF StartCreate, TypeOK
<1>3. CASE ~(KeyHolds(k.owner) /\ k.owner # k.by)
  BY <1>3, ThrowKept DEF StartCreate
<1> QED
  BY <1>2, <1>3

LEMMA CloseLoadType ==
    ASSUME TypeOK, NEW c \in Call, NEW t \in Ticket, CloseLoad(c, t)
    PROVE  TypeOK'
<1> DEFINE rec == [op |-> "close", t |-> t, loaded |-> ticket[t],
                   copy |-> IF ticket[t].owner = NoAgent THEN NoRow
                            ELSE agent[ticket[t].owner]]
<1>1. ticket[t] \in TicketRow /\ ticket[t].owner \in Staff \cup {NoAgent}
  BY DEF TypeOK, TicketRow
<1>2. rec.copy \in AgentRow
  BY <1>1, NoRowType DEF TypeOK
<1>3. CallOK(rec)
  BY <1>1, <1>2 DEF CallOK, CloseOK, CloseCall
<1>4. CallsOK'
  BY <1>3, CallsKept DEF CloseLoad, TypeOK
<1> QED
  BY <1>4 DEF CloseLoad, TypeOK

LEMMA CloseSaveType ==
    ASSUME TypeOK, NEW c \in Call, CloseSave(c)
    PROVE  TypeOK'
<1> DEFINE k == call[c]
<1>1. k.t \in Ticket /\ k.loaded \in TicketRow /\ k.copy \in AgentRow
  BY DEF CloseSave, TypeOK, CallsOK, CallOK, CloseOK, CloseCall, Idle
<1>2. CASE Counted(k) => RowLives(k.loaded.owner)
  <2>1. CASE Throw(c)
    BY <2>1, ThrowKept
  <2>2. CASE ~Throw(c)
    <3>1. ticket' \in [Ticket -> TicketRow]
      <4>1. [k.loaded EXCEPT !.stat = "Closed"] \in TicketRow
        BY <1>1 DEF TicketRow, TicketStatus
      <4>2. WriteTicket(ticket[k.t], k.loaded, [k.loaded EXCEPT !.stat = "Closed"]) \in TicketRow
        BY <1>1, <4>1, WriteTicketType DEF TypeOK
      <4> QED
        BY <1>1, <2>2, <4>2 DEF CloseSave, TypeOK
    <3>2. agent' \in [Staff -> AgentRow]
      <4>1. CASE Counted(k)
        <5>1. k.loaded.owner \in Staff
          BY <1>1, <4>1 DEF Counted, TicketRow
        <5>2. WriteAgent(agent[k.loaded.owner], k.copy, ReleaseChat(k.copy)) \in AgentRow
          BY <1>1, <4>1, <5>1, WriteAgentType, ReleaseChatType DEF Counted, TypeOK
        <5> QED
          BY <2>2, <4>1, <5>1, <5>2 DEF CloseSave, TypeOK
      <4>2. CASE ~Counted(k)
        BY <2>2, <4>2 DEF CloseSave, TypeOK
      <4> QED
        BY <4>1, <4>2
    <3>3. CallsOK'
      BY <2>2, ReturnKept DEF CloseSave, TypeOK
    <3> QED
      BY <2>2, <3>1, <3>2, <3>3 DEF CloseSave, TypeOK
  <2> QED
    BY <2>1, <2>2
<1>3. CASE Counted(k) /\ ~RowLives(k.loaded.owner)
  BY <1>3, ThrowKept DEF CloseSave
<1> QED
  BY <1>2, <1>3

LEMMA TransferLoadType ==
    ASSUME TypeOK, NEW c \in Call, NEW t \in Ticket, NEW a \in Staff, TransferLoad(c, t, a)
    PROVE  TypeOK'
<1> DEFINE rec == [op |-> "transfer", t |-> t, to |-> a, loaded |-> ticket[t],
                   members |-> room[t]]
<1>1. CallOK(rec)
  BY DEF CallOK, TransferOK, TransferCall, TypeOK
<1>2. CallsOK'
  BY <1>1, CallsKept DEF TransferLoad, TypeOK
<1> QED
  BY <1>2 DEF TransferLoad, TypeOK

LEMMA TransferSaveType ==
    ASSUME TypeOK, NEW c \in Call, TransferSave(c)
    PROVE  TypeOK'
<1> DEFINE k == call[c]
<1>1. /\ k.t \in Ticket /\ k.loaded \in TicketRow /\ k.to \in Staff
      /\ k.members \subseteq Staff
  BY DEF TransferSave, TypeOK, CallsOK, CallOK, TransferOK, TransferCall, Idle
<1>2. CASE Throw(c)
  BY <1>2, ThrowKept
<1>3. CASE ~Throw(c)
  <2>1. ticket' \in [Ticket -> TicketRow]
    <3>1. [k.loaded EXCEPT !.owner = k.to, !.stat = "Transferred"] \in TicketRow
      BY <1>1 DEF TicketRow, TicketStatus
    <3>2. WriteTicket(ticket[k.t], k.loaded,
              [k.loaded EXCEPT !.owner = k.to, !.stat = "Transferred"]) \in TicketRow
      BY <1>1, <3>1, WriteTicketType DEF TypeOK
    <3> QED
      BY <1>1, <1>3, <3>2 DEF TransferSave, TypeOK
  <2>2. room' \in [Ticket -> SUBSET Staff]
    BY <1>1, <1>3 DEF TransferSave, TypeOK
  <2>3. CallsOK'
    BY <1>3, ReturnKept DEF TransferSave, TypeOK
  <2> QED
    BY <1>3, <2>1, <2>2, <2>3 DEF TransferSave, TypeOK
<1> QED
  BY <1>2, <1>3

LEMMA ReassignBeginType ==
    ASSUME TypeOK, NEW c \in Call, ReassignBegin(c)
    PROVE  TypeOK'
<1> DEFINE loaded == [t \in BotTickets |-> ticket[t]]
           copies == [a \in ActiveAgents |-> agent[a]]
           rec == [op |-> "reassign", left |-> BotTickets, loaded |-> loaded, copies |-> copies]
<1>1. BotTickets \subseteq Ticket /\ ActiveAgents \subseteq Agent
  BY DEF BotTickets, ActiveAgents
<1>2. CopiesOf(loaded, Ticket, TicketRow)
  BY <1>1, CopiesIff DEF TypeOK
<1>3. CopiesOf(copies, Agent, AgentRow)
  BY <1>1, CopiesIff DEF TypeOK, Staff
<1>4. CallOK(rec)
  BY <1>1, <1>2, <1>3 DEF CallOK, ReassignOK, ReassignBegin
<1>5. CallsOK'
  BY <1>4, CallsKept DEF ReassignBegin, TypeOK
<1> QED
  BY <1>5 DEF ReassignBegin, TypeOK

LEMMA ContinueKept ==
    ASSUME CallsOK, NEW c \in Call, NEW k, k.left = {} \/ CallOK(k), Continue(c, k)
    PROVE  CallsOK'
BY CallsKept, IdleOK DEF Continue

(* What a step of the cycle can do. *)
LEMMA ReassignNextCases ==
    ASSUME TypeOK, NEW c \in Call, ReassignNext(c)
    PROVE  LET k == call[c]
               t == Oldest(k.left)
               copies == Track(k.copies, Candidates(NoRegion), agent)
               rest == [k EXCEPT !.left = @ \ {t}, !.copies = copies]
           IN /\ ReassignOK(k) /\ t \in DOMAIN k.loaded /\ t \in Ticket
              /\ k.loaded[t] \in TicketRow
              /\ \/ Throw(c)
                 \/ Continue(c, rest) /\ UNCHANGED <<agent, ticket, room, faults>>
                 \/ \E a \in Candidates(k.loaded[t].region) :
                       /\ agent' = [agent EXCEPT
                              ![a] = WriteAgent(@, copies[a], TakeChat(copies[a]))]
                       /\ ticket' = [ticket EXCEPT ![t] = WriteTicket(@, k.loaded[t],
                              [k.loaded[t] EXCEPT !.owner = a, !.stat = "InProgress"])]
                       /\ room' = Seated(t, a)
                       /\ Continue(c, [rest EXCEPT !.copies[a] = TakeChat(@)])
                       /\ UNCHANGED faults
<1> DEFINE k == call[c]
           t == Oldest(k.left)
<1>1. ReassignOK(k)
  <2>1. k.op = "reassign"
    BY DEF ReassignNext
  <2> QED
    BY <2>1 DEF TypeOK, CallsOK, CallOK, Idle
<1>2. k.left # {} /\ k.left \subseteq Ticket /\ k.left \subseteq DOMAIN k.loaded
      /\ CopiesOf(k.loaded, Ticket, TicketRow)
  BY <1>1 DEF ReassignOK
<1>3. t \in DOMAIN k.loaded /\ t \in Ticket /\ k.loaded[t] \in TicketRow
  BY <1>2, OldestInS DEF CopiesOf
<1> QED
  BY <1>1, <1>3, Zenon DEF ReassignNext, LeastBusy

LEMMA ReassignNextType ==
    ASSUME TypeOK, NEW c \in Call, ReassignNext(c)
    PROVE  TypeOK'
<1> DEFINE k == call[c]
           t == Oldest(k.left)
           copies == Track(k.copies, Candidates(NoRegion), agent)
           rest == [k EXCEPT !.left = @ \ {t}, !.copies = copies]
           able == Candidates(k.loaded[t].region)
<1>1. ReassignOK(k)
  BY ReassignNextCases
<1>2. /\ k.left \subseteq Ticket /\ k.left # {} /\ k.left \subseteq DOMAIN k.loaded
      /\ CopiesOf(k.loaded, Ticket, TicketRow) /\ CopiesOf(k.copies, Agent, AgentRow)
  BY <1>1 DEF ReassignOK
<1>3. t \in Ticket /\ k.loaded[t] \in TicketRow
  BY ReassignNextCases
<1>4. Candidates(NoRegion) \subseteq Agent /\ able \subseteq Candidates(NoRegion)
  BY DEF Candidates, Covers
<1>5. /\ CopiesOf(copies, Agent, AgentRow)
      /\ Candidates(NoRegion) \subseteq DOMAIN copies
  <2>1. \A x \in Candidates(NoRegion) : agent[x] \in AgentRow
    BY <1>4 DEF TypeOK, Staff
  <2>2. Candidates(NoRegion) \in SUBSET Agent
    BY <1>4
  <2>3. CopiesOf(k.copies, Agent, AgentRow)
    BY <1>2
  <2>4. CopiesOf(copies, Agent, AgentRow)
    BY <2>1, <2>2, <2>3, TrackType
  <2>5. DOMAIN copies = DOMAIN k.copies \cup Candidates(NoRegion)
    BY TrackedRows
  <2> QED
    BY <2>4, <2>5
<1>6. CASE Continue(c, rest) /\ UNCHANGED <<agent, ticket, room, faults>>
  <2>1. rest.left = {} \/ CallOK(rest)
    BY <1>1, <1>5 DEF CallOK, ReassignOK
  <2>2. CallsOK'
    BY <1>6, <2>1, ContinueKept DEF TypeOK
  <2> QED
    BY <1>6, <2>2 DEF TypeOK
<1>7. ASSUME NEW a \in able,
             agent' = [agent EXCEPT ![a] = WriteAgent(@, copies[a], TakeChat(copies[a]))],
             ticket' = [ticket EXCEPT ![t] = WriteTicket(@, k.loaded[t],
                           [k.loaded[t] EXCEPT !.owner = a, !.stat = "InProgress"])],
             room' = Seated(t, a),
             Continue(c, [rest EXCEPT !.copies[a] = TakeChat(@)]),
             UNCHANGED faults
      PROVE  TypeOK'
  <2>1. a \in Agent /\ a \in Staff /\ a \in DOMAIN copies /\ copies[a] \in AgentRow
    <3>1. a \in Agent /\ a \in DOMAIN copies
      BY <1>4, <1>5
    <3> QED
      BY <1>5, <3>1, CopiesIff DEF Staff
  <2>2. agent' \in [Staff -> AgentRow]
    <3>1. WriteAgent(agent[a], copies[a], TakeChat(copies[a])) \in AgentRow
      BY <2>1, WriteAgentType, TakeChatType DEF TypeOK
    <3> QED
      BY <1>7, <2>1, <3>1 DEF TypeOK
  <2>3. ticket' \in [Ticket -> TicketRow]
    <3>1. [k.loaded[t] EXCEPT !.owner = a, !.stat = "InProgress"] \in TicketRow
      BY <1>3, <2>1 DEF TicketRow, TicketStatus
    <3>2. WriteTicket(ticket[t], k.loaded[t],
              [k.loaded[t] EXCEPT !.owner = a, !.stat = "InProgress"]) \in TicketRow
      BY <1>3, <3>1, WriteTicketType DEF TypeOK
    <3> QED
      BY <1>3, <1>7, <3>2 DEF TypeOK
  <2>4. room' \in [Ticket -> SUBSET Staff]
    BY <1>3, <1>7, <2>1 DEF Seated, TypeOK
  <2>5. CallsOK'
    <3> DEFINE took == [copies EXCEPT ![a] = TakeChat(@)]
               next == [rest EXCEPT !.copies = took]
    <3>1. CopiesOf(took, Agent, AgentRow)
      <4>1. DOMAIN took \subseteq Agent /\ took \in [DOMAIN took -> AgentRow]
        BY <1>5, <2>1, TakeChatType, CopiesIff
      <4> QED
        BY <4>1, CopiesIff
    <3>2. next.left = {} \/ CallOK(next)
      BY <1>1, <1>5, <3>1 DEF CallOK, ReassignOK
    <3>3. next = [rest EXCEPT !.copies[a] = TakeChat(@)]
      BY <1>1 DEF ReassignOK
    <3> QED
      BY <1>7, <3>2, <3>3, ContinueKept DEF TypeOK
  <2> QED
    BY <1>7, <2>2, <2>3, <2>4, <2>5 DEF TypeOK
<1>8. CASE Throw(c)
  BY <1>8, ThrowKept
<1> QED
  BY <1>6, <1>7, <1>8, ReassignNextCases, Zenon

LEMMA LeaveRecordOK ==
    ASSUME TypeOK, NEW a \in Staff, NEW row \in AgentRow, NEW delete \in BOOLEAN
    PROVE  CallOK(LeaveRecord(a, row, delete))
<1> DEFINE mine == TicketsOf(a, Live)
           none == [x \in {} |-> NoRow]
           loaded == [t \in mine |-> ticket[t]]
<1>1. mine \subseteq Ticket
  BY DEF TicketsOf
<1>2. CopiesOf(loaded, Ticket, TicketRow)
  BY <1>1, CopiesIff DEF TypeOK
<1>3. CopiesOf(none, Agent, AgentRow)
  BY CopiesIff
<1>4. [row EXCEPT !.status = "Offline"] \in AgentRow
  BY DEF AgentRow, AgentStatus
<1>5. LeaveOK(LeaveRecord(a, row, delete))
  BY <1>1, <1>2, <1>3, <1>4 DEF LeaveRecord, LeaveOK
<1> QED
  BY <1>5 DEF CallOK, LeaveRecord

LEMMA DeactivateBeginType ==
    ASSUME TypeOK, NEW c \in Call, NEW a \in Staff, DeactivateBegin(c, a)
    PROVE  TypeOK'
<1>1. agent' \in [Staff -> AgentRow]
  BY DEF DeactivateBegin, TypeOK, AgentRow
<1>2. CallOK(LeaveRecord(a, agent'[a], FALSE))
  BY <1>1, LeaveRecordOK
<1>3. CallsOK'
  BY <1>2, CallsKept DEF DeactivateBegin, TypeOK
<1> QED
  BY <1>1, <1>3 DEF DeactivateBegin, TypeOK

LEMMA DeleteBeginType ==
    ASSUME TypeOK, NEW c \in Call, NEW a \in Staff, DeleteBegin(c, a)
    PROVE  TypeOK'
<1>1. CallOK(LeaveRecord(a, agent[a], TRUE))
  BY LeaveRecordOK DEF TypeOK
<1>2. CallsOK'
  BY <1>1, CallsKept DEF DeleteBegin, TypeOK
<1> QED
  BY <1>2 DEF DeleteBegin, TypeOK

LEMMA SavedTicketsType ==
    ASSUME TypeOK, NEW k, LeaveOK(k)
    PROVE  SavedTickets(k) \in [Ticket -> TicketRow]
<1>1. ASSUME NEW t \in Ticket, t \in Dirty(k)
      PROVE  WriteTicket(ticket[t], k.base[t], k.now[t]) \in TicketRow
  <2>1. k.base[t] \in TicketRow /\ k.now[t] \in TicketRow
    BY <1>1, CopiesIff DEF Dirty, LeaveOK
  <2> QED
    BY <2>1, WriteTicketType DEF TypeOK
<1> QED
  BY <1>1 DEF SavedTickets, TypeOK

LEMMA SavedSelfType ==
    ASSUME NEW k, LeaveOK(k), NEW rows \in [Staff -> AgentRow]
    PROVE  SavedSelf(k, rows) \in [Staff -> AgentRow]
<1>1. WriteAgent(rows[k.who], k.was, k.self) \in AgentRow
  BY WriteAgentType DEF LeaveOK
<1> QED
  BY <1>1 DEF SavedSelf, LeaveOK

LEMMA CleanOK ==
    ASSUME NEW k, LeaveOK(k)
    PROVE  LeaveOK(Clean(k))
BY DEF Clean, LeaveOK

LEMMA HandedOverType ==
    ASSUME NEW x \in TicketRow, NEW pc, NEW b \in Staff \cup {NoAgent}
    PROVE  HandedOver(x, pc, b) \in TicketRow
BY DEF HandedOver, TicketRow, TicketStatus

LEMMA AssignOK ==
    ASSUME NEW k, LeaveOK(k), NEW t \in k.left, NEW b \in Staff \cup {NoAgent}
    PROVE  LeaveOK(Assign(k, t, b))
<1> DEFINE now == [k.now EXCEPT ![t] = HandedOver(@, k.pc, b)]
           next == [k EXCEPT !.left = @ \ {t}, !.now = now]
<1>1. t \in DOMAIN k.now /\ k.now[t] \in TicketRow
  BY CopiesIff DEF LeaveOK
<1>2. CopiesOf(now, Ticket, TicketRow) /\ DOMAIN now = DOMAIN k.now
  <2>1. HandedOver(k.now[t], k.pc, b) \in TicketRow
    BY <1>1, HandedOverType
  <2>2. DOMAIN now \subseteq Ticket /\ now \in [DOMAIN now -> TicketRow]
    BY <1>1, <2>1, CopiesIff DEF LeaveOK
  <2> QED
    BY <2>2, CopiesIff
<1>3. LeaveOK(next)
  BY <1>2 DEF LeaveOK
<1>4. Assign(k, t, b) = next
  BY DEF Assign
<1> QED
  BY <1>3, <1>4

LEMMA BusierOK ==
    ASSUME TypeOK, NEW k, LeaveOK(k), NEW b \in Agent
    PROVE  /\ LeaveOK(Busier(k, b))
           /\ BusierRows(k, b) \in [Staff -> AgentRow]
           /\ Busier(k, b).left = k.left /\ Busier(k, b).who = k.who
           /\ Busier(k, b).now = k.now /\ Busier(k, b).base = k.base
           /\ Busier(k, b).was = k.was /\ Busier(k, b).pc = k.pc
           /\ b # k.who => Busier(k, b).self = k.self
<1>1. CASE b = k.who
  <2>1. k.self \in AgentRow /\ TakeChat(k.self) \in AgentRow
    BY TakeChatType DEF LeaveOK
  <2>2. Busier(k, b) = [k EXCEPT !.self = TakeChat(@)]
    BY <1>1 DEF Busier
  <2> QED
    BY <1>1, <2>1, <2>2 DEF LeaveOK, BusierRows, TypeOK
<1>2. CASE b # k.who
  <2> DEFINE copies == Track(k.copies, {b}, agent)
             took   == [copies EXCEPT ![b] = TakeChat(@)]
  <2>1. b \in Staff /\ agent[b] \in AgentRow /\ CopiesOf(k.copies, Agent, AgentRow)
    BY DEF Staff, TypeOK, LeaveOK
  <2>2. CopiesOf(copies, Agent, AgentRow) /\ b \in DOMAIN copies
    <3> DEFINE S == {b}
               held == k.copies
    <3>1. S \in SUBSET Agent /\ (\A x \in S : agent[x] \in AgentRow)
          /\ CopiesOf(held, Agent, AgentRow)
      BY <2>1
    <3>2. CopiesOf(Track(held, S, agent), Agent, AgentRow)
          /\ DOMAIN Track(held, S, agent) = DOMAIN held \cup S
      <4> HIDE DEF S, held
      <4>1. CopiesOf(Track(held, S, agent), Agent, AgentRow)
        BY <3>1, TrackType
      <4>2. DOMAIN Track(held, S, agent) = DOMAIN held \cup S
        BY TrackedRows
      <4> QED
        BY <4>1, <4>2
    <3> QED
      BY <3>2
  <2>3. copies[b] \in AgentRow /\ TakeChat(copies[b]) \in AgentRow
    BY <2>2, TakeChatType DEF CopiesOf
  <2>4. CopiesOf(took, Agent, AgentRow)
    BY <2>2, <2>3 DEF CopiesOf
  <2>5. WriteAgent(agent[b], copies[b], TakeChat(copies[b])) \in AgentRow
    BY <2>1, <2>3, WriteAgentType
  <2>6. BusierRows(k, b) \in [Staff -> AgentRow]
    BY <1>2, <2>1, <2>5 DEF BusierRows, TypeOK
  <2>7. Busier(k, b) = [k EXCEPT !.copies = took]
    BY <1>2 DEF Busier
  <2> HIDE DEF took
  <2> QED
    BY <1>2, <2>4, <2>6, <2>7 DEF LeaveOK
<1> QED
  BY <1>1, <1>2

(* What a step of the hand-off loop can do. *)
LEMMA LeaveNextCases ==
    ASSUME TypeOK, NEW c \in Call, LeaveNext(c)
    PROVE  LET k == call[c]
               t == Oldest(k.left)
           IN /\ LeaveOK(k) /\ t \in k.left /\ t \in Ticket /\ t \in DOMAIN k.now
              /\ \/ Throw(c)
                 \/ /\ Go(c, Assign(k, t, BotIfActive))
                    /\ UNCHANGED <<agent, ticket, room, faults>>
                 \/ \E b \in Candidates(k.now[t].region) :
                       /\ agent' = SavedSelf(Busier(k, b), BusierRows(k, b))
                       /\ ticket' = SavedTickets(Busier(k, b))
                       /\ Go(c, Assign(Clean(Busier(k, b)), t, b))
                       /\ UNCHANGED <<room, faults>>
<1> DEFINE k == call[c]
           t == Oldest(k.left)
<1>1. LeaveOK(k)
  <2>1. k.op = "leave"
    BY DEF LeaveNext
  <2> QED
    BY <2>1 DEF TypeOK, CallsOK, CallOK, Idle
<1>2. k.left # {}
  BY DEF LeaveNext
<1>3. t \in k.left /\ t \in Ticket /\ t \in DOMAIN k.now
  BY <1>1, <1>2, OldestInS DEF LeaveOK
<1> QED
  BY <1>1, <1>3, Zenon DEF LeaveNext, LeastBusy

LEMMA LeaveNextType ==
    ASSUME TypeOK, NEW c \in Call, LeaveNext(c)
    PROVE  TypeOK'
<1> DEFINE k == call[c]
           t == Oldest(k.left)
<1>1. LeaveOK(k) /\ t \in k.left
  BY LeaveNextCases
<1>2. CASE /\ Go(c, Assign(k, t, BotIfActive))
           /\ UNCHANGED <<agent, ticket, room, faults>>
  <2>1. LeaveOK(Assign(k, t, BotIfActive))
    BY <1>1, AssignOK, BotIfActiveType DEF Staff
  <2>2. CallsOK'
    BY <1>2, <2>1, CallsKept DEF CallOK, LeaveOK, TypeOK
  <2> QED
    BY <1>2, <2>2 DEF TypeOK
<1>3. ASSUME NEW b \in Candidates(k.now[t].region),
             agent' = SavedSelf(Busier(k, b), BusierRows(k, b)),
             ticket' = SavedTickets(Busier(k, b)),
             Go(c, Assign(Clean(Busier(k, b)), t, b)),
             UNCHANGED <<room, faults>>
      PROVE  TypeOK'
  <2>1. b \in Agent /\ b \in Staff
    BY CandidatesServe DEF Staff
  <2>2. LeaveOK(Busier(k, b)) /\ t \in Busier(k, b).left
        /\ BusierRows(k, b) \in [Staff -> AgentRow]
    BY <1>1, <2>1, BusierOK
  <2>3. LeaveOK(Clean(Busier(k, b))) /\ t \in Clean(Busier(k, b)).left
    BY <2>2, CleanOK DEF Clean, LeaveOK
  <2>4. LeaveOK(Assign(Clean(Busier(k, b)), t, b))
    BY <2>1, <2>3, AssignOK
  <2>5. CallsOK'
    BY <1>3, <2>4, CallsKept DEF CallOK, LeaveOK, TypeOK
  <2> QED
    BY <1>3, <2>2, <2>5, SavedSelfType, SavedTicketsType DEF TypeOK
<1>4. CASE Throw(c)
  BY <1>4, ThrowKept
<1> QED
  BY <1>2, <1>3, <1>4, LeaveNextCases

(* What the end of the hand-off loop can do. *)
LEMMA LeaveSettleCases ==
    ASSUME TypeOK, NEW c \in Call, LeaveSettle(c)
    PROVE  LET k == [call[c] EXCEPT !.self.chats = 0]
               stuck == {t \in Ticket : SavedTickets(k)[t].owner = k.who}
               loaded == Track(k.now, stuck, SavedTickets(k))
               sweep == [Clean(k) EXCEPT !.pc = "sweep", !.left = stuck,
                            !.base = loaded, !.now = loaded]
           IN /\ LeaveOK(k) /\ LeaveOK(sweep)
              /\ k.who = call[c].who /\ k.now = call[c].now
              /\ \/ Throw(c)
                 \/ /\ agent' = SavedSelf(k, agent)
                    /\ ticket' = SavedTickets(k)
                    /\ Go(c, sweep) \/ Go(c, Idle)
                    /\ UNCHANGED <<room, faults>>
<1> DEFINE k == [call[c] EXCEPT !.self.chats = 0]
           stuck == {t \in Ticket : SavedTickets(k)[t].owner = k.who}
           loaded == Track(k.now, stuck, SavedTickets(k))
           sweep == [Clean(k) EXCEPT !.pc = "sweep", !.left = stuck,
                        !.base = loaded, !.now = loaded]
<1>1. LeaveOK(call[c])
  <2>1. call[c].op = "leave"
    BY DEF LeaveSettle
  <2> QED
    BY <2>1 DEF TypeOK, CallsOK, CallOK, Idle
<1>2. LeaveOK(k) /\ CopiesOf(k.now, Ticket, TicketRow)
      /\ k.who = call[c].who /\ k.now = call[c].now
  BY <1>1 DEF LeaveOK, AgentRow
<1>3. CopiesOf(loaded, Ticket, TicketRow) /\ stuck \subseteq DOMAIN loaded
  <2>1. stuck \in SUBSET Ticket /\ \A t \in stuck : SavedTickets(k)[t] \in TicketRow
    BY <1>2, SavedTicketsType
  <2>2. CopiesOf(k.now, Ticket, TicketRow)
    BY <1>2
  <2> HIDE DEF k, stuck
  <2>3. CopiesOf(loaded, Ticket, TicketRow)
    BY <2>1, <2>2, TrackType
  <2>4. DOMAIN loaded = DOMAIN k.now \cup stuck
    BY TrackedRows
  <2> QED
    BY <2>3, <2>4
<1>4. LeaveOK(sweep)
  <2>1. LeaveOK(Clean(k))
    BY <1>2, CleanOK
  <2> QED
    BY <1>3, <2>1 DEF LeaveOK
<1>5. \/ Throw(c)
      \/ /\ agent' = SavedSelf(k, agent)
         /\ ticket' = SavedTickets(k)
         /\ Go(c, IF k.delete THEN sweep ELSE Idle)
         /\ UNCHANGED <<room, faults>>
  BY Zenon DEF LeaveSettle
<1> QED
  BY <1>2, <1>4, <1>5, Zenon

LEMMA LeaveSettleType ==
    ASSUME TypeOK, NEW c \in Call, LeaveSettle(c)
    PROVE  TypeOK'
<1> DEFINE k == [call[c] EXCEPT !.self.chats = 0]
           stuck == {t \in Ticket : SavedTickets(k)[t].owner = k.who}
           loaded == Track(k.now, stuck, SavedTickets(k))
           sweep == [Clean(k) EXCEPT !.pc = "sweep", !.left = stuck,
                        !.base = loaded, !.now = loaded]
<1>1. /\ LeaveOK(k) /\ LeaveOK(sweep)
      /\ \/ Throw(c)
         \/ /\ agent' = SavedSelf(k, agent)
            /\ ticket' = SavedTickets(k)
            /\ Go(c, sweep) \/ Go(c, Idle)
            /\ UNCHANGED <<room, faults>>
  BY LeaveSettleCases, Zenon
<1> HIDE DEF k, sweep
<1>2. CASE Throw(c)
  BY <1>2, ThrowKept
<1>3. CASE ~Throw(c)
  <2>1. CallOK(sweep) /\ CallOK(Idle)
    BY <1>1, IdleOK DEF CallOK, LeaveOK
  <2>2. CallsOK'
    BY <1>1, <1>3, <2>1, CallsKept DEF TypeOK
  <2> QED
    BY <1>1, <1>3, <2>2, SavedSelfType, SavedTicketsType DEF TypeOK
<1> QED
  BY <1>2, <1>3

(* What the end of the sweep can do. *)
LEMMA DeleteSweepCases ==
    ASSUME TypeOK, NEW c \in Call, DeleteSweep(c)
    PROVE  LET k == call[c]
               done == [Clean(k) EXCEPT !.pc = "remove"]
           IN /\ LeaveOK(k) /\ LeaveOK(done) /\ k.op = "leave"
              /\ \/ Throw(c)
                 \/ /\ agent' = SavedSelf(k, agent)
                    /\ ticket' = SavedTickets(k)
                    /\ Go(c, done)
                    /\ UNCHANGED <<room, faults>>
<1> DEFINE k == call[c]
<1>1. LeaveOK(k) /\ k.op = "leave" /\ k.left = {}
  <2>1. k.op = "leave" /\ k.left = {}
    BY DEF DeleteSweep
  <2> QED
    BY <2>1 DEF TypeOK, CallsOK, CallOK, Idle
<1>2. LeaveOK([Clean(k) EXCEPT !.pc = "remove"])
  BY <1>1 DEF Clean, LeaveOK
<1> QED
  BY <1>1, <1>2, Zenon DEF DeleteSweep

LEMMA DeleteSweepType ==
    ASSUME TypeOK, NEW c \in Call, DeleteSweep(c)
    PROVE  TypeOK'
<1> DEFINE k == call[c]
           done == [Clean(k) EXCEPT !.pc = "remove"]
<1>1. /\ LeaveOK(k) /\ LeaveOK(done)
      /\ \/ Throw(c)
         \/ /\ agent' = SavedSelf(k, agent)
            /\ ticket' = SavedTickets(k)
            /\ Go(c, done)
            /\ UNCHANGED <<room, faults>>
  BY DeleteSweepCases, Zenon
<1> HIDE DEF k, done
<1>2. CASE Throw(c)
  BY <1>2, ThrowKept
<1>3. CASE ~Throw(c)
  <2>1. CallOK(done)
    BY <1>1 DEF CallOK, LeaveOK
  <2>2. CallsOK'
    BY <1>1, <1>3, <2>1, CallsKept DEF TypeOK
  <2> QED
    BY <1>1, <1>3, <2>2, SavedSelfType, SavedTicketsType DEF TypeOK
<1> QED
  BY <1>2, <1>3

(* What the removal of the row can do. *)
LEMMA DeleteRemoveCases ==
    ASSUME TypeOK, NEW c \in Call, DeleteRemove(c)
    PROVE  LET k == call[c]
               own == {t \in DOMAIN k.now : k.now[t].owner = k.who}
           IN /\ LeaveOK(k) /\ k.op = "leave"
              /\ \/ Throw(c)
                 \/ /\ ticket' = [t \in Ticket |-> IF t \in own
                            THEN [ticket[t] EXCEPT !.owner = NoAgent] ELSE ticket[t]]
                    /\ agent' = [agent EXCEPT ![k.who] = [NoRow EXCEPT !.row = "gone"]]
                    /\ Return(c) /\ UNCHANGED <<room, faults>>
<1>1. LeaveOK(call[c]) /\ call[c].op = "leave"
  <2>1. call[c].op = "leave"
    BY DEF DeleteRemove
  <2> QED
    BY <2>1 DEF TypeOK, CallsOK, CallOK, Idle
<1> QED
  BY <1>1, Zenon DEF DeleteRemove

LEMMA DeleteRemoveType ==
    ASSUME TypeOK, NEW c \in Call, DeleteRemove(c)
    PROVE  TypeOK'
<1> DEFINE k == call[c]
           own == {t \in DOMAIN k.now : k.now[t].owner = k.who}
           freed == [t \in Ticket |-> IF t \in own THEN [ticket[t] EXCEPT !.owner = NoAgent]
                                     ELSE ticket[t]]
           removed == [agent EXCEPT ![k.who] = [NoRow EXCEPT !.row = "gone"]]
<1>1. /\ LeaveOK(k)
      /\ \/ Throw(c)
         \/ ticket' = freed /\ agent' = removed /\ Return(c) /\ UNCHANGED <<room, faults>>
  BY DeleteRemoveCases, Zenon
<1>2. freed \in [Ticket -> TicketRow]
  BY DEF TicketRow, TypeOK
<1>3. removed \in [Staff -> AgentRow]
  <2>1. [NoRow EXCEPT !.row = "gone"] \in AgentRow
    BY NoRowType DEF AgentRow
  <2> QED
    BY <2>1 DEF TypeOK
<1>4. CASE ~Throw(c)
  <2>1. CallsOK'
    BY <1>1, <1>4, ReturnKept DEF TypeOK
  <2> QED
    BY <1>1, <1>2, <1>3, <1>4, <2>1 DEF TypeOK
<1> QED
  BY <1>4, ThrowKept

LEMMA SettingsType ==
    ASSUME TypeOK, Settings
    PROVE  TypeOK'
<1>1. agent' \in [Staff -> AgentRow] /\ UNCHANGED <<ticket, room, call, faults>>
  <2>1. ASSUME NEW a \in Agent, NEW m \in Limit, Hire(a, m) \/ SetLimit(a, m)
        PROVE  agent' \in [Staff -> AgentRow] /\ UNCHANGED <<ticket, room, call, faults>>
    <3>1. m \in Nat /\ a \in Staff
      BY DeskAssumption DEF Staff
    <3>2. CASE Hire(a, m)
      <4>1. [row |-> "live", active |-> TRUE, status |-> "Offline", chats |-> 0, max |-> m]
                \in AgentRow
        BY <3>1 DEF AgentRow, AgentStatus
      <4> QED
        BY <3>1, <3>2, <4>1 DEF Hire, TypeOK
    <3>3. CASE SetLimit(a, m)
      BY <3>1, <3>3 DEF SetLimit, TypeOK, AgentRow
    <3> QED
      BY <2>1, <3>2, <3>3
  <2>2. ASSUME NEW a \in Staff, Reactivate(a)
        PROVE  agent' \in [Staff -> AgentRow] /\ UNCHANGED <<ticket, room, call, faults>>
    BY <2>2 DEF Reactivate, TypeOK, AgentRow
  <2>3. ASSUME NEW a \in Agent, NEW s \in Choice, SetStatus(a, s)
        PROVE  agent' \in [Staff -> AgentRow] /\ UNCHANGED <<ticket, room, call, faults>>
    <3>1. s \in AgentStatus /\ a \in Staff
      BY DeskAssumption DEF Staff
    <3> QED
      BY <2>3, <3>1 DEF SetStatus, TypeOK, AgentRow
  <2> QED
    BY <2>1, <2>2, <2>3 DEF Settings
<1> QED
  BY <1>1 DEF TypeOK, CallsOK

LEMMA DieType ==
    ASSUME TypeOK, NEW c \in Call, Die(c)
    PROVE  TypeOK'
<1>1. CallsOK'
  BY ReturnKept DEF Die, TypeOK
<1>2. faults' \in 0..MaxFaults
  BY DeskAssumption DEF Die, TypeOK
<1> QED
  BY <1>1, <1>2 DEF Die, TypeOK

LEMMA NextType == TypeOK /\ [Next]_vars => TypeOK'
<1> SUFFICES ASSUME TypeOK, [Next]_vars PROVE TypeOK'
  OBVIOUS
<1>1. ASSUME NEW c \in Call, Step(c) PROVE TypeOK'
  BY <1>1, StartReserveType, StartCreateType, CloseSaveType, TransferSaveType,
     ReassignNextType, LeaveNextType, LeaveSettleType, DeleteSweepType, DeleteRemoveType DEF Step
<1>2. ASSUME NEW c \in Call, Arrive(c) PROVE TypeOK'
  <2>1. Managed \subseteq Staff
    BY DeskAssumption DEF Staff
  <2> QED
    BY <1>2, <2>1, StartLookupType, CloseLoadType, TransferLoadType, ReassignBeginType,
       DeactivateBeginType, DeleteBeginType DEF Arrive
<1>3. CASE UNCHANGED vars
  BY <1>3 DEF vars, TypeOK, CallsOK
<1> QED
  BY <1>1, <1>2, <1>3, SettingsType, DieType DEF Next

(* Whatever the handlers do and however they overlap, every row of the database
   and every copy a handler keeps of one stays a row of its table: no counter
   that is written back is ever negative, no status or owner out of range. *)
THEOREM TypeCorrect == Spec => []TypeOK
<1>1. Init => TypeOK
  BY InitType
<1>2. TypeOK /\ [Next]_vars => TypeOK'
  BY NextType
<1> QED
  BY <1>1, <1>2, PTL DEF Spec

-----------------------------------------------------------------------------
(* The bot is never counted.                                                *)

(* What a handler remembers of the bot has no chats either. *)
RemembersBot(k) ==
    /\ k.op = "close" /\ k.loaded.owner = Bot => k.copy.chats = 0
    /\ k.op = "leave" /\ k.who = Bot => k.was.chats = 0 /\ k.self.chats = 0

BotInv == BotNeverCounted /\ \A c \in Call : RemembersBot(call[c])

(* Only the handler that moves may forget it, and only if it writes the bot's row. *)
LEMMA BotKept ==
    ASSUME TypeOK, BotInv, NEW c \in Call, NEW rec, Go(c, rec), RemembersBot(rec),
           agent'[Bot].chats = 0
    PROVE  BotInv'
<1>1. \A d \in Call : call'[d] = IF d = c THEN rec ELSE call[d]
  BY DEF TypeOK, CallsOK, Go
<1>2. \A d \in Call : RemembersBot(call'[d])
  BY <1>1 DEF BotInv
<1>3. (\A d \in Call : RemembersBot(call[d]))'
  BY <1>2 DEF RemembersBot
<1> QED
  BY <1>3 DEF BotInv, BotNeverCounted

LEMMA BotReturn ==
    ASSUME TypeOK, BotInv, NEW c \in Call, Return(c), agent'[Bot].chats = 0
    PROVE  BotInv'
<1>1. RemembersBot(Idle) /\ Go(c, Idle)
  BY DEF RemembersBot, Idle, Return, Go
<1> QED
  BY <1>1, BotKept

LEMMA BotThrow ==
    ASSUME TypeOK, BotInv, NEW c \in Call, Throw(c)
    PROVE  BotInv'
BY BotReturn DEF Throw, BotInv, BotNeverCounted

(* A save that leaves the tracked counter alone leaves the row's counter alone. *)
LEMMA BotSavedSelf ==
    ASSUME NEW k, LeaveOK(k), NEW rows \in [Staff -> AgentRow], rows[Bot].chats = 0,
           k.who = Bot => k.was.chats = k.self.chats
    PROVE  SavedSelf(k, rows)[Bot].chats = 0
<1>1. CASE k.who = Bot
  <2>1. WriteAgent(rows[Bot], k.was, k.self).chats = rows[Bot].chats
    BY <1>1 DEF WriteAgent, AgentRow, Staff
  <2> QED
    BY <1>1, <2>1 DEF SavedSelf, Staff
<1>2. CASE k.who # Bot
  BY <1>2 DEF SavedSelf, Staff
<1> QED
  BY <1>1, <1>2

LEMMA BotBusier ==
    ASSUME TypeOK, BotNeverCounted, NEW k, NEW b \in Agent
    PROVE  BusierRows(k, b)[Bot].chats = 0
<1>1. b # Bot
  BY DeskAssumption
<1> QED
  BY <1>1 DEF BusierRows, BotNeverCounted, TypeOK, Staff

LEMMA BotLeaveNext ==
    ASSUME TypeOK, BotInv, NEW c \in Call, LeaveNext(c)
    PROVE  BotInv'
<1> DEFINE k == call[c]
           t == Oldest(k.left)
<1>1. LeaveOK(k) /\ t \in k.left /\ k.op = "leave"
  BY LeaveNextCases DEF LeaveNext
<1>2. k.who = Bot => k.was.chats = 0 /\ k.self.chats = 0
  BY <1>1 DEF BotInv, RemembersBot
<1>3. CASE /\ Go(c, Assign(k, t, BotIfActive))
           /\ UNCHANGED <<agent, ticket, room, faults>>
  <2>1. RemembersBot(Assign(k, t, BotIfActive))
    BY <1>1, <1>2 DEF RemembersBot, Assign, LeaveOK
  <2> QED
    BY <1>3, <2>1, BotKept DEF BotInv, BotNeverCounted
<1>4. ASSUME NEW b \in Candidates(k.now[t].region),
             agent' = SavedSelf(Busier(k, b), BusierRows(k, b)),
             Go(c, Assign(Clean(Busier(k, b)), t, b))
      PROVE  BotInv'
  <2> DEFINE m == Busier(k, b)
             rows == BusierRows(k, b)
  <2>1. b \in Agent /\ b # Bot
    BY CandidatesServe, DeskAssumption
  <2>2. LeaveOK(m) /\ m.who = k.who /\ m.was = k.was /\ rows \in [Staff -> AgentRow]
        /\ (k.who = Bot => m.self = k.self)
    BY <1>1, <2>1, BusierOK
  <2>3. rows[Bot].chats = 0
    BY <2>1, BotBusier DEF BotInv
  <2> HIDE DEF m, rows
  <2>4. SavedSelf(m, rows)[Bot].chats = 0
    BY <1>2, <2>2, <2>3, BotSavedSelf
  <2>5. RemembersBot(Assign(Clean(m), t, b))
    BY <1>2, <2>2 DEF RemembersBot, Assign, Clean, LeaveOK
  <2> QED
    BY <1>4, <2>4, <2>5, BotKept DEF m, rows
<1> QED
  BY <1>3, <1>4, LeaveNextCases, BotThrow

LEMMA BotLeaveSettle ==
    ASSUME TypeOK, BotInv, NEW c \in Call, LeaveSettle(c)
    PROVE  BotInv'
<1> DEFINE k == [call[c] EXCEPT !.self.chats = 0]
           stuck == {t \in Ticket : SavedTickets(k)[t].owner = k.who}
           loaded == Track(k.now, stuck, SavedTickets(k))
           sweep == [Clean(k) EXCEPT !.pc = "sweep", !.left = stuck,
                        !.base = loaded, !.now = loaded]
<1>1. /\ LeaveOK(k) /\ LeaveOK(sweep)
      /\ \/ Throw(c)
         \/ /\ agent' = SavedSelf(k, agent)
            /\ Go(c, sweep) \/ Go(c, Idle)
  BY LeaveSettleCases, Zenon
<1>2. LeaveOK(call[c]) /\ call[c].op = "leave"
  <2>1. call[c].op = "leave"
    BY DEF LeaveSettle
  <2> QED
    BY <2>1 DEF TypeOK, CallsOK, CallOK, Idle
<1>3. k.who = call[c].who /\ k.was = call[c].was /\ k.self.chats = 0
      /\ (k.who = Bot => k.was.chats = 0)
  BY <1>2 DEF LeaveOK, AgentRow, BotInv, RemembersBot
<1>4. RemembersBot(sweep)
  BY <1>1, <1>3 DEF RemembersBot, Clean, LeaveOK
<1>5. RemembersBot(Idle)
  BY DEF RemembersBot, Idle
<1> HIDE DEF k, sweep
<1>6. SavedSelf(k, agent)[Bot].chats = 0
  BY <1>1, <1>3, BotSavedSelf DEF TypeOK, BotInv, BotNeverCounted
<1> QED
  BY <1>1, <1>4, <1>5, <1>6, BotKept, BotThrow

LEMMA BotDeleteSweep ==
    ASSUME TypeOK, BotInv, NEW c \in Call, DeleteSweep(c)
    PROVE  BotInv'
<1> DEFINE k == call[c]
           done == [Clean(k) EXCEPT !.pc = "remove"]
<1>1. /\ LeaveOK(k) /\ LeaveOK(done) /\ k.op = "leave"
      /\ \/ Throw(c)
         \/ agent' = SavedSelf(k, agent) /\ Go(c, done)
  BY DeleteSweepCases, Zenon
<1>2. k.who = Bot => k.was.chats = 0 /\ k.self.chats = 0
  BY <1>1 DEF BotInv, RemembersBot
<1>3. RemembersBot(done)
  BY <1>1, <1>2 DEF RemembersBot, Clean, LeaveOK
<1> HIDE DEF k, done
<1>4. SavedSelf(k, agent)[Bot].chats = 0
  BY <1>1, <1>2, BotSavedSelf DEF TypeOK, BotInv, BotNeverCounted
<1> QED
  BY <1>1, <1>3, <1>4, BotKept, BotThrow

LEMMA BotDeleteRemove ==
    ASSUME TypeOK, BotInv, NEW c \in Call, DeleteRemove(c)
    PROVE  BotInv'
<1>1. [agent EXCEPT ![call[c].who] = [NoRow EXCEPT !.row = "gone"]][Bot].chats = 0
  BY DEF NoRow, Staff, TypeOK, BotInv, BotNeverCounted
<1>2. Throw(c) \/ (Return(c) /\ agent'[Bot].chats = 0)
  BY <1>1, DeleteRemoveCases
<1> QED
  BY <1>2, BotReturn, BotThrow

LEMMA BotReassignNext ==
    ASSUME TypeOK, BotInv, NEW c \in Call, ReassignNext(c)
    PROVE  BotInv'
<1> DEFINE k == call[c]
           t == Oldest(k.left)
           copies == Track(k.copies, Candidates(NoRegion), agent)
           rest == [k EXCEPT !.left = @ \ {t}, !.copies = copies]
<1>1. ReassignOK(k)
  BY ReassignNextCases
<1>2. CASE Throw(c)
  BY <1>2, BotThrow
<1>3. CASE Continue(c, rest) /\ agent' = agent
  <2>1. RemembersBot(IF rest.left = {} THEN Idle ELSE rest)
    BY <1>1 DEF RemembersBot, Idle, ReassignOK
  <2> QED
    BY <1>3, <2>1, BotKept DEF Continue, BotInv, BotNeverCounted
<1>4. ASSUME NEW a \in Candidates(k.loaded[t].region),
             agent' = [agent EXCEPT ![a] = WriteAgent(@, copies[a], TakeChat(copies[a]))],
             Continue(c, [rest EXCEPT !.copies[a] = TakeChat(@)])
      PROVE  BotInv'
  <2> DEFINE next == [rest EXCEPT !.copies[a] = TakeChat(@)]
  <2>1. a # Bot
    BY CandidatesServe, DeskAssumption
  <2>2. agent'[Bot].chats = 0
    BY <1>4, <2>1 DEF BotInv, BotNeverCounted, TypeOK, Staff
  <2>3. RemembersBot(IF next.left = {} THEN Idle ELSE next)
    BY <1>1 DEF RemembersBot, Idle, ReassignOK
  <2> QED
    BY <1>4, <2>2, <2>3, BotKept DEF Continue
<1> QED
  BY <1>2, <1>3, <1>4, ReassignNextCases, Zenon

LEMMA BotStart ==
    ASSUME TypeOK, BotInv, NEW c \in Call,
           \/ \E r \in Requester, rg \in AskRegion : StartLookup(c, r, rg)
           \/ StartReserve(c) \/ StartCreate(c)
    PROVE  BotInv'
<1>1. ASSUME NEW r \in Requester, NEW rg \in AskRegion, StartLookup(c, r, rg)
      PROVE  BotInv'
  <2>1. PICK rec : Go(c, rec) /\ rec.op = "start"
    <3>1. CASE \E a \in LeastBusy(Candidates(rg), agent) :
                 Go(c, [op |-> "start", pc |-> "picked", by |-> r, region |-> rg,
                        owner |-> a, copy |-> agent[a]])
      BY <3>1
    <3>2. CASE Go(c, [op |-> "start", pc |-> "reserved", by |-> r, region |-> rg,
                      owner |-> BotIfActive', copy |-> NoRow])
      BY <3>2
    <3> QED
      BY <1>1, <3>1, <3>2 DEF StartLookup
  <2>2. agent'[Bot].chats = 0
    BY <1>1 DEF StartLookup, BotInv, BotNeverCounted, TypeOK, Staff
  <2> QED
    BY <2>1, <2>2, BotKept DEF RemembersBot
<1>2. CASE StartReserve(c)
  <2> DEFINE k == call[c]
  <2>1. StartOK(k) /\ k.owner \in Agent
    BY <1>2 DEF StartReserve, TypeOK, CallsOK, CallOK, StartOK, StartCall, Idle
  <2>2. k.owner # Bot
    BY <2>1, DeskAssumption
  <2>3. RemembersBot([k EXCEPT !.pc = "reserved"])
    BY <2>1 DEF RemembersBot, StartOK, StartCall
  <2>4. \/ Throw(c)
        \/ /\ agent' = [agent EXCEPT ![k.owner] = WriteAgent(@, k.copy, TakeChat(k.copy))]
           /\ Go(c, [k EXCEPT !.pc = "reserved"])
    BY <1>2, Zenon DEF StartReserve
  <2> QED
    BY <2>2, <2>3, <2>4, BotKept, BotThrow DEF BotInv, BotNeverCounted, TypeOK, Staff
<1>3. CASE StartCreate(c)
  BY <1>3, BotReturn, BotThrow DEF StartCreate, BotInv, BotNeverCounted
<1> QED
  BY <1>1, <1>2, <1>3

LEMMA BotClose ==
    ASSUME TypeOK, BotInv, NEW c \in Call, (\E t \in Ticket : CloseLoad(c, t)) \/ CloseSave(c)
    PROVE  BotInv'
<1>1. ASSUME NEW t \in Ticket, CloseLoad(c, t)
      PROVE  BotInv'
  <2> DEFINE rec == [op |-> "close", t |-> t, loaded |-> ticket[t],
                     copy |-> IF ticket[t].owner = NoAgent THEN NoRow
                              ELSE agent[ticket[t].owner]]
  <2>1. RemembersBot(rec)
    BY DeskAssumption DEF RemembersBot, BotInv, BotNeverCounted
  <2> QED
    BY <1>1, <2>1, BotKept DEF CloseLoad, BotInv, BotNeverCounted
<1>2. CASE CloseSave(c)
  <2> DEFINE k == call[c]
             a == k.loaded.owner
  <2>1. CloseOK(k) /\ k.op = "close"
    BY <1>2 DEF CloseSave, TypeOK, CallsOK, CallOK, Idle
  <2>2. Counted(k) => a # Bot
    BY <2>1 DEF Counted, BotInv, RemembersBot
  <2>3. \/ Throw(c)
        \/ /\ agent' = IF Counted(k)
                       THEN [agent EXCEPT ![a] = WriteAgent(@, k.copy, ReleaseChat(k.copy))]
                       ELSE agent
           /\ Return(c)
    BY <1>2, Zenon DEF CloseSave
  <2> QED
    BY <2>2, <2>3, BotReturn, BotThrow DEF BotInv, BotNeverCounted, TypeOK, Staff
<1> QED
  BY <1>1, <1>2

LEMMA BotTransfer ==
    ASSUME TypeOK, BotInv, NEW c \in Call,
           (\E t \in Ticket, a \in Staff : TransferLoad(c, t, a)) \/ TransferSave(c)
    PROVE  BotInv'
<1>1. ASSUME NEW t \in Ticket, NEW a \in Staff, TransferLoad(c, t, a)
      PROVE  BotInv'
  <2>1. PICK rec : Go(c, rec) /\ RemembersBot(rec)
    BY <1>1 DEF TransferLoad, RemembersBot
  <2> QED
    BY <1>1, <2>1, BotKept DEF TransferLoad, BotInv, BotNeverCounted
<1>2. CASE TransferSave(c)
  <2>1. Throw(c) \/ (Return(c) /\ agent' = agent)
    BY <1>2 DEF TransferSave
  <2> QED
    BY <2>1, BotReturn, BotThrow DEF BotInv, BotNeverCounted
<1> QED
  BY <1>1, <1>2

LEMMA BotLeaveBegin ==
    ASSUME TypeOK, BotInv, NEW c \in Call, NEW a \in Staff, DeactivateBegin(c, a) \/ DeleteBegin(c, a)
    PROVE  BotInv'
<1>1. agent'[Bot].chats = 0 /\ agent' \in [Staff -> AgentRow]
  <2>1. agent' \in {agent, [agent EXCEPT ![a].active = FALSE]}
    BY DEF DeactivateBegin, DeleteBegin
  <2>2. agent[Bot].chats = 0 /\ agent \in [Staff -> AgentRow] /\ Bot \in Staff
    BY DEF BotInv, BotNeverCounted, TypeOK, Staff
  <2>3. [agent EXCEPT ![a].active = FALSE] \in [Staff -> AgentRow]
    BY <2>2 DEF AgentRow
  <2>4. [agent EXCEPT ![a].active = FALSE][Bot].chats = 0
    BY <2>2 DEF AgentRow
  <2> QED
    BY <2>1, <2>2, <2>3, <2>4
<1>2. ASSUME NEW row \in AgentRow, NEW delete \in BOOLEAN, a = Bot => row.chats = 0
      PROVE  RemembersBot(LeaveRecord(a, row, delete))
  <2> DEFINE k == LeaveRecord(a, row, delete)
  <2>1. k.op = "leave" /\ k.who = a /\ k.was = row
        /\ k.self = [row EXCEPT !.status = "Offline"]
    BY DEF LeaveRecord
  <2>2. [row EXCEPT !.status = "Offline"].chats = row.chats
    BY DEF AgentRow
  <2> HIDE DEF k
  <2>3. RemembersBot(k)
    BY <1>2, <2>1, <2>2 DEF RemembersBot
  <2> QED
    BY <2>3 DEF k
<1>3. PICK row \in AgentRow, delete \in BOOLEAN :
          (a = Bot => row.chats = 0) /\ Go(c, LeaveRecord(a, row, delete))
  <2>1. CASE DeactivateBegin(c, a)
    BY <1>1, <2>1 DEF DeactivateBegin
  <2>2. CASE DeleteBegin(c, a)
    BY <2>2 DEF DeleteBegin, TypeOK, BotInv, BotNeverCounted
  <2> QED
    BY <2>1, <2>2
<1> QED
  BY <1>1, <1>2, <1>3, BotKept

LEMMA BotReassignBegin ==
    ASSUME TypeOK, BotInv, NEW c \in Call, ReassignBegin(c)
    PROVE  BotInv'
<1>1. PICK rec : Go(c, rec) /\ RemembersBot(rec)
  BY DEF ReassignBegin, RemembersBot
<1> QED
  BY <1>1, BotKept DEF ReassignBegin, BotInv, BotNeverCounted

LEMMA BotSettings ==
    ASSUME TypeOK, BotInv, Settings
    PROVE  BotInv'
<1>1. agent'[Bot].chats = 0 /\ call' = call
  <2>1. ASSUME NEW a \in Agent, NEW m \in Limit, Hire(a, m) \/ SetLimit(a, m)
        PROVE  agent'[Bot].chats = 0 /\ call' = call
    BY <2>1 DEF Hire, SetLimit, BotInv, BotNeverCounted, TypeOK, Staff, AgentRow
  <2>2. ASSUME NEW a \in Staff, Reactivate(a)
        PROVE  agent'[Bot].chats = 0 /\ call' = call
    BY <2>2 DEF Reactivate, BotInv, BotNeverCounted, TypeOK, Staff, AgentRow
  <2>3. ASSUME NEW a \in Agent, NEW s \in Choice, SetStatus(a, s)
        PROVE  agent'[Bot].chats = 0 /\ call' = call
    BY <2>3 DEF SetStatus, BotInv, BotNeverCounted, TypeOK, Staff, AgentRow
  <2> QED
    BY <2>1, <2>2, <2>3 DEF Settings
<1> QED
  BY <1>1 DEF BotInv, BotNeverCounted, RemembersBot

LEMMA BotNext == TypeOK /\ BotInv /\ [Next]_vars => BotInv'
<1> SUFFICES ASSUME TypeOK, BotInv, [Next]_vars PROVE BotInv'
  OBVIOUS
<1>1. ASSUME NEW c \in Call, Step(c) PROVE BotInv'
  BY <1>1, BotStart, BotClose, BotTransfer, BotReassignNext, BotLeaveNext, BotLeaveSettle,
     BotDeleteSweep, BotDeleteRemove DEF Step
<1>2. ASSUME NEW c \in Call, Arrive(c) PROVE BotInv'
  <2>1. Managed \subseteq Staff
    BY DeskAssumption DEF Staff
  <2> QED
    BY <1>2, <2>1, BotStart, BotClose, BotTransfer, BotReassignBegin, BotLeaveBegin DEF Arrive
<1>3. ASSUME NEW c \in Call, Die(c) PROVE BotInv'
  BY <1>3, BotReturn DEF Die, BotInv, BotNeverCounted
<1>4. CASE UNCHANGED vars
  BY <1>4 DEF vars, BotInv, BotNeverCounted, RemembersBot
<1> QED
  BY <1>1, <1>2, <1>3, <1>4, BotSettings DEF Next

(* However many handlers overlap, close, transfer, hand over or delete, the
   counter of the bot stays at zero: no stale copy brings it up. *)
THEOREM BotCorrect == Spec => []BotNeverCounted
<1>1. Init => BotInv
  BY DEF Init, BotInv, BotNeverCounted, RemembersBot, Idle, NoRow, Staff
<1>2. TypeOK /\ BotInv /\ [Next]_vars => BotInv'
  BY BotNext
<1>3. BotInv => BotNeverCounted
  BY DEF BotInv
<1> QED
  BY <1>1, <1>2, <1>3, TypeCorrect, PTL DEF Spec

-----------------------------------------------------------------------------
(* Regions.                                                                 *)

ServedBy(a, rg) == a \in Agent => Covers(a, rg)

(* What a handler in flight knows of a ticket, and whom it has chosen for it,
   still fits the rows of the tickets when it comes to save. *)
Fits(k, rows) ==
    /\ k.op = "start" => ServedBy(k.owner, k.region)
    /\ k.op = "close" => rows[k.t].stat # "none"
    /\ k.op = "transfer" => rows[k.t].stat # "none" /\ ServedBy(k.to, rows[k.t].region)
    /\ k.op = "reassign" => \A t \in DOMAIN k.loaded :
            rows[t].stat # "none" /\ k.loaded[t].region = rows[t].region
    /\ k.op = "leave" => \A t \in DOMAIN k.now :
            /\ rows[t].stat # "none" /\ k.now[t].region = rows[t].region
            /\ k.now[t].stat # "none" /\ ServedBy(k.now[t].owner, k.now[t].region)

UnbornUnowned == \A t \in Ticket : ~Created(t) => ticket[t].owner = NoAgent

RegionInv ==
    /\ RegionIsolation
    /\ UnbornUnowned
    /\ \A c \in Call : Fits(call[c], ticket)

(* Once a ticket exists, its region and its requester are settled. *)
TicketMoves ==
    \A t \in Ticket :
        /\ ticket[t].stat # "none" => /\ ticket'[t].stat # "none"
                                      /\ ticket'[t].region = ticket[t].region
                                      /\ ticket'[t].by = ticket[t].by
        /\ ticket[t].stat = "none" => ticket'[t] = ticket[t] \/ ticket'[t].stat = "Open"

(* What a step does to the tickets and rooms, region-wise. *)
RegionStep == TicketMoves /\ RegionIsolation' /\ UnbornUnowned'

LEMMA RegionKept ==
    ASSUME TypeOK, RegionInv, NEW c \in Call, NEW rec, Go(c, rec), RegionStep, Fits(rec, ticket')
    PROVE  RegionInv'
<1>1. \A d \in Call : call'[d] = IF d = c THEN rec ELSE call[d]
  BY DEF TypeOK, CallsOK, Go
<1>2. ASSUME NEW d \in Call PROVE Fits(call[d], ticket')
  <2> DEFINE k == call[d]
  <2>1. CallOK(k) /\ Fits(k, ticket)
    BY DEF TypeOK, CallsOK, RegionInv
  <2>2. k.op = "close" => k.t \in Ticket
    BY <2>1 DEF CallOK, CloseOK, CloseCall, Idle
  <2>3. k.op = "transfer" => k.t \in Ticket
    BY <2>1 DEF CallOK, TransferOK, TransferCall, Idle
  <2>4. k.op = "reassign" => DOMAIN k.loaded \subseteq Ticket
    BY <2>1 DEF CallOK, ReassignOK, CopiesOf, Idle
  <2>5. k.op = "leave" => DOMAIN k.now \subseteq Ticket
    BY <2>1 DEF CallOK, LeaveOK, CopiesOf, Idle
  <2> HIDE DEF k
  <2>6. ASSUME NEW t \in Ticket, ticket[t].stat # "none"
        PROVE  ticket'[t].stat # "none" /\ ticket'[t].region = ticket[t].region
    BY <2>6 DEF RegionStep, TicketMoves
  <2>7. Fits(k, ticket')
    <3>1. CASE k.op \in {"start", "close", "transfer"}
      BY <2>1, <2>2, <2>3, <2>6, <3>1 DEF Fits
    <3>2. CASE k.op = "reassign"
      BY <2>1, <2>4, <2>6, <3>2 DEF Fits
    <3>3. CASE k.op = "leave"
      BY <2>1, <2>5, <2>6, <3>3 DEF Fits
    <3> QED
      BY <3>1, <3>2, <3>3 DEF Fits
  <2> QED
    BY <2>7 DEF k
<1>3. \A d \in Call : Fits(call'[d], ticket')
  BY <1>1, <1>2
<1> QED
  BY <1>3 DEF RegionInv, RegionStep

LEMMA RegionIdle ==
    ASSUME TypeOK, RegionInv, NEW c \in Call, Return(c), RegionStep
    PROVE  RegionInv'
<1>1. Go(c, Idle) /\ Fits(Idle, ticket')
  BY DEF Return, Go, Fits, Idle
<1> QED
  BY <1>1, RegionKept

LEMMA RegionStutter ==
    ASSUME RegionInv, UNCHANGED <<ticket, room>>
    PROVE  RegionStep
BY DEF RegionInv, RegionStep, TicketMoves, RegionIsolation, UnbornUnowned, Created

LEMMA RegionThrow ==
    ASSUME TypeOK, RegionInv, NEW c \in Call, Throw(c)
    PROVE  RegionStep /\ RegionInv'
BY RegionIdle, RegionStutter DEF Throw

(* A step that writes one ticket and its room. *)
LEMMA OneTicket ==
    ASSUME TypeOK, RegionInv, NEW t \in Ticket, NEW row, NEW members,
           ticket' = [ticket EXCEPT ![t] = row],
           room' = [room EXCEPT ![t] = members],
           ticket[t].stat # "none" => /\ row.region = ticket[t].region
                                      /\ row.by = ticket[t].by
                                      /\ row.stat # "none",
           ticket[t].stat = "none" => row.stat = "Open",
           ServedBy(row.owner, row.region),
           \A a \in members : a = row.by \/ ServedBy(a, row.region)
    PROVE  RegionStep
<1>1. \A u \in Ticket : /\ ticket'[u] = IF u = t THEN row ELSE ticket[u]
                        /\ room'[u] = IF u = t THEN members ELSE room[u]
  BY DEF TypeOK
<1>2. TicketMoves
  BY <1>1 DEF TicketMoves
<1>3. RegionIsolation'
  BY <1>1 DEF RegionIsolation, RegionInv, ServedBy, Covers
<1>4. UnbornUnowned'
  BY <1>1 DEF UnbornUnowned, RegionInv, Created
<1> QED
  BY <1>2, <1>3, <1>4 DEF RegionStep

LEMMA WrittenTicket ==
    ASSUME NEW row \in TicketRow, NEW loaded \in TicketRow, NEW now \in TicketRow
    PROVE  /\ WriteTicket(row, loaded, now).region = row.region
           /\ WriteTicket(row, loaded, now).by = row.by
           /\ WriteTicket(row, loaded, now).owner \in {row.owner, now.owner}
           /\ WriteTicket(row, loaded, now).owner # row.owner
                 => now.owner # loaded.owner
           /\ WriteTicket(row, loaded, now).stat \in {row.stat, now.stat}
BY DEF WriteTicket, TicketRow

(* Whoever owns a ticket, or sits in its room, may go on doing so. *)
LEMMA RegionRow ==
    ASSUME RegionInv, NEW t \in Ticket
    PROVE  /\ ServedBy(ticket[t].owner, ticket[t].region)
           /\ \A a \in room[t] : a = ticket[t].by \/ ServedBy(a, ticket[t].region)
BY DEF RegionInv, RegionIsolation, ServedBy

LEMMA RegionStart ==
    ASSUME TypeOK, RegionInv, NEW c \in Call,
           \/ \E r \in Requester, rg \in AskRegion : StartLookup(c, r, rg)
           \/ StartReserve(c) \/ StartCreate(c)
    PROVE  RegionStep /\ RegionInv'
<1>1. ASSUME NEW r \in Requester, NEW rg \in AskRegion, StartLookup(c, r, rg)
      PROVE  RegionStep /\ RegionInv'
  <2>1. PICK rec : Go(c, rec) /\ rec.op = "start" /\ ServedBy(rec.owner, rec.region)
    <3>1. ASSUME NEW a \in LeastBusy(Candidates(rg), agent),
                 Go(c, [op |-> "start", pc |-> "picked", by |-> r, region |-> rg,
                        owner |-> a, copy |-> agent[a]])
          PROVE  \E rec : Go(c, rec) /\ rec.op = "start" /\ ServedBy(rec.owner, rec.region)
      BY <3>1, CandidatesServe DEF LeastBusy, ServedBy
    <3>2. CASE Go(c, [op |-> "start", pc |-> "reserved", by |-> r, region |-> rg,
                      owner |-> BotIfActive', copy |-> NoRow])
      <4>1. BotIfActive' \notin Agent
        BY DeskAssumption DEF BotIfActive
      <4> QED
        BY <3>2, <4>1 DEF ServedBy
    <3>3. \/ \E a \in LeastBusy(Candidates(rg), agent) :
                Go(c, [op |-> "start", pc |-> "picked", by |-> r, region |-> rg,
                       owner |-> a, copy |-> agent[a]])
          \/ Go(c, [op |-> "start", pc |-> "reserved", by |-> r, region |-> rg,
                    owner |-> BotIfActive', copy |-> NoRow])
      BY <1>1 DEF StartLookup
    <3> QED
      BY <3>1, <3>2, <3>3
  <2>2. RegionStep
    BY <1>1, RegionStutter DEF StartLookup
  <2> QED
    BY <2>1, <2>2, RegionKept DEF Fits
<1>2. CASE StartReserve(c)
  <2> DEFINE k == call[c]
  <2>1. StartOK(k) /\ k.op = "start" /\ ServedBy(k.owner, k.region)
    BY <1>2 DEF StartReserve, TypeOK, CallsOK, CallOK, Idle, RegionInv, Fits
  <2>2. Fits([k EXCEPT !.pc = "reserved"], ticket')
    BY <2>1 DEF Fits, StartOK, StartCall
  <2>3. \/ Throw(c)
        \/ /\ Go(c, [k EXCEPT !.pc = "reserved"])
           /\ UNCHANGED <<ticket, room>>
    BY <1>2 DEF StartReserve
  <2> QED
    BY <2>2, <2>3, RegionKept, RegionStutter, RegionThrow
<1>3. CASE StartCreate(c)
  <2> DEFINE k == call[c]
  <2>1. ServedBy(k.owner, k.region)
    BY <1>3 DEF StartCreate, RegionInv, Fits
  <2>2. CASE Throw(c)
    BY <2>2, RegionThrow
  <2>3. CASE ~Throw(c)
    <3>1. PICK t \in Ticket :
              /\ IsNext(t)
              /\ ticket' = [ticket EXCEPT ![t] = [stat |-> "Open",
                     owner |-> k.owner, region |-> k.region, by |-> k.by]]
              /\ room' = [room EXCEPT ![t] = {k.owner, k.by} \cap Staff]
      BY <1>3, <2>3 DEF StartCreate
    <3>2. ticket[t].stat = "none"
      BY <3>1 DEF IsNext, Created
    <3>3. RegionStep
      <4> DEFINE row == [stat |-> "Open", owner |-> k.owner, region |-> k.region, by |-> k.by]
                 members == {k.owner, k.by} \cap Staff
      <4>1. row.stat = "Open" /\ ServedBy(row.owner, row.region)
            /\ \A a \in members : a = row.by \/ ServedBy(a, row.region)
        BY <2>1
      <4> HIDE DEF row, members
      <4> QED
        BY <3>1, <3>2, <4>1, OneTicket DEF row, members
    <3> QED
      BY <1>3, <2>3, <3>3, RegionIdle DEF StartCreate
  <2> QED
    BY <2>2, <2>3
<1> QED
  BY <1>1, <1>2, <1>3

LEMMA RegionClose ==
    ASSUME TypeOK, RegionInv, NEW c \in Call,
           (\E t \in Ticket : CloseLoad(c, t)) \/ CloseSave(c)
    PROVE  RegionStep /\ RegionInv'
<1>1. ASSUME NEW t \in Ticket, CloseLoad(c, t)
      PROVE  RegionStep /\ RegionInv'
  <2>1. PICK rec : Go(c, rec) /\ rec.op = "close" /\ rec.t = t
    BY <1>1 DEF CloseLoad
  <2>2. Fits(rec, ticket')
    BY <1>1, <2>1 DEF CloseLoad, Fits, Created
  <2> QED
    BY <1>1, <2>1, <2>2, RegionKept, RegionStutter DEF CloseLoad
<1>2. CASE CloseSave(c)
  <2> DEFINE k == call[c]
             t == k.t
             now == [k.loaded EXCEPT !.stat = "Closed"]
             row == WriteTicket(ticket[t], k.loaded, now)
  <2>1. t \in Ticket /\ k.loaded \in TicketRow /\ ticket[t] \in TicketRow
        /\ now \in TicketRow /\ now.owner = k.loaded.owner /\ now.stat = "Closed"
    BY <1>2 DEF CloseSave, TypeOK, CallsOK, CallOK, CloseOK, CloseCall, Idle,
                TicketRow, TicketStatus
  <2>2. ticket[t].stat # "none"
    BY <1>2 DEF CloseSave, RegionInv, Fits
  <2>3. CASE Throw(c)
    BY <2>3, RegionThrow
  <2>4. CASE ~Throw(c)
    <3>1. ticket' = [ticket EXCEPT ![t] = row] /\ room' = room /\ Return(c)
      BY <1>2, <2>4, Zenon DEF CloseSave
    <3>2. room' = [room EXCEPT ![t] = room[t]]
      BY <2>1, <3>1 DEF TypeOK
    <3>3. row.region = ticket[t].region /\ row.by = ticket[t].by /\ row.stat # "none"
          /\ row.owner = ticket[t].owner
      <4> HIDE DEF now, t
      <4> QED
        BY <2>1, <2>2, WrittenTicket
    <3>4. ServedBy(row.owner, row.region) /\ \A a \in room[t] : a = row.by \/ ServedBy(a, row.region)
      BY <2>1, <3>3, RegionRow
    <3>5. RegionStep
      <4> DEFINE members == room[t]
      <4>1. room' = [room EXCEPT ![t] = members] /\ \A a \in members : a = row.by \/ ServedBy(a, row.region)
        BY <3>2, <3>4
      <4> HIDE DEF row, t, members
      <4> QED
        BY <2>1, <2>2, <3>1, <3>3, <3>4, <4>1, OneTicket
    <3> QED
      BY <3>1, <3>5, RegionIdle
  <2> QED
    BY <2>3, <2>4
<1> QED
  BY <1>1, <1>2

LEMMA RegionTransfer ==
    ASSUME TypeOK, RegionInv, NEW c \in Call,
           (\E t \in Ticket, a \in Staff : TransferLoad(c, t, a)) \/ TransferSave(c)
    PROVE  RegionStep /\ RegionInv'
<1>1. ASSUME NEW t \in Ticket, NEW a \in Staff, TransferLoad(c, t, a)
      PROVE  RegionStep /\ RegionInv'
  <2>1. PICK rec : Go(c, rec) /\ rec.op = "transfer" /\ rec.t = t /\ rec.to = a
    BY <1>1 DEF TransferLoad
  <2>2. Covers(a, ticket[t].region)
    BY <1>1 DEF TransferLoad, Covers
  <2>3. Fits(rec, ticket')
    BY <1>1, <2>1, <2>2 DEF TransferLoad, Fits, Created, ServedBy
  <2> QED
    BY <1>1, <2>1, <2>3, RegionKept, RegionStutter DEF TransferLoad
<1>2. CASE TransferSave(c)
  <2> DEFINE k == call[c]
             t == k.t
             now == [k.loaded EXCEPT !.owner = k.to, !.stat = "Transferred"]
             row == WriteTicket(ticket[t], k.loaded, now)
             members == (room[t] \ ({k.loaded.owner} \cap k.members)) \cup ({k.to} \ k.members)
  <2>1. t \in Ticket /\ k.loaded \in TicketRow /\ ticket[t] \in TicketRow
        /\ now \in TicketRow /\ now.owner = k.to /\ now.stat = "Transferred"
    <3>1. k.t \in Ticket /\ k.loaded \in TicketRow /\ k.to \in Staff
      BY <1>2 DEF TransferSave, TypeOK, CallsOK, CallOK, TransferOK, TransferCall, Idle
    <3>2. ticket[t] \in TicketRow
      BY <3>1 DEF TypeOK
    <3>3. now \in TicketRow /\ now.owner = k.to /\ now.stat = "Transferred"
      BY <3>1 DEF TicketRow, TicketStatus
    <3> QED
      BY <3>1, <3>2, <3>3
  <2>2. ticket[t].stat # "none" /\ ServedBy(k.to, ticket[t].region)
    BY <1>2 DEF TransferSave, RegionInv, Fits
  <2>3. CASE Throw(c)
    BY <2>3, RegionThrow
  <2>4. CASE ~Throw(c)
    <3>1. /\ ticket' = [ticket EXCEPT ![t] = row]
          /\ room' = [room EXCEPT ![t] = members] /\ Return(c)
      BY <1>2, <2>4, Zenon DEF TransferSave
    <3>2. row.region = ticket[t].region /\ row.by = ticket[t].by /\ row.stat # "none"
          /\ row.owner \in {ticket[t].owner, k.to}
      <4> HIDE DEF now, t
      <4> QED
        BY <2>1, <2>2, WrittenTicket
    <3>3. ServedBy(row.owner, row.region) /\ \A a \in members : a = row.by \/ ServedBy(a, row.region)
      BY <2>1, <2>2, <3>2, RegionRow
    <3> HIDE DEF row, t, members
    <3>4. RegionStep
      BY <2>1, <2>2, <3>1, <3>2, <3>3, OneTicket
    <3> QED
      BY <3>1, <3>4, RegionIdle
  <2> QED
    BY <2>3, <2>4
<1> QED
  BY <1>1, <1>2

LEMMA RegionReassignBegin ==
    ASSUME TypeOK, RegionInv, NEW c \in Call, ReassignBegin(c)
    PROVE  RegionStep /\ RegionInv'
<1> DEFINE rec == [op |-> "reassign", left |-> BotTickets,
                   loaded |-> [t \in BotTickets |-> ticket[t]],
                   copies |-> [a \in ActiveAgents |-> agent[a]]]
<1>1. /\ Go(c, rec) /\ rec.op = "reassign"
      /\ rec.loaded = [t \in BotTickets |-> ticket[t]]
  BY DEF ReassignBegin
<1>2. \A t \in BotTickets : ticket[t].stat # "none"
  BY DEF BotTickets, Live
<1>3. Fits(rec, ticket')
  BY <1>1, <1>2 DEF Fits, ReassignBegin
<1> QED
  BY <1>1, <1>3, RegionKept, RegionStutter DEF ReassignBegin

LEMMA RegionReassignNext ==
    ASSUME TypeOK, RegionInv, NEW c \in Call, ReassignNext(c)
    PROVE  RegionStep /\ RegionInv'
<1> DEFINE k == call[c]
           t == Oldest(k.left)
           copies == Track(k.copies, Candidates(NoRegion), agent)
           rest == [k EXCEPT !.left = @ \ {t}, !.copies = copies]
<1>1. ReassignOK(k) /\ t \in DOMAIN k.loaded /\ t \in Ticket /\ k.loaded[t] \in TicketRow
      /\ k.op = "reassign"
  BY ReassignNextCases DEF ReassignNext
<1>2. \A u \in DOMAIN k.loaded :
          ticket[u].stat # "none" /\ k.loaded[u].region = ticket[u].region
  BY <1>1 DEF RegionInv, Fits
<1>3. DOMAIN k.loaded \subseteq Ticket
  BY <1>1 DEF ReassignOK, CopiesOf
<1>4. ASSUME NEW next, next.op = "reassign", next.loaded = k.loaded, RegionStep,
             Continue(c, next)
      PROVE  RegionInv'
  <2>1. Fits(next, ticket') /\ Fits(Idle, ticket')
    BY <1>2, <1>3, <1>4 DEF Fits, Idle, RegionStep, TicketMoves
  <2> QED
    BY <1>4, <2>1, RegionKept DEF Continue
<1>5. CASE Throw(c)
  BY <1>5, RegionThrow
<1>6. CASE Continue(c, rest) /\ UNCHANGED <<agent, ticket, room, faults>>
  <2>1. rest.op = "reassign" /\ rest.loaded = k.loaded
    BY <1>1 DEF ReassignOK
  <2> QED
    BY <1>4, <1>6, <2>1, RegionStutter
<1>7. ASSUME NEW a \in Candidates(k.loaded[t].region),
             ticket' = [ticket EXCEPT ![t] = WriteTicket(@, k.loaded[t],
                           [k.loaded[t] EXCEPT !.owner = a, !.stat = "InProgress"])],
             room' = Seated(t, a),
             Continue(c, [rest EXCEPT !.copies[a] = TakeChat(@)])
      PROVE  RegionStep /\ RegionInv'
  <2> DEFINE now == [k.loaded[t] EXCEPT !.owner = a, !.stat = "InProgress"]
             row == WriteTicket(ticket[t], k.loaded[t], now)
             members == room[t] \cup {a}
             next == [rest EXCEPT !.copies[a] = TakeChat(@)]
  <2>1. ServedBy(a, ticket[t].region) /\ a \in Staff
    BY <1>1, <1>2, CandidatesServe DEF ServedBy, Staff
  <2>2. now \in TicketRow /\ now.owner = a /\ now.stat = "InProgress" /\ ticket[t] \in TicketRow
    BY <1>1, <2>1 DEF TicketRow, TicketStatus, TypeOK
  <2>3. row.region = ticket[t].region /\ row.by = ticket[t].by /\ row.stat # "none"
        /\ row.owner \in {ticket[t].owner, a}
    <3> HIDE DEF now, t
    <3> QED
      BY <1>1, <1>2, <2>2, WrittenTicket
  <2>4. ServedBy(row.owner, row.region) /\ \A b \in members : b = row.by \/ ServedBy(b, row.region)
    BY <1>1, <2>1, <2>3, RegionRow
  <2>5. ticket' = [ticket EXCEPT ![t] = row] /\ room' = [room EXCEPT ![t] = members]
    BY <1>7 DEF Seated
  <2>6. RegionStep
    <3> HIDE DEF row, t, members
    <3> QED
      BY <1>1, <1>2, <2>3, <2>4, <2>5, OneTicket
  <2>7. next.op = "reassign" /\ next.loaded = k.loaded
    BY <1>1 DEF ReassignOK
  <2> QED
    BY <1>4, <1>7, <2>6, <2>7
<1> QED
  BY <1>5, <1>6, <1>7, ReassignNextCases, Zenon

(* A leaving agent's handler fits as long as its tracked tickets do. *)
LEMMA FitsLeave ==
    ASSUME NEW k, NEW m, NEW rows, k.op = "leave", m.op = "leave", m.now = k.now,
           Fits(k, rows)
    PROVE  Fits(m, rows)
BY DEF Fits

LEMMA FitsAssign ==
    ASSUME NEW k, LeaveOK(k), NEW rows, Fits(k, rows), NEW t \in k.left,
           NEW b \in Staff \cup {NoAgent}, ServedBy(b, k.now[t].region)
    PROVE  Fits(Assign(k, t, b), rows)
<1> DEFINE x == k.now[t]
           now == [k.now EXCEPT ![t] = HandedOver(@, k.pc, b)]
           m == Assign(k, t, b)
<1>1. t \in DOMAIN k.now /\ x \in TicketRow /\ k.op = "leave"
  BY DEF LeaveOK, CopiesOf
<1>2. \A u \in DOMAIN k.now :
          /\ rows[u].stat # "none" /\ k.now[u].region = rows[u].region
          /\ k.now[u].stat # "none" /\ ServedBy(k.now[u].owner, k.now[u].region)
  BY <1>1 DEF Fits
<1>3. LET y == HandedOver(x, k.pc, b)
      IN y.region = x.region /\ y.owner = b /\ y.stat # "none"
  BY <1>1, <1>2 DEF HandedOver, TicketRow
<1>4. \A u \in DOMAIN now :
          /\ rows[u].stat # "none" /\ now[u].region = rows[u].region
          /\ now[u].stat # "none" /\ ServedBy(now[u].owner, now[u].region)
  BY <1>1, <1>2, <1>3
<1>5. m.op = "leave" /\ m.now = now
  BY DEF Assign, LeaveOK
<1> HIDE DEF m, now
<1>6. Fits(m, rows)
  BY <1>4, <1>5 DEF Fits
<1> QED
  BY <1>6 DEF m

(* What a leaving agent's handler saves. *)
LEMMA SavedFits ==
    ASSUME TypeOK, RegionInv, NEW k, LeaveOK(k), Fits(k, ticket), NEW t \in Ticket
    PROVE  LET y == SavedTickets(k)[t]
           IN /\ ticket[t].stat # "none" => /\ y.stat # "none"
                                            /\ y.region = ticket[t].region
                                            /\ y.by = ticket[t].by
              /\ ticket[t].stat = "none" => y = ticket[t]
              /\ ServedBy(y.owner, y.region)
<1>1. CASE t \in Dirty(k)
  <2> DEFINE y == WriteTicket(ticket[t], k.base[t], k.now[t])
  <2>1. t \in DOMAIN k.now /\ k.base[t] \in TicketRow /\ k.now[t] \in TicketRow
        /\ ticket[t] \in TicketRow
    BY <1>1 DEF Dirty, LeaveOK, CopiesOf, TypeOK
  <2>2. /\ ticket[t].stat # "none" /\ k.now[t].region = ticket[t].region
        /\ k.now[t].stat # "none" /\ ServedBy(k.now[t].owner, k.now[t].region)
    BY <2>1 DEF Fits, LeaveOK
  <2>3. SavedTickets(k)[t] = y
    BY <1>1 DEF SavedTickets
  <2>4. y.region = ticket[t].region /\ y.by = ticket[t].by
        /\ y.owner \in {ticket[t].owner, k.now[t].owner}
        /\ y.stat \in {ticket[t].stat, k.now[t].stat}
    BY <2>1, WrittenTicket
  <2>5. ServedBy(ticket[t].owner, ticket[t].region)
    BY RegionRow
  <2> HIDE DEF y
  <2> QED
    BY <2>2, <2>3, <2>4, <2>5
<1>2. CASE t \notin Dirty(k)
  <2>1. SavedTickets(k)[t] = ticket[t]
    BY <1>2 DEF SavedTickets
  <2> QED
    BY <2>1, RegionRow
<1> QED
  BY <1>1, <1>2

(* A step that leaves the rooms alone and rewrites tickets within their region. *)
LEMMA ManyTickets ==
    ASSUME TypeOK, RegionInv, room' = room,
           \A t \in Ticket :
              /\ ticket[t].stat # "none" => /\ ticket'[t].stat # "none"
                                            /\ ticket'[t].region = ticket[t].region
                                            /\ ticket'[t].by = ticket[t].by
              /\ ticket[t].stat = "none" => ticket'[t] = ticket[t]
              /\ ServedBy(ticket'[t].owner, ticket'[t].region)
    PROVE  RegionStep
<1>1. TicketMoves
  BY DEF TicketMoves
<1>2. UnbornUnowned'
  BY DEF UnbornUnowned, RegionInv, Created
<1>3. RegionIsolation'
  <2> SUFFICES ASSUME NEW t \in Ticket, NEW a \in Agent,
                      ticket'[t].owner = a \/ a \in room'[t] \ {ticket'[t].by}
               PROVE  Covers(a, ticket'[t].region)
    BY DEF RegionIsolation, Covers
  <2>1. ticket'[t].region = ticket[t].region /\ ticket'[t].by = ticket[t].by
    OBVIOUS
  <2> QED
    BY <2>1, RegionRow DEF ServedBy
<1> QED
  BY <1>1, <1>2, <1>3 DEF RegionStep

LEMMA RegionSaved ==
    ASSUME TypeOK, RegionInv, NEW k, LeaveOK(k), Fits(k, ticket),
           ticket' = SavedTickets(k), room' = room
    PROVE  RegionStep /\ Fits(k, ticket')
<1>1. RegionStep
  BY SavedFits, ManyTickets
<1>2. k.op = "leave" /\ DOMAIN k.now \subseteq Ticket
  BY DEF LeaveOK, CopiesOf
<1>3. Fits(k, ticket')
  BY <1>1, <1>2 DEF Fits, RegionStep, TicketMoves
<1> QED
  BY <1>1, <1>3

LEMMA RegionLeaveBegin ==
    ASSUME TypeOK, RegionInv, NEW c \in Call, NEW a \in Staff,
           DeactivateBegin(c, a) \/ DeleteBegin(c, a)
    PROVE  RegionStep /\ RegionInv'
<1>1. RegionStep
  BY RegionStutter DEF DeactivateBegin, DeleteBegin
<1>2. ASSUME NEW row, NEW delete
      PROVE  Fits(LeaveRecord(a, row, delete), ticket)
  <2> DEFINE mine == TicketsOf(a, Live)
             k == LeaveRecord(a, row, delete)
  <2>1. k.op = "leave" /\ k.now = [t \in mine |-> ticket[t]]
    BY DEF LeaveRecord
  <2>2. \A t \in mine : t \in Ticket /\ ticket[t].stat # "none"
    BY DEF TicketsOf, Live
  <2>3. \A t \in mine : ServedBy(ticket[t].owner, ticket[t].region)
    BY <2>2, RegionRow
  <2> HIDE DEF k, mine
  <2>4. Fits(k, ticket)
    BY <2>1, <2>2, <2>3 DEF Fits
  <2> QED
    BY <2>4 DEF k
<1>3. PICK row, delete : Go(c, LeaveRecord(a, row, delete))
  BY DEF DeactivateBegin, DeleteBegin
<1>4. Fits(LeaveRecord(a, row, delete), ticket')
  <2>1. ticket' = ticket
    BY DEF DeactivateBegin, DeleteBegin
  <2> QED
    BY <1>2, <2>1
<1> QED
  BY <1>1, <1>3, <1>4, RegionKept

LEMMA RegionLeaveNext ==
    ASSUME TypeOK, RegionInv, NEW c \in Call, LeaveNext(c)
    PROVE  RegionStep /\ RegionInv'
<1> DEFINE k == call[c]
           t == Oldest(k.left)
<1>1. LeaveOK(k) /\ t \in k.left /\ k.op = "leave" /\ Fits(k, ticket)
  BY LeaveNextCases DEF LeaveNext, RegionInv
<1>2. CASE /\ Go(c, Assign(k, t, BotIfActive))
           /\ UNCHANGED <<agent, ticket, room, faults>>
  <2> DEFINE b == BotIfActive
  <2>1. b \in Staff \cup {NoAgent} /\ ServedBy(b, k.now[t].region)
    BY BotIfActiveType, DeskAssumption DEF ServedBy, Staff
  <2>2. Fits(Assign(k, t, b), ticket)
    <3> HIDE DEF b
    <3> QED
      BY <1>1, <2>1, FitsAssign
  <2>3. Go(c, Assign(k, t, b)) /\ ticket' = ticket /\ room' = room
    BY <1>2
  <2> HIDE DEF b
  <2> QED
    BY <2>2, <2>3, RegionKept, RegionStutter
<1>3. ASSUME NEW b \in Candidates(k.now[t].region),
             ticket' = SavedTickets(Busier(k, b)),
             Go(c, Assign(Clean(Busier(k, b)), t, b)),
             room' = room
      PROVE  RegionStep /\ RegionInv'
  <2> DEFINE m == Busier(k, b)
             n == Clean(m)
  <2>1. b \in Agent /\ b \in Staff /\ ServedBy(b, k.now[t].region)
    BY CandidatesServe DEF Staff, ServedBy
  <2>2. LeaveOK(m) /\ m.left = k.left /\ m.now = k.now
    BY <1>1, <2>1, BusierOK
  <2>3. LeaveOK(n) /\ n.left = k.left /\ n.now = k.now
    <3> HIDE DEF m
    <3> QED
      BY <2>2, CleanOK DEF Clean, LeaveOK
  <2>4. Fits(m, ticket) /\ m.op = "leave" /\ n.op = "leave"
    <3>1. m.op = "leave" /\ n.op = "leave"
      BY <2>2, <2>3 DEF LeaveOK
    <3> HIDE DEF m, n
    <3> QED
      BY <1>1, <2>2, <3>1, FitsLeave
  <2>5. RegionStep /\ Fits(m, ticket')
    <3>1. ticket' = SavedTickets(m)
      BY <1>3
    <3> HIDE DEF m
    <3> QED
      BY <1>3, <2>2, <2>4, <3>1, RegionSaved
  <2>6. Fits(n, ticket')
    <3> HIDE DEF m, n
    <3> QED
      BY <2>2, <2>3, <2>4, <2>5, FitsLeave
  <2>7. Fits(Assign(n, t, b), ticket')
    <3> HIDE DEF n
    <3> QED
      BY <1>1, <2>1, <2>3, <2>6, FitsAssign
  <2>8. Go(c, Assign(n, t, b))
    BY <1>3
  <2> HIDE DEF n
  <2> QED
    BY <2>5, <2>7, <2>8, RegionKept
<1> QED
  BY <1>2, <1>3, LeaveNextCases, RegionThrow

LEMMA RegionLeaveSettle ==
    ASSUME TypeOK, RegionInv, NEW c \in Call, LeaveSettle(c)
    PROVE  RegionStep /\ RegionInv'
<1> DEFINE k == [call[c] EXCEPT !.self.chats = 0]
           stuck == {t \in Ticket : SavedTickets(k)[t].owner = k.who}
           loaded == Track(k.now, stuck, SavedTickets(k))
           sweep == [Clean(k) EXCEPT !.pc = "sweep", !.left = stuck,
                        !.base = loaded, !.now = loaded]
<1>1. /\ LeaveOK(k) /\ LeaveOK(sweep) /\ k.now = call[c].now
      /\ \/ Throw(c)
         \/ /\ ticket' = SavedTickets(k) /\ room' = room
            /\ Go(c, sweep) \/ Go(c, Idle)
  BY LeaveSettleCases, Zenon
<1>2. Fits(k, ticket) /\ k.op = "leave"
  <2>1. call[c].op = "leave" /\ Fits(call[c], ticket)
    BY DEF LeaveSettle, RegionInv
  <2>2. k.op = "leave"
    BY <1>1 DEF LeaveOK
  <2> HIDE DEF k
  <2> QED
    BY <1>1, <2>1, <2>2, FitsLeave
<1>3. CASE Throw(c)
  BY <1>3, RegionThrow
<1>4. CASE ~Throw(c)
  <2>1. RegionStep /\ Fits(k, ticket') /\ ticket' = SavedTickets(k)
    <3> HIDE DEF k, sweep
    <3> QED
      BY <1>1, <1>2, <1>4, RegionSaved
  <2>2. \A t \in DOMAIN loaded : loaded[t] = IF t \in DOMAIN k.now THEN k.now[t] ELSE ticket'[t]
    <3> HIDE DEF k, stuck
    <3>1. \A t \in DOMAIN k.now : loaded[t] = k.now[t]
      BY DEF Track
    <3>2. \A t \in stuck \ DOMAIN k.now : loaded[t] = SavedTickets(k)[t]
      BY DEF Track
    <3>3. DOMAIN loaded = DOMAIN k.now \cup stuck
      BY DEF Track
    <3> HIDE DEF loaded
    <3> QED
      BY <2>1, <3>1, <3>2, <3>3
  <2>3. ASSUME NEW t \in DOMAIN loaded, t \notin DOMAIN k.now
        PROVE  ticket'[t].stat # "none" /\ ServedBy(ticket'[t].owner, ticket'[t].region)
    <3>1. t \in stuck
      <4> HIDE DEF k, stuck
      <4>1. DOMAIN loaded = DOMAIN k.now \cup stuck
        BY DEF Track
      <4> HIDE DEF loaded
      <4> QED
        BY <2>3, <4>1
    <3>2. t \in Ticket /\ ticket'[t].owner = k.who
      BY <2>1, <3>1
    <3>3. ticket'[t].owner # NoAgent
      <4>1. LeaveOK(k) /\ ticket'[t].owner = k.who
        BY <1>1, <3>2
      <4> HIDE DEF k, stuck, loaded, sweep
      <4>2. k.who \in Staff
        BY <4>1 DEF LeaveOK
      <4> QED
        BY <4>1, <4>2, DeskAssumption DEF Staff
    <3> HIDE DEF k, loaded, stuck
    <3> QED
      BY <2>1, <3>2, <3>3 DEF RegionStep, UnbornUnowned, Created, RegionIsolation, ServedBy
  <2>4. sweep.op = "leave" /\ sweep.now = loaded
    BY <1>1 DEF LeaveOK, Clean
  <2>5. Fits(sweep, ticket')
    <3> HIDE DEF k, loaded, sweep
    <3> QED
      BY <1>2, <2>1, <2>2, <2>3, <2>4 DEF Fits
  <2>6. Fits(Idle, ticket')
    BY DEF Fits, Idle
  <2> HIDE DEF k, sweep
  <2> QED
    BY <1>1, <1>4, <2>1, <2>5, <2>6, RegionKept
<1> QED
  BY <1>3, <1>4

LEMMA RegionDeleteSweep ==
    ASSUME TypeOK, RegionInv, NEW c \in Call, DeleteSweep(c)
    PROVE  RegionStep /\ RegionInv'
<1> DEFINE k == call[c]
           done == [Clean(k) EXCEPT !.pc = "remove"]
<1>1. /\ LeaveOK(k) /\ LeaveOK(done) /\ k.op = "leave"
      /\ \/ Throw(c)
         \/ ticket' = SavedTickets(k) /\ room' = room /\ Go(c, done)
  BY DeleteSweepCases, Zenon
<1>2. Fits(k, ticket)
  BY DEF RegionInv
<1>3. done.op = "leave" /\ done.now = k.now
  BY <1>1 DEF LeaveOK, Clean
<1> HIDE DEF k, done
<1>4. CASE ticket' = SavedTickets(k) /\ room' = room /\ Go(c, done)
  <2>1. RegionStep /\ Fits(k, ticket')
    BY <1>1, <1>2, <1>4, RegionSaved
  <2>2. Fits(done, ticket')
    BY <1>1, <1>3, <2>1, FitsLeave
  <2> QED
    BY <1>4, <2>1, <2>2, RegionKept
<1> QED
  BY <1>1, <1>4, RegionThrow

LEMMA RegionDeleteRemove ==
    ASSUME TypeOK, RegionInv, NEW c \in Call, DeleteRemove(c)
    PROVE  RegionStep /\ RegionInv'
<1> DEFINE k == call[c]
           own == {t \in DOMAIN k.now : k.now[t].owner = k.who}
           freed == [t \in Ticket |-> IF t \in own THEN [ticket[t] EXCEPT !.owner = NoAgent]
                                     ELSE ticket[t]]
<1>1. /\ LeaveOK(k) /\ k.op = "leave" /\ Fits(k, ticket)
      /\ Throw(c) \/ (ticket' = freed /\ Return(c) /\ room' = room)
  <2>1. k.op = "leave" /\ Fits(k, ticket)
    BY DEF DeleteRemove, RegionInv
  <2> QED
    BY <2>1, DeleteRemoveCases, Zenon
<1>2. CASE ticket' = freed /\ Return(c) /\ room' = room
  <2>1. \A t \in own : t \in Ticket /\ ticket[t].stat # "none"
    BY <1>1 DEF LeaveOK, CopiesOf, Fits
  <2>2. ASSUME NEW t \in Ticket
        PROVE  /\ ticket[t].stat # "none" => /\ ticket'[t].stat # "none"
                                             /\ ticket'[t].region = ticket[t].region
                                             /\ ticket'[t].by = ticket[t].by
               /\ ticket[t].stat = "none" => ticket'[t] = ticket[t]
               /\ ServedBy(ticket'[t].owner, ticket'[t].region)
    <3>1. CASE t \in own
      <4>1. ticket'[t] = [ticket[t] EXCEPT !.owner = NoAgent]
        BY <1>2, <3>1
      <4>2. /\ ticket'[t].stat = ticket[t].stat /\ ticket'[t].region = ticket[t].region
            /\ ticket'[t].by = ticket[t].by /\ ticket'[t].owner = NoAgent
        BY <4>1 DEF TicketRow, TypeOK
      <4>3. ServedBy(NoAgent, ticket'[t].region)
        BY DeskAssumption DEF ServedBy
      <4> QED
        BY <2>1, <3>1, <4>2, <4>3
    <3>2. CASE t \notin own
      <4>1. ticket'[t] = ticket[t]
        BY <1>2, <3>2
      <4> QED
        BY <4>1, RegionRow
    <3> QED
      BY <3>1, <3>2
  <2>3. RegionStep
    BY <1>2, <2>2, ManyTickets
  <2> QED
    BY <1>2, <2>3, RegionIdle
<1> QED
  BY <1>1, <1>2, RegionThrow

LEMMA RegionNext == TypeOK /\ RegionInv /\ [Next]_vars => RegionStep /\ RegionInv'
<1> SUFFICES ASSUME TypeOK, RegionInv, [Next]_vars PROVE RegionStep /\ RegionInv'
  OBVIOUS
<1>1. ASSUME NEW c \in Call, Step(c) PROVE RegionStep /\ RegionInv'
  BY <1>1, RegionStart, RegionClose, RegionTransfer, RegionReassignNext, RegionLeaveNext,
     RegionLeaveSettle, RegionDeleteSweep, RegionDeleteRemove DEF Step
<1>2. ASSUME NEW c \in Call, Arrive(c) PROVE RegionStep /\ RegionInv'
  <2>1. Managed \subseteq Staff
    BY DeskAssumption DEF Staff
  <2> QED
    BY <1>2, <2>1, RegionStart, RegionClose, RegionTransfer, RegionReassignBegin,
       RegionLeaveBegin DEF Arrive
<1>3. ASSUME NEW c \in Call, Die(c) PROVE RegionStep /\ RegionInv'
  BY <1>3, RegionIdle, RegionStutter DEF Die
<1>4. CASE Settings \/ UNCHANGED vars
  <2>1. UNCHANGED <<ticket, room, call>>
    BY <1>4 DEF Settings, Hire, SetLimit, Reactivate, SetStatus, vars
  <2>2. RegionStep
    BY <2>1, RegionStutter
  <2> QED
    BY <2>1, <2>2 DEF RegionInv, RegionStep
<1> QED
  BY <1>1, <1>2, <1>3, <1>4 DEF Next

LEMMA RegionInit == Init => RegionInv
<1> SUFFICES ASSUME Init PROVE RegionInv
  OBVIOUS
<1>1. RegionIsolation /\ UnbornUnowned
  BY DeskAssumption DEF Init, RegionIsolation, UnbornUnowned, Created
<1>2. \A c \in Call : Fits(call[c], ticket)
  BY DEF Init, Fits, Idle
<1> QED
  BY <1>1, <1>2 DEF RegionInv

(* No interleaving of handlers, and no handler that dies half way, ever gives a
   ticket of one region to an agent who does not serve it, or seats that agent in
   its room: the region is checked where an agent is chosen, and what was checked
   still holds when it is saved. *)
THEOREM RegionCorrect == Spec => []RegionIsolation
<1>1. Init => RegionInv
  BY RegionInit
<1>2. TypeOK /\ RegionInv /\ [Next]_vars => RegionInv'
  BY RegionNext
<1>3. RegionInv => RegionIsolation
  BY DEF RegionInv
<1> QED
  BY <1>1, <1>2, <1>3, TypeCorrect, PTL DEF Spec

-----------------------------------------------------------------------------
(* One handler at a time: what it has read is what the database still holds. *)

Serial == \A c, d \in Call : c = d

(* A ticket the leaving agent may still hand over: its own, and under way unless
   its row is being deleted. *)
Leavable(k, x) == x.owner = k.who /\ (k.pc = "handoff" => x.stat \in Live)

(* What the leaving agent's handler tracks of the tickets rows: the database's
   state, what is left to hand over, and what it has handed over since the last save. *)
FreshTickets(k, rows) ==
    /\ \A t \in DOMAIN k.now : k.base[t] = rows[t] /\ rows[t].stat # "none"
    /\ \A t \in k.left : k.now[t] = k.base[t] /\ Leavable(k, k.base[t])
    /\ \A t \in DOMAIN k.now :
          \/ k.now[t] = k.base[t]
          \/ /\ Leavable(k, k.base[t])
             /\ k.now[t] = HandedOver(k.base[t], k.pc, k.now[t].owner)

Fresh(k) ==
    /\ k.op \in {"close", "transfer"} => k.loaded = ticket[k.t] /\ Created(k.t)
    /\ k.op = "reassign" => \A t \in k.left : /\ k.loaded[t] = ticket[t]
                                              /\ ticket[t].owner = Bot /\ ticket[t].stat \in Live
    /\ k.op = "leave" => /\ FreshTickets(k, ticket)
                         /\ k.pc # "handoff" => k.delete
                         /\ k.who \in Managed
                         /\ IF k.delete THEN "delete" \in Kinds ELSE "deactivate" \in Kinds

SerialInv == \A c \in Call : Fresh(call[c])

(* What a call in flight is, by its operation.                             *)
LEMMA CallKinds ==
    ASSUME TypeOK, NEW c \in Call
    PROVE  /\ call[c].op = "start" => StartOK(call[c])
           /\ call[c].op = "close" => CloseOK(call[c])
           /\ call[c].op = "transfer" => TransferOK(call[c])
           /\ call[c].op = "reassign" => ReassignOK(call[c])
           /\ call[c].op = "leave" => LeaveOK(call[c])
BY DEF TypeOK, CallsOK, CallOK, Idle

(* With one slot, the call that moved is the only one there is. *)
LEMMA OneCall ==
    ASSUME Serial, TypeOK, NEW c \in Call, NEW m, Go(c, m), Fresh(m)'
    PROVE  SerialInv'
<1>1. \A d \in Call : call'[d] = m
  BY DEF Serial, Go, TypeOK, CallsOK
<1> QED
  BY <1>1 DEF SerialInv

Opens(t) ==
    /\ ticket[t].stat = "none" /\ ticket'[t].stat = "Open"
    /\ \E c \in Call : call[c].op = "start"

Passes(t) ==
    /\ Life!Keeps(ticket[t], ticket'[t])
    /\ \/ Life!Take(ticket[t], ticket'[t])
       \/ Life!HandOver(ticket[t], ticket'[t])
       \/ Life!Transfer(ticket[t], ticket'[t])
       \/ Life!Close(ticket[t], ticket'[t])
       \/ "delete" \in Kinds /\ Life!Inherit(ticket[t], ticket'[t])

StrictMoves == \A t \in Ticket : ticket'[t] # ticket[t] => Opens(t) \/ Passes(t)

SerialStep == StrictMoves /\ SerialInv'

(* A step that only reads, and remembers what is there. *)
LEMMA SerialRead ==
    ASSUME Serial, TypeOK, NEW c \in Call, NEW m, Go(c, m), ticket' = ticket, Fresh(m)'
    PROVE  SerialStep
BY OneCall DEF SerialStep, StrictMoves

LEMMA SerialReturn ==
    ASSUME Serial, TypeOK, NEW c \in Call, Return(c)
    PROVE  SerialInv'
<1>1. Go(c, Idle) /\ Fresh(Idle)'
  BY DEF Return, Go, Fresh, Idle
<1> QED
  BY <1>1, OneCall

LEMMA SerialThrow ==
    ASSUME Serial, TypeOK, NEW c \in Call, Throw(c)
    PROVE  SerialStep
BY SerialReturn DEF Throw, SerialStep, StrictMoves

(* Read and written back alone, a row is what the handler made of it. *)
LEMMA WriteAlone ==
    ASSUME NEW row \in TicketRow, NEW now \in TicketRow,
           now.region = row.region, now.by = row.by
    PROVE  WriteTicket(row, row, now) = now
<1>1. WriteTicket(row, row, now).stat = now.stat /\ WriteTicket(row, row, now).owner = now.owner
      /\ WriteTicket(row, row, now).region = now.region /\ WriteTicket(row, row, now).by = now.by
  BY DEF WriteTicket, TicketRow
<1>2. WriteTicket(row, row, now) \in TicketRow
  BY WriteTicketType
<1> QED
  BY <1>1, <1>2 DEF TicketRow

LEMMA SerialStart ==
    ASSUME Serial, TypeOK, SerialInv, NEW c \in Call,
           \/ \E r \in Requester, rg \in AskRegion : StartLookup(c, r, rg)
           \/ StartReserve(c)
    PROVE  SerialStep
<1>1. CASE \E r \in Requester, rg \in AskRegion : StartLookup(c, r, rg)
  <2>1. ticket' = ticket /\ \E m : Go(c, m) /\ m.op = "start"
    <3>1. PICK r \in Requester, rg \in AskRegion : StartLookup(c, r, rg)
      BY <1>1
    <3>2. CASE \E a \in LeastBusy(Candidates(rg), agent) :
                 Go(c, [op |-> "start", pc |-> "picked", by |-> r, region |-> rg,
                        owner |-> a, copy |-> agent[a]])
      BY <3>1, <3>2 DEF StartLookup
    <3>3. CASE Go(c, [op |-> "start", pc |-> "reserved", by |-> r, region |-> rg,
                      owner |-> BotIfActive', copy |-> NoRow])
      BY <3>1, <3>3 DEF StartLookup
    <3> QED
      BY <3>1, <3>2, <3>3 DEF StartLookup
  <2>2. PICK m : Go(c, m) /\ m.op = "start"
    BY <2>1
  <2>3. Fresh(m)'
    BY <2>2 DEF Fresh
  <2> QED
    BY <2>1, <2>2, <2>3, SerialRead
<1>2. CASE StartReserve(c) /\ ~Throw(c)
  <2>1. call[c] \in StartCall
    BY <1>2, CallKinds DEF StartReserve, StartOK
  <2>2. PICK m : m = [call[c] EXCEPT !.pc = "reserved"] /\ Go(c, m) /\ ticket' = ticket
    BY <1>2 DEF StartReserve
  <2>3. m.op = "start"
    BY <2>1, <2>2 DEF StartCall
  <2>4. Fresh(m)'
    BY <2>3 DEF Fresh
  <2> QED
    BY <2>2, <2>4, SerialRead
<1> QED
  BY <1>1, <1>2, SerialThrow

LEMMA SerialStartCreate ==
    ASSUME Serial, TypeOK, SerialInv, NEW c \in Call, StartCreate(c)
    PROVE  /\ SerialStep
           /\ \/ Throw(c)
              \/ \E t \in Ticket :
                    /\ ~Created(t) /\ ticket' = [ticket EXCEPT ![t] = ticket'[t]]
                    /\ ticket'[t].owner = call[c].owner
                    /\ room' = [room EXCEPT ![t] = {call[c].owner, call[c].by} \cap Staff]
<1> DEFINE k == call[c]
           x == [stat |-> "Open", owner |-> k.owner, region |-> k.region, by |-> k.by]
<1>1. CASE ~Throw(c)
  <2>1. PICK t \in Ticket :
            /\ IsNext(t) /\ ticket' = [ticket EXCEPT ![t] = x]
            /\ room' = [room EXCEPT ![t] = {k.owner, k.by} \cap Staff]
    BY <1>1 DEF StartCreate
  <2>2. Return(c) /\ k.op = "start"
    BY <1>1 DEF StartCreate
  <2>3. x.stat = "Open" /\ x.owner = k.owner
    OBVIOUS
  <2> HIDE DEF x
  <2>4. ticket'[t] = x /\ \A u \in Ticket : u # t => ticket'[u] = ticket[u]
    BY <2>1 DEF TypeOK
  <2>5. Opens(t) /\ ~Created(t)
    BY <2>1, <2>2, <2>3, <2>4 DEF Opens, IsNext, Created
  <2>6. SerialStep
    BY <2>2, <2>4, <2>5, SerialReturn DEF SerialStep, StrictMoves
  <2> QED
    BY <2>1, <2>3, <2>4, <2>5, <2>6
<1> QED
  BY <1>1, SerialThrow

LEMMA SerialCloseLoad ==
    ASSUME Serial, TypeOK, NEW c \in Call, NEW t \in Ticket, CloseLoad(c, t)
    PROVE  SerialStep
<1>1. PICK m : Go(c, m) /\ m.op = "close" /\ m.t = t /\ m.loaded = ticket[t]
  BY DEF CloseLoad
<1>2. ticket' = ticket /\ Created(t)
  BY DEF CloseLoad
<1>3. Fresh(m)'
  BY <1>1, <1>2 DEF Fresh, Created
<1> QED
  BY <1>1, <1>2, <1>3, SerialRead

LEMMA SerialCloseSave ==
    ASSUME Serial, TypeOK, SerialInv, NEW c \in Call, CloseSave(c)
    PROVE  /\ SerialStep
           /\ \/ Throw(c)
              \/ /\ ticket' = [ticket EXCEPT ![call[c].t] = [@ EXCEPT !.stat = "Closed"]]
                 /\ call[c].t \in Ticket /\ room' = room
<1> DEFINE k == call[c]
           x == k.loaded
           y == [x EXCEPT !.stat = "Closed"]
<1>1. k \in CloseCall /\ k.op = "close" /\ k.t \in Ticket /\ x \in TicketRow
  BY CallKinds DEF CloseSave, CloseOK, CloseCall
<1>2. x = ticket[k.t] /\ Created(k.t)
  BY <1>1 DEF SerialInv, Fresh
<1>3. CASE ~Throw(c)
  <2>1. ticket' = [ticket EXCEPT ![k.t] = WriteTicket(@, x, y)] /\ Return(c) /\ room' = room
    BY <1>3, Zenon DEF CloseSave
  <2>2. y \in TicketRow /\ y.region = x.region /\ y.by = x.by /\ y.stat = "Closed" /\ y.owner = x.owner
    BY <1>1 DEF TicketRow, TicketStatus
  <2>3. ticket' = [ticket EXCEPT ![k.t] = y]
    <3>1. WriteTicket(ticket[k.t], x, y) = y
      <4> HIDE DEF y
      <4> QED
        BY <1>1, <1>2, <2>2, WriteAlone
    <3> QED
      BY <2>1, <3>1
  <2>4. ticket'[k.t] = y /\ \A u \in Ticket : u # k.t => ticket'[u] = ticket[u]
    BY <1>1, <2>3 DEF TypeOK
  <2>5. Passes(k.t)
    BY <1>2, <2>2, <2>4 DEF Passes, Life!Keeps, Life!Close, Created
  <2>6. SerialStep
    BY <2>1, <2>4, <2>5, SerialReturn DEF SerialStep, StrictMoves
  <2> QED
    BY <1>1, <1>2, <2>1, <2>3, <2>6
<1> QED
  BY <1>3, SerialThrow

LEMMA SerialTransferLoad ==
    ASSUME Serial, TypeOK, NEW c \in Call, NEW t \in Ticket, NEW a \in Staff, TransferLoad(c, t, a)
    PROVE  SerialStep
<1>1. PICK m : Go(c, m) /\ m.op = "transfer" /\ m.t = t /\ m.loaded = ticket[t]
  BY DEF TransferLoad
<1>2. ticket' = ticket /\ Created(t)
  BY DEF TransferLoad
<1>3. Fresh(m)'
  BY <1>1, <1>2 DEF Fresh, Created
<1> QED
  BY <1>1, <1>2, <1>3, SerialRead

LEMMA SerialTransferSave ==
    ASSUME Serial, TypeOK, SerialInv, NEW c \in Call, TransferSave(c)
    PROVE  /\ SerialStep
           /\ \/ Throw(c)
              \/ LET t == call[c].t
                 IN /\ t \in Ticket /\ ticket' = [ticket EXCEPT ![t] = ticket'[t]]
                    /\ ticket'[t].stat = "Transferred" /\ ticket'[t].owner # NoAgent
                    /\ \A u \in Ticket : u # t => room'[u] = room[u]
<1> DEFINE k == call[c]
           x == k.loaded
           y == [x EXCEPT !.owner = k.to, !.stat = "Transferred"]
<1>1. k \in TransferCall /\ k.op = "transfer" /\ k.t \in Ticket /\ x \in TicketRow /\ k.to \in Staff
  BY CallKinds DEF TransferSave, TransferOK, TransferCall
<1>2. x = ticket[k.t] /\ Created(k.t)
  BY <1>1 DEF SerialInv, Fresh
<1>3. CASE ~Throw(c)
  <2>1. /\ ticket' = [ticket EXCEPT ![k.t] = WriteTicket(@, x, y)]
        /\ Return(c) /\ \A u \in Ticket : u # k.t => room'[u] = room[u]
    BY <1>3 DEF TransferSave, TypeOK
  <2>2. y \in TicketRow /\ y.region = x.region /\ y.by = x.by /\ y.stat = "Transferred" /\ y.owner = k.to
    BY <1>1 DEF TicketRow, TicketStatus
  <2>3. ticket' = [ticket EXCEPT ![k.t] = y]
    <3>1. WriteTicket(ticket[k.t], x, y) = y
      <4> HIDE DEF y
      <4> QED
        BY <1>1, <1>2, <2>2, WriteAlone
    <3> QED
      BY <2>1, <3>1
  <2>4. ticket'[k.t] = y /\ \A u \in Ticket : u # k.t => ticket'[u] = ticket[u]
    BY <1>1, <2>3 DEF TypeOK
  <2>5. y.owner # NoAgent
    BY <1>1, <2>2, DeskAssumption DEF Staff
  <2>6. Passes(k.t)
    BY <1>2, <2>2, <2>4, <2>5 DEF Passes, Life!Keeps, Life!Transfer, Created
  <2>7. SerialStep
    BY <2>1, <2>4, <2>6, SerialReturn DEF SerialStep, StrictMoves
  <2>8. ticket' = [ticket EXCEPT ![k.t] = ticket'[k.t]]
    BY <2>3, <2>4
  <2> HIDE DEF y
  <2> QED
    BY <1>1, <2>1, <2>2, <2>4, <2>5, <2>7, <2>8
<1> QED
  BY <1>3, SerialThrow

LEMMA SerialReassignBegin ==
    ASSUME Serial, TypeOK, NEW c \in Call, ReassignBegin(c)
    PROVE  SerialStep
<1>1. PICK m : /\ Go(c, m) /\ m.op = "reassign" /\ m.left = BotTickets
               /\ m.loaded = [t \in BotTickets |-> ticket[t]]
  BY DEF ReassignBegin
<1>2. ticket' = ticket
  BY DEF ReassignBegin
<1>3. \A t \in m.left : m.loaded[t] = ticket[t] /\ ticket[t].owner = Bot /\ ticket[t].stat \in Live
  BY <1>1 DEF BotTickets
<1>4. Fresh(m)'
  BY <1>1, <1>2, <1>3 DEF Fresh
<1> QED
  BY <1>1, <1>2, <1>4, SerialRead

LEMMA SerialContinue ==
    ASSUME Serial, TypeOK, NEW c \in Call, NEW m, Continue(c, m), m.op = "reassign", Fresh(m)'
    PROVE  SerialInv'
<1>1. PICK n : Go(c, n) /\ (n = m \/ n = Idle)
  BY DEF Continue
<1> QED
  BY <1>1, OneCall, SerialReturn DEF Go, Return

(* The cycle takes one ticket from the bot, or changes nothing. *)
TakenFromBot(a, t) ==
    /\ ticket' = [ticket EXCEPT ![t] = ticket'[t]]
    /\ ticket'[t].owner = a /\ ticket'[t].stat = "InProgress"
    /\ room' = Seated(t, a)

LEMMA SerialReassignNext ==
    ASSUME Serial, TypeOK, SerialInv, NEW c \in Call, ReassignNext(c)
    PROVE  /\ SerialStep
           /\ \/ ticket' = ticket /\ room' = room
              \/ \E a \in Agent, t \in Ticket : TakenFromBot(a, t)
<1> DEFINE k == call[c]
           t == Oldest(k.left)
           copies == Track(k.copies, Candidates(NoRegion), agent)
           rest == [k EXCEPT !.left = @ \ {t}, !.copies = copies]
           able == Candidates(k.loaded[t].region)
<1>1. /\ ReassignOK(k) /\ t \in DOMAIN k.loaded /\ t \in Ticket /\ k.loaded[t] \in TicketRow
      /\ \/ Throw(c)
         \/ Continue(c, rest) /\ UNCHANGED <<agent, ticket, room, faults>>
         \/ \E a \in able :
               /\ agent' = [agent EXCEPT ![a] = WriteAgent(@, copies[a], TakeChat(copies[a]))]
               /\ ticket' = [ticket EXCEPT ![t] = WriteTicket(@, k.loaded[t],
                      [k.loaded[t] EXCEPT !.owner = a, !.stat = "InProgress"])]
               /\ room' = Seated(t, a)
               /\ Continue(c, [rest EXCEPT !.copies[a] = TakeChat(@)])
  BY ReassignNextCases, Zenon
<1>2. Fresh(k) /\ k.op = "reassign"
  BY DEF ReassignNext, SerialInv
<1>3. /\ k = [op |-> "reassign", left |-> k.left, loaded |-> k.loaded, copies |-> k.copies]
      /\ k.left \subseteq Ticket /\ k.left # {}
  BY <1>1 DEF ReassignOK
<1>4. t \in k.left
  BY <1>3, OldestInS
<1>5. k.loaded[t] = ticket[t] /\ ticket[t].owner = Bot /\ ticket[t].stat \in Live
  BY <1>2, <1>4 DEF Fresh
<1>6. able \subseteq Agent
  BY DEF Candidates
<1> HIDE DEF copies, able
<1>7. CASE Throw(c)
  BY <1>7, SerialThrow DEF Throw
<1>8. CASE Continue(c, rest) /\ UNCHANGED <<agent, ticket, room, faults>>
  <2>1. PICK m : m = rest /\ Continue(c, m)
    BY <1>8
  <2>2. m.op = "reassign" /\ m.left = k.left \ {t} /\ m.loaded = k.loaded
    BY <1>3, <2>1
  <2>3. Fresh(m)'
    BY <1>2, <1>8, <2>2 DEF Fresh
  <2> QED
    BY <1>8, <2>1, <2>2, <2>3, SerialContinue DEF SerialStep, StrictMoves
<1>9. ASSUME NEW a \in able,
              ticket' = [ticket EXCEPT ![t] = WriteTicket(@, k.loaded[t],
                            [k.loaded[t] EXCEPT !.owner = a, !.stat = "InProgress"])],
              room' = Seated(t, a),
              Continue(c, [rest EXCEPT !.copies[a] = TakeChat(@)])
       PROVE  SerialStep /\ TakenFromBot(a, t) /\ a \in Agent
  <2> DEFINE x == ticket[t]
             y == [x EXCEPT !.owner = a, !.stat = "InProgress"]
  <2>1. a \in Agent /\ a \in Staff
    BY <1>6 DEF Staff
  <2>2. y \in TicketRow /\ y.region = x.region /\ y.by = x.by /\ y.stat = "InProgress" /\ y.owner = a
    BY <1>1, <1>5, <2>1 DEF TicketRow, TicketStatus
  <2>3. ticket' = [ticket EXCEPT ![t] = y] /\ ticket'[t] = y
    <3>1. WriteTicket(x, x, y) = y
      <4>1. x \in TicketRow
        BY <1>1, <1>5
      <4> HIDE DEF x, y
      <4> QED
        BY <2>2, <4>1, WriteAlone
    <3>2. ticket' = [ticket EXCEPT ![t] = y]
      BY <1>5, <1>9, <3>1
    <3> HIDE DEF y, t
    <3> QED
      BY <1>1, <3>2 DEF TypeOK
  <2> HIDE DEF y
  <2>4. TakenFromBot(a, t)
    BY <1>9, <2>2, <2>3 DEF TakenFromBot
  <2>5. \A u \in Ticket : u # t => ticket'[u] = ticket[u]
    BY <2>3 DEF TypeOK
  <2>6. StrictMoves
    <3>1. Life!Keeps(ticket[t], ticket'[t]) /\ Life!Take(ticket[t], ticket'[t])
      BY <1>5, <2>1, <2>2, <2>3 DEF Life!Keeps, Life!Take, Life!Ongoing, Live
    <3> QED
      BY <2>5, <3>1 DEF StrictMoves, Passes
  <2>7. PICK m : m = [rest EXCEPT !.copies[a] = TakeChat(@)] /\ Continue(c, m)
    BY <1>9
  <2>8. m.op = "reassign" /\ m.left = k.left \ {t} /\ m.loaded = k.loaded
    BY <1>3, <2>7
  <2>9. Fresh(m)'
    BY <1>2, <1>3, <2>5, <2>8 DEF Fresh
  <2> QED
    BY <2>1, <2>4, <2>6, <2>7, <2>8, <2>9, SerialContinue DEF SerialStep
<1> HIDE DEF rest, t
<1> QED
  BY <1>1, <1>7, <1>8, <1>9

(* The hand-over keeps the region and the requester, and gives a ticket away as the
   strict life wants it. *)
LEMMA HandedOverStat ==
    ASSUME NEW x \in TicketRow, NEW pc, NEW b \in Staff \cup {NoAgent}
    PROVE  LET y == HandedOver(x, pc, b)
           IN /\ y.region = x.region /\ y.by = x.by /\ y.owner = b
              /\ pc = "sweep" => y.stat = x.stat
              /\ pc = "handoff" /\ x.stat \in Live
                     => y.stat = IF b = NoAgent THEN "Open" ELSE "InProgress"
<1> DEFINE s == CASE pc = "sweep" -> x.stat
                [] pc = "handoff" /\ b = NoAgent -> "Open"
                [] OTHER -> IF x.stat = "Open" THEN "InProgress" ELSE x.stat
<1>1. HandedOver(x, pc, b) = [x EXCEPT !.owner = b, !.stat = s]
  BY DEF HandedOver
<1>2. pc = "sweep" => s = x.stat
  OBVIOUS
<1>3. pc = "handoff" /\ b = NoAgent => s = "Open"
  OBVIOUS
<1>4. pc = "handoff" /\ b # NoAgent /\ x.stat \in Live => s = "InProgress"
  BY DEF Live
<1> HIDE DEF s
<1> QED
  BY <1>1, <1>2, <1>3, <1>4 DEF TicketRow

LEMMA TrackedTickets ==
    ASSUME NEW k, LeaveOK(k), NEW t \in DOMAIN k.now
    PROVE  t \in Ticket /\ k.base[t] \in TicketRow /\ k.now[t] \in TicketRow
           /\ k.now[t].owner \in Staff \cup {NoAgent} /\ k.who \in Staff
BY DEF LeaveOK, CopiesOf, TicketRow

(* What a handler alone saves is what it tracks. *)
LEMMA SavedAlone ==
    ASSUME TypeOK, NEW k, LeaveOK(k), FreshTickets(k, ticket), NEW t \in Ticket
    PROVE  SavedTickets(k)[t] = IF t \in DOMAIN k.now THEN k.now[t] ELSE ticket[t]
<1>1. CASE t \in Dirty(k)
  <2> DEFINE x == k.base[t]
             y == k.now[t]
  <2>1. t \in DOMAIN k.now /\ y # x
    BY <1>1 DEF Dirty
  <2>2. x \in TicketRow /\ y \in TicketRow /\ y.owner \in Staff \cup {NoAgent} /\ x = ticket[t]
    BY <2>1, TrackedTickets DEF FreshTickets
  <2>3. y = HandedOver(x, k.pc, y.owner)
    BY <2>1 DEF FreshTickets
  <2>4. y.region = x.region /\ y.by = x.by
    <3> DEFINE b == y.owner
               pc == k.pc
    <3>1. HandedOver(x, pc, b).region = x.region /\ HandedOver(x, pc, b).by = x.by
      <4>1. b \in Staff \cup {NoAgent} /\ x \in TicketRow
        BY <2>2
      <4> HIDE DEF b, x, pc
      <4> QED
        BY <4>1, HandedOverStat
    <3> QED
      BY <2>3, <3>1
  <2>5. SavedTickets(k)[t] = WriteTicket(ticket[t], x, y)
    BY <1>1 DEF SavedTickets
  <2> HIDE DEF x, y
  <2>6. WriteTicket(x, x, y) = y
    BY <2>2, <2>4, WriteAlone
  <2> QED
    BY <2>1, <2>2, <2>5, <2>6 DEF y
<1>2. CASE t \notin Dirty(k)
  <2>1. SavedTickets(k)[t] = ticket[t]
    BY <1>2 DEF SavedTickets
  <2>2. t \in DOMAIN k.now => k.now[t] = ticket[t]
    BY <1>2 DEF Dirty, FreshTickets
  <2> QED
    BY <2>1, <2>2
<1> QED
  BY <1>1, <1>2

(* What the handler tracks differs from the database by hand-overs. *)
LEMMA TrackedPasses ==
    ASSUME TypeOK, NEW k, LeaveOK(k), FreshTickets(k, ticket),
           k.pc # "handoff" => "delete" \in Kinds,
           NEW t \in DOMAIN k.now, k.now[t] # ticket[t]
    PROVE  LET x == ticket[t]
               y == k.now[t]
           IN /\ Life!Keeps(x, y) /\ x.stat # "none" /\ x.owner = k.who
              /\ x.owner # NoAgent
              /\ k.pc = "handoff" => Life!HandOver(x, y)
              /\ k.pc # "handoff" => "delete" \in Kinds /\ y.stat = x.stat
<1> DEFINE x == ticket[t]
           y == k.now[t]
           b == y.owner
           pc == k.pc
<1>1. x \in TicketRow /\ y \in TicketRow /\ b \in Staff \cup {NoAgent} /\ k.who \in Staff
      /\ k.base[t] = x /\ x.stat # "none"
  BY TrackedTickets DEF FreshTickets
<1>2. Leavable(k, x) /\ y = HandedOver(x, pc, b)
  BY <1>1 DEF FreshTickets
<1>3. LET z == HandedOver(x, pc, b)
      IN /\ z.region = x.region /\ z.by = x.by /\ z.owner = b
         /\ pc = "sweep" => z.stat = x.stat
         /\ pc = "handoff" /\ x.stat \in Live
                => z.stat = IF b = NoAgent THEN "Open" ELSE "InProgress"
  <2>1. b \in Staff \cup {NoAgent} /\ x \in TicketRow
    BY <1>1
  <2> HIDE DEF b, x, pc
  <2> QED
    BY <2>1, HandedOverStat
<1>4. y.region = x.region /\ y.by = x.by
      /\ (pc = "sweep" => y.stat = x.stat)
      /\ (pc = "handoff" /\ x.stat \in Live
                => y.stat = IF b = NoAgent THEN "Open" ELSE "InProgress")
  BY <1>2, <1>3
<1>5. x.owner = k.who /\ x.owner # NoAgent /\ (pc = "handoff" => x.stat \in Live)
  BY <1>1, <1>2, DeskAssumption DEF Leavable, Staff
<1>6. pc = "handoff" => Life!HandOver(x, y)
  BY <1>4, <1>5 DEF Life!HandOver, Life!Ongoing, Live
<1>7. pc \in {"handoff", "sweep"}
  BY <1>1 DEF LeaveOK
<1> HIDE DEF x, y
<1> QED
  BY <1>1, <1>4, <1>5, <1>6, <1>7 DEF Life!Keeps, x, y

LEMMA SavedMoves ==
    ASSUME TypeOK, NEW k, LeaveOK(k), FreshTickets(k, ticket),
           k.pc # "handoff" => "delete" \in Kinds,
           ticket' = SavedTickets(k)
    PROVE  /\ StrictMoves
           /\ \A t \in Ticket : ticket'[t] = IF t \in DOMAIN k.now THEN k.now[t] ELSE ticket[t]
           /\ \A t \in DOMAIN k.now : ticket'[t] = k.now[t] /\ ticket'[t].stat # "none"
<1>1. \A t \in Ticket : ticket'[t] = IF t \in DOMAIN k.now THEN k.now[t] ELSE ticket[t]
  BY SavedAlone
<1>2. StrictMoves
  <2> SUFFICES ASSUME NEW t \in Ticket, ticket'[t] # ticket[t] PROVE Passes(t)
    BY DEF StrictMoves
  <2>1. t \in DOMAIN k.now /\ ticket'[t] = k.now[t]
    BY <1>1
  <2> QED
    BY <2>1, TrackedPasses DEF Passes, Life!Inherit
<1>3. ASSUME NEW t \in DOMAIN k.now
      PROVE  ticket'[t] = k.now[t] /\ ticket'[t].stat # "none"
  <2>1. t \in Ticket
    BY TrackedTickets
  <2>2. ticket'[t] = k.now[t]
    BY <1>1, <2>1
  <2>3. CASE k.now[t] = ticket[t]
    BY <2>2, <2>3 DEF FreshTickets
  <2>4. CASE k.now[t] # ticket[t]
    <3>1. k.pc = "handoff" => Life!HandOver(ticket[t], k.now[t])
      BY <2>4, TrackedPasses
    <3>2. k.pc # "handoff" => k.now[t].stat = ticket[t].stat /\ ticket[t].stat # "none"
      BY <2>4, TrackedPasses
    <3> QED
      BY <2>2, <3>1, <3>2 DEF Life!HandOver
  <2> QED
    BY <2>2, <2>3, <2>4
<1> QED
  BY <1>1, <1>2, <1>3

LEMMA AssignFields ==
    ASSUME NEW k, LeaveOK(k), NEW t, NEW b, NEW m, m = Assign(k, t, b)
    PROVE  /\ m.op = "leave" /\ m.who = k.who /\ m.pc = k.pc /\ m.delete = k.delete
           /\ m.was = k.was /\ m.self = k.self /\ m.copies = k.copies /\ m.base = k.base
           /\ m.left = k.left \ {t}
           /\ m.now = [k.now EXCEPT ![t] = HandedOver(k.now[t], k.pc, b)]
BY DEF Assign, LeaveOK

(* One more ticket handed over, of those that are left. *)
LEMMA FreshAssign ==
    ASSUME NEW k, LeaveOK(k), NEW rows, FreshTickets(k, rows), NEW t \in k.left,
           NEW b \in Staff \cup {NoAgent}, NEW m, m = Assign(k, t, b)
    PROVE  FreshTickets(m, rows)
<1> DEFINE x == k.base[t]
           z == HandedOver(x, k.pc, b)
<1>1. t \in DOMAIN k.now /\ k.now[t] = x /\ Leavable(k, x) /\ x \in TicketRow
  BY TrackedTickets DEF LeaveOK, FreshTickets
<1>2. /\ m.who = k.who /\ m.pc = k.pc /\ m.base = k.base
      /\ m.left = k.left \ {t} /\ m.now = [k.now EXCEPT ![t] = z]
  BY <1>1, AssignFields
<1>3. z.owner = b
  BY <1>1 DEF HandedOver, TicketRow
<1> HIDE DEF x
<1>4. DOMAIN m.now = DOMAIN k.now /\ m.now[t] = z /\ \A u \in DOMAIN k.now : u # t => m.now[u] = k.now[u]
  BY <1>1, <1>2
<1>5. \A y : Leavable(m, y) <=> Leavable(k, y)
  BY <1>2 DEF Leavable
<1>6. \A u \in DOMAIN m.now : m.base[u] = rows[u] /\ rows[u].stat # "none"
  BY <1>2, <1>4 DEF FreshTickets
<1>7. \A u \in m.left : m.now[u] = m.base[u] /\ Leavable(m, m.base[u])
  <2>1. k.left \subseteq DOMAIN k.now
    BY DEF LeaveOK
  <2> QED
    BY <1>2, <1>4, <1>5, <2>1 DEF FreshTickets
<1>8. ASSUME NEW u \in DOMAIN m.now
      PROVE  \/ m.now[u] = m.base[u]
             \/ Leavable(m, m.base[u]) /\ m.now[u] = HandedOver(m.base[u], m.pc, m.now[u].owner)
  <2>1. CASE u = t
    BY <1>1, <1>2, <1>3, <1>4, <1>5, <2>1 DEF x
  <2>2. CASE u # t
    BY <1>2, <1>4, <1>5, <2>2 DEF FreshTickets
  <2> QED
    BY <2>1, <2>2
<1>9. FreshTickets(m, rows)
  BY <1>6, <1>7, <1>8 DEF FreshTickets
<1> QED
  BY <1>9

AsTracked(k) ==
    \A t \in Ticket : ticket'[t] = IF t \in DOMAIN k.now THEN k.now[t] ELSE ticket[t]

LEMMA SerialLeaveBegin ==
    ASSUME Serial, TypeOK, NEW c \in Call, NEW a \in Managed,
           \/ DeactivateBegin(c, a) /\ "deactivate" \in Kinds
           \/ DeleteBegin(c, a) /\ "delete" \in Kinds
    PROVE  SerialStep
<1>1. ticket' = ticket
  BY DEF DeactivateBegin, DeleteBegin
<1>2. PICK m, row, delete :
         /\ m = LeaveRecord(a, row, delete) /\ Go(c, m)
         /\ IF delete THEN "delete" \in Kinds ELSE "deactivate" \in Kinds
  BY DEF DeactivateBegin, DeleteBegin
<1> DEFINE mine == TicketsOf(a, Live)
           base == [t \in mine |-> ticket[t]]
<1>3. /\ m.op = "leave" /\ m.who = a /\ m.pc = "handoff" /\ m.left = mine /\ m.delete = delete
      /\ m.base = base /\ m.now = base
  <2> HIDE DEF base, mine
  <2> QED
    BY <1>2 DEF LeaveRecord, base, mine
<1>4. \A t \in mine : base[t] = ticket[t] /\ ticket[t].owner = a /\ ticket[t].stat \in Live
                      /\ ticket[t].stat # "none"
  BY DEF TicketsOf, Live
<1>5. DOMAIN base = mine
  OBVIOUS
<1> HIDE DEF base, mine
<1>6. FreshTickets(m, ticket')
  BY <1>1, <1>3, <1>4, <1>5 DEF FreshTickets, Leavable
<1>7. Fresh(m)'
  BY <1>2, <1>3, <1>6 DEF Fresh
<1> QED
  BY <1>1, <1>2, <1>7, SerialRead

LEMMA SerialLeaveNext ==
    ASSUME Serial, TypeOK, SerialInv, NEW c \in Call, LeaveNext(c)
    PROVE  SerialStep /\ (ticket' = ticket \/ AsTracked(call[c]))
<1> DEFINE k == call[c]
           t == Oldest(k.left)
<1>1. /\ LeaveOK(k) /\ t \in k.left /\ t \in Ticket /\ t \in DOMAIN k.now
      /\ \/ Throw(c)
         \/ /\ Go(c, Assign(k, t, BotIfActive))
            /\ UNCHANGED <<agent, ticket, room, faults>>
         \/ \E b \in Candidates(k.now[t].region) :
               /\ agent' = SavedSelf(Busier(k, b), BusierRows(k, b))
               /\ ticket' = SavedTickets(Busier(k, b))
               /\ Go(c, Assign(Clean(Busier(k, b)), t, b))
               /\ UNCHANGED <<room, faults>>
  BY LeaveNextCases
<1>2. /\ k.op = "leave" /\ FreshTickets(k, ticket) /\ (k.pc # "handoff" => k.delete)
      /\ k.who \in Managed
      /\ (IF k.delete THEN "delete" \in Kinds ELSE "deactivate" \in Kinds)
  BY DEF LeaveNext, SerialInv, Fresh
(* The record the next state holds is fresh when its tickets are. *)
<1>3. ASSUME NEW n, LeaveOK(n), n.who = k.who, n.pc = k.pc, n.delete = k.delete, n.left = k.left,
             NEW b \in Staff \cup {NoAgent}, FreshTickets(n, ticket'), Go(c, Assign(n, t, b))
      PROVE  SerialInv'
  <2>1. PICK m : m = Assign(n, t, b) /\ Go(c, m)
    BY <1>3
  <2>2. t \in n.left
    BY <1>1, <1>3
  <2> HIDE DEF t
  <2>3. FreshTickets(m, ticket')
    BY <1>3, <2>1, <2>2, FreshAssign
  <2>4. m.op = "leave" /\ m.who = k.who /\ m.pc = k.pc /\ m.delete = k.delete
    <3>1. m.op = "leave" /\ m.who = n.who /\ m.pc = n.pc /\ m.delete = n.delete
      BY <1>3, <2>1 DEF Assign, LeaveOK
    <3> QED
      BY <1>3, <3>1
  <2>5. Fresh(m)'
    BY <1>2, <2>3, <2>4 DEF Fresh
  <2> QED
    BY <2>1, <2>5, OneCall
<1>4. CASE Go(c, Assign(k, t, BotIfActive)) /\ ticket' = ticket
  <2>1. BotIfActive \in Staff \cup {NoAgent}
    BY BotIfActiveType DEF Staff
  <2>2. FreshTickets(k, ticket')
    BY <1>2, <1>4
  <2> HIDE DEF k, t
  <2> QED
    BY <1>1, <1>3, <1>4, <2>1, <2>2 DEF SerialStep, StrictMoves
<1>5. ASSUME NEW b \in Candidates(k.now[t].region),
             ticket' = SavedTickets(Busier(k, b)),
             Go(c, Assign(Clean(Busier(k, b)), t, b))
      PROVE  SerialStep /\ AsTracked(k)
  <2> DEFINE m == Busier(k, b)
             n == Clean(m)
  <2>1. b \in Agent /\ b \in Staff
    BY DEF Candidates, Staff
  <2>2. /\ LeaveOK(m) /\ m.left = k.left /\ m.who = k.who /\ m.now = k.now /\ m.base = k.base
        /\ m.pc = k.pc /\ m.delete = k.delete
    <3>1. m.delete = k.delete
      BY <1>1 DEF Busier, LeaveOK
    <3> QED
      BY <1>1, <2>1, <3>1, BusierOK
  <2>3. ticket' = SavedTickets(m) /\ Go(c, Assign(n, t, b))
    BY <1>5
  <2> HIDE DEF m
  <2>4. FreshTickets(m, ticket)
    BY <1>2, <2>2 DEF FreshTickets, Leavable
  <2>5. StrictMoves /\ AsTracked(m) /\ \A u \in DOMAIN m.now : ticket'[u] = m.now[u] /\ ticket'[u].stat # "none"
    BY <1>2, <2>2, <2>3, <2>4, SavedMoves DEF AsTracked
  <2>6. /\ LeaveOK(n) /\ n.who = k.who /\ n.pc = k.pc /\ n.delete = k.delete
        /\ n.left = k.left /\ n.now = k.now /\ n.base = k.now
    BY <2>2, CleanOK DEF Clean, LeaveOK
  <2> HIDE DEF n
  <2>7. FreshTickets(n, ticket')
    <3>1. \A u \in k.left : u \in DOMAIN k.now /\ k.now[u] = k.base[u] /\ Leavable(k, k.base[u])
      BY <1>1, <1>2 DEF FreshTickets, LeaveOK
    <3> QED
      BY <2>2, <2>5, <2>6, <3>1 DEF FreshTickets, Leavable
  <2>8. SerialInv'
    <3> HIDE DEF k, t
    <3> QED
      BY <1>3, <2>1, <2>3, <2>6, <2>7
  <2> QED
    BY <2>2, <2>5, <2>8 DEF SerialStep, AsTracked
<1>6. CASE Throw(c)
  BY <1>6, SerialThrow DEF Throw
<1> HIDE DEF t
<1> QED
  BY <1>1, <1>4, <1>5, <1>6

(* The sweep begins with what the database holds. *)
SweepOf(m, k) ==
    /\ m.op = "leave" /\ m.who = k.who
    /\ \A t \in DOMAIN m.now : /\ m.now[t] = ticket'[t] /\ t \in Ticket
                               /\ t \notin DOMAIN k.now => ticket'[t].owner = k.who

(* The end of the hand-off: all is saved. *)
LEMMA SerialLeaveSettle ==
    ASSUME Serial, TypeOK, SerialInv, UnbornUnowned', NEW c \in Call, LeaveSettle(c)
    PROVE  /\ SerialStep
           /\ \/ Throw(c)
              \/ /\ AsTracked(call[c])
                 /\ Go(c, Idle) \/ \E m : Go(c, m) /\ SweepOf(m, call[c])
<1> DEFINE k == [call[c] EXCEPT !.self.chats = 0]
           stuck == {t \in Ticket : SavedTickets(k)[t].owner = k.who}
           loaded == Track(k.now, stuck, SavedTickets(k))
           sweep == [Clean(k) EXCEPT !.pc = "sweep", !.left = stuck,
                        !.base = loaded, !.now = loaded]
<1>1. /\ LeaveOK(k) /\ LeaveOK(sweep)
      /\ \/ Throw(c)
         \/ ticket' = SavedTickets(k) /\ Go(c, IF k.delete THEN sweep ELSE Idle)
  <2>1. LeaveOK(k) /\ LeaveOK(sweep)
    BY LeaveSettleCases
  <2>2. \/ Throw(c)
        \/ ticket' = SavedTickets(k) /\ Go(c, IF k.delete THEN sweep ELSE Idle)
    BY Zenon DEF LeaveSettle
  <2> QED
    BY <2>1, <2>2
<1>2. /\ LeaveOK(call[c]) /\ FreshTickets(call[c], ticket)
      /\ call[c].who \in Managed /\ call[c].pc = "handoff"
      /\ IF call[c].delete THEN "delete" \in Kinds ELSE "deactivate" \in Kinds
  <2>1. call[c].op = "leave" /\ call[c].pc = "handoff"
    BY DEF LeaveSettle
  <2> QED
    BY <2>1, CallKinds DEF SerialInv, Fresh
<1>3. /\ k.who = call[c].who /\ k.pc = "handoff" /\ k.left = call[c].left
      /\ k.base = call[c].base /\ k.now = call[c].now /\ k.delete = call[c].delete
      /\ k.who \in Staff
  BY <1>2 DEF LeaveOK, AgentRow
<1> HIDE DEF k
<1>4. FreshTickets(k, ticket)
  BY <1>2, <1>3 DEF FreshTickets, Leavable
<1>5. CASE /\ ticket' = SavedTickets(k)
           /\ Go(c, IF k.delete THEN sweep ELSE Idle)
  <2>1. StrictMoves /\ AsTracked(k)
        /\ \A t \in DOMAIN k.now : ticket'[t] = k.now[t] /\ ticket'[t].stat # "none"
    BY <1>1, <1>3, <1>4, <1>5, SavedMoves DEF AsTracked
  <2>2. AsTracked(call[c])
    BY <1>3, <2>1 DEF AsTracked
  <2>3. CASE ~k.delete
    <3>1. Go(c, Idle) /\ Return(c)
      BY <1>5, <2>3 DEF Go, Return
    <3> QED
      BY <2>1, <2>2, <3>1, SerialReturn DEF SerialStep
  <2>4. CASE k.delete
    <3>1. PICK m : m = sweep /\ Go(c, m)
      BY <1>5, <2>4
    <3>2. /\ m.op = "leave" /\ m.who = k.who /\ m.pc = "sweep" /\ m.left = stuck
          /\ m.base = loaded /\ m.now = loaded /\ m.delete = k.delete
      <4> HIDE DEF stuck, loaded
      <4> QED
        BY <1>1, <3>1 DEF Clean, LeaveOK
    <3>3. /\ DOMAIN loaded = DOMAIN k.now \cup stuck
          /\ \A t \in DOMAIN k.now : loaded[t] = k.now[t]
          /\ \A t \in stuck \ DOMAIN k.now : loaded[t] = SavedTickets(k)[t]
      <4> HIDE DEF stuck
      <4> QED
        BY DEF Track
    <3>4. \A t \in stuck : t \in Ticket /\ ticket'[t].owner = k.who /\ ticket'[t].stat # "none"
      <4>1. \A t \in stuck : t \in Ticket /\ ticket'[t].owner = k.who
        BY <1>5
      <4>2. k.who # NoAgent
        BY <1>3, DeskAssumption DEF Staff
      <4> HIDE DEF stuck
      <4> QED
        BY <4>1, <4>2 DEF UnbornUnowned, Created
    <3>5. \A t \in DOMAIN loaded : loaded[t] = ticket'[t] /\ ticket'[t].stat # "none" /\ t \in Ticket
      <4>1. DOMAIN k.now \subseteq Ticket
        BY <1>1 DEF LeaveOK, CopiesOf
      <4> HIDE DEF loaded, stuck
      <4> QED
        BY <1>5, <2>1, <3>3, <3>4, <4>1
    <3> HIDE DEF loaded, stuck, sweep
    <3>6. FreshTickets(m, ticket')
      BY <3>2, <3>3, <3>4, <3>5 DEF FreshTickets, Leavable
    <3>7. Fresh(m)'
      BY <1>2, <1>3, <2>4, <3>2, <3>6 DEF Fresh
    <3>8. SweepOf(m, call[c])
      BY <1>3, <3>2, <3>3, <3>4, <3>5 DEF SweepOf
    <3> QED
      BY <2>1, <2>2, <3>1, <3>7, <3>8, OneCall DEF SerialStep
  <2> QED
    BY <2>3, <2>4
<1> QED
  BY <1>1, <1>5, SerialThrow

LEMMA SerialDeleteSweep ==
    ASSUME Serial, TypeOK, SerialInv, NEW c \in Call, DeleteSweep(c)
    PROVE  /\ SerialStep
           /\ \/ Throw(c)
              \/ /\ AsTracked(call[c])
                 /\ \E m : Go(c, m) /\ m.op = "leave" /\ m.now = call[c].now
<1> DEFINE k == call[c]
           done == [Clean(k) EXCEPT !.pc = "remove"]
<1>1. /\ LeaveOK(k) /\ LeaveOK(done) /\ k.op = "leave"
      /\ \/ Throw(c)
         \/ ticket' = SavedTickets(k) /\ Go(c, done)
  BY DeleteSweepCases, Zenon
<1>2. k.pc = "sweep" /\ k.left = {}
  BY DEF DeleteSweep
<1>3. FreshTickets(k, ticket) /\ k.delete /\ "delete" \in Kinds /\ k.who \in Managed
  BY <1>1, <1>2 DEF SerialInv, Fresh
<1>4. CASE ticket' = SavedTickets(k) /\ Go(c, done)
  <2>1. StrictMoves /\ AsTracked(k) /\ \A u \in DOMAIN k.now : ticket'[u] = k.now[u] /\ ticket'[u].stat # "none"
    <3> HIDE DEF k
    <3> QED
      BY <1>1, <1>3, <1>4, SavedMoves DEF AsTracked
  <2>2. PICK m : m = done /\ Go(c, m)
    BY <1>4
  <2>3. /\ m.op = "leave" /\ m.who = k.who /\ m.delete = k.delete /\ m.left = {}
        /\ m.now = k.now /\ m.base = k.now
    BY <1>1, <1>2, <2>2 DEF Clean, LeaveOK
  <2> HIDE DEF k, done
  <2>4. FreshTickets(m, ticket')
    BY <2>1, <2>3 DEF FreshTickets
  <2>5. Fresh(m)'
    BY <1>3, <2>3, <2>4 DEF Fresh
  <2> QED
    BY <2>1, <2>2, <2>3, <2>5, OneCall DEF SerialStep, k
<1> QED
  BY <1>1, <1>4, SerialThrow

(* The row is removed: what still points to it has no owner. *)
LEMMA SerialDeleteRemove ==
    ASSUME Serial, TypeOK, SerialInv, NEW c \in Call, DeleteRemove(c)
    PROVE  /\ SerialStep
           /\ \/ Throw(c)
              \/ /\ agent'[call[c].who].row = "gone"
                 /\ \A t \in Ticket : ticket'[t] = ticket[t] \/ ticket[t].owner = call[c].who
<1> DEFINE k == call[c]
           own == {t \in DOMAIN k.now : k.now[t].owner = k.who}
           freed == [t \in Ticket |-> IF t \in own THEN [ticket[t] EXCEPT !.owner = NoAgent]
                                     ELSE ticket[t]]
<1>1. /\ LeaveOK(k) /\ k.op = "leave"
      /\ \/ Throw(c)
         \/ /\ ticket' = freed /\ Return(c)
            /\ agent' = [agent EXCEPT ![k.who] = [NoRow EXCEPT !.row = "gone"]]
  BY DeleteRemoveCases, Zenon
<1>2. k.pc = "remove" /\ k.base = k.now /\ k.who \in Staff
  BY <1>1 DEF DeleteRemove, LeaveOK
<1>3. FreshTickets(k, ticket) /\ "delete" \in Kinds
  BY <1>1, <1>2 DEF SerialInv, Fresh
<1>4. CASE /\ ticket' = freed /\ Return(c)
           /\ agent' = [agent EXCEPT ![k.who] = [NoRow EXCEPT !.row = "gone"]]
  <2>1. agent'[k.who].row = "gone"
    BY <1>2, <1>4 DEF TypeOK, NoRow
  <2>2. ASSUME NEW t \in own
        PROVE  ticket[t].owner = k.who /\ Passes(t)
    <3>1. t \in Ticket /\ k.now[t] = ticket[t] /\ ticket[t].stat # "none" /\ ticket[t].owner = k.who
      BY <1>1, <1>2, <1>3, TrackedTickets DEF FreshTickets
    <3>2. ticket'[t] = [ticket[t] EXCEPT !.owner = NoAgent] /\ ticket[t] \in TicketRow
      BY <1>4, <2>2, <3>1 DEF TypeOK
    <3>3. k.who # NoAgent
      BY <1>2, DeskAssumption DEF Staff
    <3> QED
      BY <1>3, <3>1, <3>2, <3>3 DEF Passes, Life!Keeps, Life!Inherit, TicketRow
  <2>3. \A t \in Ticket \ own : ticket'[t] = ticket[t]
    BY <1>4
  <2> HIDE DEF own
  <2> QED
    BY <1>4, <2>1, <2>2, <2>3, SerialReturn DEF SerialStep, StrictMoves
<1> QED
  BY <1>1, <1>4, SerialThrow

(* Settings are no handlers and touch no ticket. *)
LEMMA SerialSettings ==
    ASSUME SerialInv, Settings \/ UNCHANGED vars
    PROVE  SerialStep /\ UNCHANGED <<ticket, room, call>>
<1>1. UNCHANGED <<ticket, room, call>>
  BY DEF Settings, Hire, SetLimit, Reactivate, SetStatus, vars
<1>2. \A k : Fresh(k) => Fresh(k)'
  BY <1>1 DEF Fresh, Created
<1> QED
  BY <1>1, <1>2 DEF SerialStep, StrictMoves, SerialInv

LEMMA SerialNext ==
    Serial /\ TypeOK /\ RegionInv /\ SerialInv /\ [Next]_vars => SerialStep
<1> SUFFICES ASSUME Serial, TypeOK, RegionInv, SerialInv, [Next]_vars PROVE SerialStep
  OBVIOUS
<1>1. UnbornUnowned'
  BY RegionNext DEF RegionInv
<1>2. ASSUME NEW c \in Call, Step(c) PROVE SerialStep
  <2>1. StartReserve(c) => SerialStep
    BY SerialStart
  <2>2. StartCreate(c) => SerialStep
    BY SerialStartCreate
  <2>3. CloseSave(c) => SerialStep
    BY SerialCloseSave
  <2>4. TransferSave(c) => SerialStep
    BY SerialTransferSave
  <2>5. ReassignNext(c) => SerialStep
    BY SerialReassignNext
  <2>6. LeaveNext(c) => SerialStep
    BY SerialLeaveNext
  <2>7. LeaveSettle(c) => SerialStep
    BY <1>1, SerialLeaveSettle
  <2>8. DeleteSweep(c) => SerialStep
    BY SerialDeleteSweep
  <2>9. DeleteRemove(c) => SerialStep
    BY SerialDeleteRemove
  <2> QED
    BY <1>2, <2>1, <2>2, <2>3, <2>4, <2>5, <2>6, <2>7, <2>8, <2>9 DEF Step
<1>3. ASSUME NEW c \in Call, Arrive(c) PROVE SerialStep
  BY <1>3, SerialStart, SerialCloseLoad, SerialTransferLoad, SerialReassignBegin,
     SerialLeaveBegin DEF Arrive
<1>4. ASSUME NEW c \in Call, Die(c) PROVE SerialStep
  BY <1>4, SerialReturn DEF Die, SerialStep, StrictMoves
<1>5. CASE Settings \/ UNCHANGED vars
  BY <1>5, SerialSettings
<1> QED
  BY <1>2, <1>3, <1>4, <1>5 DEF Next

LEMMA SerialInit == Init => SerialInv
BY DEF Init, SerialInv, Fresh, Idle

LEMMA SerialCorrect == ASSUME Serial PROVE Spec => [](TypeOK /\ RegionInv /\ SerialInv)
<1>1. TypeOK /\ RegionInv /\ [Next]_vars => RegionInv'
  BY RegionNext
<1>2. TypeOK /\ RegionInv /\ SerialInv /\ [Next]_vars => SerialInv'
  BY SerialNext DEF SerialStep
<1> QED
  BY <1>1, <1>2, RegionInit, SerialInit, TypeCorrect, PTL DEF Spec

(* While one handler runs at a time the desk implements the strict life of a ticket:
   taken from the bot, handed over while it is under way, transferred, closed, or
   inherited from a deleted row, and nothing else. *)
THEOREM StrictLifeImplemented == ASSUME Serial PROVE Spec => LifeWhenSerial
<1>1. Init => Life!Init
  BY DEF Init, Life!Init
<1>2. TypeOK /\ RegionInv /\ SerialInv /\ [Next]_vars => [Life!Next]_ticket
  <2> SUFFICES ASSUME TypeOK, RegionInv, SerialInv, [Next]_vars PROVE Life!Next
    OBVIOUS
  <2>1. RegionStep /\ TypeOK' /\ StrictMoves
    BY RegionNext, NextType, SerialNext DEF SerialStep
  <2> SUFFICES ASSUME NEW t \in Ticket, ticket'[t] # ticket[t]
               PROVE  Life!Step(ticket[t], ticket'[t])
    BY DEF Life!Next
  <2>2. Life!MayOwn(ticket'[t].owner, ticket'[t].region)
    <3>1. ticket'[t].region \in Region \cup {NoRegion}
      BY <2>1 DEF TypeOK, TicketRow
    <3> QED
      BY <2>1, <3>1 DEF RegionStep, RegionIsolation, Life!MayOwn
  <2>3. Opens(t) \/ Passes(t)
    BY <2>1 DEF StrictMoves
  <2> QED
    BY <2>2, <2>3 DEF Opens, Passes, Life!Step, Life!Ask
<1> QED
  BY <1>1, <1>2, SerialCorrect, PTL DEF Spec, LifeWhenSerial, Life!Spec

(* Where agents are deactivated and not deleted, a ticket that nobody owns and nobody
   has closed waits as Open, so that the next hand-over finds it. *)
THEOREM UnownedCorrect ==
    ASSUME Serial, "delete" \notin Kinds PROVE Spec => []UnownedIsOpen
<1>1. Init => UnownedIsOpen
  BY DEF Init, UnownedIsOpen, Created
<1>2. TypeOK /\ RegionInv /\ SerialInv /\ UnownedIsOpen /\ [Next]_vars => UnownedIsOpen'
  <2> SUFFICES ASSUME TypeOK, RegionInv, SerialInv, UnownedIsOpen, [Next]_vars,
                      NEW t \in Ticket, ticket'[t].stat # "none", ticket'[t].owner = NoAgent
               PROVE  ticket'[t].stat \in {"Open", "Closed"}
    BY DEF UnownedIsOpen, Created
  <2>1. ticket'[t] = ticket[t] \/ Opens(t) \/ Passes(t)
    BY SerialNext DEF SerialStep, StrictMoves
  <2>2. CASE Passes(t)
    <3>1. NoAgent \notin Agent
      BY DeskAssumption
    <3> QED
      BY <2>2, <3>1 DEF Passes, Life!Take, Life!HandOver, Life!Transfer, Life!Close
  <2> QED
    BY <2>1, <2>2 DEF UnownedIsOpen, Created, Opens
<1> QED
  BY <1>1, <1>2, SerialCorrect, PTL DEF Spec

-----------------------------------------------------------------------------
(* The life of a ticket when handlers overlap.                              *)

(* From what a handler has read of a ticket to what it means to save. *)
HandedOn(v, w) ==
    /\ Life!Keeps(v, w) /\ v.stat # "none"
    /\ \/ Life!HandOver(v, w)
       \/ Life!Inherit(v, w)
       \/ v.owner = NoAgent /\ w.stat = v.stat

Handed(v, w) ==
    /\ Life!Keeps(v, w) /\ w.stat # "none"
    /\ Life!Step(v, w) \/ Life!Adopt(v, w)

(* What a handler in flight has read of the tickets, whatever they are now. *)
HoldsWell(k) ==
    /\ k.op = "close" => k.loaded.stat # "none" /\ ServedBy(k.loaded.owner, k.loaded.region)
    /\ k.op = "transfer" => k.loaded.stat # "none" /\ ServedBy(k.to, k.loaded.region)
    /\ k.op = "reassign" => \A t \in k.left : k.loaded[t].owner = Bot /\ k.loaded[t].stat \in Live
    /\ k.op = "leave" =>
          /\ \A t \in DOMAIN k.now : /\ k.base[t].stat # "none"
                                     /\ k.now[t] = k.base[t] \/ HandedOn(k.base[t], k.now[t])
          /\ \A t \in k.left : /\ k.now[t] = k.base[t]
                               /\ k.pc = "handoff" => k.base[t].owner = k.who /\ k.base[t].stat \in Live

HeldInv == \A c \in Call : HoldsWell(call[c])

Remains(t) == ticket'[t] = ticket[t] /\ Held(t)' \subseteq Held(t) \cup {ticket[t]}

Appears(t) ==
    /\ Life!Ask(ticket[t], ticket'[t]) /\ ServedBy(ticket'[t].owner, ticket'[t].region)
    /\ Held(t)' = {}

Alters(t) ==
    \E v \in Held(t), w \in TicketRow :
        /\ Handed(v, w)
        /\ ticket'[t] = WriteTicket(ticket[t], v, w)
        /\ Held(t)' \subseteq Held(t) \cup {ticket'[t], w}

LooseStep == \A t \in Ticket : Remains(t) \/ Appears(t) \/ Alters(t)

LEMMA ReadsHeld ==
    ASSUME NEW c \in Call, NEW t, NEW x \in Reads(call[c], t)
    PROVE  x \in Held(t)
BY DEF Held

(* Only what the moving call remembers can become readable. *)
LEMMA HeldGo ==
    ASSUME TypeOK, NEW c \in Call, NEW m, Go(c, m), NEW t
    PROVE  Held(t)' \subseteq Held(t) \cup Reads(m, t)
<1>1. \A d \in Call : call'[d] = IF d = c THEN m ELSE call[d]
  BY DEF TypeOK, CallsOK, Go
<1> SUFFICES ASSUME NEW x \in Held(t)' PROVE x \in Held(t) \cup Reads(m, t)
  OBVIOUS
<1>2. PICK d \in Call : x \in Reads(call'[d], t)
  BY DEF Held
<1> QED
  BY <1>1, <1>2, ReadsHeld

LEMMA HeldKept ==
    ASSUME TypeOK, HeldInv, NEW c \in Call, NEW m, Go(c, m), HoldsWell(m)
    PROVE  HeldInv'
<1>1. \A d \in Call : call'[d] = IF d = c THEN m ELSE call[d]
  BY DEF TypeOK, CallsOK, Go
<1> QED
  BY <1>1 DEF HeldInv

LEMMA IdleHolds == HoldsWell(Idle) /\ \A t : Reads(Idle, t) = {}
BY DEF HoldsWell, Reads, Idle

LEMMA StartHolds ==
    ASSUME NEW m, m.op = "start"
    PROVE  HoldsWell(m) /\ \A t : Reads(m, t) = {}
BY DEF HoldsWell, Reads

LEMMA LooseRead ==
    ASSUME TypeOK, HeldInv, NEW c \in Call, NEW m, Go(c, m), HoldsWell(m), ticket' = ticket,
           \A t \in Ticket : Reads(m, t) \subseteq Held(t) \cup {ticket[t]}
    PROVE  LooseStep /\ HeldInv'
<1>1. ASSUME NEW t \in Ticket PROVE Remains(t)
  <2>1. Held(t)' \subseteq Held(t) \cup Reads(m, t)
    BY HeldGo
  <2> QED
    BY <2>1 DEF Remains
<1> QED
  BY <1>1, HeldKept DEF LooseStep

LEMMA LooseReturn ==
    ASSUME TypeOK, HeldInv, NEW c \in Call, Return(c), ticket' = ticket
    PROVE  LooseStep /\ HeldInv'
<1>1. Go(c, Idle)
  BY DEF Return, Go
<1> QED
  BY <1>1, IdleHolds, LooseRead

LEMMA LooseThrow ==
    ASSUME TypeOK, HeldInv, NEW c \in Call, Throw(c)
    PROVE  LooseStep /\ HeldInv'
BY LooseReturn DEF Throw

(* A step that writes one ticket from what its handler has read of it. *)
LEMMA OneAlters ==
    ASSUME TypeOK, HeldInv, NEW c \in Call, NEW m, Go(c, m), HoldsWell(m),
           \A u \in Ticket : Reads(m, u) \subseteq Held(u),
           NEW t \in Ticket, NEW v \in Held(t), NEW w \in TicketRow, Handed(v, w),
           ticket' = [ticket EXCEPT ![t] = WriteTicket(@, v, w)]
    PROVE  LooseStep /\ HeldInv'
<1>1. \A u \in Ticket : Held(u)' \subseteq Held(u)
  BY HeldGo
<1>2. ticket'[t] = WriteTicket(ticket[t], v, w) /\ \A u \in Ticket : u # t => ticket'[u] = ticket[u]
  BY DEF TypeOK
<1>3. Alters(t)
  BY <1>1, <1>2 DEF Alters
<1>4. \A u \in Ticket : u # t => Remains(u)
  BY <1>1, <1>2 DEF Remains
<1> QED
  BY <1>3, <1>4, HeldKept DEF LooseStep

(* Nobody has read a ticket that does not exist yet. *)
LEMMA UnbornUnheld ==
    ASSUME TypeOK, RegionInv, NEW t \in Ticket, ~Created(t)
    PROVE  Held(t) = {}
<1> SUFFICES ASSUME NEW c \in Call, NEW x \in Reads(call[c], t) PROVE FALSE
  BY DEF Held
<1> DEFINE k == call[c]
<1>1. Fits(k, ticket) /\ CallOK(k)
  BY DEF RegionInv, TypeOK, CallsOK
<1>2. k.op \in {"close", "transfer"} => FALSE
  <2> SUFFICES ASSUME k.op \in {"close", "transfer"} PROVE FALSE
    OBVIOUS
  <2>1. Reads(k, t) = IF k.t = t THEN {k.loaded} ELSE {}
    BY DEF Reads
  <2> QED
    BY <1>1, <2>1 DEF Fits, Created
<1>3. k.op = "reassign" => FALSE
  <2> SUFFICES ASSUME k.op = "reassign" PROVE FALSE
    OBVIOUS
  <2>1. t \in k.left
    BY DEF Reads
  <2>2. t \in DOMAIN k.loaded
    BY <2>1, CallKinds DEF ReassignOK
  <2> QED
    BY <1>1, <2>2 DEF Fits, Created
<1>4. k.op = "leave" => FALSE
  <2> SUFFICES ASSUME k.op = "leave" PROVE FALSE
    OBVIOUS
  <2>1. t \in DOMAIN k.base
    BY DEF Reads
  <2>2. t \in DOMAIN k.now
    BY <2>1, CallKinds DEF LeaveOK
  <2> QED
    BY <1>1, <2>2 DEF Fits, Created
<1> QED
  BY <1>2, <1>3, <1>4 DEF Reads

LEMMA LooseStart ==
    ASSUME TypeOK, RegionInv, RegionInv', HeldInv, NEW c \in Call,
           \/ \E r \in Requester, rg \in AskRegion : StartLookup(c, r, rg)
           \/ StartReserve(c) \/ StartCreate(c)
    PROVE  LooseStep /\ HeldInv'
<1>1. CASE \E r \in Requester, rg \in AskRegion : StartLookup(c, r, rg)
  <2>1. PICK r \in Requester, rg \in AskRegion : StartLookup(c, r, rg)
    BY <1>1
  <2>2. CASE \E a \in LeastBusy(Candidates(rg), agent) :
               Go(c, [op |-> "start", pc |-> "picked", by |-> r, region |-> rg,
                      owner |-> a, copy |-> agent[a]])
    BY <2>1, <2>2, StartHolds, LooseRead DEF StartLookup
  <2>3. CASE Go(c, [op |-> "start", pc |-> "reserved", by |-> r, region |-> rg,
                    owner |-> BotIfActive', copy |-> NoRow])
    BY <2>1, <2>3, StartHolds, LooseRead DEF StartLookup
  <2> QED
    BY <2>1, <2>2, <2>3 DEF StartLookup
<1>2. CASE StartReserve(c) /\ ~Throw(c)
  <2>1. call[c] \in StartCall
    BY <1>2, CallKinds DEF StartReserve, StartOK
  <2>2. PICK m : m = [call[c] EXCEPT !.pc = "reserved"] /\ Go(c, m) /\ ticket' = ticket
    BY <1>2 DEF StartReserve
  <2>3. m.op = "start"
    BY <2>1, <2>2 DEF StartCall
  <2> QED
    BY <2>2, <2>3, StartHolds, LooseRead
<1>3. CASE StartCreate(c) /\ ~Throw(c)
  <2> DEFINE k == call[c]
             x == [stat |-> "Open", owner |-> k.owner, region |-> k.region, by |-> k.by]
  <2>1. PICK t \in Ticket : IsNext(t) /\ ticket' = [ticket EXCEPT ![t] = x]
    BY <1>3 DEF StartCreate
  <2>0. x.stat = "Open"
    OBVIOUS
  <2> HIDE DEF x
  <2>2. Go(c, Idle)
    BY <1>3 DEF StartCreate, Return, Go
  <2>3. ticket'[t].stat = "Open" /\ \A u \in Ticket : u # t => ticket'[u] = ticket[u]
    BY <2>1, <2>0 DEF TypeOK
  <2>4. \A u \in Ticket : Held(u)' \subseteq Held(u)
    BY <2>2, HeldGo, IdleHolds
  <2>5. Appears(t)
    <3>1. Held(t)' = {}
      BY <2>1, <2>4, UnbornUnheld DEF IsNext
    <3>2. ServedBy(ticket'[t].owner, ticket'[t].region)
      BY DEF RegionInv, RegionIsolation, ServedBy
    <3> QED
      BY <2>1, <2>3, <3>1, <3>2 DEF Appears, Life!Ask, IsNext, Created
  <2>6. \A u \in Ticket : u # t => Remains(u)
    BY <2>3, <2>4 DEF Remains
  <2> QED
    BY <2>2, <2>5, <2>6, HeldKept, IdleHolds DEF LooseStep
<1> QED
  BY <1>1, <1>2, <1>3, LooseThrow


(* Region-wise, the rows of a ticket that a served owner keeps or gets are the life's. *)
LEMMA ServedMay ==
    ASSUME NEW w \in TicketRow, ServedBy(w.owner, w.region)
    PROVE  Life!MayOwn(w.owner, w.region)
BY DEF ServedBy, Life!MayOwn, TicketRow

LEMMA LooseClose ==
    ASSUME TypeOK, RegionInv, HeldInv, NEW c \in Call,
           (\E t \in Ticket : CloseLoad(c, t)) \/ CloseSave(c)
    PROVE  LooseStep /\ HeldInv'
<1>1. ASSUME NEW t \in Ticket, CloseLoad(c, t) PROVE LooseStep /\ HeldInv'
  <2>1. PICK m : Go(c, m) /\ m.op = "close" /\ m.t = t /\ m.loaded = ticket[t]
    BY <1>1 DEF CloseLoad
  <2>2. ticket' = ticket /\ Created(t)
    BY <1>1 DEF CloseLoad
  <2>3. HoldsWell(m)
    BY <2>1, <2>2, RegionRow DEF HoldsWell, Created
  <2>4. \A u \in Ticket : Reads(m, u) \subseteq {ticket[u]}
    BY <2>1 DEF Reads
  <2> QED
    BY <2>1, <2>2, <2>3, <2>4, LooseRead
<1>2. CASE CloseSave(c) /\ ~Throw(c)
  <2> DEFINE k == call[c]
             v == k.loaded
             w == [v EXCEPT !.stat = "Closed"]
  <2>1. k \in CloseCall /\ k.op = "close" /\ k.t \in Ticket /\ v \in TicketRow
    BY <1>2, CallKinds DEF CloseSave, CloseOK, CloseCall
  <2>2. v.stat # "none" /\ ServedBy(v.owner, v.region)
    BY <2>1 DEF HeldInv, HoldsWell
  <2>3. ticket' = [ticket EXCEPT ![k.t] = WriteTicket(@, v, w)] /\ Return(c)
    BY <1>2, Zenon DEF CloseSave
  <2>4. w \in TicketRow /\ w.region = v.region /\ w.by = v.by /\ w.stat = "Closed" /\ w.owner = v.owner
    BY <2>1 DEF TicketRow, TicketStatus
  <2>5. v \in Held(k.t)
    <3>1. v \in Reads(k, k.t)
      BY <2>1 DEF Reads
    <3> QED
      BY <3>1, ReadsHeld
  <2> HIDE DEF w
  <2>6. Handed(v, w)
    BY <2>2, <2>4, ServedMay DEF Handed, Life!Keeps, Life!Step, Life!Close
  <2>7. Go(c, Idle)
    BY <2>3 DEF Return, Go
  <2> HIDE DEF v
  <2> QED
    BY <2>1, <2>3, <2>4, <2>5, <2>6, <2>7, IdleHolds, OneAlters
<1> QED
  BY <1>1, <1>2, LooseThrow

LEMMA LooseTransfer ==
    ASSUME TypeOK, RegionInv, HeldInv, NEW c \in Call,
           (\E t \in Ticket, a \in Staff : TransferLoad(c, t, a)) \/ TransferSave(c)
    PROVE  LooseStep /\ HeldInv'
<1>1. ASSUME NEW t \in Ticket, NEW a \in Staff, TransferLoad(c, t, a) PROVE LooseStep /\ HeldInv'
  <2>1. PICK m : Go(c, m) /\ m.op = "transfer" /\ m.t = t /\ m.to = a /\ m.loaded = ticket[t]
    BY <1>1 DEF TransferLoad
  <2>2. ticket' = ticket /\ Created(t) /\ Covers(a, ticket[t].region)
    BY <1>1 DEF TransferLoad, Covers
  <2>3. HoldsWell(m)
    BY <2>1, <2>2 DEF HoldsWell, Created, ServedBy
  <2>4. \A u \in Ticket : Reads(m, u) \subseteq {ticket[u]}
    BY <2>1 DEF Reads
  <2> QED
    BY <2>1, <2>2, <2>3, <2>4, LooseRead
<1>2. CASE TransferSave(c) /\ ~Throw(c)
  <2> DEFINE k == call[c]
             v == k.loaded
             w == [v EXCEPT !.owner = k.to, !.stat = "Transferred"]
  <2>1. k \in TransferCall /\ k.op = "transfer" /\ k.t \in Ticket /\ v \in TicketRow /\ k.to \in Staff
    BY <1>2, CallKinds DEF TransferSave, TransferOK, TransferCall
  <2>2. v.stat # "none" /\ ServedBy(k.to, v.region)
    BY <2>1 DEF HeldInv, HoldsWell
  <2>3. ticket' = [ticket EXCEPT ![k.t] = WriteTicket(@, v, w)] /\ Return(c)
    BY <1>2, Zenon DEF TransferSave
  <2>4. w \in TicketRow /\ w.region = v.region /\ w.by = v.by /\ w.stat = "Transferred" /\ w.owner = k.to
    BY <2>1 DEF TicketRow, TicketStatus
  <2>5. v \in Held(k.t)
    <3>1. v \in Reads(k, k.t)
      BY <2>1 DEF Reads
    <3> QED
      BY <3>1, ReadsHeld
  <2>6. w.owner # NoAgent
    BY <2>1, <2>4, DeskAssumption DEF Staff
  <2> HIDE DEF w
  <2>7. Handed(v, w)
    BY <2>2, <2>4, <2>6, ServedMay DEF Handed, Life!Keeps, Life!Step, Life!Transfer
  <2>8. Go(c, Idle)
    BY <2>3 DEF Return, Go
  <2> HIDE DEF v
  <2> QED
    BY <2>1, <2>3, <2>4, <2>5, <2>7, <2>8, IdleHolds, OneAlters
<1> QED
  BY <1>1, <1>2, LooseThrow

LEMMA LooseReassignBegin ==
    ASSUME TypeOK, HeldInv, NEW c \in Call, ReassignBegin(c)
    PROVE  LooseStep /\ HeldInv'
<1>1. PICK m : /\ Go(c, m) /\ m.op = "reassign" /\ m.left = BotTickets
               /\ m.loaded = [t \in BotTickets |-> ticket[t]]
  BY DEF ReassignBegin
<1>2. HoldsWell(m)
  <2>1. \A t \in BotTickets : m.loaded[t].owner = Bot /\ m.loaded[t].stat \in Live
    BY <1>1 DEF BotTickets
  <2> QED
    BY <1>1, <2>1 DEF HoldsWell
<1>3. \A u \in Ticket : Reads(m, u) \subseteq {ticket[u]}
  BY <1>1 DEF Reads
<1> QED
  BY <1>1, <1>2, <1>3, LooseRead DEF ReassignBegin

LEMMA LooseReassignNext ==
    ASSUME TypeOK, RegionInv, HeldInv, NEW c \in Call, ReassignNext(c)
    PROVE  LooseStep /\ HeldInv'
<1> DEFINE k == call[c]
           t == Oldest(k.left)
           copies == Track(k.copies, Candidates(NoRegion), agent)
           rest == [k EXCEPT !.left = @ \ {t}, !.copies = copies]
           able == Candidates(k.loaded[t].region)
<1>1. /\ ReassignOK(k) /\ t \in DOMAIN k.loaded /\ t \in Ticket /\ k.loaded[t] \in TicketRow
      /\ \/ Throw(c)
         \/ Continue(c, rest) /\ UNCHANGED <<agent, ticket, room, faults>>
         \/ \E a \in able :
               /\ agent' = [agent EXCEPT ![a] = WriteAgent(@, copies[a], TakeChat(copies[a]))]
               /\ ticket' = [ticket EXCEPT ![t] = WriteTicket(@, k.loaded[t],
                      [k.loaded[t] EXCEPT !.owner = a, !.stat = "InProgress"])]
               /\ room' = Seated(t, a)
               /\ Continue(c, [rest EXCEPT !.copies[a] = TakeChat(@)])
  BY ReassignNextCases, Zenon
<1>2. HoldsWell(k) /\ k.op = "reassign"
  BY DEF ReassignNext, HeldInv
<1>3. /\ k = [op |-> "reassign", left |-> k.left, loaded |-> k.loaded, copies |-> k.copies]
      /\ k.left \subseteq Ticket /\ k.left # {}
  BY <1>1 DEF ReassignOK
<1>4. t \in k.left
  BY <1>3, OldestInS
<1>5. k.loaded[t].owner = Bot /\ k.loaded[t].stat \in Live
  BY <1>2, <1>4 DEF HoldsWell
<1>6. \A a \in able : a \in Agent /\ ServedBy(a, k.loaded[t].region)
  BY DEF Candidates, ServedBy
<1> HIDE DEF copies, able
<1>7. ASSUME NEW m, m.op = "reassign", m.left \subseteq k.left, m.loaded = k.loaded
      PROVE  HoldsWell(m) /\ \A u \in Ticket : Reads(m, u) \subseteq Held(u)
  <2>1. HoldsWell(m)
    BY <1>2, <1>7 DEF HoldsWell
  <2>2. ASSUME NEW u \in Ticket, NEW x \in Reads(m, u) PROVE x \in Held(u)
    <3>1. x \in Reads(k, u)
      BY <1>2, <1>7, <2>2 DEF Reads
    <3> QED
      BY <3>1, ReadsHeld
  <2> QED
    BY <2>1, <2>2
<1>8. CASE Continue(c, rest) /\ UNCHANGED <<agent, ticket, room, faults>>
  <2>1. PICK m : m = rest /\ Continue(c, m)
    BY <1>8
  <2>2. m.op = "reassign" /\ m.left = k.left \ {t} /\ m.loaded = k.loaded
    BY <1>3, <2>1
  <2>3. HoldsWell(m) /\ \A u \in Ticket : Reads(m, u) \subseteq Held(u)
    BY <1>7, <2>2
  <2>4. Go(c, m) \/ Go(c, Idle)
    BY <2>1 DEF Continue
  <2> QED
    BY <1>8, <2>3, <2>4, LooseRead, IdleHolds
<1>9. ASSUME NEW a \in able,
              ticket' = [ticket EXCEPT ![t] = WriteTicket(@, k.loaded[t],
                            [k.loaded[t] EXCEPT !.owner = a, !.stat = "InProgress"])],
              Continue(c, [rest EXCEPT !.copies[a] = TakeChat(@)])
       PROVE  LooseStep /\ HeldInv'
  <2> DEFINE v == k.loaded[t]
             w == [v EXCEPT !.owner = a, !.stat = "InProgress"]
  <2>1. a \in Agent /\ a \in Staff /\ ServedBy(a, v.region)
    BY <1>6 DEF Staff
  <2>2. w \in TicketRow /\ w.region = v.region /\ w.by = v.by /\ w.stat = "InProgress" /\ w.owner = a
    BY <1>1, <2>1 DEF TicketRow, TicketStatus
  <2>3. v \in Held(t)
    <3>1. v \in Reads(k, t)
      BY <1>2, <1>4 DEF Reads
    <3> QED
      BY <3>1, ReadsHeld
  <2>4. PICK m : m = [rest EXCEPT !.copies[a] = TakeChat(@)] /\ Continue(c, m)
    BY <1>9
  <2>5. m.op = "reassign" /\ m.left = k.left \ {t} /\ m.loaded = k.loaded
    BY <1>3, <2>4
  <2>6. HoldsWell(m) /\ \A u \in Ticket : Reads(m, u) \subseteq Held(u)
    BY <1>7, <2>5
  <2>7. Go(c, m) \/ Go(c, Idle)
    BY <2>4 DEF Continue
  <2>8. ticket' = [ticket EXCEPT ![t] = WriteTicket(@, v, w)]
    BY <1>9
  <2> HIDE DEF w
  <2>9. Handed(v, w)
    BY <1>5, <2>1, <2>2, ServedMay DEF Handed, Life!Keeps, Life!Step, Life!Take, Life!Ongoing, Live
  <2> HIDE DEF v, t
  <2> QED
    BY <1>1, <2>2, <2>3, <2>6, <2>7, <2>8, <2>9, OneAlters, IdleHolds
<1> HIDE DEF rest, t
<1> QED
  BY <1>1, <1>8, <1>9, LooseThrow

(* What the handler of an agent who leaves has read of a ticket. *)
LEMMA LeaveReads ==
    ASSUME NEW m, m.op = "leave", NEW t
    PROVE  Reads(m, t) = IF t \in DOMAIN m.base THEN {m.base[t]} ELSE {}
BY DEF Reads

LEMMA LooseLeaveBegin ==
    ASSUME TypeOK, HeldInv, NEW c \in Call, NEW a \in Staff,
           DeactivateBegin(c, a) \/ DeleteBegin(c, a)
    PROVE  LooseStep /\ HeldInv'
<1> DEFINE mine == TicketsOf(a, Live)
<1>1. ticket' = ticket /\ \E row, delete : Go(c, LeaveRecord(a, row, delete))
  BY DEF DeactivateBegin, DeleteBegin
<1>2. PICK m : Go(c, m) /\ \E row, delete : m = LeaveRecord(a, row, delete)
  BY <1>1
<1>3. /\ m.op = "leave" /\ m.who = a /\ m.left = mine
      /\ m.base = [t \in mine |-> ticket[t]] /\ m.now = [t \in mine |-> ticket[t]]
  BY <1>2 DEF LeaveRecord
<1>4. \A t \in mine : ticket[t].owner = a /\ ticket[t].stat \in Live /\ ticket[t].stat # "none"
  BY DEF TicketsOf, Live
<1> HIDE DEF mine
<1>5. HoldsWell(m)
  BY <1>3, <1>4 DEF HoldsWell
<1>6. \A u \in Ticket : Reads(m, u) \subseteq {ticket[u]}
  BY <1>3, LeaveReads
<1> QED
  BY <1>1, <1>2, <1>5, <1>6, LooseRead

LEMMA AssignHolds ==
    ASSUME NEW k, LeaveOK(k), HoldsWell(k), NEW t \in k.left, NEW b \in Staff \cup {NoAgent},
           NEW m, m = Assign(k, t, b)
    PROVE  HoldsWell(m) /\ \A u : Reads(m, u) = Reads(k, u)
<1> DEFINE x == k.base[t]
           z == HandedOver(x, k.pc, b)
<1>1. k.op = "leave" /\ t \in DOMAIN k.now /\ k.now[t] = x /\ x \in TicketRow /\ x.stat # "none"
      /\ k.who \in Staff /\ k.pc \in {"handoff", "sweep"}
      /\ (k.pc = "handoff" => x.owner = k.who /\ x.stat \in Live)
  BY TrackedTickets DEF LeaveOK, HoldsWell
<1>2. /\ m.op = "leave" /\ m.who = k.who /\ m.pc = k.pc /\ m.base = k.base
      /\ m.left = k.left \ {t} /\ m.now = [k.now EXCEPT ![t] = z]
  BY <1>1, AssignFields
<1>3. z.region = x.region /\ z.by = x.by
      /\ (k.pc = "sweep" => z.stat = x.stat)
      /\ (k.pc = "handoff" /\ x.stat \in Live
                => z.stat = IF b = NoAgent THEN "Open" ELSE "InProgress")
      /\ z.owner = b
  <2> DEFINE pc == k.pc
  <2>1. x \in TicketRow
    BY <1>1
  <2> HIDE DEF x, pc
  <2> QED
    BY <2>1, HandedOverStat
<1>4. HandedOn(x, z)
  <2>1. k.who # NoAgent
    BY <1>1, DeskAssumption DEF Staff
  <2> HIDE DEF z, x
  <2>2. k.pc = "handoff" => Life!HandOver(x, z)
    BY <1>1, <1>3, <2>1 DEF Life!HandOver, Life!Ongoing, Live
  <2>3. k.pc = "sweep" => Life!Inherit(x, z) \/ (x.owner = NoAgent /\ z.stat = x.stat)
    BY <1>1, <1>3 DEF Life!Inherit
  <2> QED
    BY <1>1, <1>3, <2>2, <2>3 DEF HandedOn, Life!Keeps
<1> HIDE DEF z
<1>5. \A u \in DOMAIN m.now : m.now[u] = k.now[u] \/ (u = t /\ m.now[u] = z)
  BY <1>1, <1>2
<1>6. DOMAIN m.now = DOMAIN k.now /\ \A u \in m.left : u \in k.left /\ u # t /\ u \in DOMAIN k.now
  BY <1>1, <1>2 DEF LeaveOK
<1>7. \A u \in m.left : m.now[u] = k.now[u]
  BY <1>2, <1>6
<1>8. HoldsWell(m)
  BY <1>1, <1>2, <1>4, <1>5, <1>6, <1>7 DEF HoldsWell
<1>9. ASSUME NEW u PROVE Reads(m, u) = Reads(k, u)
  <2>1. /\ Reads(m, u) = IF u \in DOMAIN m.base THEN {m.base[u]} ELSE {}
        /\ Reads(k, u) = IF u \in DOMAIN k.base THEN {k.base[u]} ELSE {}
    BY <1>1, <1>2, LeaveReads
  <2> QED
    BY <1>2, <2>1
<1> QED
  BY <1>8, <1>9

(* After a save what is tracked is what was saved. *)
LEMMA CleanHolds ==
    ASSUME NEW k, LeaveOK(k), HoldsWell(k), NEW rows, Fits(k, rows), NEW n, n = Clean(k)
    PROVE  /\ HoldsWell(n) /\ LeaveOK(n) /\ n.left = k.left
           /\ \A u : Reads(n, u) \subseteq IF u \in DOMAIN k.now THEN {k.now[u]} ELSE {}
<1>1. /\ n.op = "leave" /\ n.who = k.who /\ n.pc = k.pc /\ n.left = k.left
      /\ n.now = k.now /\ n.base = k.now
  BY DEF Clean, LeaveOK
<1>2. k.op = "leave" /\ k.left \subseteq DOMAIN k.now /\ DOMAIN k.base = DOMAIN k.now
  BY DEF LeaveOK
<1>3. HoldsWell(n)
  BY <1>1, <1>2 DEF HoldsWell, Fits
<1>4. LeaveOK(n)
  BY CleanOK
<1> QED
  BY <1>1, <1>3, <1>4, LeaveReads

(* What a leaving agent's handler saves starts from what it has read. *)
LEMMA SavedLoose ==
    ASSUME TypeOK, HeldInv, NEW k, LeaveOK(k), HoldsWell(k), Fits(k, ticket),
           \A t \in Ticket : Reads(k, t) \subseteq Held(t),
           ticket' = SavedTickets(k),
           NEW c \in Call, NEW m, Go(c, m), HoldsWell(m),
           \A t \in Ticket : Reads(m, t) \subseteq IF t \in DOMAIN k.now THEN {k.now[t]} ELSE {ticket'[t]}
    PROVE  LooseStep /\ HeldInv'
<1>1. k.op = "leave" /\ DOMAIN k.base = DOMAIN k.now
  BY DEF LeaveOK
<1>2. ASSUME NEW t \in Ticket, t \in Dirty(k) PROVE Alters(t)
  <2> DEFINE v == k.base[t]
             w == k.now[t]
  <2>1. t \in DOMAIN k.now /\ v # w
    BY <1>2 DEF Dirty
  <2>2. v \in TicketRow /\ w \in TicketRow
    BY <2>1, TrackedTickets
  <2>3. v \in Held(t)
    BY <1>1, <2>1, LeaveReads
  <2>4. w.stat # "none" /\ ServedBy(w.owner, w.region) /\ HandedOn(v, w)
    BY <1>1, <2>1 DEF Fits, HoldsWell
  <2>5. ticket'[t] = WriteTicket(ticket[t], v, w)
    BY <1>2 DEF SavedTickets
  <2>6. Held(t)' \subseteq Held(t) \cup {w}
    <3>1. Held(t)' \subseteq Held(t) \cup Reads(m, t)
      BY HeldGo
    <3> QED
      BY <2>1, <3>1
  <2> HIDE DEF v, w
  <2>7. Handed(v, w)
    BY <2>2, <2>4, ServedMay DEF HandedOn, Handed, Life!Step, Life!Adopt
  <2> QED
    BY <2>2, <2>3, <2>5, <2>6, <2>7 DEF Alters
<1>3. ASSUME NEW t \in Ticket, t \notin Dirty(k) PROVE Remains(t)
  <2>1. ticket'[t] = ticket[t]
    BY <1>3 DEF SavedTickets
  <2>2. t \in DOMAIN k.now => k.now[t] \in Held(t)
    <3> SUFFICES ASSUME t \in DOMAIN k.now PROVE k.now[t] \in Held(t)
      OBVIOUS
    <3>1. k.now[t] = k.base[t]
      BY <1>3 DEF Dirty
    <3> QED
      BY <1>1, <3>1, LeaveReads
  <2>3. Held(t)' \subseteq Held(t) \cup Reads(m, t)
    BY HeldGo
  <2> QED
    BY <2>1, <2>2, <2>3 DEF Remains
<1> QED
  BY <1>2, <1>3, HeldKept DEF LooseStep

LEMMA LooseLeaveNext ==
    ASSUME TypeOK, RegionInv, HeldInv, NEW c \in Call, LeaveNext(c)
    PROVE  LooseStep /\ HeldInv'
<1> DEFINE k == call[c]
           t == Oldest(k.left)
<1>1. /\ LeaveOK(k) /\ t \in k.left /\ t \in Ticket /\ t \in DOMAIN k.now
      /\ \/ Throw(c)
         \/ /\ Go(c, Assign(k, t, BotIfActive))
            /\ UNCHANGED <<agent, ticket, room, faults>>
         \/ \E b \in Candidates(k.now[t].region) :
               /\ agent' = SavedSelf(Busier(k, b), BusierRows(k, b))
               /\ ticket' = SavedTickets(Busier(k, b))
               /\ Go(c, Assign(Clean(Busier(k, b)), t, b))
               /\ UNCHANGED <<room, faults>>
  BY LeaveNextCases, Zenon
<1>2. HoldsWell(k) /\ Fits(k, ticket) /\ k.op = "leave" /\ \A u : Reads(k, u) \subseteq Held(u)
  BY <1>1, ReadsHeld DEF HeldInv, RegionInv, LeaveNext
<1> HIDE DEF t
<1>3. CASE Go(c, Assign(k, t, BotIfActive)) /\ UNCHANGED <<agent, ticket, room, faults>>
  <2>1. PICK m : m = Assign(k, t, BotIfActive) /\ Go(c, m)
    BY <1>3
  <2>2. BotIfActive \in Staff \cup {NoAgent}
    BY BotIfActiveType DEF Staff
  <2>3. HoldsWell(m) /\ \A u : Reads(m, u) = Reads(k, u)
    BY <1>1, <1>2, <2>1, <2>2, AssignHolds
  <2> QED
    BY <1>2, <1>3, <2>1, <2>3, LooseRead
<1>4. ASSUME NEW b \in Candidates(k.now[t].region),
             ticket' = SavedTickets(Busier(k, b)),
             Go(c, Assign(Clean(Busier(k, b)), t, b))
      PROVE  LooseStep /\ HeldInv'
  <2>1. b \in Agent /\ b \in Staff
    BY DEF Candidates, Staff
  <2>2. PICK m : m = Busier(k, b)
    OBVIOUS
  <2>3. LeaveOK(m) /\ m.left = k.left /\ m.now = k.now
    BY <1>1, <2>1, <2>2, BusierOK
  <2>4. m.base = k.base /\ m.pc = k.pc /\ m.who = k.who /\ m.op = "leave"
    BY <1>1, <2>2 DEF Busier, LeaveOK
  <2>5. HoldsWell(m) /\ Fits(m, ticket) /\ \A u \in Ticket : Reads(m, u) \subseteq Held(u)
    BY <1>2, <2>3, <2>4, LeaveReads DEF HoldsWell, Fits
  <2>6. PICK n : n = Clean(m)
    OBVIOUS
  <2>7. /\ HoldsWell(n) /\ LeaveOK(n) /\ n.left = k.left
        /\ \A u : Reads(n, u) \subseteq IF u \in DOMAIN m.now THEN {m.now[u]} ELSE {}
    BY <2>3, <2>5, <2>6, CleanHolds
  <2>8. PICK o : o = Assign(n, t, b) /\ Go(c, o)
    BY <1>4, <2>2, <2>6
  <2>9. HoldsWell(o) /\ \A u : Reads(o, u) = Reads(n, u)
    BY <1>1, <2>1, <2>7, <2>8, AssignHolds
  <2>10. ticket' = SavedTickets(m)
    BY <1>4, <2>2
  <2> QED
    BY <2>3, <2>5, <2>7, <2>8, <2>9, <2>10, SavedLoose
<1> QED
  BY <1>1, <1>3, <1>4, LooseThrow

LEMMA LooseLeaveSettle ==
    ASSUME TypeOK, RegionInv, RegionInv', HeldInv, NEW c \in Call, LeaveSettle(c)
    PROVE  LooseStep /\ HeldInv'
<1> DEFINE k == [call[c] EXCEPT !.self.chats = 0]
           stuck == {t \in Ticket : SavedTickets(k)[t].owner = k.who}
           loaded == Track(k.now, stuck, SavedTickets(k))
           sweep == [Clean(k) EXCEPT !.pc = "sweep", !.left = stuck,
                        !.base = loaded, !.now = loaded]
<1>1. /\ LeaveOK(k) /\ LeaveOK(sweep) /\ k.now = call[c].now /\ k.who = call[c].who
      /\ \/ Throw(c)
         \/ /\ ticket' = SavedTickets(k) /\ room' = room
            /\ Go(c, sweep) \/ Go(c, Idle)
  BY LeaveSettleCases, Zenon
<1>2. LeaveOK(call[c]) /\ call[c].op = "leave"
  BY CallKinds DEF LeaveSettle
<1>3. k.base = call[c].base /\ k.left = call[c].left /\ k.pc = call[c].pc /\ k.op = "leave"
      /\ k.who \in Staff /\ DOMAIN k.now \subseteq Ticket
  BY <1>1, <1>2 DEF LeaveOK, CopiesOf
<1>4. sweep.op = "leave" /\ sweep.now = loaded /\ sweep.base = loaded /\ sweep.left = stuck
      /\ sweep.pc = "sweep"
  BY <1>1 DEF LeaveOK, Clean
<1>5. HoldsWell(call[c]) /\ Fits(call[c], ticket) /\ \A u : Reads(call[c], u) \subseteq Held(u)
  BY ReadsHeld DEF HeldInv, RegionInv
<1> HIDE DEF k, sweep
<1>6. HoldsWell(k) /\ Fits(k, ticket) /\ \A u \in Ticket : Reads(k, u) \subseteq Held(u)
  BY <1>1, <1>2, <1>3, <1>5, LeaveReads DEF HoldsWell, Fits
<1>7. DOMAIN loaded = DOMAIN k.now \cup stuck
      /\ (\A t \in DOMAIN k.now : loaded[t] = k.now[t])
      /\ \A t \in stuck : t \notin DOMAIN k.now => loaded[t] = SavedTickets(k)[t]
  <2> HIDE DEF stuck
  <2> QED
    BY DEF Track
<1>8. stuck \subseteq Ticket /\ \A t \in stuck : SavedTickets(k)[t].owner = k.who
  OBVIOUS
<1> HIDE DEF stuck, loaded
<1>9. CASE ticket' = SavedTickets(k) /\ Go(c, sweep)
  <2>1. \A t \in DOMAIN loaded : loaded[t].stat # "none"
    <3>1. \A t \in DOMAIN k.now : loaded[t].stat # "none"
      BY <1>3, <1>6, <1>7 DEF Fits
    <3>2. ASSUME NEW t \in stuck, t \notin DOMAIN k.now PROVE loaded[t].stat # "none"
      <4>1. loaded[t] = ticket'[t] /\ ticket'[t].owner = k.who /\ t \in Ticket
        BY <1>7, <1>8, <1>9, <3>2
      <4>2. k.who # NoAgent
        BY <1>3, DeskAssumption DEF Staff
      <4> QED
        BY <4>1, <4>2 DEF RegionInv, UnbornUnowned, Created
    <3> QED
      BY <1>7, <3>1, <3>2
  <2>2. HoldsWell(sweep)
    BY <1>4, <1>7, <2>1 DEF HoldsWell
  <2>3. ASSUME NEW t \in Ticket
        PROVE  Reads(sweep, t) \subseteq IF t \in DOMAIN k.now THEN {k.now[t]} ELSE {ticket'[t]}
    <3>1. Reads(sweep, t) = IF t \in DOMAIN loaded THEN {loaded[t]} ELSE {}
      BY <1>4, LeaveReads
    <3>2. t \in DOMAIN k.now \/ t \in stuck \/ t \notin DOMAIN loaded
      BY <1>7
    <3> QED
      BY <1>7, <1>9, <3>1, <3>2
  <2> QED
    BY <1>1, <1>6, <1>9, <2>2, <2>3, SavedLoose
<1>10. CASE ticket' = SavedTickets(k) /\ Go(c, Idle)
  BY <1>1, <1>6, <1>10, IdleHolds, SavedLoose
<1> QED
  BY <1>1, <1>9, <1>10, LooseThrow

LEMMA LooseDeleteSweep ==
    ASSUME TypeOK, RegionInv, HeldInv, NEW c \in Call, DeleteSweep(c)
    PROVE  LooseStep /\ HeldInv'
<1> DEFINE k == call[c]
           done == [Clean(k) EXCEPT !.pc = "remove"]
<1>1. /\ LeaveOK(k) /\ LeaveOK(done) /\ k.op = "leave"
      /\ \/ Throw(c)
         \/ ticket' = SavedTickets(k) /\ room' = room /\ Go(c, done)
  BY DeleteSweepCases, Zenon
<1>2. HoldsWell(k) /\ Fits(k, ticket) /\ \A u : Reads(k, u) \subseteq Held(u)
  BY ReadsHeld DEF HeldInv, RegionInv
<1>3. done.op = "leave" /\ done.now = k.now /\ done.base = k.now /\ done.left = k.left /\ done.pc = "remove"
      /\ k.left = {}
  BY <1>1 DEF LeaveOK, Clean
<1> HIDE DEF k, done
<1>4. HoldsWell(done)
  BY <1>1, <1>2, <1>3 DEF HoldsWell, Fits
<1>5. \A t \in Ticket : Reads(done, t) \subseteq IF t \in DOMAIN k.now THEN {k.now[t]} ELSE {ticket'[t]}
  BY <1>3, LeaveReads
<1>6. CASE ticket' = SavedTickets(k) /\ Go(c, done)
  BY <1>1, <1>2, <1>4, <1>5, <1>6, SavedLoose
<1> QED
  BY <1>1, <1>6, LooseThrow

LEMMA LooseDeleteRemove ==
    ASSUME TypeOK, RegionInv, HeldInv, NEW c \in Call, DeleteRemove(c)
    PROVE  LooseStep /\ HeldInv'
<1> DEFINE k == call[c]
           own == {t \in DOMAIN k.now : k.now[t].owner = k.who}
           freed == [t \in Ticket |-> IF t \in own THEN [ticket[t] EXCEPT !.owner = NoAgent]
                                     ELSE ticket[t]]
<1>1. /\ LeaveOK(k) /\ k.op = "leave" /\ k.pc = "remove" /\ HoldsWell(k) /\ Fits(k, ticket)
      /\ Throw(c) \/ (ticket' = freed /\ Return(c) /\ room' = room)
  <2>1. k.op = "leave" /\ HoldsWell(k) /\ k.pc = "remove" /\ Fits(k, ticket)
    BY DEF DeleteRemove, HeldInv, RegionInv
  <2> QED
    BY <2>1, DeleteRemoveCases, Zenon
<1>2. CASE ticket' = freed /\ Return(c)
  <2>1. Go(c, Idle) /\ \A u \in Ticket : Held(u)' \subseteq Held(u)
    <3>1. Go(c, Idle)
      BY <1>2 DEF Return, Go
    <3> QED
      BY <3>1, HeldGo, IdleHolds
  <2>2. ASSUME NEW t \in Ticket, t \in own PROVE Alters(t)
    <3> DEFINE v == k.base[t]
               w == [v EXCEPT !.owner = NoAgent]
    <3>1. t \in DOMAIN k.now /\ v = k.now[t] /\ v \in TicketRow /\ v.owner = k.who /\ k.who \in Staff
      BY <1>1, <2>2, TrackedTickets DEF LeaveOK
    <3>2. v.stat # "none" /\ v.owner # NoAgent
      BY <1>1, <3>1, DeskAssumption DEF HoldsWell, Staff
    <3>3. w \in TicketRow /\ w.region = v.region /\ w.by = v.by /\ w.stat = v.stat /\ w.owner = NoAgent
      BY <3>1 DEF TicketRow
    <3>4. v \in Held(t)
      <4>1. v \in Reads(k, t)
        BY <1>1, <3>1, LeaveReads DEF LeaveOK
      <4> QED
        BY <4>1, ReadsHeld
    <3>5. ticket'[t] = [ticket[t] EXCEPT !.owner = NoAgent]
      BY <1>2, <2>2
    <3> HIDE DEF w, v
    <3>6. ticket'[t] = WriteTicket(ticket[t], v, w)
      BY <3>2, <3>3, <3>5 DEF WriteTicket, TypeOK, TicketRow
    <3>7. Handed(v, w)
      <4>1. ServedBy(w.owner, w.region)
        BY <3>3, DeskAssumption DEF ServedBy
      <4> QED
        BY <3>2, <3>3, <4>1, ServedMay DEF Handed, Life!Keeps, Life!Step, Life!Inherit
    <3> QED
      BY <2>1, <3>3, <3>4, <3>6, <3>7 DEF Alters
  <2>3. ASSUME NEW t \in Ticket, t \notin own PROVE Remains(t)
    <3>1. ticket'[t] = ticket[t]
      BY <1>2, <2>3
    <3> QED
      BY <2>1, <3>1 DEF Remains
  <2> QED
    BY <2>1, <2>2, <2>3, HeldKept, IdleHolds DEF LooseStep
<1> QED
  BY <1>1, <1>2, LooseThrow

LEMMA LooseNext == TypeOK /\ RegionInv /\ HeldInv /\ [Next]_vars => LooseStep /\ HeldInv'
<1> SUFFICES ASSUME TypeOK, RegionInv, HeldInv, [Next]_vars PROVE LooseStep /\ HeldInv'
  OBVIOUS
<1>1. RegionInv'
  BY RegionNext
<1>2. ASSUME NEW c \in Call, Step(c) PROVE LooseStep /\ HeldInv'
  BY <1>1, <1>2, LooseStart, LooseClose, LooseTransfer, LooseReassignNext, LooseLeaveNext,
     LooseLeaveSettle, LooseDeleteSweep, LooseDeleteRemove DEF Step
<1>3. ASSUME NEW c \in Call, Arrive(c) PROVE LooseStep /\ HeldInv'
  <2>1. Managed \subseteq Staff
    BY DeskAssumption DEF Staff
  <2> QED
    BY <1>1, <1>3, <2>1, LooseStart, LooseClose, LooseTransfer, LooseReassignBegin,
       LooseLeaveBegin DEF Arrive
<1>4. ASSUME NEW c \in Call, Die(c) PROVE LooseStep /\ HeldInv'
  BY <1>4, LooseReturn DEF Die
<1>5. CASE Settings \/ UNCHANGED vars
  <2>1. UNCHANGED <<ticket, call>>
    BY <1>5 DEF Settings, Hire, SetLimit, Reactivate, SetStatus, vars
  <2>2. \A t : Held(t)' = Held(t)
    BY <2>1 DEF Held
  <2> QED
    BY <2>1, <2>2 DEF LooseStep, Remains, HeldInv
<1> QED
  BY <1>2, <1>3, <1>4, <1>5 DEF Next

LEMMA HandedChange ==
    ASSUME NEW v \in TicketRow, NEW w \in TicketRow, Handed(v, w)
    PROVE  /\ w = [v EXCEPT !.stat = w.stat, !.owner = w.owner]
           /\ w.stat \in Life!Statuses
           /\ w.owner \in Agent \cup {Bot, NoAgent}
BY DEF Handed, Life!Keeps, Life!Statuses, TicketRow, TicketStatus, Staff

LEMMA HeldRows ==
    ASSUME TypeOK, NEW t \in Ticket
    PROVE  Held(t) \subseteq TicketRow
<1> SUFFICES ASSUME NEW c \in Call, NEW x \in Reads(call[c], t) PROVE x \in TicketRow
  BY DEF Held
<1> DEFINE k == call[c]
<1>1. k.op = "close" => Reads(k, t) \subseteq {k.loaded} /\ k.loaded \in TicketRow
  BY CallKinds DEF Reads, CloseOK, CloseCall
<1>2. k.op = "transfer" => Reads(k, t) \subseteq {k.loaded} /\ k.loaded \in TicketRow
  BY CallKinds DEF Reads, TransferOK, TransferCall
<1>3. k.op = "reassign" => x \in TicketRow
  <2> SUFFICES ASSUME k.op = "reassign" PROVE x \in TicketRow
    OBVIOUS
  <2>1. t \in k.left /\ x = k.loaded[t]
    BY DEF Reads
  <2> QED
    BY <2>1, CallKinds DEF ReassignOK, CopiesOf
<1>4. k.op = "leave" => x \in TicketRow
  <2> SUFFICES ASSUME k.op = "leave" PROVE x \in TicketRow
    OBVIOUS
  <2>1. t \in DOMAIN k.base /\ x = k.base[t]
    BY LeaveReads
  <2> QED
    BY <2>1, CallKinds DEF LeaveOK, CopiesOf
<1> QED
  BY <1>1, <1>2, <1>3, <1>4 DEF Reads

(* The desk implements the loose life of a ticket however its handlers overlap and
   whichever of them die half way: every change of a ticket is a step of the strict
   life from a state that somebody has read of it and has not saved since, and only
   the columns this step changes are written. *)
THEOREM LooseLifeImplemented == Spec => LifeWhenOverlapping
<1>1. Init => Life!LooseInit /\ HeldInv
  <2> SUFFICES ASSUME Init PROVE Life!LooseInit /\ HeldInv
    OBVIOUS
  <2>1. \A c \in Call : call[c] = Idle
    BY DEF Init
  <2>2. HeldInv /\ \A t \in Ticket : Held(t) = {}
    BY <2>1, IdleHolds DEF HeldInv, Held
  <2> QED
    BY <2>2 DEF Init, Life!LooseInit, Life!Init
<1>2. TypeOK /\ RegionInv /\ HeldInv /\ [Next]_vars =>
          /\ [Life!LooseNext]_<<ticket, [t \in Ticket |-> Held(t)]>>
          /\ HeldInv'
  <2> SUFFICES ASSUME TypeOK, RegionInv, HeldInv, [Next]_vars PROVE Life!LooseNext /\ HeldInv'
    OBVIOUS
  <2>1. LooseStep /\ HeldInv' /\ TypeOK'
    BY LooseNext, NextType
  <2>2. ASSUME NEW t \in Ticket PROVE Life!Stays(t) \/ Life!Opens(t) \/ Life!Moves(t)
    <3>1. CASE Remains(t)
      BY <3>1 DEF Remains, Life!Stays
    <3>2. CASE Appears(t)
      <4>1. ticket'[t] \in TicketRow
        BY <2>1 DEF TypeOK
      <4> QED
        BY <3>2, <4>1, ServedMay DEF Appears, Life!Opens
    <3>3. CASE Alters(t)
      <4>1. PICK v \in Held(t), w \in TicketRow :
                /\ Handed(v, w)
                /\ ticket'[t] = WriteTicket(ticket[t], v, w)
                /\ Held(t)' \subseteq Held(t) \cup {ticket'[t], w}
        BY <3>3 DEF Alters
      <4>2. /\ w = [v EXCEPT !.stat = w.stat, !.owner = w.owner]
            /\ w.stat \in Life!Statuses /\ w.owner \in Agent \cup {Bot, NoAgent}
        BY <4>1, HeldRows, HandedChange
      <4>3. ticket'[t] = Life!Merged(ticket[t], v, w)
        BY <4>1 DEF WriteTicket, Life!Merged
      <4>4. Life!Step(v, w) \/ Life!Adopt(v, w)
        BY <4>1 DEF Handed
      <4>5. PICK s \in Life!Statuses, o \in Agent \cup {Bot, NoAgent} :
                w = [v EXCEPT !.stat = s, !.owner = o]
        BY <4>2
      <4>6. /\ Life!Step(v, [v EXCEPT !.stat = s, !.owner = o])
                \/ Life!Adopt(v, [v EXCEPT !.stat = s, !.owner = o])
            /\ ticket'[t] = Life!Merged(ticket[t], v, [v EXCEPT !.stat = s, !.owner = o])
            /\ Held(t)' \subseteq Held(t) \cup {ticket'[t], [v EXCEPT !.stat = s, !.owner = o]}
        BY <4>1, <4>3, <4>4, <4>5
      <4> QED
        BY <4>6 DEF Life!Moves
    <3> QED
      BY <2>1, <3>1, <3>2, <3>3 DEF LooseStep
  <2> QED
    BY <2>1, <2>2 DEF Life!LooseNext
<1>3. TypeOK /\ RegionInv /\ [Next]_vars => RegionInv'
  BY RegionNext
<1> QED
  BY <1>1, <1>2, <1>3, RegionInit, TypeCorrect, PTL DEF Spec, LifeWhenOverlapping, Life!LooseSpec

-----------------------------------------------------------------------------
(* An agent over its limit.                                                 *)

(* What a handler has counted on, as it read it. *)
Counts(k) ==
    /\ k.op = "start" /\ k.pc = "picked" => k.copy.chats < k.copy.max
    /\ k.op = "leave" => k.self.chats = k.was.chats

CountsInv == \A c \in Call : Counts(call[c])

Overfills(a) == agent[a].chats <= agent[a].max /\ agent'[a].chats > agent'[a].max

Excused(a) ==
    \/ agent'[a].max < agent[a].max
    \/ \E c \in Call : HoldsOld(c, a) /\ call'[c] # call[c]

OverStep == \A a \in Agent : Overfills(a) => Excused(a)

LEMMA CountsKept ==
    ASSUME TypeOK, CountsInv, NEW c \in Call, NEW m, Go(c, m), Counts(m)
    PROVE  CountsInv' /\ call'[c] = m
<1>1. \A d \in Call : call'[d] = IF d = c THEN m ELSE call[d]
  BY DEF TypeOK, CallsOK, Go
<1> QED
  BY <1>1 DEF CountsInv

LEMMA CountsIdle ==
    ASSUME TypeOK, CountsInv, NEW c \in Call, Return(c)
    PROVE  CountsInv' /\ call'[c] = Idle
<1>1. Go(c, Idle) /\ Counts(Idle)
  BY DEF Return, Go, Counts, Idle
<1> QED
  BY <1>1, CountsKept

LEMMA NotOver ==
    ASSUME TypeOK, NEW a \in Agent, agent'[a].chats = agent[a].chats, agent'[a].max = agent[a].max
    PROVE  ~Overfills(a)
<1>1. agent[a].chats \in Nat /\ agent[a].max \in Nat
  BY DEF TypeOK, Staff, AgentRow
<1> QED
  BY <1>1 DEF Overfills

LEMMA OverStill ==
    ASSUME TypeOK, UNCHANGED agent
    PROVE  OverStep
BY NotOver DEF OverStep

LEMMA OverThrow ==
    ASSUME TypeOK, CountsInv, NEW c \in Call, Throw(c)
    PROVE  OverStep /\ CountsInv'
BY CountsIdle, OverStill DEF Throw

(* What an UPDATE of a counter leaves in the row. *)
LEMMA WrittenAgent ==
    ASSUME NEW row \in AgentRow, NEW x \in AgentRow, NEW y \in AgentRow
    PROVE  /\ WriteAgent(row, x, y).max = row.max
           /\ WriteAgent(row, x, y).chats = IF y.chats # x.chats THEN y.chats ELSE row.chats
BY DEF WriteAgent, AgentRow

LEMMA TakenChat ==
    ASSUME NEW x \in AgentRow
    PROVE  TakeChat(x) \in AgentRow /\ TakeChat(x).chats = x.chats + 1
<1>1. TakeChat(x).chats = x.chats + 1
  BY DEF TakeChat, AgentRow
<1> QED
  BY <1>1, TakeChatType

(* A free agent whose row is what was read of it is not filled beyond its limit. *)
LEMMA FreshTake ==
    ASSUME NEW row \in AgentRow, row.chats < row.max
    PROVE  WriteAgent(row, row, TakeChat(row)).chats <= WriteAgent(row, row, TakeChat(row)).max
<1>1. TakeChat(row) \in AgentRow /\ TakeChat(row).chats = row.chats + 1
  BY TakenChat
<1>2. WriteAgent(row, row, TakeChat(row)).max = row.max
      /\ WriteAgent(row, row, TakeChat(row)).chats = row.chats + 1
  BY <1>1, WrittenAgent DEF AgentRow
<1> QED
  BY <1>2 DEF AgentRow

(* A step that writes the rows of one agent. *)
LEMMA OneAgent ==
    ASSUME TypeOK, NEW b \in Staff, NEW row, agent' = [agent EXCEPT ![b] = row],
           b \in Agent => (Overfills(b) => Excused(b))
    PROVE  OverStep
<1>1. \A a \in Agent : a # b => agent'[a] = agent[a]
  BY DEF TypeOK, Staff
<1> QED
  BY <1>1, NotOver DEF OverStep

LEMMA OverStart ==
    ASSUME TypeOK, CountsInv, NEW c \in Call,
           \/ \E r \in Requester, rg \in AskRegion : StartLookup(c, r, rg)
           \/ StartReserve(c) \/ StartCreate(c)
    PROVE  OverStep /\ CountsInv'
<1>1. ASSUME NEW r \in Requester, NEW rg \in AskRegion, StartLookup(c, r, rg)
      PROVE  OverStep /\ CountsInv'
  <2>1. OverStep
    <3>1. \A a \in Agent : agent'[a] = agent[a]
      BY <1>1, DeskAssumption DEF StartLookup, TypeOK, Staff
    <3> QED
      BY <3>1, NotOver DEF OverStep
  <2> DEFINE picked(a) == Go(c, [op |-> "start", pc |-> "picked", by |-> r, region |-> rg,
                                 owner |-> a, copy |-> agent[a]])
             toBot == Go(c, [op |-> "start", pc |-> "reserved", by |-> r, region |-> rg,
                             owner |-> BotIfActive', copy |-> NoRow])
  <2>2. (\E a \in LeastBusy(Candidates(rg), agent) : picked(a)) \/ toBot
    BY <1>1 DEF StartLookup
  <2>3. ASSUME NEW a \in LeastBusy(Candidates(rg), agent), picked(a)
        PROVE  CountsInv'
    <3>1. agent[a].chats < agent[a].max
      BY DEF LeastBusy, Candidates, Free
    <3> QED
      BY <2>3, <3>1, CountsKept DEF Counts
  <2>4. ASSUME toBot PROVE CountsInv'
    <3>1. PICK m : Go(c, m) /\ m.op = "start" /\ m.pc = "reserved"
      BY <2>4
    <3> QED
      BY <3>1, CountsKept DEF Counts
  <2> HIDE DEF picked, toBot
  <2> QED
    BY <2>1, <2>2, <2>3, <2>4
<1>2. CASE StartReserve(c) /\ ~Throw(c)
  <2> DEFINE k == call[c]
  <2>1. k \in StartCall /\ k.op = "start" /\ k.pc = "picked" /\ k.owner \in Agent /\ k.copy \in AgentRow
    BY <1>2, CallKinds DEF StartReserve, StartOK, StartCall
  <2>2. agent' = [agent EXCEPT ![k.owner] = WriteAgent(@, k.copy, TakeChat(k.copy))]
    BY <1>2, Zenon DEF StartReserve
  <2>3. PICK m : m = [k EXCEPT !.pc = "reserved"] /\ Go(c, m)
    BY <1>2 DEF StartReserve
  <2>4. m.op = "start" /\ m.pc = "reserved"
    BY <2>1, <2>3 DEF StartCall
  <2>5. CountsInv' /\ call'[c] = m
    BY <2>3, <2>4, CountsKept DEF Counts
  <2>6. ASSUME Overfills(k.owner) PROVE Excused(k.owner)
    <3> DEFINE a == k.owner
    <3>1. a \in Staff /\ agent[a] \in AgentRow /\ agent'[a] = WriteAgent(agent[a], k.copy, TakeChat(k.copy))
      BY <2>1, <2>2 DEF TypeOK, Staff
    <3>2. CASE k.copy = agent[a]
      <4>1. agent[a].chats < agent[a].max
        BY <2>1, <3>2 DEF CountsInv, Counts
      <4>2. agent'[a].chats <= agent'[a].max
        <5>1. agent'[a] = WriteAgent(agent[a], agent[a], TakeChat(agent[a]))
          BY <3>1, <3>2
        <5> QED
          BY <3>1, <4>1, <5>1, FreshTake
      <4>3. agent'[a].chats \in Nat /\ agent'[a].max \in Nat
        <5>1. agent'[a] \in AgentRow
          BY <2>1, <3>1, TakenChat, WriteAgentType
        <5> QED
          BY <5>1 DEF AgentRow
      <4> QED
        BY <2>6, <4>2, <4>3 DEF Overfills
    <3>3. CASE k.copy # agent[a]
      <4>1. HoldsOld(c, a)
        BY <2>1, <3>3 DEF HoldsOld
      <4>2. call'[c] # call[c]
        BY <2>1, <2>4, <2>5
      <4> QED
        BY <4>1, <4>2 DEF Excused
    <3> QED
      BY <3>2, <3>3
  <2> QED
    BY <2>1, <2>2, <2>5, <2>6, OneAgent DEF Staff
<1>3. CASE StartCreate(c) /\ ~Throw(c)
  BY <1>3, CountsIdle, OverStill DEF StartCreate
<1> QED
  BY <1>1, <1>2, <1>3, OverThrow

LEMMA OverClose ==
    ASSUME TypeOK, CountsInv, NEW c \in Call,
           (\E t \in Ticket : CloseLoad(c, t)) \/ CloseSave(c)
    PROVE  OverStep /\ CountsInv'
<1>1. ASSUME NEW t \in Ticket, CloseLoad(c, t) PROVE OverStep /\ CountsInv'
  <2>1. PICK m : Go(c, m) /\ m.op = "close"
    BY <1>1 DEF CloseLoad
  <2> QED
    BY <1>1, <2>1, CountsKept, OverStill DEF CloseLoad, Counts
<1>2. CASE CloseSave(c) /\ ~Throw(c)
  <2> DEFINE k == call[c]
             a == k.loaded.owner
  <2>1. k \in CloseCall /\ k.op = "close" /\ k.copy \in AgentRow /\ a \in Staff \cup {NoAgent}
    BY <1>2, CallKinds DEF CloseSave, CloseOK, CloseCall, TicketRow
  <2>2. CountsInv' /\ call'[c] = Idle
    BY <1>2, CountsIdle DEF CloseSave
  <2>3. CASE ~Counted(k)
    <3>1. agent' = agent
      BY <1>2, <2>3 DEF CloseSave
    <3> QED
      BY <2>2, <3>1, OverStill
  <2>4. CASE Counted(k)
    <3>1. agent' = [agent EXCEPT ![a] = WriteAgent(@, k.copy, ReleaseChat(k.copy))]
      BY <1>2, <2>4, Zenon DEF CloseSave
    <3>2. a \in Staff /\ k.copy.chats > 0 /\ agent[a] \in AgentRow
      BY <2>1, <2>4 DEF Counted, TypeOK
    <3>3. ASSUME Overfills(a) PROVE Excused(a)
      <4>1. CASE k.copy = agent[a]
        <5> DEFINE row == agent[a]
                   less == ReleaseChat(row)
        <5>1. less \in AgentRow /\ less.chats = row.chats - 1
          <6>1. less \in AgentRow
            BY <3>2, <4>1, ReleaseChatType
          <6> QED
            BY <3>2, <6>1 DEF ReleaseChat, AgentRow
        <5>2. agent'[a] = WriteAgent(row, row, less)
          BY <3>1, <3>2, <4>1 DEF TypeOK
        <5>3. agent'[a].max = row.max /\ agent'[a].chats = row.chats - 1
          <6> HIDE DEF less
          <6>1. WriteAgent(row, row, less).max = row.max
                /\ WriteAgent(row, row, less).chats = IF less.chats # row.chats THEN less.chats ELSE row.chats
            BY <3>2, <5>1, WrittenAgent
          <6> QED
            BY <3>2, <5>1, <5>2, <6>1 DEF AgentRow
        <5> QED
          BY <3>2, <3>3, <5>3 DEF Overfills, AgentRow
      <4>2. CASE k.copy # agent[a]
        <5>1. HoldsOld(c, a)
          BY <2>1, <4>2 DEF HoldsOld
        <5>2. call'[c] # call[c]
          BY <2>1, <2>2 DEF Idle
        <5> QED
          BY <5>1, <5>2 DEF Excused
      <4> QED
        BY <4>1, <4>2
    <3> HIDE DEF a, k
    <3> QED
      BY <2>2, <3>1, <3>2, <3>3, OneAgent
  <2> QED
    BY <2>3, <2>4
<1> QED
  BY <1>1, <1>2, OverThrow

LEMMA OverTransfer ==
    ASSUME TypeOK, CountsInv, NEW c \in Call,
           (\E t \in Ticket, a \in Staff : TransferLoad(c, t, a)) \/ TransferSave(c)
    PROVE  OverStep /\ CountsInv'
<1>1. ASSUME NEW t \in Ticket, NEW a \in Staff, TransferLoad(c, t, a) PROVE OverStep /\ CountsInv'
  <2>1. PICK m : Go(c, m) /\ m.op = "transfer"
    BY <1>1 DEF TransferLoad
  <2> QED
    BY <1>1, <2>1, CountsKept, OverStill DEF TransferLoad, Counts
<1>2. CASE TransferSave(c) /\ ~Throw(c)
  BY <1>2, CountsIdle, OverStill DEF TransferSave
<1> QED
  BY <1>1, <1>2, OverThrow

(* A free agent's tracked copy gets one more chat and is saved. *)
LEMMA TrackedTake ==
    ASSUME TypeOK, NEW f, CopiesOf(f, Agent, AgentRow), NEW S \in SUBSET Agent,
           NEW a \in Agent, a \in DOMAIN f \cup S, Free(a),
           NEW row, row = WriteAgent(agent[a], Track(f, S, agent)[a], TakeChat(Track(f, S, agent)[a])),
           row.chats > row.max
    PROVE  a \in DOMAIN f /\ f[a] # agent[a]
<1>1. a \in Staff /\ agent[a] \in AgentRow /\ agent[a].chats < agent[a].max
  BY DEF TypeOK, Staff, Free
<1> SUFFICES ASSUME Track(f, S, agent)[a] = agent[a] PROVE FALSE
  BY DEF Track
<1>2. row.chats <= row.max
  BY <1>1, FreshTake
<1>3. row \in AgentRow
  BY <1>1, TakenChat, WriteAgentType
<1> QED
  BY <1>2, <1>3 DEF AgentRow

LEMMA OverReassign ==
    ASSUME TypeOK, CountsInv, NEW c \in Call, ReassignBegin(c) \/ ReassignNext(c)
    PROVE  OverStep /\ CountsInv'
<1>1. CASE ReassignBegin(c)
  <2>1. PICK m : Go(c, m) /\ m.op = "reassign"
    BY <1>1 DEF ReassignBegin
  <2> QED
    BY <1>1, <2>1, CountsKept, OverStill DEF ReassignBegin, Counts
<1>2. CASE ReassignNext(c) /\ ~Throw(c)
  <2> DEFINE k == call[c]
             t == Oldest(k.left)
             copies == Track(k.copies, Candidates(NoRegion), agent)
             rest == [k EXCEPT !.left = @ \ {t}, !.copies = copies]
             able == Candidates(k.loaded[t].region)
  <2>1. /\ ReassignOK(k) /\ t \in DOMAIN k.loaded /\ t \in Ticket
        /\ \/ Continue(c, rest) /\ UNCHANGED <<agent, ticket, room, faults>>
           \/ \E a \in able :
                 /\ agent' = [agent EXCEPT ![a] = WriteAgent(@, copies[a], TakeChat(copies[a]))]
                 /\ Continue(c, [rest EXCEPT !.copies[a] = TakeChat(@)])
    BY <1>2, ReassignNextCases, Zenon
  <2>2. /\ k = [op |-> "reassign", left |-> k.left, loaded |-> k.loaded, copies |-> k.copies]
        /\ k.left \subseteq Ticket /\ k.left # {} /\ k.op = "reassign"
        /\ CopiesOf(k.copies, Agent, AgentRow)
    BY <2>1 DEF ReassignOK
  <2>3. t \in k.left
    BY <2>2, OldestInS
  <2>4. \A a \in able : a \in Agent /\ Free(a) /\ a \in Candidates(NoRegion)
    BY DEF Candidates, Covers
  <2>5. Candidates(NoRegion) \in SUBSET Agent
    BY DEF Candidates
  <2> HIDE DEF able
  <2>6. ASSUME NEW n, Continue(c, n), n.op = "reassign", n.left = k.left \ {t}
        PROVE  CountsInv' /\ call'[c] # call[c]
    <3>1. (Go(c, n) \/ Go(c, Idle)) /\ Counts(n) /\ Counts(Idle)
      BY <2>6 DEF Continue, Counts, Idle
    <3>2. CountsInv' /\ (call'[c] = n \/ call'[c] = Idle)
      BY <3>1, CountsKept
    <3> QED
      BY <2>2, <2>3, <2>6, <3>2 DEF Idle
  <2>7. CASE Continue(c, rest) /\ UNCHANGED <<agent, ticket, room, faults>>
    <3>1. PICK n : n = rest /\ Continue(c, n)
      BY <2>7
    <3>2. n.op = "reassign" /\ n.left = k.left \ {t}
      BY <2>2, <3>1
    <3> QED
      BY <2>6, <2>7, <3>1, <3>2, OverStill
  <2>8. ASSUME NEW a \in able,
               agent' = [agent EXCEPT ![a] = WriteAgent(@, copies[a], TakeChat(copies[a]))],
               Continue(c, [rest EXCEPT !.copies[a] = TakeChat(@)])
        PROVE  OverStep /\ CountsInv'
    <3>1. PICK n : n = [rest EXCEPT !.copies[a] = TakeChat(@)] /\ Continue(c, n)
      BY <2>8
    <3>2. n.op = "reassign" /\ n.left = k.left \ {t}
      BY <2>2, <3>1
    <3>3. CountsInv' /\ call'[c] # call[c]
      BY <2>6, <3>1, <3>2
    <3>4. a \in Agent /\ a \in Staff /\ Free(a) /\ a \in Candidates(NoRegion)
      BY <2>4 DEF Staff
    <3>5. ASSUME Overfills(a) PROVE Excused(a)
      <4>1. PICK row : row = WriteAgent(agent[a], copies[a], TakeChat(copies[a])) /\ agent'[a] = row
        BY <2>8, <3>4 DEF TypeOK
      <4>2. row.chats > row.max
        BY <3>5, <4>1 DEF Overfills
      <4>3. PICK f, S : f = k.copies /\ S = Candidates(NoRegion)
        OBVIOUS
      <4>4. a \in DOMAIN k.copies /\ k.copies[a] # agent[a]
        BY <2>2, <2>5, <3>4, <4>1, <4>2, <4>3, TrackedTake
      <4> QED
        BY <2>2, <3>3, <4>4 DEF Excused, HoldsOld
    <3>6. PICK row : agent' = [agent EXCEPT ![a] = row]
      BY <2>8
    <3> QED
      BY <3>3, <3>4, <3>5, <3>6, OneAgent
  <2> QED
    BY <2>1, <2>7, <2>8
<1> QED
  BY <1>1, <1>2, OverThrow

LEMMA OverLeaveBegin ==
    ASSUME TypeOK, CountsInv, NEW c \in Call, NEW a \in Staff,
           DeactivateBegin(c, a) \/ DeleteBegin(c, a)
    PROVE  OverStep /\ CountsInv'
<1>1. PICK m : Go(c, m) /\ \E row \in AgentRow, delete \in BOOLEAN : m = LeaveRecord(a, row, delete)
  <2>1. agent[a] \in AgentRow /\ [agent[a] EXCEPT !.active = FALSE] \in AgentRow
    BY DEF TypeOK, AgentRow
  <2>2. CASE DeactivateBegin(c, a)
    <3>1. agent'[a] = [agent[a] EXCEPT !.active = FALSE]
      BY <2>2 DEF DeactivateBegin, TypeOK
    <3> QED
      BY <2>1, <2>2, <3>1 DEF DeactivateBegin
  <2>3. CASE DeleteBegin(c, a)
    BY <2>1, <2>3 DEF DeleteBegin
  <2> QED
    BY <2>2, <2>3
<1>2. Counts(m)
  <2>1. m.op = "leave" /\ m.self.chats = m.was.chats
    BY <1>1 DEF LeaveRecord, AgentRow
  <2> QED
    BY <2>1 DEF Counts
<1>3. OverStep
  <2>1. CASE DeactivateBegin(c, a)
    <3>1. agent' = [agent EXCEPT ![a] = [@ EXCEPT !.active = FALSE]]
      BY <2>1 DEF DeactivateBegin
    <3>2. \A b \in Agent : agent'[b].chats = agent[b].chats /\ agent'[b].max = agent[b].max
      BY <3>1 DEF TypeOK, AgentRow, Staff
    <3> QED
      BY <3>2, NotOver DEF OverStep
  <2>2. CASE DeleteBegin(c, a)
    BY <2>2, OverStill DEF DeleteBegin
  <2> QED
    BY <2>1, <2>2
<1> QED
  BY <1>1, <1>2, <1>3, CountsKept

LEMMA OverLeaveNext ==
    ASSUME TypeOK, CountsInv, NEW c \in Call, LeaveNext(c)
    PROVE  OverStep /\ CountsInv'
<1> DEFINE k == call[c]
           t == Oldest(k.left)
<1>1. /\ LeaveOK(k) /\ t \in k.left /\ t \in Ticket /\ t \in DOMAIN k.now
      /\ \/ Throw(c)
         \/ /\ Go(c, Assign(k, t, BotIfActive))
            /\ UNCHANGED <<agent, ticket, room, faults>>
         \/ \E b \in Candidates(k.now[t].region) :
               /\ agent' = SavedSelf(Busier(k, b), BusierRows(k, b))
               /\ ticket' = SavedTickets(Busier(k, b))
               /\ Go(c, Assign(Clean(Busier(k, b)), t, b))
               /\ UNCHANGED <<room, faults>>
  BY LeaveNextCases, Zenon
<1>2. k.op = "leave" /\ k.self.chats = k.was.chats /\ k.self \in AgentRow /\ k.was \in AgentRow
      /\ k.who \in Staff /\ CopiesOf(k.copies, Agent, AgentRow)
  BY <1>1 DEF CountsInv, Counts, LeaveOK
<1> HIDE DEF t
<1>3. CASE Go(c, Assign(k, t, BotIfActive)) /\ UNCHANGED <<agent, ticket, room, faults>>
  <2>1. PICK b, m : b = BotIfActive /\ m = Assign(k, t, b) /\ Go(c, m)
    BY <1>3
  <2>2. m.op = "leave" /\ m.self = k.self /\ m.was = k.was
    <3>1. LeaveOK(k) /\ m = Assign(k, t, b)
      BY <1>1, <2>1
    <3> HIDE DEF k
    <3> QED
      BY <3>1 DEF Assign, LeaveOK
  <2> QED
    BY <1>2, <1>3, <2>1, <2>2, CountsKept, OverStill DEF Counts
<1>4. ASSUME NEW b \in Candidates(k.now[t].region),
             agent' = SavedSelf(Busier(k, b), BusierRows(k, b)),
             Go(c, Assign(Clean(Busier(k, b)), t, b))
      PROVE  OverStep /\ CountsInv'
  <2>1. b \in Agent /\ b \in Staff /\ Free(b)
    BY DEF Candidates, Staff
  <2>2. PICK m : m = Busier(k, b)
    OBVIOUS
  <2>3. LeaveOK(m) /\ m.left = k.left /\ m.who = k.who /\ m.was = k.was
        /\ (b # k.who => m.self = k.self)
    BY <1>1, <2>1, <2>2, BusierOK
  <2>4. PICK n : n = Clean(m)
    OBVIOUS
  <2>5. LeaveOK(n) /\ n.self = n.was
    BY <2>3, <2>4, CleanOK DEF Clean, LeaveOK
  <2>6. PICK o : o = Assign(n, t, b) /\ Go(c, o)
    BY <1>4, <2>2, <2>4
  <2>7. o.op = "leave" /\ o.self = n.self /\ o.was = n.was /\ o.left = n.left \ {t}
    <3>1. LeaveOK(n) /\ o = Assign(n, t, b)
      BY <2>5, <2>6
    <3> QED
      BY <3>1 DEF Assign, LeaveOK
  <2>8. CountsInv' /\ call'[c] # call[c]
    <3>1. CountsInv' /\ call'[c] = o
      BY <2>5, <2>6, <2>7, CountsKept DEF Counts
    <3> QED
      BY <1>1, <2>7, <3>1
  <2>9. CASE b = k.who
    <3>1. m.self = TakeChat(k.self) /\ BusierRows(k, b) = agent
      BY <1>1, <2>2, <2>9 DEF Busier, BusierRows, LeaveOK
    <3>2. PICK row : row = WriteAgent(agent[b], k.was, TakeChat(k.self)) /\ agent' = [agent EXCEPT ![b] = row]
      BY <1>4, <2>2, <2>3, <2>9, <3>1 DEF SavedSelf
    <3>3. ASSUME Overfills(b) PROVE Excused(b)
      <4>1. CASE k.was = agent[b]
        <5>1. TakeChat(k.self) \in AgentRow /\ TakeChat(k.self).chats = k.was.chats + 1
          BY <1>2, TakenChat
        <5>2. row.max = k.was.max /\ row.chats = k.was.chats + 1
          BY <1>2, <3>2, <4>1, <5>1, WrittenAgent DEF AgentRow
        <5>3. agent'[b] = row
          BY <2>1, <3>2 DEF TypeOK
        <5> QED
          BY <1>2, <2>1, <3>3, <4>1, <5>2, <5>3 DEF Overfills, Free, AgentRow
      <4>2. CASE k.was # agent[b]
        BY <1>2, <2>8, <2>9, <4>2 DEF Excused, HoldsOld
      <4> QED
        BY <4>1, <4>2
    <3> QED
      BY <2>1, <2>8, <3>2, <3>3, OneAgent
  <2>10. CASE b # k.who
    <3>1. m.self = k.self /\ m.was = k.was /\ m.who = k.who
      BY <2>3, <2>10
    <3>2. PICK row : /\ row = WriteAgent(agent[b], Track(k.copies, {b}, agent)[b], TakeChat(Track(k.copies, {b}, agent)[b]))
                     /\ BusierRows(k, b) = [agent EXCEPT ![b] = row]
      BY <2>10 DEF BusierRows
    <3>3. agent' = [BusierRows(k, b) EXCEPT ![k.who] = WriteAgent(@, k.was, k.self)]
      BY <1>4, <2>2, <3>1 DEF SavedSelf
    <3>4. /\ agent'[b] = row
          /\ \A a \in Staff : a # b /\ a # k.who => agent'[a] = agent[a]
          /\ agent'[k.who] = WriteAgent(agent[k.who], k.was, k.self)
      BY <1>2, <2>1, <2>10, <3>2, <3>3 DEF TypeOK
    <3>5. agent'[k.who].chats = agent[k.who].chats /\ agent'[k.who].max = agent[k.who].max
      BY <1>2, <3>4, WrittenAgent DEF TypeOK
    <3>6. ASSUME Overfills(b) PROVE Excused(b)
      <4>1. row.chats > row.max
        BY <3>4, <3>6 DEF Overfills
      <4>2. b \in DOMAIN k.copies /\ k.copies[b] # agent[b]
        <5>1. PICK f, S : f = k.copies /\ S = {b}
          OBVIOUS
        <5> QED
          BY <1>2, <2>1, <3>2, <4>1, <5>1, TrackedTake
      <4> QED
        BY <1>2, <2>8, <4>2 DEF Excused, HoldsOld
    <3>7. ASSUME NEW a \in Agent, Overfills(a) PROVE a = b
      BY <3>4, <3>5, <3>7, NotOver DEF Staff
    <3> QED
      BY <2>8, <3>6, <3>7 DEF OverStep
  <2> QED
    BY <2>9, <2>10
<1> QED
  BY <1>1, <1>3, <1>4, OverThrow

(* The leaving agent's own row is saved with its counter as it was, or at zero. *)
LEMMA OverSavedSelf ==
    ASSUME TypeOK, NEW k, LeaveOK(k), k.self.chats = k.was.chats \/ k.self.chats = 0,
           agent' = SavedSelf(k, agent)
    PROVE  OverStep
<1>1. k.who \in Staff /\ k.self \in AgentRow /\ k.was \in AgentRow /\ agent[k.who] \in AgentRow
  BY DEF LeaveOK, TypeOK
<1>2. PICK row : row = WriteAgent(agent[k.who], k.was, k.self) /\ agent' = [agent EXCEPT ![k.who] = row]
  BY DEF SavedSelf
<1>3. row.max = agent[k.who].max /\ (row.chats = agent[k.who].chats \/ row.chats = 0)
  BY <1>1, <1>2, WrittenAgent
<1>4. ~Overfills(k.who)
  <2>1. agent'[k.who] = row
    BY <1>1, <1>2 DEF TypeOK
  <2> QED
    BY <1>1, <1>3, <2>1 DEF Overfills, AgentRow
<1> QED
  BY <1>1, <1>2, <1>4, OneAgent

LEMMA OverLeaveEnd ==
    ASSUME TypeOK, CountsInv, NEW c \in Call, LeaveSettle(c) \/ DeleteSweep(c) \/ DeleteRemove(c)
    PROVE  OverStep /\ CountsInv'
<1>1. LeaveOK(call[c]) /\ call[c].op = "leave" /\ Counts(call[c])
  BY CallKinds DEF LeaveSettle, DeleteSweep, DeleteRemove, CountsInv
<1>2. CASE LeaveSettle(c)
  <2> DEFINE k == [call[c] EXCEPT !.self.chats = 0]
             stuck == {t \in Ticket : SavedTickets(k)[t].owner = k.who}
             loaded == Track(k.now, stuck, SavedTickets(k))
             sweep == [Clean(k) EXCEPT !.pc = "sweep", !.left = stuck,
                          !.base = loaded, !.now = loaded]
  <2>1. /\ LeaveOK(k) /\ LeaveOK(sweep)
        /\ \/ Throw(c)
           \/ /\ agent' = SavedSelf(k, agent)
              /\ Go(c, sweep) \/ Go(c, Idle)
    BY <1>2, LeaveSettleCases, Zenon
  <2>2. k.self.chats = 0
    BY <1>1 DEF LeaveOK, AgentRow
  <2>3. sweep.op = "leave" /\ sweep.self = sweep.was
    BY <2>1 DEF LeaveOK, Clean
  <2> HIDE DEF k, sweep
  <2>4. Counts(sweep) /\ Counts(Idle)
    BY <2>3 DEF Counts, Idle
  <2> QED
    BY <2>1, <2>2, <2>4, OverSavedSelf, CountsKept, OverThrow
<1>3. CASE DeleteSweep(c)
  <2> DEFINE k == call[c]
             done == [Clean(k) EXCEPT !.pc = "remove"]
  <2>1. /\ LeaveOK(k) /\ LeaveOK(done)
        /\ \/ Throw(c)
           \/ agent' = SavedSelf(k, agent) /\ Go(c, done)
    BY <1>3, DeleteSweepCases, Zenon
  <2>2. done.op = "leave" /\ done.self = done.was
    BY <2>1 DEF LeaveOK, Clean
  <2>3. k.self.chats = k.was.chats
    BY <1>1 DEF Counts
  <2> HIDE DEF k, done
  <2>4. Counts(done)
    BY <2>2 DEF Counts
  <2> QED
    BY <2>1, <2>3, <2>4, OverSavedSelf, CountsKept, OverThrow
<1>4. CASE DeleteRemove(c)
  <2>1. \/ Throw(c)
        \/ agent' = [agent EXCEPT ![call[c].who] = [NoRow EXCEPT !.row = "gone"]] /\ Return(c)
    BY <1>4, DeleteRemoveCases, Zenon
  <2>2. ASSUME agent' = [agent EXCEPT ![call[c].who] = [NoRow EXCEPT !.row = "gone"]]
        PROVE  OverStep
    <3>1. PICK a, row : a = call[c].who /\ row = [NoRow EXCEPT !.row = "gone"]
      OBVIOUS
    <3>2. a \in Staff /\ agent' = [agent EXCEPT ![a] = row] /\ row.chats = 0 /\ row.max = 0
      BY <1>1, <2>2, <3>1 DEF LeaveOK, NoRow
    <3>3. ~Overfills(a)
      BY <3>2 DEF Overfills, TypeOK
    <3> QED
      BY <3>2, <3>3, OneAgent
  <2> QED
    BY <2>1, <2>2, CountsIdle, OverThrow
<1> QED
  BY <1>2, <1>3, <1>4

LEMMA OverSettings ==
    ASSUME TypeOK, Settings
    PROVE  OverStep
<1>1. ASSUME NEW a \in Agent, NEW m \in Limit, Hire(a, m) PROVE OverStep
  <2>0. PICK x : /\ x = [row |-> "live", active |-> TRUE, status |-> "Offline", chats |-> 0, max |-> m]
                 /\ agent' = [agent EXCEPT ![a] = x]
    BY <1>1 DEF Hire
  <2>1. agent' = [agent EXCEPT ![a] = x] /\ x.chats = 0 /\ x.max = m
    BY <2>0
  <2>2. ~Overfills(a)
    BY <2>1, DeskAssumption DEF Overfills, TypeOK, Staff
  <2> QED
    BY <2>1, <2>2, OneAgent DEF Staff
<1>2. ASSUME NEW a \in Agent, NEW m \in Limit, SetLimit(a, m) PROVE OverStep
  <2>1. agent[a] \in AgentRow /\ a \in Staff /\ m \in Nat
    BY DeskAssumption DEF TypeOK, Staff
  <2>0. PICK row : row = [agent[a] EXCEPT !.max = m] /\ agent' = [agent EXCEPT ![a] = row]
    BY <1>2 DEF SetLimit
  <2>2. agent' = [agent EXCEPT ![a] = row] /\ row.chats = agent[a].chats /\ row.max = m
    BY <2>0, <2>1 DEF AgentRow
  <2>3. Overfills(a) => Excused(a)
    <3>1. agent'[a] = row
      BY <2>1, <2>2 DEF TypeOK
    <3> QED
      BY <2>1, <2>2, <3>1 DEF Overfills, Excused, AgentRow
  <2> QED
    BY <2>1, <2>2, <2>3, OneAgent
<1>3. ASSUME NEW a \in Staff, Reactivate(a) \/ \E s \in Choice : SetStatus(a, s) PROVE OverStep
  <2>1. \A b \in Agent : agent'[b].chats = agent[b].chats /\ agent'[b].max = agent[b].max
    BY <1>3 DEF Reactivate, SetStatus, TypeOK, AgentRow, Staff
  <2> QED
    BY <2>1, NotOver DEF OverStep
<1> QED
  BY <1>1, <1>2, <1>3 DEF Settings, Staff

LEMMA OverNext == TypeOK /\ CountsInv /\ [Next]_vars => OverStep /\ CountsInv'
<1> SUFFICES ASSUME TypeOK, CountsInv, [Next]_vars PROVE OverStep /\ CountsInv'
  OBVIOUS
<1>1. ASSUME NEW c \in Call, Step(c) PROVE OverStep /\ CountsInv'
  BY <1>1, OverStart, OverClose, OverTransfer, OverReassign, OverLeaveNext, OverLeaveEnd DEF Step
<1>2. ASSUME NEW c \in Call, Arrive(c) PROVE OverStep /\ CountsInv'
  <2>1. Managed \subseteq Staff
    BY DeskAssumption DEF Staff
  <2> QED
    BY <1>2, <2>1, OverStart, OverClose, OverTransfer, OverReassign, OverLeaveBegin DEF Arrive
<1>3. ASSUME NEW c \in Call, Die(c) PROVE OverStep /\ CountsInv'
  BY <1>3, CountsIdle, OverStill DEF Die
<1>4. CASE Settings
  <2>1. CountsInv'
    BY <1>4 DEF Settings, Hire, SetLimit, Reactivate, SetStatus, CountsInv
  <2> QED
    BY <1>4, <2>1, OverSettings
<1>5. CASE UNCHANGED vars
  BY <1>5, OverStill DEF vars, CountsInv
<1> QED
  BY <1>1, <1>2, <1>3, <1>4, <1>5 DEF Next

(* However many handlers overlap, an agent is filled beyond its limit only when the
   limit is lowered, or by a handler that writes from an old copy of the agent's row:
   on a fresh one the test of the limit and the counting agree. *)
THEOREM OverfilledCorrect == Spec => OverfilledByStaleCopyOnly
<1>1. Init => CountsInv
  BY DEF Init, CountsInv, Counts, Idle
<1>2. TypeOK /\ CountsInv /\ [Next]_vars => CountsInv' /\ [OverStep]_vars
  BY OverNext
<1>3. OverStep => (\A a \in Agent : agent[a].chats <= agent[a].max /\ agent'[a].chats > agent'[a].max
          => \/ agent'[a].max < agent[a].max
             \/ \E c \in Call : HoldsOld(c, a) /\ call'[c] # call[c])
  BY DEF OverStep, Overfills, Excused
<1> QED
  BY <1>1, <1>2, <1>3, TypeCorrect, PTL DEF Spec, OverfilledByStaleCopyOnly

-----------------------------------------------------------------------------
(* Finished tickets, however handlers overlap: what a handler may bring back.  *)

(* A handler that hands over changes the status of tickets only that it has read as
   under way; its sweep changes none. *)
LeaveLive(k) ==
    k.op = "leave" =>
        /\ \A t \in k.left : k.pc = "handoff" => k.now[t].stat \in Live /\ k.base[t].stat \in Live
        /\ \A t \in DOMAIN k.now : k.now[t].stat # k.base[t].stat => k.base[t].stat \in Live
ReassignLive(k) == k.op = "reassign" => \A t \in k.left : k.loaded[t].stat \in Live
StaleLive == \A c \in Call : LeaveLive(call[c]) /\ ReassignLive(call[c])

(* A finished ticket is under way again only through a handler that moves. *)
Revives(c) ==
    \A t \in Ticket : ticket[t].stat \in {"Closed", "Transferred"} /\ ticket'[t].stat \in Live
                      => HoldsLive(c, t) /\ call'[c] # call[c]
NoneRevived ==
    \A t \in Ticket : ticket[t].stat \in {"Closed", "Transferred"} => ticket'[t].stat \notin Live

LEMMA StaleKept ==
    ASSUME TypeOK, StaleLive, NEW c \in Call, NEW m, Go(c, m), LeaveLive(m), ReassignLive(m)
    PROVE  StaleLive'
<1>1. \A d \in Call : call'[d] = m \/ call'[d] = call[d]
  BY DEF Go, TypeOK, CallsOK
<1>2. ASSUME NEW d \in Call PROVE LeaveLive(call'[d]) /\ ReassignLive(call'[d])
  <2>1. CASE call'[d] = m
    BY <2>1
  <2>2. CASE call'[d] = call[d]
    BY <2>2 DEF StaleLive
  <2> QED
    BY <1>1, <2>1, <2>2
<1> QED
  BY <1>2 DEF StaleLive

LEMMA OtherLive ==
    ASSUME NEW m, m.op \notin {"leave", "reassign"} PROVE LeaveLive(m) /\ ReassignLive(m)
BY DEF LeaveLive, ReassignLive

LEMMA StaleReturn ==
    ASSUME TypeOK, StaleLive, NEW c \in Call, Return(c) PROVE StaleLive'
<1>1. Go(c, Idle) /\ Idle.op \notin {"leave", "reassign"}
  BY DEF Return, Go, Idle
<1>2. PICK m : m = Idle /\ Go(c, m)
  BY <1>1
<1> QED
  BY <1>1, <1>2, OtherLive, StaleKept

LEMMA StillSame == ASSUME ticket' = ticket PROVE NoneRevived
BY DEF NoneRevived, Live

LEMMA StaleThrow ==
    ASSUME TypeOK, StaleLive, NEW c \in Call, Throw(c) PROVE StaleLive' /\ NoneRevived
BY StaleReturn, StillSame DEF Throw

LEMMA StaleStart ==
    ASSUME TypeOK, StaleLive, NEW c \in Call,
           \/ \E r \in Requester, rg \in AskRegion : StartLookup(c, r, rg)
           \/ StartReserve(c) \/ StartCreate(c)
    PROVE  StaleLive' /\ NoneRevived
<1>1. CASE \E r \in Requester, rg \in AskRegion : StartLookup(c, r, rg)
  <2>1. PICK r \in Requester, rg \in AskRegion : StartLookup(c, r, rg)
    BY <1>1
  <2>2. PICK m : Go(c, m) /\ m.op = "start"
    <3>1. CASE \E a \in LeastBusy(Candidates(rg), agent) :
                 Go(c, [op |-> "start", pc |-> "picked", by |-> r, region |-> rg,
                        owner |-> a, copy |-> agent[a]])
      BY <3>1
    <3>2. CASE Go(c, [op |-> "start", pc |-> "reserved", by |-> r, region |-> rg,
                      owner |-> BotIfActive', copy |-> NoRow])
      BY <3>2
    <3> QED
      BY <2>1, <3>1, <3>2 DEF StartLookup
  <2>3. ticket' = ticket
    BY <2>1 DEF StartLookup
  <2> QED
    BY <2>2, <2>3, OtherLive, StaleKept, StillSame
<1>2. CASE StartReserve(c)
  <2>1. CASE Throw(c)
    BY <2>1, StaleThrow
  <2>2. CASE ~Throw(c)
    <3>1. call[c] \in StartCall /\ ticket' = ticket /\ Go(c, [call[c] EXCEPT !.pc = "reserved"])
      BY <1>2, <2>2, CallKinds DEF StartReserve, StartOK
    <3>2. PICK m : m = [call[c] EXCEPT !.pc = "reserved"] /\ Go(c, m)
      BY <3>1
    <3>3. m.op = "start"
      BY <3>1, <3>2 DEF StartCall
    <3> QED
      BY <3>1, <3>2, <3>3, OtherLive, StaleKept, StillSame
  <2> QED
    BY <2>1, <2>2
<1>3. CASE StartCreate(c)
  <2>1. CASE Throw(c)
    BY <2>1, StaleThrow
  <2>2. CASE ~Throw(c)
    <3>1. PICK t \in Ticket : ~Created(t) /\ Return(c) /\ \E x : ticket' = [ticket EXCEPT ![t] = x]
      BY <1>3, <2>2 DEF StartCreate, IsNext
    <3>2. \A u \in Ticket : u # t => ticket'[u] = ticket[u]
      BY <3>1 DEF TypeOK
    <3>3. NoneRevived
      BY <3>1, <3>2 DEF NoneRevived, Created, Live
    <3> QED
      BY <3>1, <3>3, StaleReturn
  <2> QED
    BY <2>1, <2>2
<1> QED
  BY <1>1, <1>2, <1>3

LEMMA StaleClose ==
    ASSUME TypeOK, StaleLive, NEW c \in Call,
           (\E t \in Ticket : CloseLoad(c, t)) \/ CloseSave(c)
    PROVE  StaleLive' /\ NoneRevived
<1>1. CASE \E t \in Ticket : CloseLoad(c, t)
  <2>1. PICK m : Go(c, m) /\ m.op = "close"
    BY <1>1 DEF CloseLoad
  <2> QED
    BY <1>1, <2>1, OtherLive, StaleKept, StillSame DEF CloseLoad
<1>2. CASE CloseSave(c)
  <2> DEFINE k == call[c]
             x == k.loaded
             y == [x EXCEPT !.stat = "Closed"]
  <2>1. CASE Throw(c)
    BY <2>1, StaleThrow
  <2>2. CASE ~Throw(c)
    <3>1. k.t \in Ticket /\ x \in TicketRow
      BY <1>2, CallKinds DEF CloseSave, CloseOK, CloseCall
    <3>2. ticket' = [ticket EXCEPT ![k.t] = WriteTicket(@, x, y)] /\ Return(c)
      BY <1>2, <2>2 DEF CloseSave
    <3>3. y.stat = "Closed"
      BY <3>1 DEF TicketRow
    <3> HIDE DEF y
    <3>4. WriteTicket(ticket[k.t], x, y).stat \in {ticket[k.t].stat, "Closed"}
      BY <3>1, <3>3 DEF WriteTicket, TypeOK, TicketRow
    <3>5. NoneRevived
      BY <3>1, <3>2, <3>4 DEF NoneRevived, TypeOK, Live
    <3> QED
      BY <3>2, <3>5, StaleReturn
  <2> QED
    BY <2>1, <2>2
<1> QED
  BY <1>1, <1>2

LEMMA StaleTransfer ==
    ASSUME TypeOK, StaleLive, NEW c \in Call,
           (\E t \in Ticket, a \in Staff : TransferLoad(c, t, a)) \/ TransferSave(c)
    PROVE  StaleLive' /\ NoneRevived
<1>1. CASE \E t \in Ticket, a \in Staff : TransferLoad(c, t, a)
  <2>1. PICK m : Go(c, m) /\ m.op = "transfer"
    BY <1>1 DEF TransferLoad
  <2> QED
    BY <1>1, <2>1, OtherLive, StaleKept, StillSame DEF TransferLoad
<1>2. CASE TransferSave(c)
  <2> DEFINE k == call[c]
             x == k.loaded
             y == [x EXCEPT !.owner = k.to, !.stat = "Transferred"]
  <2>1. CASE Throw(c)
    BY <2>1, StaleThrow
  <2>2. CASE ~Throw(c)
    <3>1. k.t \in Ticket /\ x \in TicketRow
      BY <1>2, CallKinds DEF TransferSave, TransferOK, TransferCall
    <3>2. ticket' = [ticket EXCEPT ![k.t] = WriteTicket(@, x, y)] /\ Return(c)
      BY <1>2, <2>2 DEF TransferSave
    <3>3. y.stat = "Transferred"
      BY <3>1 DEF TicketRow
    <3> HIDE DEF y
    <3>4. WriteTicket(ticket[k.t], x, y).stat \in {ticket[k.t].stat, "Transferred"}
      BY <3>1, <3>3 DEF WriteTicket, TypeOK, TicketRow
    <3>5. NoneRevived
      BY <3>1, <3>2, <3>4 DEF NoneRevived, TypeOK, Live
    <3> QED
      BY <3>2, <3>5, StaleReturn
  <2> QED
    BY <2>1, <2>2
<1> QED
  BY <1>1, <1>2

LEMMA StaleReassignBegin ==
    ASSUME TypeOK, StaleLive, NEW c \in Call, ReassignBegin(c)
    PROVE  StaleLive' /\ NoneRevived
<1>1. ticket' = ticket
  BY DEF ReassignBegin
<1>2. PICK m : m = [op |-> "reassign", left |-> BotTickets,
                    loaded |-> [t \in BotTickets |-> ticket[t]],
                    copies |-> [a \in ActiveAgents |-> agent[a]]] /\ Go(c, m)
  BY DEF ReassignBegin
<1>3. m.op = "reassign" /\ \A t \in m.left : m.loaded[t].stat \in Live
  BY <1>2 DEF BotTickets
<1>4. LeaveLive(m) /\ ReassignLive(m)
  BY <1>3 DEF LeaveLive, ReassignLive
<1> QED
  BY <1>1, <1>2, <1>4, StaleKept, StillSame

LEMMA StaleContinue ==
    ASSUME TypeOK, StaleLive, NEW c \in Call, NEW m, Continue(c, m),
           call[c].op = "reassign", m.op = "reassign", ReassignLive(m), m.left # call[c].left
    PROVE  StaleLive' /\ call'[c] # call[c]
<1>1. PICK n : Go(c, n) /\ (n = m \/ n = Idle)
  BY DEF Continue
<1>2. LeaveLive(n) /\ ReassignLive(n)
  BY <1>1 DEF LeaveLive, ReassignLive, Idle
<1>3. call'[c] = n
  BY <1>1 DEF Go, TypeOK, CallsOK
<1>4. n # call[c]
  BY <1>1 DEF Idle
<1> QED
  BY <1>1, <1>2, <1>3, <1>4, StaleKept

LEMMA StaleReassignNext ==
    ASSUME TypeOK, StaleLive, NEW c \in Call, ReassignNext(c)
    PROVE  StaleLive' /\ Revives(c)
<1> DEFINE k == call[c]
           t == Oldest(k.left)
           copies == Track(k.copies, Candidates(NoRegion), agent)
           rest == [k EXCEPT !.left = @ \ {t}, !.copies = copies]
<1>1. /\ ReassignOK(k) /\ t \in DOMAIN k.loaded /\ t \in Ticket
      /\ \/ Throw(c)
         \/ Continue(c, rest) /\ ticket' = ticket
         \/ \E a \in Candidates(k.loaded[t].region) :
               /\ ticket' = [ticket EXCEPT ![t] = WriteTicket(@, k.loaded[t],
                      [k.loaded[t] EXCEPT !.owner = a, !.stat = "InProgress"])]
               /\ Continue(c, [rest EXCEPT !.copies[a] = TakeChat(@)])
  BY ReassignNextCases, Zenon
<1>2. /\ k = [op |-> "reassign", left |-> k.left, loaded |-> k.loaded, copies |-> k.copies]
      /\ k.left \subseteq Ticket /\ k.left # {} /\ k.op = "reassign"
  BY <1>1 DEF ReassignOK
<1>3. t \in k.left /\ k.loaded[t].stat \in Live
  <2>1. t \in k.left
    BY <1>2, OldestInS
  <2> QED
    BY <1>2, <2>1 DEF StaleLive, ReassignLive
<1>4. HoldsLive(c, t)
  BY <1>1, <1>2, <1>3 DEF HoldsLive
<1>5. ASSUME NEW m, Continue(c, m), m.op = "reassign", m.left = k.left \ {t}, m.loaded = k.loaded
      PROVE  StaleLive' /\ call'[c] # call[c]
  <2>1. ReassignLive(m) /\ m.left # k.left
    BY <1>2, <1>3, <1>5 DEF StaleLive, ReassignLive
  <2> HIDE DEF t
  <2> QED
    BY <1>2, <1>5, <2>1, StaleContinue
<1>6. CASE Throw(c)
  BY <1>6, StaleThrow DEF NoneRevived, Revives
<1>7. CASE Continue(c, rest) /\ ticket' = ticket
  <2>1. PICK m : m = rest /\ Continue(c, m)
    BY <1>7
  <2>2. m.op = "reassign" /\ m.left = k.left \ {t} /\ m.loaded = k.loaded
    BY <1>2, <2>1
  <2> QED
    BY <1>5, <1>7, <2>1, <2>2, StillSame DEF NoneRevived, Revives
<1>8. ASSUME NEW a, NEW x, ticket' = [ticket EXCEPT ![t] = x],
             Continue(c, [rest EXCEPT !.copies[a] = TakeChat(@)])
      PROVE  StaleLive' /\ Revives(c)
  <2>1. PICK m : m = [rest EXCEPT !.copies[a] = TakeChat(@)] /\ Continue(c, m)
    BY <1>8
  <2>2. m.op = "reassign" /\ m.left = k.left \ {t} /\ m.loaded = k.loaded
    BY <1>2, <2>1
  <2>3. StaleLive' /\ call'[c] # call[c]
    BY <1>5, <2>1, <2>2
  <2>4. \A u \in Ticket : u # t => ticket'[u] = ticket[u]
    BY <1>8 DEF TypeOK
  <2> QED
    BY <1>4, <2>3, <2>4 DEF Revives, Live
<1> HIDE DEF rest, t
<1> QED
  BY <1>1, <1>6, <1>7, <1>8

LEMMA SavedStale ==
    ASSUME TypeOK, NEW k, LeaveOK(k), LeaveLive(k), NEW t \in Ticket,
           ticket[t].stat \notin Live, SavedTickets(k)[t].stat \in Live
    PROVE  t \in DOMAIN k.base /\ k.base[t].stat \in Live
<1>1. t \in Dirty(k)
  BY DEF SavedTickets
<1>2. t \in DOMAIN k.now /\ DOMAIN k.now = DOMAIN k.base /\ k.op = "leave"
  BY <1>1 DEF Dirty, LeaveOK
<1>3. k.now[t].stat # k.base[t].stat
  <2>1. SavedTickets(k)[t] = WriteTicket(ticket[t], k.base[t], k.now[t])
    BY <1>1 DEF SavedTickets
  <2> QED
    BY <2>1 DEF WriteTicket, TypeOK, TicketRow
<1> QED
  BY <1>2, <1>3 DEF LeaveLive

LEMMA StaleSaved ==
    ASSUME TypeOK, NEW c \in Call, LeaveOK(call[c]), LeaveLive(call[c]), call'[c] # call[c],
           NEW k, LeaveOK(k), LeaveLive(k), k.base = call[c].base,
           \A t \in Ticket : ticket'[t].stat = SavedTickets(k)[t].stat
    PROVE  Revives(c)
<1> SUFFICES ASSUME NEW t \in Ticket, ticket[t].stat \in {"Closed", "Transferred"},
                    ticket'[t].stat \in Live
             PROVE  HoldsLive(c, t)
  BY DEF Revives
<1>1. t \in DOMAIN k.base /\ k.base[t].stat \in Live
  BY SavedStale DEF Live
<1>2. call[c].op = "leave"
  BY DEF LeaveOK
<1> QED
  BY <1>1, <1>2 DEF HoldsLive

LEMMA LiveAssign ==
    ASSUME NEW k, LeaveOK(k), LeaveLive(k), NEW t \in k.left, NEW b \in Staff \cup {NoAgent},
           NEW m, m = Assign(k, t, b)
    PROVE  LeaveLive(m) /\ ReassignLive(m) /\ m.left = k.left \ {t} /\ m.op = "leave"
<1> DEFINE x == k.now[t]
           z == HandedOver(x, k.pc, b)
<1>1. t \in DOMAIN k.now /\ x \in TicketRow /\ k.op = "leave" /\ k.pc \in {"handoff", "sweep"}
      /\ k.left \subseteq DOMAIN k.now
  BY TrackedTickets DEF LeaveOK
<1>2. /\ m.op = "leave" /\ m.pc = k.pc /\ m.base = k.base
      /\ m.left = k.left \ {t} /\ m.now = [k.now EXCEPT ![t] = z]
  BY DEF Assign, LeaveOK
<1>3. k.pc = "sweep" => z.stat = x.stat
  <2> DEFINE pc == k.pc
  <2>1. pc = "sweep" => HandedOver(x, pc, b).stat = x.stat
    <3>1. x \in TicketRow
      BY <1>1
    <3> HIDE DEF x, pc
    <3> QED
      BY <3>1, HandedOverStat
  <2> QED
    BY <2>1
<1> HIDE DEF x, z
<1>4. DOMAIN m.now = DOMAIN k.now /\ m.now[t] = z /\ \A u \in DOMAIN k.now : u # t => m.now[u] = k.now[u]
  BY <1>1, <1>2
<1>5. \A u \in m.left : m.pc = "handoff" => m.now[u].stat \in Live /\ m.base[u].stat \in Live
  BY <1>1, <1>2, <1>4 DEF LeaveLive
<1>6. \A u \in DOMAIN m.now : m.now[u].stat # m.base[u].stat => m.base[u].stat \in Live
  BY <1>1, <1>2, <1>3, <1>4 DEF LeaveLive, x
<1> QED
  BY <1>2, <1>5, <1>6 DEF LeaveLive, ReassignLive

LEMMA LiveClean ==
    ASSUME NEW k, LeaveOK(k), LeaveLive(k), NEW m, m = Clean(k)
    PROVE  LeaveOK(m) /\ LeaveLive(m) /\ m.left = k.left
<1>1. /\ m.op = "leave" /\ m.pc = k.pc /\ m.base = k.now /\ m.left = k.left /\ m.now = k.now
      /\ k.op = "leave"
  BY DEF Clean, LeaveOK
<1>2. LeaveOK(m)
  BY CleanOK
<1> QED
  BY <1>1, <1>2 DEF LeaveLive

LEMMA StaleLeaveBegin ==
    ASSUME TypeOK, StaleLive, NEW c \in Call, NEW a \in Staff,
           DeactivateBegin(c, a) \/ DeleteBegin(c, a)
    PROVE  StaleLive' /\ NoneRevived
<1>1. ticket' = ticket
  BY DEF DeactivateBegin, DeleteBegin
<1>2. PICK m, row, delete : m = LeaveRecord(a, row, delete) /\ Go(c, m)
  BY DEF DeactivateBegin, DeleteBegin
<1> DEFINE mine == TicketsOf(a, Live)
           base == [t \in mine |-> ticket[t]]
<1>3. m.op = "leave" /\ m.left = mine /\ m.base = base /\ m.now = base
  <2> HIDE DEF base, mine
  <2> QED
    BY <1>2 DEF LeaveRecord, base, mine
<1>4. \A t \in mine : base[t].stat \in Live
  BY DEF TicketsOf
<1> HIDE DEF base, mine
<1>5. LeaveLive(m) /\ ReassignLive(m)
  BY <1>3, <1>4 DEF LeaveLive, ReassignLive
<1> QED
  BY <1>1, <1>2, <1>5, StaleKept, StillSame

LEMMA StaleLeaveNext ==
    ASSUME TypeOK, StaleLive, NEW c \in Call, LeaveNext(c)
    PROVE  StaleLive' /\ Revives(c)
<1> DEFINE k == call[c]
           t == Oldest(k.left)
<1>1. /\ LeaveOK(k) /\ t \in k.left
      /\ \/ Throw(c)
         \/ Go(c, Assign(k, t, BotIfActive)) /\ ticket' = ticket
         \/ \E b \in Candidates(k.now[t].region) :
               /\ ticket' = SavedTickets(Busier(k, b))
               /\ Go(c, Assign(Clean(Busier(k, b)), t, b))
  BY LeaveNextCases, Zenon
<1>2. LeaveLive(k)
  BY DEF StaleLive
<1>3. CASE Throw(c)
  BY <1>3, StaleThrow DEF NoneRevived, Revives
<1>4. CASE Go(c, Assign(k, t, BotIfActive)) /\ ticket' = ticket
  <2> DEFINE b == BotIfActive
  <2>1. b \in Staff \cup {NoAgent}
    BY BotIfActiveType DEF Staff
  <2>2. PICK m : m = Assign(k, t, b) /\ Go(c, m)
    BY <1>4
  <2>3. LeaveLive(m) /\ ReassignLive(m)
    <3> HIDE DEF b, k, t
    <3> QED
      BY <1>1, <1>2, <2>1, <2>2, LiveAssign
  <2> QED
    BY <1>4, <2>2, <2>3, StaleKept, StillSame DEF NoneRevived, Revives
<1>5. ASSUME NEW b \in Candidates(k.now[t].region),
             ticket' = SavedTickets(Busier(k, b)),
             Go(c, Assign(Clean(Busier(k, b)), t, b))
      PROVE  StaleLive' /\ Revives(c)
  <2> DEFINE m == Busier(k, b)
             n == Clean(m)
  <2>1. b \in Agent /\ b \in Staff \cup {NoAgent}
    BY CandidatesServe DEF Staff
  <2>2. LeaveOK(m) /\ m.left = k.left /\ m.now = k.now /\ m.base = k.base /\ m.pc = k.pc
    BY <1>1, <2>1, BusierOK
  <2>3. LeaveLive(m)
    BY <1>1, <1>2, <2>2 DEF LeaveLive, LeaveOK
  <2>4. PICK o : o = Assign(n, t, b) /\ Go(c, o)
    BY <1>5
  <2>5. ticket' = SavedTickets(m)
    BY <1>5
  <2> HIDE DEF m
  <2>6. LeaveOK(n) /\ LeaveLive(n) /\ n.left = k.left
    BY <2>2, <2>3, LiveClean
  <2> HIDE DEF n
  <2>7. LeaveLive(o) /\ ReassignLive(o) /\ o.left = k.left \ {t}
    <3>1. t \in n.left
      BY <1>1, <2>6
    <3> HIDE DEF k, t
    <3>2. LeaveLive(o) /\ ReassignLive(o)
      BY <2>1, <2>4, <2>6, <3>1, LiveAssign
    <3>3. o.left = n.left \ {t}
      BY <2>4, <2>6 DEF Assign, LeaveOK
    <3> QED
      BY <2>6, <3>2, <3>3
  <2>8. call'[c] # k
    <3>1. call'[c] = o
      BY <2>4 DEF Go, TypeOK, CallsOK
    <3> HIDE DEF k, t
    <3> QED
      BY <1>1, <2>7, <3>1
  <2>9. Revives(c)
    BY <1>1, <1>2, <2>2, <2>3, <2>5, <2>8, StaleSaved
  <2> QED
    BY <2>4, <2>7, <2>9, StaleKept
<1> HIDE DEF k, t
<1> QED
  BY <1>1, <1>3, <1>4, <1>5

LEMMA StaleLeaveSettle ==
    ASSUME TypeOK, StaleLive, NEW c \in Call, LeaveSettle(c)
    PROVE  StaleLive' /\ Revives(c)
<1> DEFINE k == [call[c] EXCEPT !.self.chats = 0]
           stuck == {t \in Ticket : SavedTickets(k)[t].owner = k.who}
           loaded == Track(k.now, stuck, SavedTickets(k))
           sweep == [Clean(k) EXCEPT !.pc = "sweep", !.left = stuck,
                        !.base = loaded, !.now = loaded]
<1>1. /\ LeaveOK(k) /\ LeaveOK(sweep)
      /\ \/ Throw(c)
         \/ ticket' = SavedTickets(k) /\ (Go(c, sweep) \/ Go(c, Idle))
  BY LeaveSettleCases, Zenon
<1>2. LeaveOK(call[c]) /\ LeaveLive(call[c]) /\ call[c].op = "leave" /\ call[c].pc = "handoff"
  BY CallKinds DEF LeaveSettle, StaleLive
<1>3. /\ k.op = "leave" /\ k.pc = "handoff" /\ k.left = call[c].left
      /\ k.base = call[c].base /\ k.now = call[c].now
  BY <1>2 DEF LeaveOK, AgentRow
<1>4. sweep.op = "leave" /\ sweep.pc = "sweep" /\ sweep.base = loaded /\ sweep.now = loaded
  <2> HIDE DEF k, loaded, stuck
  <2> QED
    BY <1>1 DEF Clean, LeaveOK
<1> HIDE DEF k, loaded, stuck, sweep
<1>5. LeaveLive(k)
  BY <1>2, <1>3 DEF LeaveLive
<1>6. CASE Throw(c)
  BY <1>6, StaleThrow DEF NoneRevived, Revives
<1>7. CASE ticket' = SavedTickets(k) /\ (Go(c, sweep) \/ Go(c, Idle))
  <2>1. PICK m : Go(c, m) /\ (m = sweep \/ m = Idle)
    BY <1>7
  <2>2. LeaveLive(m) /\ ReassignLive(m) /\ m # call[c]
    BY <1>2, <1>4, <2>1 DEF LeaveLive, ReassignLive, Idle
  <2>3. call'[c] # call[c]
    BY <2>1, <2>2 DEF Go, TypeOK, CallsOK
  <2>4. Revives(c)
    BY <1>1, <1>2, <1>3, <1>5, <1>7, <2>3, StaleSaved
  <2> QED
    BY <2>1, <2>2, <2>4, StaleKept
<1> QED
  BY <1>1, <1>6, <1>7

LEMMA StaleDeleteSweep ==
    ASSUME TypeOK, StaleLive, NEW c \in Call, DeleteSweep(c)
    PROVE  StaleLive' /\ Revives(c)
<1> DEFINE k == call[c]
           done == [Clean(k) EXCEPT !.pc = "remove"]
<1>1. /\ LeaveOK(k) /\ LeaveOK(done)
      /\ Throw(c) \/ (ticket' = SavedTickets(k) /\ Go(c, done))
  BY DeleteSweepCases, Zenon
<1>2. LeaveLive(k) /\ k.op = "leave" /\ k.left = {} /\ k.pc = "sweep"
  BY DEF DeleteSweep, StaleLive
<1>3. done.op = "leave" /\ done.pc = "remove" /\ done.left = {} /\ done.base = done.now
  BY <1>1, <1>2 DEF Clean, LeaveOK
<1> HIDE DEF k, done
<1>4. CASE Throw(c)
  BY <1>4, StaleThrow DEF NoneRevived, Revives
<1>5. CASE ticket' = SavedTickets(k) /\ Go(c, done)
  <2>1. call'[c] # call[c]
    BY <1>2, <1>3, <1>5 DEF Go, TypeOK, CallsOK, k
  <2>2. LeaveLive(done) /\ ReassignLive(done)
    BY <1>3 DEF LeaveLive, ReassignLive
  <2>3. Revives(c)
    BY <1>1, <1>2, <1>5, <2>1, StaleSaved DEF k
  <2> QED
    BY <1>5, <2>2, <2>3, StaleKept
<1> QED
  BY <1>1, <1>4, <1>5

LEMMA StaleDeleteRemove ==
    ASSUME TypeOK, StaleLive, NEW c \in Call, DeleteRemove(c)
    PROVE  StaleLive' /\ NoneRevived
<1> DEFINE k == call[c]
           own == {t \in DOMAIN k.now : k.now[t].owner = k.who}
           freed == [t \in Ticket |-> IF t \in own THEN [ticket[t] EXCEPT !.owner = NoAgent]
                                     ELSE ticket[t]]
<1>1. Throw(c) \/ (ticket' = freed /\ Return(c))
  BY DeleteRemoveCases, Zenon
<1>2. CASE ticket' = freed /\ Return(c)
  <2>1. \A t \in Ticket : ticket'[t].stat = ticket[t].stat
    BY <1>2 DEF TypeOK, TicketRow
  <2> QED
    BY <1>2, <2>1, StaleReturn DEF NoneRevived, Live
<1> QED
  BY <1>1, <1>2, StaleThrow

LEMMA StaleNext ==
    ASSUME TypeOK, StaleLive, [Next]_vars
    PROVE  StaleLive' /\ (NoneRevived \/ \E c \in Call : Revives(c))
<1>1. ASSUME NEW c \in Call, Step(c) PROVE StaleLive' /\ (NoneRevived \/ Revives(c))
  BY <1>1, StaleStart, StaleClose, StaleTransfer, StaleReassignNext, StaleLeaveNext,
     StaleLeaveSettle, StaleDeleteSweep, StaleDeleteRemove DEF Step
<1>2. ASSUME NEW c \in Call, Arrive(c) PROVE StaleLive' /\ NoneRevived
  <2>1. Managed \subseteq Staff
    BY DeskAssumption DEF Staff
  <2> QED
    BY <1>2, <2>1, StaleStart, StaleClose, StaleTransfer, StaleReassignBegin,
       StaleLeaveBegin DEF Arrive
<1>3. ASSUME NEW c \in Call, Die(c) PROVE StaleLive' /\ NoneRevived
  BY <1>3, StaleReturn, StillSame DEF Die
<1>4. CASE Settings \/ UNCHANGED vars
  <2>1. UNCHANGED <<ticket, room, call>>
    BY <1>4 DEF Settings, Hire, SetLimit, Reactivate, SetStatus, vars
  <2> QED
    BY <2>1, StillSame DEF StaleLive
<1> QED
  BY <1>1, <1>2, <1>3, <1>4 DEF Next

(* However handlers overlap, a closed or transferred ticket is under way again only
   through a handler that moves and had read it before it was finished. *)
THEOREM RevivedCorrect == Spec => RevivedByStaleCopyOnly
<1>1. Init => StaleLive
  BY DEF Init, StaleLive, LeaveLive, ReassignLive, Idle
<1>2. TypeOK /\ StaleLive /\ [Next]_vars => StaleLive'
  BY StaleNext
<1>3. TypeOK /\ StaleLive /\ [Next]_vars
      => [\A t \in Ticket :
             ticket[t].stat \in {"Closed", "Transferred"} /\ ticket'[t].stat \in Live
                 => \E c \in Call : HoldsLive(c, t) /\ call'[c] # call[c]]_vars
  BY StaleNext DEF NoneRevived, Revives
<1> QED
  BY <1>1, <1>2, <1>3, TypeCorrect, PTL DEF Spec, RevivedByStaleCopyOnly

(* A handler that goes on stays what it is. *)
LEMMA KindKept ==
    ASSUME TypeOK, NEW c \in Call, Step(c)
    PROVE  \E m : /\ Go(c, m) /\ m.op \in {"idle", call[c].op}
                  /\ m.op = "start" => m.pc # "picked"
<1>1. Idle.op = "idle"
  BY DEF Idle
<1>2. ASSUME Return(c) PROVE \E m : Go(c, m) /\ m.op = "idle"
  BY <1>1, <1>2 DEF Return, Go
<1>3. CASE Throw(c) \/ Return(c)
  BY <1>2, <1>3 DEF Throw
<1>4. CASE StartReserve(c) /\ ~Throw(c)
  <2>1. call[c] \in StartCall /\ Go(c, [call[c] EXCEPT !.pc = "reserved"])
    BY <1>4, CallKinds DEF StartReserve, StartOK
  <2>2. PICK m : m = [call[c] EXCEPT !.pc = "reserved"] /\ Go(c, m)
    BY <2>1
  <2>3. m.op = "start" /\ m.pc = "reserved" /\ call[c].op = "start"
    BY <2>1, <2>2 DEF StartCall
  <2> QED
    BY <2>2, <2>3
<1>5. CASE StartCreate(c) \/ CloseSave(c) \/ TransferSave(c) \/ DeleteRemove(c)
  <2>1. Throw(c) \/ Return(c)
    BY <1>5, Zenon DEF StartCreate, CloseSave, TransferSave, DeleteRemove
  <2> QED
    BY <1>3, <2>1
<1>6. CASE ReassignNext(c)
  <2> DEFINE k == call[c]
             t == Oldest(k.left)
             copies == Track(k.copies, Candidates(NoRegion), agent)
             rest == [k EXCEPT !.left = @ \ {t}, !.copies = copies]
  <2>1. k.op = "reassign" /\ ReassignOK(k)
    BY <1>6, CallKinds DEF ReassignNext
  <2>2. \/ Throw(c) \/ Continue(c, rest)
        \/ \E a : Continue(c, [rest EXCEPT !.copies[a] = TakeChat(@)])
    BY <1>6, Zenon DEF ReassignNext
  <2>3. rest.op = "reassign" /\ \A a : [rest EXCEPT !.copies[a] = TakeChat(@)].op = "reassign"
    <3> HIDE DEF copies, t
    <3> QED
      BY <2>1 DEF ReassignOK
  <2>4. ASSUME NEW m, m.op = "reassign", Continue(c, m)
        PROVE  \E n : Go(c, n) /\ n.op \in {"idle", "reassign"}
    BY <1>1, <2>4 DEF Continue
  <2> HIDE DEF rest
  <2> QED
    BY <1>3, <2>1, <2>2, <2>3, <2>4
<1>7. CASE LeaveNext(c)
  <2> DEFINE k == call[c]
             t == Oldest(k.left)
  <2>1. /\ LeaveOK(k) /\ k.op = "leave"
        /\ \/ Throw(c)
           \/ Go(c, Assign(k, t, BotIfActive))
           \/ \E b \in Agent : Go(c, Assign(Clean(Busier(k, b)), t, b))
    <3>1. LeaveOK(k) /\ k.op = "leave"
      BY <1>7, CallKinds DEF LeaveNext
    <3>2. \/ Throw(c)
          \/ Go(c, Assign(k, t, BotIfActive))
          \/ \E b \in LeastBusy(Candidates(k.now[t].region), agent) :
                Go(c, Assign(Clean(Busier(k, b)), t, b))
      BY <1>7, Zenon DEF LeaveNext
    <3> QED
      BY <3>1, <3>2 DEF LeastBusy, Candidates
  <2>2. ASSUME NEW n, LeaveOK(n), NEW b, Go(c, Assign(n, t, b))
        PROVE  \E m : Go(c, m) /\ m.op = "leave"
    <3>1. Assign(n, t, b).op = "leave"
      BY <2>2 DEF Assign, LeaveOK
    <3> QED
      BY <2>2, <3>1
  <2>3. \A b \in Agent : LeaveOK(Clean(Busier(k, b)))
    BY <2>1, BusierOK, CleanOK
  <2> HIDE DEF k, t
  <2> QED
    BY <1>3, <2>1, <2>2, <2>3 DEF k
<1>8. CASE LeaveSettle(c)
  <2> DEFINE k == [call[c] EXCEPT !.self.chats = 0]
             stuck == {t \in Ticket : SavedTickets(k)[t].owner = k.who}
             loaded == Track(k.now, stuck, SavedTickets(k))
             sweep == [Clean(k) EXCEPT !.pc = "sweep", !.left = stuck,
                          !.base = loaded, !.now = loaded]
  <2>1. LeaveOK(sweep) /\ call[c].op = "leave"
    BY <1>8, LeaveSettleCases DEF LeaveSettle
  <2>2. Throw(c) \/ Go(c, sweep) \/ Go(c, Idle)
    BY <1>8, Zenon DEF LeaveSettle
  <2>3. sweep.op = "leave"
    BY <2>1 DEF LeaveOK
  <2> HIDE DEF sweep
  <2> QED
    BY <1>1, <1>3, <2>1, <2>2, <2>3
<1>9. CASE DeleteSweep(c)
  <2> DEFINE done == [Clean(call[c]) EXCEPT !.pc = "remove"]
  <2>1. LeaveOK(done) /\ call[c].op = "leave" /\ (Throw(c) \/ Go(c, done))
    BY <1>9, DeleteSweepCases, Zenon
  <2>2. done.op = "leave"
    BY <2>1 DEF LeaveOK
  <2> HIDE DEF done
  <2> QED
    BY <1>3, <2>1, <2>2
<1> QED
  BY <1>3, <1>4, <1>5, <1>6, <1>7, <1>8, <1>9 DEF Step

-----------------------------------------------------------------------------
(* The room, while one handler runs at a time and nobody leaves.               *)

LEMMA ArriveReads ==
    ASSUME NEW c \in Call, Arrive(c) PROVE ticket' = ticket /\ room' = room
BY DEF Arrive, StartLookup, CloseLoad, TransferLoad, ReassignBegin, DeactivateBegin, DeleteBegin

LEMMA OwnerSeated ==
    ASSUME TypeOK, OwnerSitsInRoom, NEW t \in Ticket,
           \A u \in Ticket : u # t => ticket'[u] = ticket[u] /\ room'[u] = room[u],
           ticket'[t].stat \in Live /\ ticket'[t].owner # NoAgent => ticket'[t].owner \in room'[t]
    PROVE  OwnerSitsInRoom'
BY DEF OwnerSitsInRoom, Live

LEMMA OwnerSitsStep ==
    ASSUME Serial, TypeOK, SerialInv, OwnerSitsInRoom, NEW c \in Call, Step(c),
           "deactivate" \notin Kinds, "delete" \notin Kinds
    PROVE  OwnerSitsInRoom'
<1>1. ASSUME ticket' = ticket, room' = room PROVE OwnerSitsInRoom'
  BY <1>1 DEF OwnerSitsInRoom, Live
<1>2. CASE StartReserve(c)
  BY <1>1, <1>2 DEF StartReserve, Throw
<1>3. CASE StartCreate(c)
  <2>1. CASE Throw(c)
    BY <1>1, <2>1 DEF Throw
  <2>2. CASE ~Throw(c)
    <3>1. PICK t \in Ticket :
             /\ ticket' = [ticket EXCEPT ![t] = ticket'[t]]
             /\ ticket'[t].owner = call[c].owner
             /\ room' = [room EXCEPT ![t] = {call[c].owner, call[c].by} \cap Staff]
      BY <1>3, <2>2, SerialStartCreate
    <3>2. \A u \in Ticket : u # t => ticket'[u] = ticket[u] /\ room'[u] = room[u]
      BY <3>1 DEF TypeOK
    <3>3. ticket'[t].owner # NoAgent => ticket'[t].owner \in room'[t]
      <4>1. call[c].owner \in Staff \cup {NoAgent}
        BY <1>3, CallKinds DEF StartCreate, StartOK, StartCall
      <4> QED
        BY <3>1, <4>1 DEF TypeOK
    <3> QED
      BY <3>2, <3>3, OwnerSeated
  <2> QED
    BY <2>1, <2>2
<1>4. CASE CloseSave(c)
  <2>1. CASE Throw(c)
    BY <1>1, <2>1 DEF Throw
  <2>2. CASE ~Throw(c)
    <3> DEFINE t == call[c].t
    <3>1. /\ ticket' = [ticket EXCEPT ![t] = [@ EXCEPT !.stat = "Closed"]]
          /\ t \in Ticket /\ room' = room
      BY <1>4, <2>2, SerialCloseSave
    <3>2. ticket'[t].stat = "Closed" /\ \A u \in Ticket : u # t => ticket'[u] = ticket[u]
      BY <3>1 DEF TypeOK, TicketRow
    <3> HIDE DEF t
    <3> QED
      BY <3>1, <3>2, OwnerSeated DEF Live
  <2> QED
    BY <2>1, <2>2
<1>5. CASE TransferSave(c)
  <2>1. CASE Throw(c)
    BY <1>1, <2>1 DEF Throw
  <2>2. CASE ~Throw(c)
    <3> DEFINE t == call[c].t
    <3>1. /\ t \in Ticket /\ ticket' = [ticket EXCEPT ![t] = ticket'[t]]
          /\ ticket'[t].stat = "Transferred"
          /\ \A u \in Ticket : u # t => room'[u] = room[u]
      BY <1>5, <2>2, SerialTransferSave
    <3>2. \A u \in Ticket : u # t => ticket'[u] = ticket[u]
      BY <3>1 DEF TypeOK
    <3> HIDE DEF t
    <3> QED
      BY <3>1, <3>2, OwnerSeated DEF Live
  <2> QED
    BY <2>1, <2>2
<1>6. CASE ReassignNext(c)
  <2>1. CASE ticket' = ticket /\ room' = room
    BY <1>1, <2>1
  <2>2. CASE \E a \in Agent, t \in Ticket : TakenFromBot(a, t)
    <3>1. PICK a \in Agent, t \in Ticket : TakenFromBot(a, t)
      BY <2>2
    <3>2. /\ ticket' = [ticket EXCEPT ![t] = ticket'[t]] /\ ticket'[t].owner = a
          /\ room' = [room EXCEPT ![t] = @ \cup {a}]
      BY <3>1 DEF TakenFromBot, Seated
    <3>3. \A u \in Ticket : u # t => ticket'[u] = ticket[u] /\ room'[u] = room[u]
      BY <3>2 DEF TypeOK
    <3>4. a \in room'[t]
      BY <3>2 DEF TypeOK
    <3> QED
      BY <3>2, <3>3, <3>4, OwnerSeated
  <2> QED
    BY <1>6, <2>1, <2>2, SerialReassignNext
<1>7. CASE LeaveNext(c) \/ LeaveSettle(c) \/ DeleteSweep(c) \/ DeleteRemove(c)
  BY <1>7 DEF LeaveNext, LeaveSettle, DeleteSweep, DeleteRemove, SerialInv, Fresh
<1> QED
  BY <1>2, <1>3, <1>4, <1>5, <1>6, <1>7 DEF Step

(* As long as nobody is deactivated or deleted and one handler runs at a time, the
   owner of a ticket under way is a member of its room. *)
THEOREM OwnerSitsCorrect ==
    ASSUME Serial, "deactivate" \notin Kinds, "delete" \notin Kinds
    PROVE  Spec => []OwnerSitsInRoom
<1>1. Init => OwnerSitsInRoom
  BY DEF Init, OwnerSitsInRoom, Live
<1>2. TypeOK /\ SerialInv /\ OwnerSitsInRoom /\ [Next]_vars => OwnerSitsInRoom'
  <2> SUFFICES ASSUME TypeOK, SerialInv, OwnerSitsInRoom, [Next]_vars PROVE OwnerSitsInRoom'
    OBVIOUS
  <2>1. ASSUME ticket' = ticket, room' = room PROVE OwnerSitsInRoom'
    BY <2>1 DEF OwnerSitsInRoom, Live
  <2>2. ASSUME NEW c \in Call, Arrive(c) \/ Die(c) PROVE OwnerSitsInRoom'
    BY <2>1, <2>2, ArriveReads DEF Die
  <2>3. CASE Settings \/ UNCHANGED vars
    BY <2>1, <2>3, SerialSettings
  <2> QED
    BY <2>2, <2>3, OwnerSitsStep DEF Next
<1> QED
  BY <1>1, <1>2, SerialCorrect, PTL DEF Spec

-----------------------------------------------------------------------------
(* Nobody is abandoned, while one handler runs at a time and nobody manages the bot. *)

(* The bot, once it has been created, stays. *)
BotStands ==
    /\ agent[Bot].row \in {"none", "live"} /\ (agent[Bot].row = "live" => agent[Bot].active)
    /\ (\E t \in Ticket : Created(t)) => agent[Bot].row = "live"
    /\ \A c \in Call : call[c].op = "start" => agent[Bot].row = "live"

(* The handler of a leaving agent finds an owner for each of its tickets. *)
NowOwned ==
    \A c \in Call : call[c].op = "leave"
                    => \A t \in DOMAIN call[c].now : call[c].now[t].owner # NoAgent

SameRow(a) == agent'[a].row = agent[a].row /\ agent'[a].active = agent[a].active

LEMMA WriteKeeps ==
    ASSUME NEW row \in AgentRow, NEW loaded, NEW now
    PROVE  LET w == WriteAgent(row, loaded, now)
           IN w.row = row.row /\ w.active = row.active
BY DEF WriteAgent, AgentRow

(* However handlers overlap, a save changes whether a row is there, and in service,
   only of the agent that leaves. *)
LEMMA RowsKept ==
    ASSUME TypeOK, NEW c \in Call, Step(c), NEW a \in Staff,
           call[c].op = "leave" => call[c].who # a
    PROVE  SameRow(a)
<1>1. ASSUME agent' = agent PROVE SameRow(a)
  BY <1>1 DEF SameRow
<1>2. agent \in [Staff -> AgentRow]
  BY DEF TypeOK
<1>3. ASSUME NEW b, NEW loaded, NEW now, agent' = [agent EXCEPT ![b] = WriteAgent(@, loaded, now)]
      PROVE  SameRow(a)
  <2> DEFINE w == WriteAgent(agent[b], loaded, now)
  <2>1. b = a => w.row = agent[a].row /\ w.active = agent[a].active
    BY <1>2, WriteKeeps
  <2>2. agent' = [agent EXCEPT ![b] = w]
    BY <1>3
  <2> HIDE DEF w
  <2> QED
    BY <1>2, <2>1, <2>2 DEF SameRow
<1>4. ASSUME NEW k, k.who # a, agent' = SavedSelf(k, agent) PROVE SameRow(a)
  BY <1>3, <1>4 DEF SavedSelf
<1>5. CASE StartReserve(c)
  BY <1>1, <1>3, <1>5 DEF StartReserve, Throw
<1>6. CASE StartCreate(c) \/ TransferSave(c)
  BY <1>1, <1>6 DEF StartCreate, TransferSave, Throw
<1>7. CASE CloseSave(c)
  BY <1>1, <1>3, <1>7 DEF CloseSave, Throw
<1>8. CASE ReassignNext(c)
  <2>1. \/ agent' = agent
        \/ \E b, x, y : agent' = [agent EXCEPT ![b] = WriteAgent(@, x, y)]
    <3> DEFINE k == call[c]
               t == Oldest(k.left)
               copies == Track(k.copies, Candidates(NoRegion), agent)
               rest == [k EXCEPT !.left = @ \ {t}, !.copies = copies]
    <3>1. \/ Throw(c)
          \/ Continue(c, rest) /\ UNCHANGED <<agent, ticket, room, faults>>
          \/ \E b \in Candidates(k.loaded[t].region) :
                /\ agent' = [agent EXCEPT ![b] = WriteAgent(@, copies[b], TakeChat(copies[b]))]
                /\ ticket' = [ticket EXCEPT ![t] = WriteTicket(@, k.loaded[t],
                       [k.loaded[t] EXCEPT !.owner = b, !.stat = "InProgress"])]
                /\ room' = Seated(t, b)
                /\ Continue(c, [rest EXCEPT !.copies[b] = TakeChat(@)])
                /\ UNCHANGED faults
      BY <1>8, ReassignNextCases, Zenon
    <3> HIDE DEF copies, k
    <3> QED
      BY <3>1 DEF Throw
  <2> QED
    BY <1>1, <1>3, <2>1
<1>9. CASE LeaveNext(c)
  <2> DEFINE k == call[c]
  <2>1. k.op = "leave" /\ LeaveOK(k) /\ k.who # a
    BY <1>9, CallKinds DEF LeaveNext
  <2>2. \/ agent' = agent
        \/ \E b \in Agent : agent' = SavedSelf(Busier(k, b), BusierRows(k, b))
    BY <1>9, Zenon DEF LeaveNext, Throw, LeastBusy, Candidates
  <2>3. ASSUME NEW b \in Agent, agent' = SavedSelf(Busier(k, b), BusierRows(k, b))
        PROVE  SameRow(a)
    <3> DEFINE m == Busier(k, b)
               rows == BusierRows(k, b)
               w == WriteAgent(agent[b], Track(k.copies, {b}, agent)[b],
                               TakeChat(Track(k.copies, {b}, agent)[b]))
               u == WriteAgent(rows[m.who], m.was, m.self)
    <3>1. m.who = k.who /\ rows \in [Staff -> AgentRow] /\ b \in Staff
      BY <2>1, BusierOK DEF Staff
    <3>2. agent' = [rows EXCEPT ![m.who] = u]
      BY <2>3 DEF SavedSelf
    <3>3. rows = agent \/ rows = [agent EXCEPT ![b] = w]
      BY DEF BusierRows
    <3>4. w.row = agent[b].row /\ w.active = agent[b].active
      BY <1>2, <3>1, WriteKeeps
    <3> HIDE DEF m, u, rows, w
    <3>5. agent'[a] = rows[a]
      BY <2>1, <3>1, <3>2
    <3>6. rows[a] = agent[a] \/ (a = b /\ rows[a] = w)
      BY <1>2, <3>1, <3>3
    <3> QED
      BY <3>4, <3>5, <3>6 DEF SameRow
  <2> QED
    BY <1>1, <2>2, <2>3
<1>10. CASE LeaveSettle(c)
  <2> DEFINE k == [call[c] EXCEPT !.self.chats = 0]
  <2>1. k.who # a
    BY <1>10, CallKinds DEF LeaveSettle, LeaveOK
  <2>2. agent' = agent \/ agent' = SavedSelf(k, agent)
    BY <1>10, Zenon DEF LeaveSettle, Throw
  <2> HIDE DEF k
  <2> QED
    BY <1>1, <1>4, <2>1, <2>2
<1>11. CASE DeleteSweep(c)
  BY <1>1, <1>4, <1>11, Zenon DEF DeleteSweep, Throw
<1>12. CASE DeleteRemove(c)
  BY <1>1, <1>2, <1>12 DEF DeleteRemove, Throw, SameRow
<1> QED
  BY <1>5, <1>6, <1>7, <1>8, <1>9, <1>10, <1>11, <1>12 DEF Step

LEMMA StandsStep ==
    ASSUME TypeOK, SerialInv, StrictMoves, BotStands, Bot \notin Managed, NEW c \in Call, Step(c)
    PROVE  BotStands'
<1>1. Bot \in Staff
  BY DEF Staff
<1>2. SameRow(Bot)
  BY <1>1, RowsKept DEF SerialInv, Fresh
<1>3. ASSUME NEW t \in Ticket, Created(t)' PROVE agent[Bot].row = "live"
  <2>1. CASE Opens(t)
    BY <2>1 DEF Opens, BotStands
  <2>2. CASE Passes(t)
    <3>1. Created(t)
      BY <2>2 DEF Passes, Created, Life!Take, Life!HandOver, Life!Transfer, Life!Close,
         Life!Inherit, Life!Ongoing
    <3> QED
      BY <3>1 DEF BotStands
  <2>3. CASE ticket'[t] = ticket[t]
    BY <1>3, <2>3 DEF BotStands, Created
  <2> QED
    BY <2>1, <2>2, <2>3 DEF StrictMoves
<1>4. ASSUME NEW d \in Call, call'[d].op = "start" PROVE agent[Bot].row = "live"
  <2>1. PICK m : Go(c, m) /\ m.op \in {"idle", call[c].op}
    BY KindKept
  <2>2. call'[d] = call[d] \/ (d = c /\ call'[d] = m)
    BY <2>1 DEF Go, TypeOK, CallsOK
  <2> QED
    BY <1>4, <2>1, <2>2 DEF BotStands
<1> QED
  BY <1>2, <1>3, <1>4 DEF BotStands, SameRow

LEMMA StandsArrive ==
    ASSUME TypeOK, BotStands, Bot \notin Managed, NEW c \in Call, Arrive(c)
    PROVE  BotStands'
<1>1. ticket' = ticket /\ Bot \in Staff /\ agent \in [Staff -> AgentRow]
  BY ArriveReads DEF TypeOK, Staff
<1>2. ASSUME NEW m, Go(c, m), NEW d \in Call PROVE call'[d] = call[d] \/ call'[d] = m
  BY <1>2 DEF Go, TypeOK, CallsOK
<1>3. CASE \E r \in Requester, rg \in AskRegion : StartLookup(c, r, rg)
  <2>1. agent'[Bot].row = "live" /\ (agent'[Bot].active = agent[Bot].active \/ agent'[Bot].active)
    <3>1. PICK r \in Requester, rg \in AskRegion : StartLookup(c, r, rg)
      BY <1>3
    <3>2. CASE agent[Bot].row = "live"
      BY <3>1, <3>2 DEF StartLookup
    <3>3. CASE agent[Bot].row # "live"
      BY <1>1, <3>1, <3>3 DEF StartLookup
    <3> QED
      BY <3>2, <3>3
  <2>2. agent'[Bot].active
    <3>1. CASE agent[Bot].row = "live"
      BY <2>1, <3>1 DEF BotStands
    <3>2. CASE agent[Bot].row # "live"
      BY <1>1, <1>3, <3>2 DEF StartLookup
    <3> QED
      BY <3>1, <3>2
  <2> QED
    BY <1>1, <2>1, <2>2 DEF BotStands
<1>4. ASSUME agent'[Bot] = agent[Bot], NEW m, Go(c, m), m.op # "start" PROVE BotStands'
  <2>1. \A d \in Call : call'[d].op = "start" => call[d].op = "start"
    BY <1>2, <1>4
  <2> QED
    BY <1>1, <1>4, <2>1 DEF BotStands, Created
<1>5. CASE \E t \in Ticket : CloseLoad(c, t)
  <2>1. agent' = agent /\ \E m : Go(c, m) /\ m.op = "close"
    BY <1>5 DEF CloseLoad
  <2> QED
    BY <1>4, <2>1
<1>6. CASE \E t \in Ticket, a \in Staff : TransferLoad(c, t, a)
  <2>1. agent' = agent /\ \E m : Go(c, m) /\ m.op = "transfer"
    BY <1>6 DEF TransferLoad
  <2> QED
    BY <1>4, <2>1
<1>7. CASE ReassignBegin(c)
  <2>1. agent' = agent /\ \E m : Go(c, m) /\ m.op = "reassign"
    BY <1>7 DEF ReassignBegin
  <2> QED
    BY <1>4, <2>1
<1>8. ASSUME NEW a \in Managed, DeactivateBegin(c, a) \/ DeleteBegin(c, a) PROVE BotStands'
  <2>1. \E m : m.op = "leave" /\ Go(c, m)
    <3>1. \A row, delete : LeaveRecord(a, row, delete).op = "leave"
      BY DEF LeaveRecord
    <3> QED
      BY <1>8, <3>1 DEF DeactivateBegin, DeleteBegin
  <2>2. agent' = agent \/ agent' = [agent EXCEPT ![a].active = FALSE]
    BY <1>8 DEF DeactivateBegin, DeleteBegin
  <2>3. agent'[Bot] = agent[Bot]
    BY <1>1, <2>2
  <2> QED
    BY <1>4, <2>1, <2>3
<1> QED
  BY <1>3, <1>5, <1>6, <1>7, <1>8 DEF Arrive

LEMMA StandsSettings ==
    ASSUME TypeOK, BotStands, Settings PROVE BotStands'
<1>1. ticket' = ticket /\ call' = call /\ agent \in [Staff -> AgentRow] /\ Bot \in Staff
  BY DEF Settings, Hire, SetLimit, Reactivate, SetStatus, TypeOK, Staff
<1>2. agent'[Bot].row = agent[Bot].row /\ (agent[Bot].active => agent'[Bot].active)
  <2>1. CASE \E a \in Agent, m \in Limit : Hire(a, m) \/ SetLimit(a, m)
    BY <1>1, <2>1, DeskAssumption DEF Hire, SetLimit
  <2>2. CASE \E a \in Agent, s \in Choice : SetStatus(a, s)
    BY <1>1, <2>2, DeskAssumption DEF SetStatus
  <2>3. CASE \E a \in Staff : Reactivate(a)
    <3>1. PICK a \in Staff : Reactivate(a)
      BY <2>3
    <3>2. agent' = [agent EXCEPT ![a].active = TRUE]
      BY <3>1 DEF Reactivate
    <3> QED
      BY <1>1, <3>2 DEF AgentRow
  <2> QED
    BY <2>1, <2>2, <2>3 DEF Settings
<1> QED
  BY <1>1, <1>2 DEF BotStands, Created

LEMMA OwnedAlone ==
    ASSUME Serial, TypeOK, NEW c \in Call, NEW m, Go(c, m),
           m.op = "leave" => \A t \in DOMAIN m.now : m.now[t].owner # NoAgent
    PROVE  NowOwned'
<1>1. \A d \in Call : call'[d] = m
  BY DEF Serial, Go, TypeOK, CallsOK
<1> QED
  BY <1>1 DEF NowOwned

LEMMA AssignOwned ==
    ASSUME NEW k, LeaveOK(k), NEW t \in k.left, NEW b \in Staff,
           \A u \in DOMAIN k.now : k.now[u].owner # NoAgent
    PROVE  \A u \in DOMAIN Assign(k, t, b).now : Assign(k, t, b).now[u].owner # NoAgent
<1> DEFINE z == HandedOver(k.now[t], k.pc, b)
           m == Assign(k, t, b)
<1>1. t \in DOMAIN k.now /\ k.now[t] \in TicketRow
  BY DEF LeaveOK, CopiesOf
<1>2. m.now = [k.now EXCEPT ![t] = z]
  BY DEF Assign, LeaveOK
<1>3. z.owner # NoAgent
  BY <1>1, HandedOverStat, DeskAssumption DEF Staff
<1> HIDE DEF z, m
<1>4. \A u \in DOMAIN m.now : m.now[u].owner # NoAgent
  BY <1>2, <1>3
<1> QED
  BY <1>4 DEF m

LEMMA OwnedStep ==
    ASSUME Serial, TypeOK, RegionInv, SerialInv, BotStands, NowOwned, NEW c \in Call, Step(c)
    PROVE  NowOwned'
<1> DEFINE k == call[c]
<1>1. PICK m : Go(c, m) /\ m.op \in {"idle", k.op}
  BY KindKept
<1>2. CASE k.op # "leave"
  BY <1>1, <1>2, OwnedAlone
<1>3. \A n : Idle.op # "leave"
  BY DEF Idle
<1>4. ASSUME Throw(c) \/ Return(c) PROVE NowOwned'
  BY <1>3, <1>4, OwnedAlone DEF Throw, Return, Go
<1>5. k.op = "leave" => \A t \in DOMAIN k.now : k.now[t].owner # NoAgent
  BY DEF NowOwned
<1>6. CASE LeaveNext(c)
  <2> DEFINE t == Oldest(k.left)
  <2>1. /\ LeaveOK(k) /\ k.op = "leave" /\ FreshTickets(k, ticket) /\ t \in k.left
        /\ \/ Throw(c)
           \/ Go(c, Assign(k, t, BotIfActive))
           \/ \E b \in Agent : Go(c, Assign(Clean(Busier(k, b)), t, b))
    <3>1. k.op = "leave" /\ FreshTickets(k, ticket)
      BY <1>6 DEF LeaveNext, SerialInv, Fresh
    <3> QED
      BY <1>6, <3>1, LeaveNextCases DEF Candidates
  <2>2. BotIfActive = Bot
    <3>1. t \in DOMAIN k.now /\ t \in Ticket
      BY <2>1, TrackedTickets DEF LeaveOK
    <3>2. Created(t)
      BY <2>1, <3>1 DEF FreshTickets, Created
    <3> QED
      BY <3>1, <3>2 DEF BotStands, BotIfActive
  <2>3. ASSUME NEW n, LeaveOK(n), n.now = k.now, n.left = k.left, NEW b \in Staff,
               Go(c, Assign(n, t, b))
        PROVE  NowOwned'
    BY <1>5, <2>1, <2>3, AssignOwned, OwnedAlone
  <2>4. ASSUME NEW b \in Agent, Go(c, Assign(Clean(Busier(k, b)), t, b)) PROVE NowOwned'
    <3> DEFINE n == Clean(Busier(k, b))
    <3>1. LeaveOK(n) /\ n.now = k.now /\ n.left = k.left
      <4>1. LeaveOK(Busier(k, b)) /\ Busier(k, b).now = k.now /\ Busier(k, b).left = k.left
        BY <2>1, BusierOK
      <4> QED
        BY <4>1, CleanOK DEF Clean, LeaveOK
    <3>2. b \in Staff
      BY DEF Staff
    <3> HIDE DEF n
    <3> QED
      BY <2>3, <2>4, <3>1, <3>2 DEF n
  <2>5. ASSUME Go(c, Assign(k, t, BotIfActive)) PROVE NowOwned'
    <3>1. Bot \in Staff
      BY DEF Staff
    <3> QED
      BY <2>1, <2>2, <2>3, <2>5, <3>1
  <2> HIDE DEF k, t
  <2> QED
    BY <1>4, <2>1, <2>4, <2>5
<1>7. CASE LeaveSettle(c)
  <2>1. UnbornUnowned'
    BY RegionNext DEF RegionInv, Next
  <2>2. k.op = "leave" /\ LeaveOK(k)
    BY <1>7, CallKinds DEF LeaveSettle
  <2>3. Throw(c) \/ Go(c, Idle) \/ (AsTracked(k) /\ \E n : Go(c, n) /\ SweepOf(n, k))
    BY <1>7, <2>1, SerialLeaveSettle
  <2>4. ASSUME AsTracked(k), NEW n, Go(c, n), SweepOf(n, k) PROVE NowOwned'
    <3>1. k.who # NoAgent
      BY <2>2, DeskAssumption DEF LeaveOK, Staff
    <3>2. \A t \in DOMAIN n.now : n.now[t].owner # NoAgent
      BY <1>5, <2>2, <2>4, <3>1 DEF SweepOf, AsTracked
    <3> QED
      BY <2>4, <3>2, OwnedAlone
  <2> QED
    BY <1>3, <1>4, <2>3, <2>4, OwnedAlone
<1>8. CASE DeleteSweep(c)
  <2>1. Throw(c) \/ \E n : Go(c, n) /\ n.op = "leave" /\ n.now = k.now
    BY <1>8, SerialDeleteSweep
  <2> QED
    BY <1>4, <1>5, <1>8, <2>1, OwnedAlone DEF DeleteSweep
<1>9. CASE DeleteRemove(c)
  BY <1>4, <1>9, Zenon DEF DeleteRemove
<1>10. CASE ~(LeaveNext(c) \/ LeaveSettle(c) \/ DeleteSweep(c) \/ DeleteRemove(c))
  <2>1. k.op # "leave"
    BY <1>10 DEF Step, StartReserve, StartCreate, CloseSave, TransferSave, ReassignNext
  <2> QED
    BY <1>2, <2>1
<1> QED
  BY <1>6, <1>7, <1>8, <1>9, <1>10

(* Whose ticket is without an owner now has lost its row. *)
Abandons == \E t \in Ticket : /\ ticket[t].owner # NoAgent /\ ticket'[t].owner = NoAgent
                              /\ agent'[ticket[t].owner].row # "gone"

LEMMA OneWritten ==
    ASSUME TypeOK, NEW t \in Ticket, NEW x, ticket' = [ticket EXCEPT ![t] = x],
           x.owner # NoAgent \/ ticket[t].owner = NoAgent
    PROVE  ~Abandons
BY DEF Abandons, TypeOK

LEMMA NotAbandoned ==
    ASSUME Serial, TypeOK, RegionInv, SerialInv, NowOwned, NEW c \in Call, Step(c)
    PROVE  ~Abandons
<1> DEFINE k == call[c]
<1>1. ASSUME ticket' = ticket PROVE ~Abandons
  BY <1>1 DEF Abandons
<1>2. ASSUME LeaveOK(k), k.op = "leave", AsTracked(k) PROVE ~Abandons
  BY <1>2 DEF Abandons, AsTracked, NowOwned
<1>3. CASE StartReserve(c)
  BY <1>1, <1>3 DEF StartReserve, Throw
<1>4. CASE StartCreate(c)
  <2>1. CASE Throw(c)
    BY <1>1, <2>1 DEF Throw
  <2>2. CASE ~Throw(c)
    <3>1. PICK t \in Ticket : ~Created(t) /\ ticket' = [ticket EXCEPT ![t] = ticket'[t]]
      BY <1>4, <2>2, SerialStartCreate
    <3> QED
      BY <3>1, OneWritten DEF RegionInv, UnbornUnowned
  <2> QED
    BY <2>1, <2>2
<1>5. CASE CloseSave(c)
  <2>1. CASE Throw(c)
    BY <1>1, <2>1 DEF Throw
  <2>2. CASE ~Throw(c)
    <3> DEFINE t == k.t
               x == [ticket[t] EXCEPT !.stat = "Closed"]
    <3>1. ticket' = [ticket EXCEPT ![t] = x] /\ t \in Ticket
      BY <1>5, <2>2, SerialCloseSave
    <3>2. x.owner = ticket[t].owner
      BY <3>1 DEF TypeOK, TicketRow
    <3> HIDE DEF t, x
    <3>3. CASE ticket[t].owner = NoAgent
      BY <3>1, <3>3, OneWritten
    <3>4. CASE x.owner # NoAgent
      BY <3>1, <3>4, OneWritten
    <3> QED
      BY <3>2, <3>3, <3>4
  <2> QED
    BY <2>1, <2>2
<1>6. CASE TransferSave(c)
  <2>1. CASE Throw(c)
    BY <1>1, <2>1 DEF Throw
  <2>2. CASE ~Throw(c)
    <3>1. /\ k.t \in Ticket /\ ticket' = [ticket EXCEPT ![k.t] = ticket'[k.t]]
          /\ ticket'[k.t].owner # NoAgent
      BY <1>6, <2>2, SerialTransferSave
    <3> QED
      BY <3>1, OneWritten
  <2> QED
    BY <2>1, <2>2
<1>7. CASE ReassignNext(c)
  <2>1. ASSUME NEW a \in Agent, NEW t \in Ticket, TakenFromBot(a, t) PROVE ~Abandons
    <3>1. ticket' = [ticket EXCEPT ![t] = ticket'[t]] /\ ticket'[t].owner # NoAgent
      BY <2>1, DeskAssumption DEF TakenFromBot
    <3> QED
      BY <3>1, OneWritten
  <2> QED
    BY <1>1, <1>7, <2>1, SerialReassignNext
<1>8. CASE LeaveNext(c) \/ LeaveSettle(c) \/ DeleteSweep(c)
  <2>1. UnbornUnowned'
    BY RegionNext DEF RegionInv, Next
  <2>2. ticket' = ticket \/ AsTracked(k)
    BY <1>8, <2>1, SerialLeaveNext, SerialLeaveSettle, SerialDeleteSweep DEF Throw
  <2>3. LeaveOK(k) /\ k.op = "leave"
    BY <1>8, CallKinds DEF LeaveNext, LeaveSettle, DeleteSweep
  <2> QED
    BY <1>1, <1>2, <2>2, <2>3
<1>9. CASE DeleteRemove(c)
  BY <1>1, <1>9, SerialDeleteRemove DEF Throw, Abandons
<1> QED
  BY <1>3, <1>4, <1>5, <1>6, <1>7, <1>8, <1>9 DEF Step

LEMMA OwnedNext ==
    ASSUME Serial, Bot \notin Managed, TypeOK, RegionInv, SerialInv, BotStands, NowOwned,
           [Next]_vars
    PROVE  BotStands' /\ NowOwned' /\ ~Abandons
<1>1. StrictMoves
  BY SerialNext DEF SerialStep
<1>2. ASSUME ticket' = ticket PROVE ~Abandons
  BY <1>2 DEF Abandons
<1>3. ASSUME NEW c \in Call, Step(c) PROVE BotStands' /\ NowOwned' /\ ~Abandons
  BY <1>1, <1>3, StandsStep, OwnedStep, NotAbandoned
<1>4. ASSUME NEW c \in Call, Arrive(c) PROVE BotStands' /\ NowOwned' /\ ~Abandons
  <2>1. BotStands' /\ ticket' = ticket
    BY <1>4, StandsArrive, ArriveReads
  <2>2. ASSUME NEW m, Go(c, m), m.op # "leave" PROVE NowOwned'
    BY <2>2, OwnedAlone
  <2>3. CASE \E r \in Requester, rg \in AskRegion : StartLookup(c, r, rg)
    <3>1. PICK r \in Requester, rg \in AskRegion : StartLookup(c, r, rg)
      BY <2>3
    <3>2. PICK m : Go(c, m) /\ m.op = "start"
      <4>1. CASE \E a \in LeastBusy(Candidates(rg), agent) :
                   Go(c, [op |-> "start", pc |-> "picked", by |-> r, region |-> rg,
                          owner |-> a, copy |-> agent[a]])
        BY <4>1
      <4>2. CASE Go(c, [op |-> "start", pc |-> "reserved", by |-> r, region |-> rg,
                        owner |-> BotIfActive', copy |-> NoRow])
        BY <4>2
      <4> QED
        BY <3>1, <4>1, <4>2 DEF StartLookup
    <3> QED
      BY <1>2, <2>1, <2>2, <3>2
  <2>4. CASE \E t \in Ticket : CloseLoad(c, t)
    <3>1. \E m : m.op = "close" /\ Go(c, m)
      BY <2>4 DEF CloseLoad
    <3> QED
      BY <1>2, <2>1, <2>2, <3>1
  <2>5. CASE \E t \in Ticket, a \in Staff : TransferLoad(c, t, a)
    <3>1. \E m : m.op = "transfer" /\ Go(c, m)
      BY <2>5 DEF TransferLoad
    <3> QED
      BY <1>2, <2>1, <2>2, <3>1
  <2>6. CASE ReassignBegin(c)
    <3>1. \E m : m.op = "reassign" /\ Go(c, m)
      BY <2>6 DEF ReassignBegin
    <3> QED
      BY <1>2, <2>1, <2>2, <3>1
  <2>7. ASSUME NEW a \in Managed, DeactivateBegin(c, a) \/ DeleteBegin(c, a) PROVE NowOwned'
    <3> DEFINE mine == TicketsOf(a, Live)
               base == [t \in mine |-> ticket[t]]
    <3>1. PICK m : /\ m.op = "leave" /\ m.now = base /\ Go(c, m)
      <4>1. \A row, delete : LeaveRecord(a, row, delete).op = "leave"
                             /\ LeaveRecord(a, row, delete).now = base
        BY DEF LeaveRecord
      <4> HIDE DEF base
      <4> QED
        BY <2>7, <4>1 DEF DeactivateBegin, DeleteBegin
    <3>2. \A t \in mine : base[t].owner = a
      BY DEF TicketsOf
    <3>3. DOMAIN base = mine /\ a # NoAgent
      BY DeskAssumption
    <3> HIDE DEF base, mine
    <3> QED
      BY <3>1, <3>2, <3>3, OwnedAlone
  <2> QED
    BY <1>2, <1>4, <2>1, <2>3, <2>4, <2>5, <2>6, <2>7 DEF Arrive
<1>5. ASSUME NEW c \in Call, Die(c) PROVE BotStands' /\ NowOwned' /\ ~Abandons
  <2>1. Go(c, Idle) /\ Idle.op = "idle" /\ agent' = agent /\ ticket' = ticket
    BY <1>5 DEF Die, Return, Go, Idle
  <2>2. \A d \in Call : call'[d] = Idle
    BY <2>1 DEF Serial, Go, TypeOK, CallsOK
  <2> QED
    BY <1>2, <2>1, <2>2, OwnedAlone DEF BotStands, Created
<1>6. CASE Settings \/ UNCHANGED vars
  <2>1. ticket' = ticket /\ call' = call
    BY <1>6, SerialSettings
  <2>2. BotStands'
    BY <1>6, StandsSettings DEF BotStands, Created, vars
  <2> QED
    BY <1>2, <2>1, <2>2 DEF NowOwned
<1> QED
  BY <1>3, <1>4, <1>5, <1>6 DEF Next

(* While one handler runs at a time and nobody manages the bot, a ticket loses its
   owner only when the owner's row is deleted: whoever is taken out of service, each
   of its tickets finds another agent or the bot. *)
THEOREM NeverAbandonedCorrect ==
    ASSUME Serial, Bot \notin Managed PROVE Spec => NeverAbandoned
<1>1. Init => BotStands /\ NowOwned
  BY DEF Init, BotStands, NowOwned, Created, Idle, NoRow, Staff
<1>2. TypeOK /\ RegionInv /\ SerialInv /\ BotStands /\ NowOwned /\ [Next]_vars
      => BotStands' /\ NowOwned'
  BY OwnedNext
<1>3. TypeOK /\ RegionInv /\ SerialInv /\ BotStands /\ NowOwned /\ [Next]_vars
      => [\A t \in Ticket : LET a == ticket[t].owner
             IN a # NoAgent /\ ticket'[t].owner = NoAgent => agent'[a].row = "gone"]_vars
  BY OwnedNext DEF Abandons
<1> QED
  BY <1>1, <1>2, <1>3, SerialCorrect, PTL DEF Spec, NeverAbandoned

=============================================================================

-------------------------- MODULE ReadReceiptsProofs --------------------------
(***************************************************************************)
(* What ReadReceipts promises of any number of users, pages and messages:  *)
(* the types, that a receipt never goes back, that the ticks of the        *)
(* author's page are true, and that no message leaves the unread count     *)
(* without a reading.                                                      *)
(***************************************************************************)
EXTENDS ReadReceipts, TLAPS, SequenceTheorems

----------------------------------------------------------------------------
(* Types.                                                                  *)

LEMMA IdleTyped == ASSUME ReceiptAssumption PROVE Idle \in CallRecord
  BY DEF Idle, CallRecord, ReceiptAssumption, Grade, Nothing, Msg

LEMMA PlainRequest ==
    ASSUME NEW op \in {"join", "leave", "room"}
    PROVE  [op |-> op, msg |-> 0] \in Request
  BY DEF Request

LEMMA AckRequest == ASSUME NEW m \in Msg PROVE [op |-> "ack", msg |-> m] \in Request
  BY DEF Request

LEMMA OneRequest ==
    ASSUME NEW m \in Msg, OneByOne PROVE [op |-> "one", msg |-> m] \in Request
  BY DEF Request

LEMMA ArrivalsTyped ==
    ASSUME NEW c \in Conn, NEW m \in Msg
    PROVE  Arrivals(c, m) \in Seq(Request)
<1> DEFINE ack == <<[op |-> "ack", msg |-> m]>>
           room == <<[op |-> "room", msg |-> 0]>>
<1>1. ack \in Seq(Request)
  BY AckRequest
<1>2. room \in Seq(Request) /\ <<>> \in Seq(Request)
  BY PlainRequest
<1>3. ack \o room \in Seq(Request) /\ ack \o <<>> \in Seq(Request)
  <2> HIDE DEF ack, room
  <2> QED BY <1>1, <1>2, ConcatProperties
<1> QED BY <1>1, <1>2, <1>3 DEF Arrivals

LEMMA InvokeTyped ==
    ASSUME TypeOK, NEW c \in Conn, NEW op, NEW m,
           [op |-> op, msg |-> m] \in Request, Invoke(c, op, m)
    PROVE  queue' \in [Conn -> Seq(Request)]
<1>1. queue[c] \in Seq(Request)
  BY DEF TypeOK
<1> DEFINE r == [op |-> op, msg |-> m]
<1>2. Append(queue[c], r) \in Seq(Request)
  <2> HIDE DEF r
  <2>1. r \in Request
    BY DEF r
  <2> QED BY <1>1, <2>1, AppendProperties
<1> QED BY <1>2 DEF Invoke, TypeOK

(* What a connection's next invocation is, and what waits behind it.       *)
LEMMA TakesTyped ==
    ASSUME TypeOK, NEW c \in Conn, NEW op, Takes(c, op)
    PROVE  /\ queue' \in [Conn -> Seq(Request)]
           /\ Head(queue[c]) \in Request
           /\ Head(queue[c]).op = op
<1>1. queue[c] \in Seq(Request) /\ queue[c] # <<>>
  BY DEF TypeOK, Takes
<1>2. Head(queue[c]) \in Request /\ Tail(queue[c]) \in Seq(Request)
  BY <1>1, HeadTailProperties
<1> QED BY <1>2 DEF Takes, TypeOK

LEMMA SummaryTyped == \A m : Summary(m) \in {Sent, Delivered, Read}
  BY DEF Summary

LEMMA WrittenTyped ==
    ASSUME TypeOK, ReceiptAssumption, NEW c \in Conn, NEW m \in Msg
    PROVE  Written(c, m) \in Grade
<1>1. UserOf[c] \in User /\ status[UserOf[c]][m] \in Grade /\ call[c].seen[m] \in Grade
  BY DEF TypeOK, ReceiptAssumption, CallRecord
<1> QED BY <1>1 DEF Written, Wanted, Grade

LEMMA TypeInit == ASSUME ReceiptAssumption PROVE Init => TypeOK
<1> SUFFICES ASSUME Init PROVE TypeOK
  OBVIOUS
<1>1. call \in [Conn -> CallRecord]
  BY IdleTyped DEF Init
<1>2. queue \in [Conn -> Seq(Request)]
  BY DEF Init
<1>3. page \in [User -> [asked : BOOLEAN, rows : [Msg -> Grade]]]
  BY DEF Init, Grade
<1> QED BY <1>1, <1>2, <1>3 DEF Init, TypeOK, Grade, ReceiptAssumption

LEMMA TypePages ==
    ASSUME TypeOK, ReceiptAssumption, NEW c \in Conn, Open(c) \/ Loaded(c) \/ Close(c)
    PROVE  TypeOK'
<1>1. CASE Open(c)
  <2>1. queue' \in [Conn -> Seq(Request)]
    BY <1>1, PlainRequest, InvokeTyped DEF Open
  <2> QED BY <1>1, <2>1 DEF Open, TypeOK, rows, shown
<1>2. CASE Loaded(c)
  <2>1. queue' \in [Conn -> Seq(Request)]
    BY <1>2, PlainRequest, InvokeTyped DEF Loaded
  <2> QED BY <1>2, <2>1 DEF Loaded, TypeOK, rows, shown
<1>3. CASE Close(c)
  <2>1. queue' \in [Conn -> Seq(Request)]
    BY <1>3, PlainRequest, InvokeTyped DEF Close
  <2> QED BY <1>3, <2>1 DEF Close, TypeOK, rows, shown
<1> QED BY <1>1, <1>2, <1>3

LEMMA TypeMessages ==
    ASSUME TypeOK, ReceiptAssumption, NEW m \in Msg, Broadcast(m) \/ Delete(m)
    PROVE  TypeOK'
<1>1. CASE Broadcast(m)
  <2>1. ASSUME NEW c \in Conn PROVE queue[c] \o Arrivals(c, m) \in Seq(Request)
    <3>1. queue[c] \in Seq(Request)
      BY DEF TypeOK
    <3> QED BY <3>1, ArrivalsTyped, ConcatProperties
  <2>2. queue' \in [Conn -> Seq(Request)]
    BY <1>1, <2>1 DEF Broadcast
  <2>3. view' \in [Msg -> Grade]
    BY <1>1 DEF Broadcast, TypeOK, Grade
  <2>4. losses' \in 0..MaxLosses
    BY <1>1 DEF Broadcast, TypeOK, ReceiptAssumption
  <2> QED BY <1>1, <2>2, <2>3, <2>4 DEF Broadcast, TypeOK, pages, Saved
<1>2. CASE Delete(m)
  BY <1>2 DEF Delete, TypeOK, pages, shown
<1> QED BY <1>1, <1>2

LEMMA TypeReconnect ==
    ASSUME TypeOK, ReceiptAssumption, NEW c \in Conn, NEW d \in Conn, Reconnect(c, d)
    PROVE  TypeOK'
<1>1. losses' \in 0..MaxLosses
  BY DEF Reconnect, TypeOK, ReceiptAssumption
<1>2. opening' \in [Conn -> {"no", "join", "load"}]
  BY DEF Reconnect, TypeOK
<1>3. queue' \in [Conn -> Seq(Request)]
  BY DEF Reconnect, TypeOK
<1>4. call' \in [Conn -> CallRecord]
  BY IdleTyped DEF Reconnect, TypeOK
<1> QED BY <1>1, <1>2, <1>3, <1>4 DEF Reconnect, TypeOK, rows

LEMMA TypeMarkOne ==
    ASSUME TypeOK, ReceiptAssumption, NEW c \in Conn, NEW op \in {"ack", "one"},
           MarkOne(c, op)
    PROVE  TypeOK'
<1> DEFINE u == UserOf[c]
           m == Head(queue[c]).msg
           k == [op |-> op, pc |-> "save", ids |-> {m}, left |-> {},
                 seen |-> [Idle.seen EXCEPT ![m] = status[u][m]], mark |-> last[u], top |-> m]
<1>1. queue' \in [Conn -> Seq(Request)] /\ Head(queue[c]) \in Request /\ Head(queue[c]).op = op
  BY TakesTyped DEF MarkOne
<1>2. m \in Msg
  BY <1>1 DEF Request
<1>3. u \in User /\ status[u] \in [Msg -> Grade] /\ last[u] \in 0..MaxMsg
  BY DEF TypeOK, ReceiptAssumption
<1>4. Idle.seen \in [Msg -> Grade]
  BY DEF Idle, Grade
<1>5. k \in CallRecord
  <2>1. [Idle.seen EXCEPT ![m] = status[u][m]] \in [Msg -> Grade]
    BY <1>2, <1>3, <1>4
  <2>2. m \in 0..MaxMsg
    BY <1>2 DEF Msg, ReceiptAssumption
  <2> HIDE DEF m, u
  <2> QED BY <1>2, <1>3, <2>1, <2>2 DEF CallRecord
<1>6. call' \in [Conn -> CallRecord]
  BY <1>5 DEF MarkOne, TypeOK
<1> QED BY <1>1, <1>6 DEF MarkOne, TypeOK, rows, pages, shown

LEMMA TypeMarkRoom ==
    ASSUME TypeOK, ReceiptAssumption, NEW c \in Conn, MarkRoomAsRead(c)
    PROVE  TypeOK'
<1>1. queue' \in [Conn -> Seq(Request)]
  BY TakesTyped DEF MarkRoomAsRead
<1>2. call' \in [Conn -> CallRecord]
  <2>1. CASE UNCHANGED call
    BY <2>1 DEF TypeOK
  <2>2. ASSUME NEW t \in Unread(UserOf[c]),
               call' = [call EXCEPT ![c] =
                 [op |-> "room", pc |-> "look", ids |-> Unread(UserOf[c]),
                  left |-> Unread(UserOf[c]), seen |-> Idle.seen,
                  mark |-> last[UserOf[c]], top |-> t]]
        PROVE  call' \in [Conn -> CallRecord]
    <3>1. Unread(UserOf[c]) \in SUBSET Msg
      BY DEF Unread, Incoming, Saved
    <3>2. t \in 0..MaxMsg
      BY <3>1 DEF Msg, ReceiptAssumption
    <3>3. last[UserOf[c]] \in 0..MaxMsg
      BY DEF TypeOK, ReceiptAssumption
    <3>4. Idle.seen \in [Msg -> Grade]
      BY DEF Idle, Grade
    <3>5. [op |-> "room", pc |-> "look", ids |-> Unread(UserOf[c]),
           left |-> Unread(UserOf[c]), seen |-> Idle.seen,
           mark |-> last[UserOf[c]], top |-> t] \in CallRecord
      BY <3>1, <3>2, <3>3, <3>4 DEF CallRecord
    <3> QED BY <2>2, <3>5 DEF TypeOK
  <2> QED BY <2>1, <2>2 DEF MarkRoomAsRead
<1> QED BY <1>1, <1>2 DEF MarkRoomAsRead, TypeOK, rows, pages, shown

LEMMA TypeLook ==
    ASSUME TypeOK, ReceiptAssumption, NEW c \in Conn, Look(c)
    PROVE  TypeOK'
<1>1. PICK m \in Lowest(call[c].left) :
        call' = [call EXCEPT ![c] = [call[c] EXCEPT
                   !.left = call[c].left \ {m},
                   !.seen = [call[c].seen EXCEPT ![m] = status[UserOf[c]][m]],
                   !.pc   = IF call[c].left \ {m} = {} THEN "save" ELSE "look"]]
  BY DEF Look
<1>2. call[c] \in CallRecord
  BY DEF TypeOK
<1>3. m \in Msg
  BY <1>2 DEF Lowest, CallRecord
<1>4. status[UserOf[c]][m] \in Grade
  BY <1>3 DEF TypeOK, ReceiptAssumption
<1>5. call' \in [Conn -> CallRecord]
  BY <1>1, <1>2, <1>3, <1>4 DEF TypeOK, CallRecord
<1> QED BY <1>5 DEF Look, TypeOK, rows, pages, shown

LEMMA TypeSave ==
    ASSUME TypeOK, ReceiptAssumption, NEW c \in Conn, Save(c) \/ Clash(c)
    PROVE  TypeOK'
<1> DEFINE u == UserOf[c]
<1>1. call[c] \in CallRecord /\ u \in User
  BY DEF TypeOK, ReceiptAssumption
<1>2. CASE Save(c)
  <2>1. status' \in [User -> [Msg -> Grade]]
    <3>1. [m \in Msg |-> Written(c, m)] \in [Msg -> Grade]
      BY WrittenTyped
    <3> QED BY <1>2, <3>1 DEF Save, TypeOK
  <2>2. last' \in [User -> 0..MaxMsg]
    <3>1. last[u] \in 0..MaxMsg
      BY <1>1 DEF TypeOK
    <3>2. MarkAfter(call[c], last[u]) \in 0..MaxMsg
      BY <1>1, <3>1 DEF MarkAfter, CallRecord
    <3> QED BY <1>2, <3>2 DEF Save, TypeOK
  <2>3. call' \in [Conn -> CallRecord]
    <3>1. ToTell(c) \in SUBSET Msg
      BY <1>1 DEF ToTell, CallRecord
    <3>2. [call[c] EXCEPT !.pc = "tell", !.left = ToTell(c)] \in CallRecord
      BY <1>1, <3>1 DEF CallRecord
    <3> QED BY <1>2, <3>2, IdleTyped DEF Save, TypeOK
  <2> QED BY <1>2, <2>1, <2>2, <2>3 DEF Save, TypeOK, rows, pages, shown
<1>3. CASE Clash(c)
  <2>1. call' \in [Conn -> CallRecord]
    BY <1>3, IdleTyped DEF Clash, TypeOK
  <2> QED BY <1>3, <2>1 DEF Clash, TypeOK, rows, pages, shown
<1> QED BY <1>2, <1>3

LEMMA TypeTell ==
    ASSUME TypeOK, ReceiptAssumption, NEW c \in Conn, Tell(c)
    PROVE  TypeOK'
<1>1. PICK m \in Lowest(call[c].left) :
        /\ \/ view' = [view EXCEPT ![m] = Ticks(call[c].op, view[m])] /\ UNCHANGED losses
           \/ losses < MaxLosses /\ losses' = losses + 1 /\ UNCHANGED view
        /\ call' = [call EXCEPT ![c] = IF call[c].left \ {m} = {} THEN Idle
                                       ELSE [call[c] EXCEPT !.left = call[c].left \ {m}]]
  BY DEF Tell
<1>2. call[c] \in CallRecord
  BY DEF TypeOK
<1>3. m \in Msg
  BY <1>2 DEF Lowest, CallRecord
<1>4. call' \in [Conn -> CallRecord]
  <2>1. [call[c] EXCEPT !.left = call[c].left \ {m}] \in CallRecord
    BY <1>2 DEF CallRecord
  <2> QED BY <1>1, <2>1, IdleTyped DEF TypeOK
<1>5. view' \in [Msg -> Grade]
  <2>1. Ticks(call[c].op, view[m]) \in Grade
    BY <1>3 DEF TypeOK, Ticks, Grade
  <2> QED BY <1>1, <1>3, <2>1 DEF TypeOK
<1>6. losses' \in 0..MaxLosses
  BY <1>1 DEF TypeOK, ReceiptAssumption
<1> QED BY <1>4, <1>5, <1>6 DEF Tell, TypeOK, rows, pages

LEMMA TypeServe ==
    ASSUME TypeOK, ReceiptAssumption, NEW c \in Conn, Serve(c)
    PROVE  TypeOK'
<1>1. CASE JoinRoom(c)
  <2>1. queue' \in [Conn -> Seq(Request)]
    BY <1>1, TakesTyped DEF JoinRoom
  <2> QED BY <1>1, <2>1 DEF JoinRoom, TypeOK, rows, shown
<1>2. CASE LeaveRoom(c)
  <2>1. queue' \in [Conn -> Seq(Request)]
    BY <1>2, TakesTyped DEF LeaveRoom
  <2> QED BY <1>2, <2>1 DEF LeaveRoom, TypeOK, rows, shown
<1>3. CASE AcknowledgeDelivered(c) \/ MarkMessageAsRead(c)
  BY <1>3, TypeMarkOne DEF AcknowledgeDelivered, MarkMessageAsRead
<1>4. CASE MarkRoomAsRead(c)
  BY <1>4, TypeMarkRoom
<1>5. CASE Look(c)
  BY <1>5, TypeLook
<1>6. CASE Save(c) \/ Clash(c)
  BY <1>6, TypeSave
<1>7. CASE Tell(c)
  BY <1>7, TypeTell
<1> QED BY <1>1, <1>2, <1>3, <1>4, <1>5, <1>6, <1>7 DEF Serve

LEMMA TypeLoad ==
    ASSUME TypeOK, ReceiptAssumption, NEW u \in User, LoadAsk(u) \/ LoadApply(u)
    PROVE  TypeOK'
<1>1. CASE LoadAsk(u)
  <2> DEFINE answer == [m \in Msg |-> IF author[m] = u /\ m \notin deleted THEN Summary(m)
                                      ELSE Nothing]
  <2>1. answer \in [Msg -> Grade]
    BY SummaryTyped DEF Grade
  <2>2. page' = [page EXCEPT ![u] = [asked |-> TRUE, rows |-> answer]]
    BY <1>1 DEF LoadAsk
  <2>3. page' \in [User -> [asked : BOOLEAN, rows : [Msg -> Grade]]]
    <3> HIDE DEF answer
    <3> QED BY <2>1, <2>2 DEF TypeOK
  <2> QED BY <1>1, <2>3 DEF LoadAsk, TypeOK, rows, pages
<1>2. CASE LoadApply(u)
  <2>1. view' \in [Msg -> Grade]
    BY <1>2 DEF LoadApply, TypeOK
  <2>2. page' \in [User -> [asked : BOOLEAN, rows : [Msg -> Grade]]]
    BY <1>2 DEF LoadApply, TypeOK, Grade
  <2> QED BY <1>2, <2>1, <2>2 DEF LoadApply, TypeOK, rows, pages
<1> QED BY <1>1, <1>2

LEMMA TypeNext == ASSUME TypeOK, ReceiptAssumption, [Next]_vars PROVE TypeOK'
<1>1. ASSUME NEW a \in Author, Post(a) PROVE TypeOK'
  BY <1>1 DEF Post, TypeOK, ReceiptAssumption, Saved, pages, shown
<1>2. ASSUME NEW c \in Conn, NEW m \in Msg, AskOne(c, m) PROVE TypeOK'
  <2>1. queue' \in [Conn -> Seq(Request)]
    BY <1>2, OneRequest, InvokeTyped DEF AskOne
  <2> QED BY <1>2, <2>1 DEF AskOne, TypeOK, rows, pages, shown
<1>3. CASE UNCHANGED vars
  BY <1>3 DEF vars, TypeOK, pages
<1> QED BY <1>1, <1>2, <1>3, TypeMessages, TypePages, TypeServe, TypeReconnect, TypeLoad
        DEF Next

(* Every variable keeps its type.                                          *)
THEOREM TypeCorrect == Spec => []TypeOK
<1>1. Init => TypeOK
  BY TypeInit, ReceiptAssumption
<1>2. TypeOK /\ [Next]_vars => TypeOK'
  BY TypeNext, ReceiptAssumption
<1> QED BY <1>1, <1>2, PTL DEF Spec

----------------------------------------------------------------------------
(* Receipts.  A row is only ever inserted or raised: no row says Sent, what *)
(* a call has seen of a row is no more than the row says when it saves, and *)
(* a row it has not seen cannot be there when the save succeeds.  What is   *)
(* told, and what a page has loaded, was saved before.                      *)

NoSentRow ==
    /\ \A u \in User, m \in Msg : status[u][m] # Sent
    /\ \A c \in Conn, m \in Msg : call[c].seen[m] # Sent

SeenHolds ==
    \A c \in Conn : call[c].pc \in {"look", "save"} =>
        /\ call[c].ids \subseteq Incoming(UserOf[c])
        /\ \A m \in call[c].ids : call[c].seen[m] <= status[UserOf[c]][m]

Told(op) == IF op = "ack" THEN Delivered ELSE Read

ToldHolds ==
    \A c \in Conn : call[c].pc = "tell" =>
        \A m \in call[c].left :
            /\ author[m] \in User /\ author[m] # UserOf[c]
            /\ status[UserOf[c]][m] >= Told(call[c].op)

Backed(m, grade) == \E u \in User : u # author[m] /\ status[u][m] >= grade

PageHolds ==
    \A u \in User : \A m \in Msg :
        page[u].rows[m] >= Delivered => author[m] # Nobody /\ Backed(m, page[u].rows[m])

ReceiptInv ==
    /\ NoSentRow /\ SeenHolds /\ ToldHolds /\ PageHolds
    /\ ReceiptsAreTrue
    /\ \A m \in Msg : view[m] >= Delivered => author[m] # Nobody

LEMMA ReceiptInit == ASSUME ReceiptAssumption PROVE Init => ReceiptInv
  BY DEF Init, ReceiptInv, NoSentRow, SeenHolds, ToldHolds, PageHolds, ReceiptsAreTrue, Idle,
         Nothing, Sent, Delivered, Read

(* What a save does to the rows of its user.                               *)
LEMMA SaveRaises ==
    ASSUME TypeOK, ReceiptAssumption, ReceiptInv, NEW c \in Conn, Save(c), NEW m \in Msg
    PROVE  /\ Written(c, m) \in {Nothing, Delivered, Read}
           /\ Written(c, m) >= status[UserOf[c]][m]
           /\ m \in call[c].ids => Written(c, m) >= Told(call[c].op)
<1> DEFINE u == UserOf[c]
<1>1. u \in User /\ status[u][m] \in Grade /\ call[c].seen[m] \in Grade
  BY DEF TypeOK, ReceiptAssumption, CallRecord
<1>2. status[u][m] # Sent /\ call[c].seen[m] # Sent
  BY <1>1 DEF ReceiptInv, NoSentRow
<1>3. m \in call[c].ids => call[c].seen[m] <= status[u][m]
  BY DEF ReceiptInv, SeenHolds, Save
<1>4. m \in call[c].ids /\ call[c].seen[m] = Nothing => status[u][m] = Nothing
  BY DEF Save, Clashes
<1> QED BY <1>1, <1>2, <1>3, <1>4
        DEF Written, Wanted, Told, Grade, Nothing, Sent, Delivered, Read

LEMMA SavedRows ==
    ASSUME TypeOK, ReceiptAssumption, NEW c \in Conn, Save(c), NEW u \in User, NEW m \in Msg
    PROVE  status'[u][m] = IF u = UserOf[c] THEN Written(c, m) ELSE status[u][m]
  BY DEF Save, TypeOK, ReceiptAssumption

(* Only a save writes a row.                                               *)
LEMMA OnlySavesWrite ==
    ASSUME [Next]_vars PROVE UNCHANGED status \/ \E c \in Conn : Save(c)
  BY DEF Next, vars, Post, Broadcast, Delete, Open, Loaded, Close, Serve, JoinRoom, LeaveRoom,
         AcknowledgeDelivered, MarkMessageAsRead, MarkOne, MarkRoomAsRead, Look, Clash, Tell,
         AskOne, Reconnect, LoadAsk, LoadApply

LEMMA RowsRise ==
    ASSUME TypeOK, ReceiptAssumption, ReceiptInv, [Next]_vars, NEW u \in User, NEW m \in Msg
    PROVE  status'[u][m] >= status[u][m] /\ status'[u][m] # Sent
<1>1. status[u][m] \in Grade /\ status[u][m] # Sent
  BY DEF TypeOK, ReceiptInv, NoSentRow
<1>2. CASE UNCHANGED status
  BY <1>1, <1>2 DEF Grade, Nothing, Sent, Delivered, Read
<1>3. ASSUME NEW c \in Conn, Save(c)
      PROVE  status'[u][m] >= status[u][m] /\ status'[u][m] # Sent
  BY <1>1, <1>3, SaveRaises, SavedRows DEF Grade, Nothing, Sent, Delivered, Read
<1> QED BY <1>2, <1>3, OnlySavesWrite

(* A message keeps its author, and a deletion is final.                    *)
LEMMA AuthorsStay ==
    ASSUME TypeOK, [Next]_vars
    PROVE  /\ \A m \in Msg : author[m] # Nobody => author'[m] = author[m]
           /\ deleted \subseteq deleted'
<1>1. ASSUME NEW a \in Author, Post(a)
      PROVE  /\ \A m \in Msg : author[m] # Nobody => author'[m] = author[m]
             /\ deleted \subseteq deleted'
  BY <1>1 DEF Post, TypeOK, Saved
<1>2. (\E m \in Msg : Delete(m)) => UNCHANGED author /\ deleted \subseteq deleted'
  BY DEF Delete
<1>3. UNCHANGED <<author, deleted>> \/ (\E m \in Msg : Delete(m)) \/ \E a \in Author : Post(a)
  BY DEF Next, vars, Broadcast, Open, Loaded, Close, Serve, JoinRoom, LeaveRoom,
         AcknowledgeDelivered, MarkMessageAsRead, MarkOne, MarkRoomAsRead, Look, Save, Clash,
         Tell, AskOne, Reconnect, LoadAsk, LoadApply, rows
<1> QED BY <1>1, <1>2, <1>3

(* What was backed by a row stays backed.                                  *)
LEMMA BackingStays ==
    ASSUME TypeOK, TypeOK', ReceiptAssumption, ReceiptInv, [Next]_vars,
           NEW m \in Msg, NEW grade \in Grade, author[m] # Nobody, Backed(m, grade)
    PROVE  Backed(m, grade)'
<1>1. PICK u \in User : u # author[m] /\ status[u][m] >= grade
  BY DEF Backed
<1>2. status'[u][m] >= status[u][m] /\ author'[m] = author[m]
  BY RowsRise, AuthorsStay
<1>3. status[u][m] \in Grade /\ status'[u][m] \in Grade
  BY DEF TypeOK
<1>4. status'[u][m] >= grade
  BY <1>1, <1>2, <1>3 DEF Grade, Nothing, Sent, Delivered, Read
<1> QED BY <1>1, <1>2, <1>4 DEF Backed

(* What a step may do to a call of c.                                      *)
CallMoves(c) ==
    \/ call'[c] = call[c]
    \/ call'[c] = Idle
    \/ AcknowledgeDelivered(c) \/ MarkMessageAsRead(c) \/ MarkRoomAsRead(c)
    \/ Look(c) \/ Save(c) \/ Tell(c)

LEMMA CallsMove == ASSUME TypeOK, [Next]_vars, NEW c \in Conn PROVE CallMoves(c)
<1>1. ASSUME NEW d \in Conn, Serve(d) PROVE CallMoves(c)
  <2>1. CASE d = c
    BY <1>1, <2>1 DEF Serve, JoinRoom, LeaveRoom, Clash, CallMoves, shown, TypeOK
  <2>2. CASE d # c
    BY <1>1, <2>2 DEF Serve, JoinRoom, LeaveRoom, AcknowledgeDelivered, MarkMessageAsRead,
       MarkOne, MarkRoomAsRead, Look, Save, Clash, Tell, CallMoves, TypeOK
  <2> QED BY <2>1, <2>2
<1>2. ASSUME NEW d \in Conn, NEW e \in Conn, Reconnect(d, e) PROVE CallMoves(c)
  <2>1. call' = call \/ call' = [call EXCEPT ![d] = Idle]
    BY <1>2 DEF Reconnect
  <2> QED BY <2>1 DEF CallMoves, TypeOK
<1>3. UNCHANGED call \/ (\E d \in Conn : Serve(d)) \/ \E d, e \in Conn : Reconnect(d, e)
  BY DEF Next, vars, Post, Broadcast, Delete, Open, Loaded, Close, AskOne, LoadAsk, LoadApply
<1> QED BY <1>1, <1>2, <1>3 DEF CallMoves

(* The calls after a step, seen from each conjunct of the invariant.       *)
LEMMA MarkOneMakes ==
    ASSUME TypeOK, ReceiptAssumption, ReceiptInv, NEW c \in Conn, NEW op \in {"ack", "one"},
           MarkOne(c, op)
    PROVE  \/ call'[c] = call[c]
           \/ \E m \in Incoming(UserOf[c]) :
                /\ call'[c].pc = "save" /\ call'[c].op = op /\ call'[c].ids = {m}
                /\ \A n \in Msg : call'[c].seen[n] =
                     IF n = m THEN status[UserOf[c]][m] ELSE Nothing
<1> DEFINE u == UserOf[c]
           m == Head(queue[c]).msg
           seen == [Idle.seen EXCEPT ![m] = status[u][m]]
           k == [op |-> op, pc |-> "save", ids |-> {m}, left |-> {},
                 seen |-> seen, mark |-> last[u], top |-> m]
<1>1. CASE m \notin Incoming(u)
  BY <1>1 DEF MarkOne
<1>2. CASE m \in Incoming(u)
  <2>1. call'[c] = k
    BY <1>2 DEF MarkOne, TypeOK
  <2>2. \A n \in Msg : seen[n] = IF n = m THEN status[u][m] ELSE Nothing
    BY DEF Idle
  <2>3. call'[c].pc = "save" /\ call'[c].op = op /\ call'[c].ids = {m} /\ call'[c].seen = seen
    <3> HIDE DEF m, u, seen
    <3> QED BY <2>1
  <2> HIDE DEF m, seen
  <2> QED BY <1>2, <2>2, <2>3
<1> QED BY <1>1, <1>2

LEMMA MarkRoomMakes ==
    ASSUME TypeOK, ReceiptAssumption, NEW c \in Conn, MarkRoomAsRead(c)
    PROVE  \/ call'[c] = call[c]
           \/ /\ call'[c].pc = "look" /\ call'[c].op = "room"
              /\ call'[c].ids = Unread(UserOf[c])
              /\ call'[c].top \in Unread(UserOf[c])
              /\ \A m \in Unread(UserOf[c]) : m <= call'[c].top
              /\ \A m \in Msg : call'[c].seen[m] = Nothing
              /\ call'[c].mark = last[UserOf[c]]
  BY DEF MarkRoomAsRead, Idle, TypeOK

LEMMA LookMakes ==
    ASSUME TypeOK, ReceiptAssumption, NEW c \in Conn, Look(c)
    PROVE  /\ call[c].pc = "look" /\ call'[c].pc \in {"look", "save"}
           /\ call'[c].ids = call[c].ids /\ call'[c].op = call[c].op
           /\ call'[c].top = call[c].top /\ call'[c].mark = call[c].mark
           /\ \E m \in Msg : \A n \in Msg : call'[c].seen[n] =
                IF n = m THEN status[UserOf[c]][m] ELSE call[c].seen[n]
<1>1. PICK m \in Lowest(call[c].left) :
        call' = [call EXCEPT ![c] = [call[c] EXCEPT
                   !.left = call[c].left \ {m},
                   !.seen = [call[c].seen EXCEPT ![m] = status[UserOf[c]][m]],
                   !.pc   = IF call[c].left \ {m} = {} THEN "save" ELSE "look"]]
  BY DEF Look
<1>2. call[c] \in CallRecord
  BY DEF TypeOK
<1>3. m \in Msg
  BY <1>2 DEF Lowest, CallRecord
<1>4. call'[c] = [call[c] EXCEPT
                   !.left = call[c].left \ {m},
                   !.seen = [call[c].seen EXCEPT ![m] = status[UserOf[c]][m]],
                   !.pc   = IF call[c].left \ {m} = {} THEN "save" ELSE "look"]
  BY <1>1 DEF TypeOK
<1>5. call'[c].seen = [call[c].seen EXCEPT ![m] = status[UserOf[c]][m]]
  BY <1>2, <1>4 DEF CallRecord
<1>6. \A n \in Msg : call'[c].seen[n] =
        IF n = m THEN status[UserOf[c]][m] ELSE call[c].seen[n]
  BY <1>2, <1>5 DEF CallRecord
<1>7. /\ call'[c].pc \in {"look", "save"}
      /\ call'[c].ids = call[c].ids /\ call'[c].op = call[c].op
      /\ call'[c].top = call[c].top /\ call'[c].mark = call[c].mark
  BY <1>2, <1>4 DEF CallRecord
<1> QED BY <1>3, <1>6, <1>7 DEF Look

LEMMA SaveMakes ==
    ASSUME TypeOK, NEW c \in Conn, Save(c)
    PROVE  \/ call'[c] = Idle
           \/ /\ call'[c].pc = "tell" /\ call'[c].op = call[c].op
              /\ call'[c].left = ToTell(c) /\ call'[c].ids = call[c].ids
              /\ call'[c].seen = call[c].seen
  BY DEF Save, TypeOK, CallRecord

LEMMA TellMakes ==
    ASSUME TypeOK, NEW c \in Conn, Tell(c)
    PROVE  \E m \in call[c].left :
             /\ \/ view' = [view EXCEPT ![m] = Ticks(call[c].op, view[m])]
                \/ UNCHANGED view
             /\ \/ call'[c] = Idle
                \/ /\ call'[c].pc = "tell" /\ call'[c].op = call[c].op
                   /\ call'[c].left = call[c].left \ {m}
                   /\ call'[c].ids = call[c].ids /\ call'[c].seen = call[c].seen
<1>1. PICK m \in Lowest(call[c].left) :
        /\ \/ view' = [view EXCEPT ![m] = Ticks(call[c].op, view[m])] /\ UNCHANGED losses
           \/ losses < MaxLosses /\ losses' = losses + 1 /\ UNCHANGED view
        /\ call' = [call EXCEPT ![c] = IF call[c].left \ {m} = {} THEN Idle
                                       ELSE [call[c] EXCEPT !.left = call[c].left \ {m}]]
  BY DEF Tell
<1>2. m \in call[c].left
  BY DEF Lowest
<1>3. call[c].pc = "tell" /\ call[c] \in CallRecord
  BY DEF Tell, TypeOK
<1>4. \/ call'[c] = Idle
      \/ /\ call'[c].pc = "tell" /\ call'[c].op = call[c].op
         /\ call'[c].left = call[c].left \ {m}
         /\ call'[c].ids = call[c].ids /\ call'[c].seen = call[c].seen
  BY <1>1, <1>3 DEF TypeOK, CallRecord
<1> QED BY <1>1, <1>2, <1>4

LEMMA NoSentStays ==
    ASSUME TypeOK, ReceiptAssumption, ReceiptInv, [Next]_vars
    PROVE  NoSentRow'
<1>1. ASSUME NEW u \in User, NEW m \in Msg PROVE status'[u][m] # Sent
  BY <1>1, RowsRise
<1>2. ASSUME NEW c \in Conn, NEW m \in Msg PROVE call'[c].seen[m] # Sent
  <2>1. call[c].seen[m] # Sent /\ UserOf[c] \in User /\ \A n \in Msg : status[UserOf[c]][n] # Sent
    BY DEF ReceiptInv, NoSentRow, ReceiptAssumption
  <2>2. Idle.seen[m] # Sent
    BY DEF Idle, Nothing, Sent
  <2>3. CASE AcknowledgeDelivered(c) \/ MarkMessageAsRead(c)
    <3>1. PICK op \in {"ack", "one"} : MarkOne(c, op)
      BY <2>3 DEF AcknowledgeDelivered, MarkMessageAsRead
    <3> QED BY <2>1, <3>1, MarkOneMakes DEF Incoming, Saved, Nothing, Sent
  <2>4. CASE MarkRoomAsRead(c)
    BY <2>1, <2>4, MarkRoomMakes DEF Nothing, Sent
  <2>5. CASE Look(c)
    BY <2>1, <2>5, LookMakes
  <2>6. CASE Save(c)
    BY <2>1, <2>2, <2>6, SaveMakes
  <2>7. CASE Tell(c)
    BY <2>1, <2>2, <2>7, TellMakes
  <2> QED BY <2>1, <2>2, <2>3, <2>4, <2>5, <2>6, <2>7, CallsMove DEF CallMoves
<1> QED BY <1>1, <1>2 DEF NoSentRow

LEMMA IncomingStays ==
    ASSUME TypeOK, ReceiptAssumption, [Next]_vars, NEW u \in User
    PROVE  Incoming(u) \subseteq Incoming(u)'
  BY AuthorsStay DEF Incoming, Saved

LEMMA SeenStays ==
    ASSUME TypeOK, TypeOK', ReceiptAssumption, ReceiptInv, [Next]_vars
    PROVE  SeenHolds'
<1> SUFFICES ASSUME NEW c \in Conn, call'[c].pc \in {"look", "save"}
             PROVE  /\ call'[c].ids \subseteq Incoming(UserOf[c])'
                    /\ \A m \in call'[c].ids : call'[c].seen[m] <= status'[UserOf[c]][m]
  BY DEF SeenHolds
<1> DEFINE u == UserOf[c]
<1>1. u \in User /\ Incoming(u) \subseteq Incoming(u)' /\ Incoming(u) \subseteq Msg
  BY IncomingStays DEF ReceiptAssumption, Incoming, Saved
<1>2. \A m \in Msg : /\ status'[u][m] >= status[u][m]
                     /\ status[u][m] \in Grade /\ status'[u][m] \in Grade
                     /\ call[c].seen[m] \in Grade
  BY <1>1, RowsRise DEF TypeOK, CallRecord
<1>3. \A m \in Msg : Nothing <= status'[u][m] /\ status[u][m] <= status'[u][m]
  BY <1>2 DEF Grade, Nothing, Sent, Delivered, Read
<1>4. ASSUME call[c].pc \in {"look", "save"}
      PROVE  /\ call[c].ids \subseteq Incoming(u)'
             /\ \A m \in call[c].ids : call[c].seen[m] <= status'[u][m]
  <2>1. /\ call[c].ids \subseteq Incoming(u)
        /\ \A m \in call[c].ids : call[c].seen[m] <= status[u][m]
    BY <1>4 DEF ReceiptInv, SeenHolds
  <2> QED BY <1>1, <1>2, <2>1 DEF Grade, Nothing, Sent, Delivered, Read
<1>5. CASE call'[c] = call[c]
  BY <1>4, <1>5
<1>6. CASE call'[c] = Idle
  BY <1>6 DEF Idle
<1>7. CASE AcknowledgeDelivered(c) \/ MarkMessageAsRead(c)
  <2>1. PICK op \in {"ack", "one"} : MarkOne(c, op)
    BY <1>7 DEF AcknowledgeDelivered, MarkMessageAsRead
  <2> QED BY <1>1, <1>3, <1>5, <2>1, MarkOneMakes
<1>8. CASE MarkRoomAsRead(c)
  BY <1>1, <1>3, <1>5, <1>8, MarkRoomMakes DEF Unread
<1>9. CASE Look(c)
  <2>1. call[c].pc = "look" /\ call'[c].ids = call[c].ids
    BY <1>9, LookMakes
  <2>2. PICK m \in Msg : \A n \in Msg : call'[c].seen[n] =
                IF n = m THEN status[u][m] ELSE call[c].seen[n]
    BY <1>9, LookMakes
  <2>3. call[c].ids \subseteq Msg
    BY DEF TypeOK, CallRecord
  <2> QED BY <1>3, <1>4, <2>1, <2>2, <2>3
<1>10. CASE Save(c)
  BY <1>6, <1>10, SaveMakes
<1>11. CASE Tell(c)
  BY <1>6, <1>11, TellMakes
<1> QED BY <1>5, <1>6, <1>7, <1>8, <1>9, <1>10, <1>11, CallsMove DEF CallMoves

LEMMA ToldStays ==
    ASSUME TypeOK, TypeOK', ReceiptAssumption, ReceiptInv, [Next]_vars
    PROVE  ToldHolds'
<1> SUFFICES ASSUME NEW c \in Conn, call'[c].pc = "tell", NEW m \in call'[c].left
             PROVE  /\ author'[m] \in User /\ author'[m] # UserOf[c]
                    /\ status'[UserOf[c]][m] >= Told(call'[c].op)
  BY DEF ToldHolds
<1> DEFINE u == UserOf[c]
<1>1. m \in Msg /\ u \in User
  BY DEF TypeOK, CallRecord, ReceiptAssumption
<1>2. /\ status'[u][m] >= status[u][m]
      /\ status[u][m] \in Grade /\ status'[u][m] \in Grade
  BY <1>1, RowsRise DEF TypeOK
<1>3. author[m] \in User => author'[m] = author[m]
  BY <1>1, AuthorsStay DEF ReceiptAssumption
<1>4. ASSUME call[c].pc = "tell", m \in call[c].left, call'[c].op = call[c].op
      PROVE  /\ author'[m] \in User /\ author'[m] # u
             /\ status'[u][m] >= Told(call'[c].op)
  <2>1. /\ author[m] \in User /\ author[m] # u
        /\ status[u][m] >= Told(call[c].op)
    BY <1>4 DEF ReceiptInv, ToldHolds
  <2> QED BY <1>2, <1>3, <1>4, <2>1 DEF Told, Grade, Nothing, Sent, Delivered, Read
<1>5. CASE call'[c] = call[c]
  BY <1>4, <1>5
<1>6. CASE call'[c] = Idle
  BY <1>6 DEF Idle
<1>7. CASE AcknowledgeDelivered(c) \/ MarkMessageAsRead(c)
  <2>1. PICK op \in {"ack", "one"} : MarkOne(c, op)
    BY <1>7 DEF AcknowledgeDelivered, MarkMessageAsRead
  <2> QED BY <1>5, <2>1, MarkOneMakes
<1>8. CASE MarkRoomAsRead(c)
  BY <1>5, <1>8, MarkRoomMakes
<1>9. CASE Look(c)
  BY <1>9, LookMakes
<1>10. CASE Save(c)
  <2>1. CASE call'[c] = Idle
    BY <1>6, <2>1
  <2>2. CASE call'[c].op = call[c].op /\ call'[c].left = ToTell(c)
    <3>1. author[m] \in User /\ m \in call[c].ids
      BY <2>2 DEF ToTell
    <3>2. author[m] # u
      BY <1>10, <3>1 DEF ReceiptInv, SeenHolds, Save, Incoming
    <3>3. Written(c, m) >= Told(call[c].op)
      BY <1>1, <1>10, <3>1, SaveRaises
    <3>4. status'[u][m] = Written(c, m)
      BY <1>1, <1>10, SavedRows
    <3> QED BY <1>3, <2>2, <3>1, <3>2, <3>3, <3>4
  <2> QED BY <1>10, <2>1, <2>2, SaveMakes
<1>11. CASE Tell(c)
  <2>1. call[c].pc = "tell"
    BY <1>11 DEF Tell
  <2> QED BY <1>4, <1>6, <1>11, <2>1, TellMakes
<1> QED BY <1>5, <1>6, <1>7, <1>8, <1>9, <1>10, <1>11, CallsMove DEF CallMoves

(* The answer a page waits for tells of rows that were there when it was   *)
(* read.                                                                   *)
LEMMA SummaryBacked ==
    ASSUME TypeOK, NEW m \in Msg, Summary(m) >= Delivered
    PROVE  Backed(m, Summary(m))
<1> DEFINE others == {status[u][m] : u \in User \ {author[m]}}
<1>1. Summary(m) \in others
  BY DEF Summary, Sent, Delivered, Read
<1>2. PICK u \in User \ {author[m]} : status[u][m] = Summary(m)
  BY <1>1
<1>3. Summary(m) \in {Sent, Delivered, Read}
  BY SummaryTyped
<1> QED BY <1>2, <1>3 DEF Backed, Sent, Delivered, Read

LEMMA PageStays ==
    ASSUME TypeOK, TypeOK', ReceiptAssumption, ReceiptInv, [Next]_vars
    PROVE  PageHolds'
<1> SUFFICES ASSUME NEW u \in User, NEW m \in Msg, page'[u].rows[m] >= Delivered
             PROVE  /\ author'[m] # Nobody
                    /\ \E w \in User : w # author'[m] /\ status'[w][m] >= page'[u].rows[m]
  BY DEF PageHolds, Backed
<1>1. CASE page'[u] = page[u]
  <2> DEFINE grade == page[u].rows[m]
  <2>1. author[m] # Nobody /\ Backed(m, grade)
    BY <1>1 DEF ReceiptInv, PageHolds
  <2>2. PICK w \in User : w # author[m] /\ status[w][m] >= grade
    BY <2>1 DEF Backed
  <2>3. status'[w][m] >= status[w][m] /\ author'[m] = author[m]
    BY <2>1, RowsRise, AuthorsStay
  <2>4. status[w][m] \in Grade /\ status'[w][m] \in Grade /\ grade \in Grade
    BY DEF TypeOK
  <2>5. status'[w][m] >= page'[u].rows[m]
    BY <1>1, <2>2, <2>3, <2>4 DEF Grade, Nothing, Sent, Delivered, Read
  <2> QED BY <2>1, <2>2, <2>3, <2>5
<1>2. ASSUME LoadAsk(u)
      PROVE  /\ author'[m] # Nobody
             /\ \E w \in User : w # author'[m] /\ status'[w][m] >= page'[u].rows[m]
  <2>1. page'[u].rows[m] = IF author[m] = u /\ m \notin deleted THEN Summary(m) ELSE Nothing
    BY <1>2 DEF LoadAsk, TypeOK
  <2>2. author[m] = u /\ page'[u].rows[m] = Summary(m)
    BY <2>1 DEF Nothing, Delivered
  <2>3. Backed(m, Summary(m))
    BY <2>2, SummaryBacked
  <2>4. UNCHANGED <<author, status>>
    BY <1>2 DEF LoadAsk, rows
  <2> QED BY <2>2, <2>3, <2>4 DEF Backed, ReceiptAssumption
<1>3. ASSUME LoadApply(u) PROVE FALSE
  BY <1>3 DEF LoadApply, TypeOK, Nothing, Delivered
<1>4. ASSUME NEW w \in User, LoadAsk(w) \/ LoadApply(w), w # u PROVE page'[u] = page[u]
  BY <1>4 DEF LoadAsk, LoadApply, TypeOK
<1>5. UNCHANGED page \/ \E w \in User : LoadAsk(w) \/ LoadApply(w)
  BY DEF Next, vars, Post, Broadcast, Delete, Open, Loaded, Close, Serve, JoinRoom, LeaveRoom,
         AcknowledgeDelivered, MarkMessageAsRead, MarkOne, MarkRoomAsRead, Look, Save, Clash,
         Tell, AskOne, Reconnect, shown
<1> QED BY <1>1, <1>2, <1>3, <1>4, <1>5

(* The author's page.                                                      *)
True(m) == view[m] >= Delivered => author[m] # Nobody /\ Backed(m, view[m])

LEMMA ViewTrue ==
    ASSUME ReceiptInv, NEW m \in Msg PROVE True(m)
  BY DEF ReceiptInv, ReceiptsAreTrue, True, Backed

LEMMA SameViewTrue ==
    ASSUME TypeOK, TypeOK', ReceiptAssumption, ReceiptInv, [Next]_vars, NEW m \in Msg,
           view'[m] = view[m]
    PROVE  True(m)'
<1> SUFFICES ASSUME view'[m] >= Delivered
             PROVE  /\ author'[m] # Nobody
                    /\ \E w \in User : w # author'[m] /\ status'[w][m] >= view'[m]
  BY DEF True, Backed
<1>1. author[m] # Nobody /\ Backed(m, view[m])
  BY ViewTrue DEF True
<1>2. PICK w \in User : w # author[m] /\ status[w][m] >= view[m]
  BY <1>1 DEF Backed
<1>3. status'[w][m] >= status[w][m] /\ author'[m] = author[m]
  BY <1>1, RowsRise, AuthorsStay
<1>4. status[w][m] \in Grade /\ status'[w][m] \in Grade /\ view[m] \in Grade
  BY DEF TypeOK
<1>5. status'[w][m] >= view'[m]
  BY <1>2, <1>3, <1>4 DEF Grade, Nothing, Sent, Delivered, Read
<1> QED BY <1>1, <1>2, <1>3, <1>5

LEMMA ViewStays ==
    ASSUME TypeOK, TypeOK', ReceiptAssumption, ReceiptInv, [Next]_vars, NEW m \in Msg
    PROVE  True(m)'
<1>1. ASSUME NEW c \in Conn, Tell(c), view'[m] # view[m] PROVE True(m)'
  <2>1. PICK n \in call[c].left :
          view' = [view EXCEPT ![n] = Ticks(call[c].op, view[n])] \/ UNCHANGED view
    BY <1>1, TellMakes
  <2>2. m = n /\ view'[m] = Ticks(call[c].op, view[m])
    BY <1>1, <2>1 DEF TypeOK
  <2>3. author[m] \in User /\ author[m] # UserOf[c] /\ status[UserOf[c]][m] >= Told(call[c].op)
    BY <1>1, <2>2 DEF Tell, ReceiptInv, ToldHolds
  <2>4. view'[m] \in Grade /\ status[UserOf[c]][m] \in Grade /\ UserOf[c] \in User
    BY DEF TypeOK, ReceiptAssumption
  <2>5. view'[m] = Told(call[c].op)
    BY <1>1, <2>2 DEF Ticks, Told, Nothing
  <2>6. UNCHANGED <<author, status>>
    BY <1>1 DEF Tell, rows
  <2>7. status'[UserOf[c]][m] >= view'[m]
    BY <2>3, <2>5, <2>6
  <2>8. author'[m] # Nobody
    BY <2>3, <2>6 DEF ReceiptAssumption
  <2>9. UserOf[c] # author'[m]
    BY <2>3, <2>6
  <2> QED BY <2>4, <2>7, <2>8, <2>9 DEF True, Backed
<1>2. ASSUME NEW n \in Msg, Broadcast(n), view'[m] # view[m] PROVE True(m)'
  <2>1. view'[m] = Sent
    BY <1>2 DEF Broadcast, TypeOK
  <2> QED BY <2>1 DEF True, Sent, Delivered
<1>3. ASSUME NEW u \in User, LoadApply(u), view'[m] # view[m] PROVE True(m)'
  <2>1. view'[m] = page[u].rows[m]
    BY <1>3 DEF LoadApply
  <2>2. view'[m] >= Delivered => author[m] # Nobody /\ Backed(m, view'[m])
    BY <2>1 DEF ReceiptInv, PageHolds
  <2>3. UNCHANGED <<author, status>>
    BY <1>3 DEF LoadApply, rows
  <2> QED BY <2>2, <2>3 DEF True, Backed
<1>4. \/ UNCHANGED view
      \/ \E c \in Conn : Tell(c)
      \/ \E n \in Msg : Broadcast(n)
      \/ \E u \in User : LoadApply(u)
  BY DEF Next, vars, Post, Delete, Open, Loaded, Close, Serve, JoinRoom, LeaveRoom,
         AcknowledgeDelivered, MarkMessageAsRead, MarkOne, MarkRoomAsRead, Look, Save, Clash,
         AskOne, Reconnect, LoadAsk, shown
<1> QED BY <1>1, <1>2, <1>3, <1>4, SameViewTrue

LEMMA ReceiptNext ==
    ASSUME TypeOK, TypeOK', ReceiptAssumption, ReceiptInv, [Next]_vars
    PROVE  ReceiptInv'
<1>1. \A m \in Msg : True(m)'
  BY ViewStays
<1>2. ReceiptsAreTrue' /\ \A m \in Msg : view'[m] >= Delivered => author'[m] # Nobody
  BY <1>1 DEF True, Backed, ReceiptsAreTrue
<1> QED BY <1>2, NoSentStays, SeenStays, ToldStays, PageStays DEF ReceiptInv

LEMMA ReceiptCorrect == Spec => [](TypeOK /\ ReceiptInv)
<1>1. Init => TypeOK /\ ReceiptInv
  BY TypeInit, ReceiptInit, ReceiptAssumption
<1>2. (TypeOK /\ ReceiptInv) /\ [Next]_vars => (TypeOK /\ ReceiptInv)'
  BY TypeNext, ReceiptNext, ReceiptAssumption
<1> QED BY <1>1, <1>2, PTL DEF Spec

(* The ticks of the author's page are true.                                *)
THEOREM TicksAreTrue == Spec => []ReceiptsAreTrue
<1>1. TypeOK /\ ReceiptInv => ReceiptsAreTrue
  BY DEF ReceiptInv
<1> QED BY <1>1, ReceiptCorrect, PTL

(* A receipt never goes back, however the calls overlap.                   *)
THEOREM StatusRises == Spec => StatusNeverGoesBack
<1>1. TypeOK /\ ReceiptInv /\ [Next]_vars
        => [\A u \in User, m \in Msg : status'[u][m] >= status[u][m]]_vars
  BY RowsRise, ReceiptAssumption
<1> QED BY <1>1, ReceiptCorrect, PTL DEF Spec, StatusNeverGoesBack

----------------------------------------------------------------------------
(* What counts as read.  A call that marks the room carries, up to its     *)
(* newest message, everything that is neither its user's own nor deleted   *)
(* nor read already; messages are numbered in the order they are written,  *)
(* so none can appear below that.                                          *)

Numbered == \A m \in Saved : \A n \in 1..(m - 1) : n \in Saved

NoSingle ==
    ~OneByOne => \A c \in Conn :
        call[c].pc \in {"look", "save"} => call[c].op \in {"ack", "room"}

LastWritten == ~OneByOne => \A u \in User : last[u] = 0 \/ last[u] \in Saved

Covered(u, top, ids) ==
    \A m \in Incoming(u) \ deleted : m <= top => m \in ids \/ status[u][m] = Read

CallCovered(c) == Covered(UserOf[c], call[c].top, call[c].ids)

RoomHolds ==
    ~OneByOne => \A c \in Conn :
        call[c].pc \in {"look", "save"} /\ call[c].op = "room" =>
            call[c].top \in call[c].ids /\ CallCovered(c)

CountInv == Numbered /\ NoSingle /\ LastWritten /\ RoomHolds /\ CountedIsRead

LEMMA CountInit == ASSUME ReceiptAssumption PROVE Init => CountInv
  BY DEF Init, CountInv, Numbered, NoSingle, LastWritten, RoomHolds, CountedIsRead, Saved,
         Incoming, Idle

LEMMA NumberedStays ==
    ASSUME TypeOK, ReceiptAssumption, Numbered, [Next]_vars
    PROVE  Numbered'
<1>1. CASE UNCHANGED author
  BY <1>1 DEF Numbered, Saved
<1>2. ASSUME NEW a \in Author, Post(a) PROVE Numbered'
  <2>1. PICK m \in Msg \ Saved :
          (\A n \in 1..(m - 1) : n \in Saved) /\ author' = [author EXCEPT ![m] = a]
    BY <1>2 DEF Post
  <2>2. a # Nobody
    BY DEF ReceiptAssumption
  <2>3. \A k \in Msg : k \in Saved' <=> k \in Saved \/ k = m
    BY <2>1, <2>2 DEF Saved, TypeOK
  <2>4. Saved' \subseteq Msg
    BY DEF Saved
  <2>5. \A k \in Msg : \A n \in 1..(k - 1) : n \in Msg
    BY DEF Msg, ReceiptAssumption
  <2> QED BY <2>1, <2>3, <2>4, <2>5 DEF Numbered
<1>3. UNCHANGED author \/ \E a \in Author : Post(a)
  BY DEF Next, vars, Broadcast, Delete, Open, Loaded, Close, Serve, JoinRoom, LeaveRoom,
         AcknowledgeDelivered, MarkMessageAsRead, MarkOne, MarkRoomAsRead, Look, Save, Clash,
         Tell, AskOne, Reconnect, LoadAsk, LoadApply, rows
<1> QED BY <1>1, <1>2, <1>3

LEMMA NoSingleStays ==
    ASSUME TypeOK, ReceiptAssumption, ReceiptInv, NoSingle, [Next]_vars
    PROVE  NoSingle'
<1> SUFFICES ASSUME ~OneByOne, NEW c \in Conn, call'[c].pc \in {"look", "save"}
             PROVE  call'[c].op \in {"ack", "room"}
  BY DEF NoSingle
<1>1. call[c].pc \in {"look", "save"} => call[c].op \in {"ack", "room"}
  BY DEF NoSingle
<1>2. call'[c] # Idle
  BY DEF Idle
<1>3. ~MarkMessageAsRead(c)
  <2>1. ASSUME Takes(c, "one") PROVE FALSE
    <3>1. Head(queue[c]) \in Request /\ Head(queue[c]).op = "one"
      BY <2>1, TakesTyped
    <3> QED BY <3>1 DEF Request
  <2> QED BY <2>1 DEF MarkMessageAsRead, MarkOne
<1>4. CASE AcknowledgeDelivered(c)
  BY <1>1, <1>4, MarkOneMakes DEF AcknowledgeDelivered
<1>5. CASE MarkRoomAsRead(c)
  BY <1>1, <1>5, MarkRoomMakes
<1>6. CASE Look(c)
  BY <1>1, <1>6, LookMakes
<1>7. CASE Save(c)
  BY <1>2, <1>7, SaveMakes
<1>8. CASE Tell(c)
  BY <1>2, <1>8, TellMakes
<1> QED BY <1>1, <1>2, <1>3, <1>4, <1>5, <1>6, <1>7, <1>8, CallsMove DEF CallMoves

(* Up to a message that is written, nothing new can come in.               *)
LEMMA NothingBelow ==
    ASSUME TypeOK, TypeOK', ReceiptAssumption, Numbered, [Next]_vars,
           NEW u \in User, NEW top \in Saved
    PROVE  \A m \in Incoming(u)' \ deleted' : m <= top => m \in Incoming(u) \ deleted
<1> SUFFICES ASSUME NEW m \in Incoming(u)' \ deleted', m <= top
             PROVE  m \in Incoming(u) \ deleted
  OBVIOUS
<1>1. m \in Msg /\ top \in Msg /\ author'[m] # u
  BY DEF Incoming, Saved
<1>2. m = top \/ m \in 1..(top - 1)
  BY <1>1 DEF Msg, ReceiptAssumption
<1>3. m \in Saved
  BY <1>2 DEF Numbered
<1>4. author'[m] = author[m] /\ m \notin deleted
  BY <1>1, <1>3, AuthorsStay DEF Saved
<1> QED BY <1>1, <1>3, <1>4 DEF Incoming

LEMMA CoveredStays ==
    ASSUME TypeOK, TypeOK', ReceiptAssumption, ReceiptInv, Numbered, [Next]_vars,
           NEW u \in User, NEW top \in Saved, NEW ids, Covered(u, top, ids)
    PROVE  Covered(u, top, ids)'
<1> SUFFICES ASSUME NEW m \in Incoming(u)' \ deleted', m <= top
             PROVE  m \in ids \/ status'[u][m] = Read
  BY DEF Covered
<1>1. m \in Incoming(u) \ deleted
  BY NothingBelow
<1>2. m \in Msg /\ (m \in ids \/ status[u][m] = Read)
  BY <1>1 DEF Covered, Incoming, Saved
<1>3. status'[u][m] >= status[u][m] /\ status'[u][m] \in Grade
  BY <1>2, RowsRise DEF TypeOK
<1> QED BY <1>2, <1>3 DEF Grade, Nothing, Sent, Delivered, Read

LEMMA RoomStays ==
    ASSUME TypeOK, TypeOK', ReceiptAssumption, ReceiptInv, CountInv, [Next]_vars
    PROVE  RoomHolds'
<1> SUFFICES ASSUME ~OneByOne, NEW c \in Conn,
                    call'[c].pc \in {"look", "save"}, call'[c].op = "room"
             PROVE  /\ call'[c].top \in call'[c].ids
                    /\ CallCovered(c)'
  BY DEF RoomHolds
<1> DEFINE u == UserOf[c]
<1>1. u \in User
  BY DEF ReceiptAssumption
<1>2. ASSUME NEW top \in Saved, NEW ids, Covered(u, top, ids),
             call'[c].top = top, call'[c].ids = ids
      PROVE  CallCovered(c)'
  <2>1. Covered(u, top, ids)'
    BY <1>1, <1>2, CoveredStays DEF CountInv
  <2> QED BY <1>2, <2>1 DEF Covered, CallCovered
<1>3. ASSUME call[c].pc \in {"look", "save"}, call[c].op = "room",
             call'[c].top = call[c].top, call'[c].ids = call[c].ids
      PROVE  /\ call'[c].top \in call'[c].ids
             /\ CallCovered(c)'
  <2>1. call[c].top \in call[c].ids /\ Covered(u, call[c].top, call[c].ids)
    BY <1>3 DEF CountInv, RoomHolds, CallCovered
  <2>2. call[c].top \in Saved
    BY <1>3, <2>1 DEF ReceiptInv, SeenHolds, Incoming
  <2> QED BY <1>2, <1>3, <2>1, <2>2
<1>4. CASE call'[c] = call[c]
  BY <1>3, <1>4
<1>5. CASE AcknowledgeDelivered(c) \/ MarkMessageAsRead(c)
  <2>1. PICK op \in {"ack", "one"} : MarkOne(c, op)
    BY <1>5 DEF AcknowledgeDelivered, MarkMessageAsRead
  <2> QED BY <1>4, <2>1, MarkOneMakes
<1>6. CASE MarkRoomAsRead(c)
  <2>1. ASSUME call'[c].ids = Unread(u), call'[c].top \in Unread(u)
        PROVE  CallCovered(c)'
    <3>1. Covered(u, call'[c].top, Unread(u))
      <4> SUFFICES ASSUME NEW m \in Incoming(u) \ deleted, m \notin Unread(u)
                   PROVE  status[u][m] = Read
        BY DEF Covered
      <4>1. m \in Msg /\ last[u] \in 0..MaxMsg /\ ~(m > last[u])
        BY <1>1 DEF Unread, Incoming, Saved, TypeOK
      <4>2. m <= last[u]
        BY <4>1 DEF Msg, ReceiptAssumption
      <4> QED BY <1>1, <4>2 DEF CountInv, CountedIsRead
    <3>2. call'[c].top \in Saved
      BY <2>1 DEF Unread, Incoming
    <3> QED BY <1>2, <2>1, <3>1, <3>2
  <2> QED BY <1>4, <1>6, <2>1, MarkRoomMakes
<1>7. CASE Look(c)
  BY <1>3, <1>7, LookMakes
<1>8. call'[c] # Idle /\ ~(Save(c) /\ call'[c].pc = "tell") /\ ~(Tell(c) /\ call'[c].pc = "tell")
  BY DEF Idle
<1> QED BY <1>4, <1>5, <1>6, <1>7, <1>8, CallsMove, SaveMakes, TellMakes DEF CallMoves

(* Only a save moves a mark, and without single marks only one that marks  *)
(* the room.                                                               *)
LEMMA MarksMove ==
    ASSUME TypeOK, ReceiptAssumption, ReceiptInv, CountInv, ~OneByOne, [Next]_vars,
           NEW u \in User, last'[u] # last[u]
    PROVE  \E c \in Conn :
             /\ Save(c) /\ UserOf[c] = u /\ call[c].op = "room"
             /\ last'[u] = call[c].top
             /\ call[c].top \in call[c].ids /\ call[c].ids \subseteq Incoming(u)
             /\ Covered(u, call[c].top, call[c].ids)
<1>1. UNCHANGED last \/ \E c \in Conn : Save(c)
  BY DEF Next, vars, Post, Broadcast, Delete, Open, Loaded, Close, Serve, JoinRoom, LeaveRoom,
         AcknowledgeDelivered, MarkMessageAsRead, MarkOne, MarkRoomAsRead, Look, Clash, Tell,
         AskOne, Reconnect, LoadAsk, LoadApply
<1>2. PICK c \in Conn : Save(c)
  BY <1>1
<1>3. u = UserOf[c] /\ last'[u] = MarkAfter(call[c], last[u])
  BY <1>2 DEF Save, TypeOK
<1>4. call[c].op # "ack" /\ last'[u] = call[c].top
  BY <1>3 DEF MarkAfter
<1>5. call[c].pc = "save" /\ call[c].op = "room"
  BY <1>2, <1>4 DEF Save, CountInv, NoSingle
<1> QED BY <1>2, <1>3, <1>4, <1>5 DEF CountInv, RoomHolds, CallCovered, ReceiptInv, SeenHolds

LEMMA LastStays ==
    ASSUME TypeOK, ReceiptAssumption, ReceiptInv, CountInv, [Next]_vars
    PROVE  LastWritten'
<1> SUFFICES ASSUME ~OneByOne, NEW u \in User PROVE last'[u] = 0 \/ last'[u] \in Saved'
  BY DEF LastWritten
<1>1. Saved \subseteq Saved'
  BY AuthorsStay DEF Saved
<1>2. CASE last'[u] = last[u]
  BY <1>1, <1>2 DEF CountInv, LastWritten
<1>3. CASE last'[u] # last[u]
  BY <1>1, <1>3, MarksMove DEF Incoming
<1> QED BY <1>2, <1>3

LEMMA CountedStays ==
    ASSUME TypeOK, TypeOK', ReceiptAssumption, ReceiptInv, CountInv, [Next]_vars
    PROVE  CountedIsRead'
<1> SUFFICES ASSUME ~OneByOne, NEW u \in User,
                    NEW m \in Incoming(u)' \ deleted', m <= last'[u]
             PROVE  status'[u][m] = Read
  BY DEF CountedIsRead
<1>1. m \in Msg /\ status'[u][m] >= status[u][m] /\ status'[u][m] \in Grade
  <2>1. m \in Msg
    BY DEF Incoming, Saved
  <2> QED BY <2>1, RowsRise DEF TypeOK
<1>2. ASSUME status[u][m] = Read PROVE status'[u][m] = Read
  BY <1>1, <1>2 DEF Grade, Nothing, Sent, Delivered, Read
<1>3. CASE last'[u] = last[u]
  <2>1. last[u] \in Saved
    BY <1>1, <1>3 DEF CountInv, LastWritten, Msg
  <2>2. m \in Incoming(u) \ deleted
    BY <1>3, <2>1, NothingBelow DEF CountInv
  <2> QED BY <1>2, <1>3, <2>2 DEF CountInv, CountedIsRead
<1>4. CASE last'[u] # last[u]
  <2>1. PICK c \in Conn :
          /\ Save(c) /\ UserOf[c] = u /\ call[c].op = "room"
          /\ last'[u] = call[c].top
          /\ call[c].top \in call[c].ids /\ call[c].ids \subseteq Incoming(u)
          /\ Covered(u, call[c].top, call[c].ids)
    BY <1>4, MarksMove
  <2>2. call[c].top \in Saved
    BY <2>1 DEF Incoming
  <2>3. m \in Incoming(u) \ deleted
    BY <2>1, <2>2, NothingBelow DEF CountInv
  <2>4. m \in call[c].ids \/ status[u][m] = Read
    BY <2>1, <2>3 DEF Covered
  <2>5. ASSUME m \in call[c].ids PROVE status'[u][m] = Read
    <3>1. Written(c, m) >= Told("room") /\ Written(c, m) \in {Nothing, Delivered, Read}
      BY <1>1, <2>1, <2>5, SaveRaises
    <3>2. status'[u][m] = Written(c, m)
      BY <1>1, <2>1, SavedRows
    <3> QED BY <3>1, <3>2 DEF Told, Nothing, Delivered, Read
  <2> QED BY <1>2, <2>4, <2>5
<1> QED BY <1>3, <1>4

(* What no longer counts as unread has a reading.                          *)
THEOREM CountedCorrect == Spec => []CountedIsRead
<1>1. Init => CountInv
  BY CountInit, ReceiptAssumption
<1>2. /\ TypeOK /\ ReceiptInv /\ (TypeOK /\ ReceiptInv)'
      /\ CountInv /\ [Next]_vars
      => CountInv'
  BY NumberedStays, NoSingleStays, LastStays, RoomStays, CountedStays, ReceiptAssumption
     DEF CountInv
<1>3. CountInv => CountedIsRead
  BY DEF CountInv
<1> QED BY <1>1, <1>2, <1>3, ReceiptCorrect, PTL DEF Spec
=============================================================================

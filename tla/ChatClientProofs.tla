-------------------------- MODULE ChatClientProofs --------------------------
(***************************************************************************)
(* What a page knows of the rooms against the rows of the server:          *)
(* ChatContext.jsx, for any number of rooms, users, messages, connections  *)
(* and requests.  A list shows a message once and counts its reactions     *)
(* right, whatever overtakes what; once nothing is on its way it shows     *)
(* what the server has, and the badge is a count of the server's.          *)
(***************************************************************************)
EXTENDS ChatClient, SequenceTheorems, FiniteSetTheorems, TLAPS

Name  == User \X {"rest", "live"}
Entry == [emoji : Emoji, names : SUBSET Name, count : Nat]

(* An entry counts its names, and an emoji has one entry.                  *)
EntriesOK(S) ==
    /\ \A x \in S : x.names # {} /\ x.count = Cardinality(x.names)
    /\ \A x, y \in S : x.emoji = y.emoji => x = y

Message ==
    {m \in [id : Nat, by : User, rev : Nat, gone : BOOLEAN, react : SUBSET Entry] :
        EntriesOK(m.react)}

(* A list in which every message is there once.                            *)
Distinct(s) == \A j, k \in DOMAIN s : s[j].id = s[k].id => j = k
Lists == {s \in Seq(Message) : Distinct(s)}

Row  == [room : Room, by : User, rev : Nat, gone : BOOLEAN, back : BOOLEAN,
         react : [User -> Emoji \cup {None}]]
Load == [at : {"no", "answered"}, rows : Lists, left : SUBSET Nat, late : BOOLEAN]
Gift == [id : Nat, name : Name, emoji : Emoji, removed : BOOLEAN]
Call == [op : {"mark", "join", "leave"}, room : Room]

Posted   == [kind : {"message", "edited"}, room : Room, data : Message]
Numbered == [kind : {"deleted", "room", "unread"}, room : Room, data : Nat]
Given    == [kind : {"reacted"}, room : Room, data : Gift]
Events   == Posted \cup Numbered \cup Given

RowsOK  == rows \in Seq(Row)
QueueOK == queue \in [Conn -> Seq(Events)]
CallsOK == calls \in Seq(Call)
ItemsOK == items \in [Room -> Lists]
LoadOK  == load \in [Room -> Load]

(* What is on its way to the page keeps the lists in order when it comes.  *)
ClientInv == RowsOK /\ QueueOK /\ CallsOK /\ ItemsOK /\ LoadOK

----------------------------------------------------------------------------
(* Reactions.                                                              *)

LEMMA NamesFinite == ASSUME NEW S \in SUBSET Name PROVE IsFiniteSet(S) /\ Cardinality(S) \in Nat
<1>1. IsFiniteSet(User)
      BY ClientAssumption, FS_AddElement DEF User
<1>2. IsFiniteSet({"rest"}) /\ IsFiniteSet({"rest"} \cup {"live"})
      BY FS_Singleton, FS_AddElement
<1>3. {"rest"} \cup {"live"} = {"rest", "live"}
      OBVIOUS
<1>4. IsFiniteSet(Name)
      BY <1>1, <1>2, <1>3, FS_Product DEF Name
<1> QED BY <1>4, FS_Subset, FS_CardinalityType

LEMMA ReactionsOK ==
    ASSUME NEW row \in Row
    PROVE  Reactions(row) \in SUBSET Entry /\ EntriesOK(Reactions(row))
<1>1. ASSUME NEW e \in {row.react[v] : v \in User} \ {None}
      PROVE  /\ e \in Emoji /\ Givers(row, e) \in SUBSET Name /\ Givers(row, e) # {}
             /\ Cardinality(Givers(row, e)) \in Nat
  <2>1. PICK v \in User : row.react[v] = e
        OBVIOUS
  <2>2. e \in Emoji
        BY <2>1, <1>1 DEF Row
  <2>3. Givers(row, e) \in SUBSET Name
        BY DEF Givers, Name
  <2>4. <<v, "rest">> \in Givers(row, e)
        BY <2>1 DEF Givers
  <2> QED BY <2>2, <2>3, <2>4, NamesFinite
<1>2. \A x \in Reactions(row) : \E e \in {row.react[v] : v \in User} \ {None} :
          x = [emoji |-> e, names |-> Givers(row, e), count |-> Cardinality(Givers(row, e))]
      BY DEF Reactions
<1>3. ASSUME NEW x \in Reactions(row)
      PROVE  /\ x \in Entry /\ x.names # {} /\ x.count = Cardinality(x.names)
             /\ x.names = Givers(row, x.emoji)
  <2>1. PICK e \in {row.react[v] : v \in User} \ {None} :
            x = [emoji |-> e, names |-> Givers(row, e), count |-> Cardinality(Givers(row, e))]
        BY <1>2
  <2> QED BY <1>1, <2>1 DEF Entry
<1>4. ASSUME NEW x \in Reactions(row), NEW y \in Reactions(row), x.emoji = y.emoji
      PROVE  x = y
      BY <1>3, <1>4 DEF Entry
<1> QED BY <1>3, <1>4 DEF EntriesOK

LEMMA MessageDtoOK ==
    ASSUME NEW i \in Nat, NEW row \in Row
    PROVE  MessageDto(i, row) \in Message /\ MessageDto(i, row).id = i
<1>1. Reactions(row) \in SUBSET Entry /\ EntriesOK(Reactions(row))
      BY ReactionsOK
<1> HIDE DEF EntriesOK, Entry
<1> QED BY <1>1 DEF MessageDto, Message, Row

(* One name more or less.                                                  *)
LEMMA TakeOK ==
    ASSUME NEW x \in Entry, NEW n
    PROVE  LET y == Take(x, n)
           IN  y \in Entry /\ y.emoji = x.emoji /\ y.count = Cardinality(y.names)
<1>1. x.names \ {n} \in SUBSET Name
      BY DEF Entry
<1>2. Cardinality(x.names \ {n}) \in Nat
      BY <1>1, NamesFinite
<1> QED BY <1>1, <1>2 DEF Take, Entry

LEMMA GiveOK ==
    ASSUME NEW x \in Entry, x.names # {}, x.count = Cardinality(x.names), NEW n \in Name
    PROVE  LET y == Give(x, n)
           IN  y \in Entry /\ y.emoji = x.emoji /\ y.names # {} /\ y.count = Cardinality(y.names)
<1>1. CASE n \in x.names
      BY <1>1 DEF Give
<1>2. CASE n \notin x.names
  <2>1. x.names \cup {n} \in SUBSET Name /\ x.names \in SUBSET Name
        BY DEF Entry
  <2>2. Cardinality(x.names \cup {n}) = x.count + 1
        BY <1>2, <2>1, NamesFinite, FS_AddElement
  <2>3. Give(x, n) = [x EXCEPT !.names = x.names \cup {n}, !.count = x.count + 1]
        BY <1>2 DEF Give
  <2>4. x.count + 1 \in Nat /\ x.names \cup {n} # {}
        BY DEF Entry
  <2> QED BY <2>1, <2>2, <2>3, <2>4 DEF Entry
<1> QED BY <1>1, <1>2

LEMMA ReactedListOK ==
    ASSUME NEW S \in SUBSET Entry, EntriesOK(S), NEW d \in Gift
    PROVE  ReactedList(S, d) \in SUBSET Entry /\ EntriesOK(ReactedList(S, d))
<1> DEFINE old == {x \in S : x.emoji = d.emoji}
           new == IF d.removed THEN {y \in {Take(x, d.name) : x \in old} : y.names # {}}
                  ELSE IF old = {} THEN {[emoji |-> d.emoji, names |-> {d.name}, count |-> 1]}
                  ELSE {Give(x, d.name) : x \in old}
<1>1. ReactedList(S, d) = (S \ old) \cup new
      BY DEF ReactedList
<1>2. \A x, y \in old : x = y
      BY DEF EntriesOK
<1>3. /\ \A y \in new : /\ y \in Entry /\ y.emoji = d.emoji
                        /\ y.names # {} /\ y.count = Cardinality(y.names)
      /\ \A y, z \in new : y = z
  <2>1. CASE d.removed
    <3>1. new = {y \in {Take(x, d.name) : x \in old} : y.names # {}}
          BY ONLY <2>1 DEF new
    <3>2. \A x \in old : x \in Entry /\ x.emoji = d.emoji
          BY ONLY S \in SUBSET Entry DEF old
    <3> HIDE DEF new, old
    <3>3. \A y \in new : y.names # {} /\ \E x \in old : y = Take(x, d.name)
          BY <3>1
    <3>4. \A y \in new : y \in Entry /\ y.emoji = d.emoji /\ y.count = Cardinality(y.names)
          BY <3>2, <3>3, TakeOK
    <3>5. \A y, z \in new : y = z
          BY <1>2, <3>3
    <3> QED BY <3>3, <3>4, <3>5
  <2>2. CASE ~d.removed /\ old = {}
    <3> DEFINE y == [emoji |-> d.emoji, names |-> {d.name}, count |-> 1]
    <3>1. new = {y}
          BY <2>2
    <3>2. Cardinality({d.name}) = 1
          BY FS_Singleton
    <3>3. y \in Entry /\ y.emoji = d.emoji /\ y.names # {} /\ y.count = Cardinality(y.names)
          BY <3>2 DEF Entry, Gift
    <3> HIDE DEF y, new
    <3> QED BY <3>1, <3>3
  <2>3. CASE ~d.removed /\ old # {}
    <3>1. new = {Give(x, d.name) : x \in old}
          BY <2>3
    <3>2. \A x \in old : x \in Entry /\ x.names # {} /\ x.count = Cardinality(x.names) /\ x.emoji = d.emoji
          BY DEF EntriesOK
    <3>3. d.name \in Name
          BY DEF Gift
    <3> HIDE DEF new, old
    <3> QED BY <1>2, <3>1, <3>2, <3>3, GiveOK
  <2> QED BY <2>1, <2>2, <2>3
<1> HIDE DEF new
<1>4. ReactedList(S, d) \in SUBSET Entry
      BY <1>1, <1>3
<1>5. \A x \in ReactedList(S, d) : x.names # {} /\ x.count = Cardinality(x.names)
      BY <1>1, <1>3 DEF EntriesOK
<1>6. \A x, y \in ReactedList(S, d) : x.emoji = y.emoji => x = y
      BY <1>1, <1>3 DEF EntriesOK
<1> QED BY <1>4, <1>5, <1>6 DEF EntriesOK


----------------------------------------------------------------------------
(* Lists.                                                                  *)

LEMMA EmptyList == <<>> \in Lists
BY EmptySeq DEF Lists, Distinct

(* A list made of another one by a change that leaves the ids alone.       *)
LEMMA SameIds ==
    ASSUME NEW s \in Lists, NEW t, DOMAIN t = DOMAIN s, t = [k \in DOMAIN s |-> t[k]],
           \A k \in DOMAIN s : t[k] \in Message /\ t[k].id = s[k].id
    PROVE  t \in Lists
<1>1. Len(s) \in Nat /\ DOMAIN s = 1..Len(s)
      BY LenProperties DEF Lists
<1>2. t \in [1..Len(s) -> Message]
      BY <1>1
<1>3. t \in Seq(Message)
      BY <1>1, <1>2, SeqDef
<1> QED BY <1>3 DEF Lists, Distinct

LEMMA Appended ==
    ASSUME NEW s \in Lists, NEW m \in Message, \A k \in DOMAIN s : s[k].id # m.id
    PROVE  Append(s, m) \in Lists
<1> DEFINE t == Append(s, m)
<1>1. s \in Seq(Message)
      BY DEF Lists
<1>2. /\ t \in Seq(Message) /\ Len(t) = Len(s) + 1 /\ t[Len(s) + 1] = m
      /\ \A i \in 1..Len(s) : t[i] = s[i]
      BY <1>1, AppendProperties
<1>3. DOMAIN s = 1..Len(s) /\ DOMAIN t = 1..(Len(s) + 1) /\ Len(s) \in Nat
      BY <1>1, <1>2, LenProperties
<1> HIDE DEF t
<1>4. \A j \in DOMAIN t : j \in DOMAIN s \/ j = Len(s) + 1
      BY <1>3
<1>5. Distinct(t)
      BY <1>2, <1>3, <1>4 DEF Lists, Distinct
<1> QED BY <1>2, <1>5 DEF Lists, t

(* An answer of the server lists a row once.                               *)
LEMMA AnswersOK ==
    ASSUME RowsOK, NEW S \in SUBSET RowId, NEW a \in AnswerOf(S)
    PROVE  a \in Lists
<1>1. PICK f \in Ascending(S) : a = [k \in DOMAIN f |-> MessageDto(f[k], rows[f[k]])]
      BY DEF AnswerOf
<1>2. Len(rows) \in Nat /\ \A i \in RowId : i \in Nat /\ rows[i] \in Row
      BY LenProperties, ElementOfSeq DEF RowsOK, RowId
<1>3. Cardinality(S) \in Nat
  <2>1. IsFiniteSet(RowId)
        BY <1>2, FS_Interval DEF RowId
  <2> QED BY <2>1, FS_Subset, FS_CardinalityType
<1>4. f \in [1..Cardinality(S) -> S] /\ \A j, k \in DOMAIN f : j < k => f[j] < f[k]
      BY DEF Ascending
<1>5. \A k \in 1..Cardinality(S) : f[k] \in RowId /\ f[k] \in Nat
      BY <1>2, <1>4
<1>6. \A k \in 1..Cardinality(S) : a[k] \in Message /\ a[k].id = f[k]
      BY <1>1, <1>2, <1>4, <1>5, MessageDtoOK
<1>7. a \in [1..Cardinality(S) -> Message] /\ DOMAIN a = 1..Cardinality(S)
      BY <1>1, <1>4, <1>6
<1>8. a \in Seq(Message)
      BY <1>3, <1>7, SeqDef
<1>9. ASSUME NEW j \in DOMAIN a, NEW k \in DOMAIN a, f[j] = f[k]
      PROVE  j = k
  <2>1. j \in Nat /\ k \in Nat /\ f[j] \in Nat
        BY <1>3, <1>5, <1>7
  <2>2. ~(j < k) /\ ~(k < j)
        BY <1>4, <1>5, <1>7, <1>9
  <2> QED BY <2>1, <2>2
<1>10. Distinct(a)
      BY <1>6, <1>7, <1>9 DEF Distinct
<1> QED BY <1>8, <1>10 DEF Lists

(* The kinds of events and what they carry.                                *)
LEMMA EventCases ==
    ASSUME NEW e \in Events
    PROVE  /\ e.room \in Room
           /\ e.kind \in {"message", "edited", "deleted", "reacted", "room", "unread"}
           /\ e.kind \in {"message", "edited"} => e.data \in Message
           /\ e.kind \in {"deleted", "room", "unread"} => e.data \in Nat
           /\ e.kind = "reacted" => e.data \in Gift
<1> HIDE DEF Message, Gift
<1>1. CASE e \in Posted
      BY <1>1 DEF Posted
<1>2. CASE e \in Numbered
      BY <1>2 DEF Numbered
<1>3. CASE e \in Given
      BY <1>3 DEF Given
<1> QED BY <1>1, <1>2, <1>3 DEF Events

(* What the reducer makes of a message, and of a list.                     *)
LEMMA ChangedOK ==
    ASSUME NEW m \in Message, NEW e \in Events, e.kind \in {"edited", "deleted", "reacted"},
           m.id = About(e)
    PROVE  Changed(m, e) \in Message /\ Changed(m, e).id = m.id
<1>1. CASE e.kind = "edited"
  <2>1. e.data \in Message /\ Changed(m, e) = e.data
        BY <1>1, EventCases DEF Changed, Edited
  <2>2. e.data.id = m.id
        BY <1>1 DEF About
  <2> QED BY <2>1, <2>2
<1>2. CASE e.kind = "deleted"
  <2>1. Changed(m, e) = [m EXCEPT !.gone = TRUE]
        BY <1>2 DEF Changed, Erased
  <2> HIDE DEF EntriesOK, Entry
  <2> QED BY <2>1 DEF Message
<1>3. CASE e.kind = "reacted"
  <2>1. e.data \in Gift
        BY <1>3, EventCases
  <2>2. Changed(m, e) = [m EXCEPT !.react = ReactedList(m.react, e.data)]
        BY <1>3 DEF Changed, ReactedTo
  <2>3. m.react \in SUBSET Entry /\ EntriesOK(m.react)
        BY DEF Message
  <2>4. ReactedList(m.react, e.data) \in SUBSET Entry /\ EntriesOK(ReactedList(m.react, e.data))
        BY <2>1, <2>3, ReactedListOK
  <2> QED BY <2>2, <2>4 DEF Message
<1> QED BY <1>1, <1>2, <1>3

LEMMA ReducedOK ==
    ASSUME ItemsOK, NEW e \in Events
    PROVE  e.room \in Room /\ Reduced(e) \in Lists
<1>1. e.room \in Room
      BY EventCases
<1>2. items[e.room] \in Lists
      BY <1>1 DEF ItemsOK
<1>3. CASE e.kind = "message"
  <2>1. e.data \in Message
        BY <1>3, EventCases
  <2>2. Reduced(e) = AddMessage(e)
        BY <1>3 DEF Reduced, IsCount
  <2>3. CASE InList(e.room, e.data.id)
        BY <1>1, <1>2, <2>2, <2>3 DEF AddMessage
  <2>4. CASE ~InList(e.room, e.data.id)
    <3>1. \A k \in DOMAIN items[e.room] : items[e.room][k].id # e.data.id
          BY <2>4 DEF InList
    <3> QED BY <1>1, <1>2, <2>1, <2>2, <2>4, <3>1, Appended DEF AddMessage
  <2> QED BY <2>3, <2>4
<1>4. CASE e.kind \in {"edited", "deleted", "reacted"}
  <2> DEFINE s == items[e.room]
             t == [k \in DOMAIN s |-> IF s[k].id = About(e) THEN Changed(s[k], e) ELSE s[k]]
  <2>1. Reduced(e) = t
        BY <1>4 DEF Reduced, IsCount
  <2>2. \A k \in DOMAIN s : s[k] \in Message
        BY <1>2, LenProperties, ElementOfSeq DEF Lists
  <2>3. \A k \in DOMAIN s : t[k] \in Message /\ t[k].id = s[k].id
        BY <1>4, <2>2, ChangedOK
  <2>4. DOMAIN t = DOMAIN s /\ t = [k \in DOMAIN s |-> t[k]]
        OBVIOUS
  <2> HIDE DEF t, s
  <2>5. s \in Lists
        BY <1>2 DEF s
  <2> QED BY <1>1, <2>1, <2>3, <2>4, <2>5, SameIds
<1>5. CASE IsCount(e)
      BY <1>1, <1>2, <1>5 DEF Reduced, IsCount
<1> QED BY <1>1, <1>3, <1>4, <1>5, EventCases DEF IsCount

----------------------------------------------------------------------------
(* What is sent.                                                           *)

LEMMA PostedOK ==
    ASSUME NEW k \in {"message", "edited"}, NEW r \in Room, NEW m \in Message
    PROVE  Event(k, r, m) \in Events
<1> HIDE DEF Message
<1> QED BY DEF Event, Events, Posted

LEMMA NumberedOK ==
    ASSUME NEW k \in {"deleted", "room", "unread"}, NEW r \in Room, NEW n \in Nat
    PROVE  Event(k, r, n) \in Events
BY DEF Event, Events, Numbered

LEMMA GivenOK ==
    ASSUME NEW r \in Room, NEW i \in Nat, NEW u \in User, NEW e \in Emoji, NEW b \in BOOLEAN
    PROVE  Event("reacted", r, [id |-> i, name |-> <<u, "live">>, emoji |-> e, removed |-> b]) \in Events
<1> DEFINE d == [id |-> i, name |-> <<u, "live">>, emoji |-> e, removed |-> b]
<1>1. <<u, "live">> \in Name
      BY DEF Name
<1>2. d \in Gift
      BY <1>1 DEF Gift
<1> HIDE DEF d, Gift
<1>3. Event("reacted", r, d) \in Events
      BY <1>2 DEF Event, Events, Given
<1> QED BY <1>3 DEF d

LEMMA UnreadNat ==
    ASSUME NEW tab \in Seq(Row), NEW r, NEW mark
    PROVE  /\ UnreadOf(tab, r, mark) \in Nat /\ UnreadKept(tab, r, mark) \in Nat
           /\ \A k \in Nat : UnreadListed(tab, r, mark, k) \in Nat
<1>1. DOMAIN tab = 1..Len(tab) /\ Len(tab) \in Nat
      BY LenProperties
<1>2. ASSUME NEW n \in Nat, NEW T \in SUBSET (1..n) PROVE Cardinality(T) \in Nat
  <2>1. IsFiniteSet(1..n)
        BY FS_Interval
  <2> QED BY <2>1, FS_Subset, FS_CardinalityType
<1>3. \A T \in SUBSET DOMAIN tab : Cardinality(T) \in Nat
      BY <1>1, <1>2
<1>4. /\ {i \in DOMAIN tab : tab[i].room = r /\ tab[i].by # Me /\ i > mark} \in SUBSET DOMAIN tab
      /\ {i \in DOMAIN tab : tab[i].room = r /\ tab[i].by # Me /\ i > mark /\ ~tab[i].gone}
            \in SUBSET DOMAIN tab
      OBVIOUS
<1>5. UnreadOf(tab, r, mark) \in Nat /\ UnreadKept(tab, r, mark) \in Nat
      BY <1>3, <1>4 DEF UnreadOf, UnreadKept
<1>6. ASSUME NEW k \in Nat PROVE UnreadListed(tab, r, mark, k) \in Nat
  <2>1. {i \in Recent(tab, r, k) : tab[i].by # Me /\ i > mark} \in SUBSET (1..k)
        BY DEF Recent
  <2> QED BY <1>2, <2>1 DEF UnreadListed
<1> QED BY <1>5, <1>6

LEMMA SingleOK == ASSUME NEW e \in Events PROVE <<e>> \in Seq(Events)
<1> HIDE DEF Events
<1> QED OBVIOUS

LEMMA NoneOK == <<>> \in Seq(Events)
BY EmptySeq

LEMMA SendOK ==
    ASSUME QueueOK, NEW first \in Seq(Events), NEW second \in Seq(Events), Send(first, second)
    PROVE  QueueOK'
<1> HIDE DEF Events
<1>1. queue' = [c \in Conn |-> queue[c] \o Heard(c, first) \o Heard(c, second)]
      BY DEF Send
<1>2. \A c \in Conn : Heard(c, first) \in Seq(Events) /\ Heard(c, second) \in Seq(Events)
      BY NoneOK DEF Heard
<1>3. \A c \in Conn : queue[c] \in Seq(Events)
      BY DEF QueueOK
<1>4. \A c \in Conn : queue[c] \o Heard(c, first) \in Seq(Events)
      BY <1>2, <1>3, ConcatProperties
<1>5. \A c \in Conn : queue[c] \o Heard(c, first) \o Heard(c, second) \in Seq(Events)
      BY <1>2, <1>4, ConcatProperties
<1> QED BY <1>1, <1>5 DEF QueueOK

LEMMA InvokeOK ==
    ASSUME CallsOK, NEW op \in {"mark", "join", "leave"}, NEW r \in Room, Invoke(op, r)
    PROVE  CallsOK'
<1>1. [op |-> op, room |-> r] \in Call
      BY DEF Call
<1>2. Append(calls, [op |-> op, room |-> r]) \in Seq(Call)
      BY <1>1, AppendProperties DEF CallsOK
<1> QED BY <1>2 DEF Invoke, CallsOK

LEMMA RowOK ==
    ASSUME RowsOK, NEW i \in RowId
    PROVE  i \in Nat /\ rows[i] \in Row /\ rows[i].room \in Room
<1>1. Len(rows) \in Nat
      BY LenProperties DEF RowsOK
<1>2. i \in Nat /\ rows[i] \in Row
      BY <1>1, ElementOfSeq DEF RowsOK, RowId
<1> QED BY <1>2 DEF Row

LEMMA RowChanged ==
    ASSUME RowsOK, NEW i \in RowId, NEW row \in Row, rows' = [rows EXCEPT ![i] = row]
    PROVE  RowsOK' /\ rows'[i] = row
BY ExceptSeq DEF RowsOK, RowId

----------------------------------------------------------------------------
(* Each step keeps the invariant: the server's.                            *)

LEMMA PostStep ==
    ASSUME ClientInv, NEW u \in User, NEW r \in Room, Post(u, r) PROVE ClientInv'
<1> DEFINE row == [room |-> r, by |-> u, rev |-> 0, gone |-> FALSE, back |-> FALSE, react |-> [v \in User |-> None]]
           new == Append(rows, row)
           first == Event("message", r, MessageDto(Len(new), row))
           second == Event("room", r, UnreadOf(new, r, lastRead[r]))
<1>1. row \in Row
      BY DEF Row
<1>2. rows \in Seq(Row)
      BY DEF ClientInv, RowsOK
<1> HIDE DEF row
<1>3. new \in Seq(Row) /\ Len(new) \in Nat
      BY <1>1, <1>2, AppendProperties, LenProperties
<1> HIDE DEF new
<1>4. first \in Events
      BY <1>1, <1>3, MessageDtoOK, PostedOK
<1>5. second \in Events
      BY <1>3, UnreadNat, NumberedOK
<1>6. rows' = new /\ Send(<<first>>, IF u = Me THEN <<>> ELSE <<second>>)
      BY DEF Post, row, new
<1> HIDE DEF first, second
<1>7. QueueOK'
      BY <1>4, <1>5, <1>6, SingleOK, NoneOK, SendOK DEF ClientInv
<1>8. RowsOK'
      BY <1>3, <1>6 DEF RowsOK
<1>9. UNCHANGED <<calls, items, load>>
      BY DEF Post, page, asks
<1> QED BY <1>7, <1>8, <1>9 DEF ClientInv, CallsOK, ItemsOK, LoadOK

(* A row after an edit.                                                    *)
LEMMA EditedRow ==
    ASSUME NEW x \in Row
    PROVE  LET y == [x EXCEPT !.rev = x.rev + 1, !.back = x.back \/ x.gone]
           IN  /\ y \in Row /\ y.room = x.room /\ y.by = x.by /\ y.gone = x.gone
               /\ y.rev = x.rev + 1 /\ (y.back <=> x.back \/ x.gone)
<1> DEFINE known == x.back \/ x.gone
<1>1. known \in BOOLEAN
      OBVIOUS
<1>2. ASSUME NEW b \in BOOLEAN, NEW y, y = [x EXCEPT !.rev = x.rev + 1, !.back = b]
      PROVE  /\ y \in Row /\ y.room = x.room /\ y.by = x.by /\ y.gone = x.gone
             /\ y.rev = x.rev + 1 /\ y.back = b
  <2>1. PICK z : z = [x EXCEPT !.rev = x.rev + 1]
        OBVIOUS
  <2>2. /\ z \in Row /\ z.room = x.room /\ z.by = x.by /\ z.gone = x.gone
        /\ z.rev = x.rev + 1
        BY <2>1 DEF Row
  <2>3. y = [z EXCEPT !.back = b]
        BY <1>2, <2>1, Zenon
  <2> QED BY <1>2, <2>2, <2>3 DEF Row
<1> HIDE DEF known
<1>3. PICK y : y = [x EXCEPT !.rev = x.rev + 1, !.back = known]
      OBVIOUS
<1>4. /\ y \in Row /\ y.room = x.room /\ y.by = x.by /\ y.gone = x.gone
      /\ y.rev = x.rev + 1 /\ y.back = known
      BY <1>1, <1>2, <1>3, Zenon
<1> QED BY <1>3, <1>4, Zenon DEF known

LEMMA EditStep ==
    ASSUME ClientInv, NEW i \in RowId, Edit(i) PROVE ClientInv'
<1> DEFINE known == rows[i].back \/ rows[i].gone
           row == [rows[i] EXCEPT !.rev = rows[i].rev + 1, !.back = known]
           first == Event("edited", rows[i].room, MessageDto(i, rows'[i]))
<1>1. i \in Nat /\ rows[i] \in Row /\ rows[i].room \in Room
      BY RowOK DEF ClientInv
<1>2. row \in Row
      BY <1>1, EditedRow
<1>3. rows' = [rows EXCEPT ![i] = row]
      BY DEF Edit
<1> HIDE DEF row
<1>4. RowsOK' /\ rows'[i] = row
      BY <1>2, <1>3, RowChanged DEF ClientInv
<1>5. first \in Events
      BY <1>1, <1>2, <1>4, MessageDtoOK, PostedOK
<1>6. Send(<<first>>, <<>>)
      BY DEF Edit
<1> HIDE DEF first
<1>7. QueueOK'
      BY <1>5, <1>6, SingleOK, NoneOK, SendOK DEF ClientInv
<1>8. UNCHANGED <<calls, items, load>>
      BY DEF Edit, Change, page
<1> QED BY <1>4, <1>7, <1>8 DEF ClientInv, CallsOK, ItemsOK, LoadOK

LEMMA DeleteStep ==
    ASSUME ClientInv, NEW i \in RowId, Delete(i) PROVE ClientInv'
<1> DEFINE row == [rows[i] EXCEPT !.gone = TRUE]
           r == rows[i].room
           first == Event("deleted", r, i)
           second == Event("room", r, UnreadKept(rows', r, lastRead[r]))
<1>1. i \in Nat /\ rows[i] \in Row /\ r \in Room
      BY RowOK DEF ClientInv
<1>2. row \in Row
      BY <1>1 DEF Row
<1>3. rows' = [rows EXCEPT ![i] = row]
      BY DEF Delete
<1> HIDE DEF row
<1>4. RowsOK'
      BY <1>2, <1>3, RowChanged DEF ClientInv
<1>5. UnreadKept(rows', r, lastRead[r]) \in Nat
      BY <1>4, UnreadNat DEF RowsOK
<1>6. Send(<<first>>, <<second>>)
      BY DEF Delete
<1> HIDE DEF r
<1>7. first \in Events /\ second \in Events
      BY <1>1, <1>5, NumberedOK
<1> HIDE DEF first, second
<1>8. QueueOK'
      BY <1>6, <1>7, SingleOK, SendOK DEF ClientInv
<1>9. UNCHANGED <<calls, items, load>>
      BY DEF Delete, Change, page
<1> QED BY <1>4, <1>8, <1>9 DEF ClientInv, CallsOK, ItemsOK, LoadOK

LEMMA ReactStep ==
    ASSUME ClientInv, NEW u \in User, NEW i \in RowId, NEW e \in Emoji, React(u, i, e)
    PROVE  ClientInv'
<1> DEFINE removed == rows[i].react[u] = e
           row == [rows[i] EXCEPT !.react[u] = IF removed THEN None ELSE e]
           first == Event("reacted", rows[i].room,
                          [id |-> i, name |-> <<u, "live">>, emoji |-> e, removed |-> removed])
<1>1. i \in Nat /\ rows[i] \in Row /\ rows[i].room \in Room
      BY RowOK DEF ClientInv
<1>2. row \in Row
      BY <1>1 DEF Row
<1>3. rows' = [rows EXCEPT ![i] = row]
      BY DEF React
<1>4. Send(<<first>>, <<>>)
      BY DEF React
<1>5. removed \in BOOLEAN
      OBVIOUS
<1> HIDE DEF row, removed
<1>6. RowsOK'
      BY <1>2, <1>3, RowChanged DEF ClientInv
<1>7. first \in Events
      BY <1>1, <1>5, GivenOK
<1> HIDE DEF first
<1>8. QueueOK'
      BY <1>4, <1>7, SingleOK, NoneOK, SendOK DEF ClientInv
<1>9. UNCHANGED <<calls, items, load>>
      BY DEF React, Change, page
<1> QED BY <1>6, <1>8, <1>9 DEF ClientInv, CallsOK, ItemsOK, LoadOK

LEMMA HubCallStep == ASSUME ClientInv, HubCall PROVE ClientInv'
<1> DEFINE op == Head(calls).op
           r  == Head(calls).room
           count == Event("unread", r, UnreadKept(rows, r, lastRead'[r]))
           zero == Event("room", r, 0)
<1>1. calls \in Seq(Call) /\ calls # <<>>
      BY DEF HubCall, ClientInv, CallsOK
<1>2. Head(calls) \in Call /\ Tail(calls) \in Seq(Call)
      BY <1>1, HeadTailProperties
<1>3. CallsOK' /\ r \in Room
      BY <1>2 DEF HubCall, CallsOK, Call
<1>4. ASSUME UNCHANGED queue PROVE QueueOK'
      BY <1>4 DEF ClientInv, QueueOK
<1>5. ASSUME Send(<<count>>, IF Incoming(r) = {} THEN <<>> ELSE <<zero>>)
      PROVE  QueueOK'
  <2>1. UnreadKept(rows, r, lastRead'[r]) \in Nat
        BY UnreadNat DEF ClientInv, RowsOK
  <2>2. count \in Events /\ zero \in Events
        BY <1>3, <2>1, NumberedOK
  <2> HIDE DEF count, zero, r
  <2>3. (IF Incoming(r) = {} THEN <<>> ELSE <<zero>>) \in Seq(Events)
        BY <2>2, SingleOK, NoneOK
  <2>4. <<count>> \in Seq(Events)
        BY <2>2, SingleOK
  <2>5. QueueOK'
        BY <1>5, <2>3, <2>4, SendOK DEF ClientInv
  <2> QED BY <2>5
<1>6. QueueOK'
      BY <1>4, <1>5 DEF HubCall, ClientInv, QueueOK
<1>7. UNCHANGED <<rows, items, load>>
      BY DEF HubCall, page, asks
<1> QED BY <1>3, <1>6, <1>7 DEF ClientInv, RowsOK, ItemsOK, LoadOK

LEMMA DropStep == ASSUME ClientInv, NEW c \in Conn, Drop(c) PROVE ClientInv'
<1> HIDE DEF Events
<1>1. QueueOK'
      BY NoneOK DEF Drop, ClientInv, QueueOK
<1>2. CallsOK'
      BY EmptySeq DEF Drop, ClientInv, CallsOK
<1>3. UNCHANGED <<rows, items, load>>
      BY DEF Drop, server, page, asks
<1> QED BY <1>1, <1>2, <1>3 DEF ClientInv, RowsOK, ItemsOK, LoadOK

----------------------------------------------------------------------------
(* The page's steps.                                                       *)

LEMMA OvertakeOK == ASSUME LoadOK, NEW e, e.room \in Room, Overtake(e) PROVE LoadOK'
<1> DEFINE old == load[e.room]
           b == old.late \/ (old.at = "answered" /\ ~IsCount(e))
           new == [old EXCEPT !.late = b]
<1>1. load' = [load EXCEPT ![e.room] = new]
      BY DEF Overtake
<1>2. old \in Load
      BY DEF LoadOK
<1>3. b \in BOOLEAN
      OBVIOUS
<1> HIDE DEF b, old, Lists
<1>4. new \in Load
      BY <1>2, <1>3 DEF Load
<1> HIDE DEF new
<1> QED BY <1>1, <1>4 DEF LoadOK

LEMMA HandleStep == ASSUME ClientInv, NEW c \in Conn, Handle(c) PROVE ClientInv'
<1> DEFINE e == Head(queue[c])
<1> HIDE DEF Events
<1>1. queue[c] \in Seq(Events) /\ queue[c] # <<>>
      BY DEF Handle, ClientInv, QueueOK
<1>2. e \in Events /\ Tail(queue[c]) \in Seq(Events)
      BY <1>1, HeadTailProperties
<1>3. /\ items' = [items EXCEPT ![e.room] = Reduced(e)]
      /\ (MarksRead(e) /\ Invoke("mark", e.room)) \/ UNCHANGED calls
      /\ Overtake(e)
      /\ queue' = [queue EXCEPT ![c] = Tail(queue[c])]
      /\ UNCHANGED rows
      BY DEF Handle, server
<1> HIDE DEF e
<1>4. e.room \in Room /\ Reduced(e) \in Lists
      BY <1>2, ReducedOK DEF ClientInv
<1>5. ItemsOK'
      BY <1>3, <1>4 DEF ClientInv, ItemsOK
<1>6. QueueOK'
      BY <1>2, <1>3 DEF ClientInv, QueueOK
<1>7. CallsOK'
  <2>1. CASE Invoke("mark", e.room)
        BY <1>4, <2>1, InvokeOK DEF ClientInv
  <2>2. CASE UNCHANGED calls
        BY <2>2 DEF ClientInv, CallsOK
  <2> QED BY <1>3, <2>1, <2>2
<1>8. LoadOK'
      BY <1>3, <1>4, OvertakeOK DEF ClientInv
<1>9. RowsOK'
      BY <1>3 DEF ClientInv, RowsOK
<1> QED BY <1>5, <1>6, <1>7, <1>8, <1>9 DEF ClientInv

LEMMA CallStep ==
    ASSUME ClientInv, NEW r \in Room, JoinRoom(r) \/ LeaveRoom(r) \/ MarkAll(r)
    PROVE  ClientInv'
<1>1. Invoke("join", r) \/ Invoke("leave", r) \/ Invoke("mark", r)
      BY DEF JoinRoom, LeaveRoom, MarkAll
<1>2. CallsOK'
      BY <1>1, InvokeOK DEF ClientInv
<1>3. UNCHANGED <<rows, queue, items, load>>
      BY DEF JoinRoom, LeaveRoom, MarkAll, server, page, asks
<1> QED BY <1>2, <1>3 DEF ClientInv, RowsOK, QueueOK, ItemsOK, LoadOK

LEMMA NoLoadOK == NoLoad \in Load
<1> HIDE DEF Lists
<1> QED BY EmptyList DEF NoLoad, Load

(* Both requests are answered with messages of some room that are not gone.*)
LEMMA Asked ==
    ASSUME RowsOK, NEW r \in Room, LoadMessages(r) \/ \E i \in RowId : LoadContext(r, i)
    PROVE  \E s \in Room : \E S \in SUBSET Kept(s) : Ask(r, s, S)
<1>1. CASE LoadMessages(r)
  <2>1. LastOf(Kept(r)) \in SUBSET Kept(r)
        BY DEF LastOf
  <2> QED BY <1>1, <2>1 DEF LoadMessages
<1>2. ASSUME NEW i \in RowId, LoadContext(r, i) PROVE \E s \in Room : \E S \in SUBSET Kept(s) : Ask(r, s, S)
  <2>1. Around(i) \in SUBSET Kept(rows[i].room)
        BY DEF Around, LastOf, FirstOf
  <2>2. rows[i].room \in Room
        BY RowOK
  <2> QED BY <1>2, <2>1, <2>2 DEF LoadContext
<1> QED BY <1>1, <1>2

LEMMA AskStep ==
    ASSUME ClientInv, NEW r \in Room, NEW s \in Room, NEW S \in SUBSET Kept(s), Ask(r, s, S)
    PROVE  ClientInv'
<1>1. PICK answer \in AnswerOf(S) :
          load' = [load EXCEPT ![r] = [at |-> "answered", rows |-> answer,
                                       left |-> Kept(r) \ S, late |-> FALSE]]
      BY DEF Ask
<1>2. S \in SUBSET RowId /\ Kept(r) \ S \in SUBSET RowId
      BY DEF Kept
<1>3. RowId \subseteq Nat
      BY RowOK DEF ClientInv
<1>4. answer \in Lists
      BY <1>2, AnswersOK DEF ClientInv
<1> HIDE DEF Lists
<1>5. [at |-> "answered", rows |-> answer, left |-> Kept(r) \ S, late |-> FALSE] \in Load
      BY <1>2, <1>3, <1>4 DEF Load
<1>6. LoadOK'
      BY <1>1, <1>5 DEF ClientInv, LoadOK
<1>7. UNCHANGED <<rows, queue, calls, items>>
      BY DEF Ask, server, wire, page
<1> QED BY <1>6, <1>7 DEF ClientInv, RowsOK, QueueOK, CallsOK, ItemsOK

LEMMA MessagesAppliedStep ==
    ASSUME ClientInv, NEW r \in Room, MessagesApplied(r) PROVE ClientInv'
<1> HIDE DEF Lists
<1>1. load[r].rows \in Lists
      BY DEF ClientInv, LoadOK, Load
<1>2. ItemsOK'
      BY <1>1 DEF MessagesApplied, ClientInv, ItemsOK
<1>3. LoadOK'
      BY NoLoadOK DEF MessagesApplied, ClientInv, LoadOK
<1>4. UNCHANGED <<rows, queue, calls>>
      BY DEF MessagesApplied, server, wire
<1> QED BY <1>2, <1>3, <1>4 DEF ClientInv, RowsOK, QueueOK, CallsOK

LEMMA DeletionAnsweredStep ==
    ASSUME ClientInv, NEW i \in RowId, DeletionAnswered(i) PROVE ClientInv'
<1> DEFINE e == Event("deleted", rows[i].room, i)
<1>1. e \in Events /\ e.room = rows[i].room /\ rows[i].room \in Room
      BY RowOK, NumberedOK DEF ClientInv, Event
<1>2. items' = [items EXCEPT ![rows[i].room] = Reduced(e)]
      BY DEF DeletionAnswered
<1> HIDE DEF e, Lists
<1>3. Reduced(e) \in Lists
      BY <1>1, ReducedOK DEF ClientInv
<1>4. ItemsOK'
      BY <1>1, <1>2, <1>3 DEF ClientInv, ItemsOK
<1>5. UNCHANGED <<rows, queue, calls, load>>
      BY DEF DeletionAnswered, server, wire
<1> QED BY <1>4, <1>5 DEF ClientInv, RowsOK, QueueOK, CallsOK, LoadOK

----------------------------------------------------------------------------

LEMMA ClientInitInv == Init => ClientInv
<1> SUFFICES ASSUME Init PROVE ClientInv
    OBVIOUS
<1> HIDE DEF Lists, Events
<1>1. RowsOK /\ CallsOK
      BY EmptySeq DEF Init, RowsOK, CallsOK
<1>2. QueueOK
      BY NoneOK DEF Init, QueueOK
<1>3. ItemsOK
      BY EmptyList DEF Init, ItemsOK
<1>4. LoadOK
      BY NoLoadOK DEF Init, LoadOK
<1> QED BY <1>1, <1>2, <1>3, <1>4 DEF ClientInv

LEMMA ClientStepInv == ClientInv /\ [Next]_vars => ClientInv'
<1> SUFFICES ASSUME ClientInv, [Next]_vars PROVE ClientInv'
    OBVIOUS
<1>1. ASSUME NEW u \in User, NEW r \in Room, Post(u, r) PROVE ClientInv'
      BY <1>1, PostStep
<1>2. ASSUME NEW i \in RowId, Edit(i) PROVE ClientInv'
      BY <1>2, EditStep
<1>3. ASSUME NEW i \in RowId, Delete(i) PROVE ClientInv'
      BY <1>3, DeleteStep
<1>4. ASSUME NEW i \in RowId, DeletionAnswered(i) PROVE ClientInv'
      BY <1>4, DeletionAnsweredStep
<1>5. ASSUME NEW i \in RowId, NEW u \in User, NEW e \in Emoji, React(u, i, e) PROVE ClientInv'
      BY <1>5, ReactStep
<1>6. CASE HubCall
      BY <1>6, HubCallStep
<1>7. ASSUME NEW c \in Conn, Drop(c) PROVE ClientInv'
      BY <1>7, DropStep
<1>8. ASSUME NEW c \in Conn, Handle(c) PROVE ClientInv'
      BY <1>8, HandleStep
<1>9. ASSUME NEW r \in Room, JoinRoom(r) \/ LeaveRoom(r) \/ MarkAll(r) PROVE ClientInv'
      BY <1>9, CallStep
<1>10. ASSUME NEW r \in Room, LoadMessages(r) \/ \E i \in RowId : LoadContext(r, i) PROVE ClientInv'
  <2>1. PICK x \in Room : \E S \in SUBSET Kept(x) : Ask(r, x, S)
        BY <1>10, Asked DEF ClientInv
  <2> QED BY <2>1, AskStep
<1>11. ASSUME NEW r \in Room, MessagesApplied(r) PROVE ClientInv'
      BY <1>11, MessagesAppliedStep
<1>12. CASE UNCHANGED <<rows, queue, calls, items, load>>
      BY <1>12 DEF ClientInv, RowsOK, QueueOK, CallsOK, ItemsOK, LoadOK
<1>13. /\ \A c \in Conn : Return(c) => UNCHANGED <<rows, queue, calls, items, load>>
       /\ \A r : SetCurrentRoom(r) => UNCHANGED <<rows, queue, calls, items, load>>
       /\ Rearm \/ LoadRooms \/ RoomsApplied => UNCHANGED <<rows, queue, calls, items, load>>
       /\ UNCHANGED vars => UNCHANGED <<rows, queue, calls, items, load>>
      BY DEF Return, SetCurrentRoom, Rearm, LoadRooms, RoomsApplied, vars, server, wire, page, asks
<1> QED BY <1>1, <1>2, <1>3, <1>4, <1>5, <1>6, <1>7, <1>8, <1>9, <1>10, <1>11, <1>12, <1>13 DEF Next

LEMMA ClientInvImplies == ClientInv => NoDuplicates
<1> SUFFICES ASSUME ClientInv, NEW r \in Room
             PROVE  /\ \A j, k \in DOMAIN items[r] : items[r][j].id = items[r][k].id => j = k
                    /\ \A j \in DOMAIN items[r] : \A x, y \in items[r][j].react :
                          /\ x.count = Cardinality(x.names) /\ x.count > 0
                          /\ x.emoji = y.emoji => x = y
    BY DEF NoDuplicates
<1>1. items[r] \in Lists
      BY DEF ClientInv, ItemsOK
<1>2. \A j, k \in DOMAIN items[r] : items[r][j].id = items[r][k].id => j = k
      BY <1>1 DEF Lists, Distinct
<1>3. ASSUME NEW j \in DOMAIN items[r]
      PROVE  /\ items[r][j].react \in SUBSET Entry
             /\ EntriesOK(items[r][j].react)
  <2>1. items[r][j] \in Message
        BY <1>1, LenProperties, ElementOfSeq DEF Lists
  <2> QED BY <2>1 DEF Message
<1>4. ASSUME NEW x \in Entry, x.names # {}, x.count = Cardinality(x.names)
      PROVE  x.count > 0
  <2>1. x.names \in SUBSET Name
        BY DEF Entry
  <2>2. IsFiniteSet(x.names) /\ Cardinality(x.names) \in Nat
        BY <2>1, NamesFinite
  <2>3. Cardinality(x.names) # 0
        BY <1>4, <2>2, FS_EmptySet
  <2> QED BY <1>4, <2>2, <2>3
<1> QED BY <1>2, <1>3, <1>4 DEF EntriesOK

(* However loads and events overtake each other and however often an event *)
(* comes, a list of the page shows a message once, an emoji once, and the  *)
(* number of those who gave it (ChatContext.jsx, the reducer).             *)
THEOREM ListsCorrect == Spec => []NoDuplicates
<1> QED BY ClientInitInv, ClientStepInv, ClientInvImplies, PTL DEF Spec


----------------------------------------------------------------------------
(* What is on its way.                                                     *)

(* The queue q has an event of S; an event of S in it is one of T, or one  *)
(* of T comes after it.                                                    *)
Meets(q, S) == \E k \in DOMAIN q : q[k] \in S
Followed(q, S, T) ==
    \A j \in DOMAIN q : q[j] \in S => \E k \in DOMAIN q : j <= k /\ q[k] \in T

(* The events about message i: those that bring its text, the one that     *)
(* brings it first, those that bring another text than its n-th, those     *)
(* that bring that one, and those that erase it.                           *)
Texts(i)    == {e \in Events : e.kind \in {"message", "edited"} /\ e.data.id = i}
Posts(i)    == {e \in Texts(i) : e.kind = "message"}
Stale(i, n) == {e \in Texts(i) : e.data.rev # n}
Fresh(i, n) == {e \in Texts(i) : e.kind = "edited" /\ e.data.rev = n}
Erasures(i) == {e \in Events : e.kind = "deleted" /\ e.data = i}

(* In all queues q the last word about message i, whose row is given, is   *)
(* right.                                                                  *)
Told(row, q, i) ==
    \A c \in Conn :
        IF row.gone THEN Followed(q[c], Texts(i), Erasures(i))
                    ELSE Followed(q[c], Stale(i, row.rev), Fresh(i, row.rev))

(* The list s shows message i as its row is, or will when the queues q     *)
(* have come; but need not list it if the answer it was left it out.       *)
Lost(q, s, i) ==
    \/ \A k \in DOMAIN s : s[k].id = i => s[k].gone
    \/ \E c \in Conn : Meets(q[c], Erasures(i))
Listed(q, s, i) ==
    \/ \E k \in DOMAIN s : s[k].id = i
    \/ \A c \in Conn : Meets(q[c], Posts(i))
Latest(row, q, s, i) ==
    \/ \A k \in DOMAIN s : s[k].id = i => s[k].rev = row.rev
    \/ \E c \in Conn : Meets(q[c], Fresh(i, row.rev))
Shown(row, q, s, i, om) ==
    IF row.gone THEN Lost(q, s, i) ELSE (i \in om \/ Listed(q, s, i)) /\ Latest(row, q, s, i)

(* What is listed, or sent, are rows of the table, of the room if no jump  *)
(* brought another one's.                                                  *)
Exist(tab, s) ==
    \A k \in DOMAIN s : s[k].id \in DOMAIN tab /\ (s[k].gone => tab[s[k].id].gone)
OfRoom(tab, s, r) == \A k \in DOMAIN s : tab[s[k].id].room = r
SentOK(tab, e) ==
    /\ e.kind \in {"message", "edited"} =>
          e.data.id \in DOMAIN tab /\ tab[e.data.id].room = e.room /\ ~e.data.gone
    /\ e.kind = "deleted" =>
          e.data \in DOMAIN tab /\ tab[e.data].room = e.room /\ tab[e.data].gone
Wrong(tab) == {e \in Events : ~SentOK(tab, e)}

(* Only a message that is deleted is brought back.                         *)
Brought == \A i \in DOMAIN rows : rows[i].back => rows[i].gone

Real ==
    /\ \A r \in Room : Exist(rows, items[r]) /\ Exist(rows, load[r].rows)
    /\ \A c \in Conn : ~Meets(queue[c], Wrong(rows))
    /\ \A i \in deletions : i \in DOMAIN rows /\ rows[i].gone
    /\ Brought /\ DOMAIN beyond = Room

(* The list a room will show when its load is applied, what that left out, *)
(* and whether it was overtaken.                                           *)
Coming(r) == IF load[r].at = "answered" THEN load[r].rows ELSE items[r]
Omitted(r) == IF load[r].at = "answered" THEN load[r].left ELSE beyond[r]
Overtaken(r) == load[r].at = "answered" /\ load[r].late
Home == \A r \in Room : r \in hazy \/ Overtaken(r) \/ OfRoom(rows, Coming(r), r)

Synced(i) ==
    /\ Told(rows[i], queue, i)
    /\ \/ Overtaken(rows[i].room)
       \/ Shown(rows[i], queue, Coming(rows[i].room), i, Omitted(rows[i].room))
SyncInv ==
    /\ Real /\ Home
    /\ \A i \in DOMAIN rows : rows[i].room \in hazy \/ rows[i].back \/ Synced(i)

----------------------------------------------------------------------------
(* Counts on their way.                                                    *)

(* The counts that are sent of room r, those that are right, and the       *)
(* messages of others that make the page count for itself.                 *)
CountsOf(r)  == {e \in Events : IsCount(e) /\ e.room = r}
Right(r, U)  == {e \in CountsOf(r) : e.data \in U}
PeerPosts(r) == {e \in Events : e.kind = "message" /\ e.room = r /\ e.data.by # Me}

(* The count n is right, or a right one will come: it is on its way, or an *)
(* invocation is that will make the server send it.                        *)
Marking(r, s) == \E k \in DOMAIN s : s[k].op = "mark" /\ s[k].room = r
Promised(r, U, q, s, n) ==
    n \in U \/ (\E c \in Conn : Meets(q[c], CountsOf(r))) \/ Marking(r, s)

(* The badge a room will show when the request for the rooms is answered.  *)
Shows(r) == IF list.at = "answered" THEN list.count[r] ELSE badge[r]

Counted(r) ==
    \/ r \in dim
    \/ list.at = "answered" /\ r \in list.late
    \/ Promised(r, CountsGiven(rows, r, lastRead[r]), queue, calls, Shows(r))

LastWord(r) ==
    \A c \in Conn : /\ Followed(queue[c], CountsOf(r), Right(r, CountsGiven(rows, r, lastRead[r])))
                    /\ Followed(queue[c], PeerPosts(r), CountsOf(r))

DownOK == /\ \A c \in Conn : c \notin up => queue[c] = <<>>
          /\ Link \notin up => calls = <<>>
CountInv == DownOK /\ \A r \in Room : LastWord(r) /\ Counted(r)

(* Rows are added and change, but stay in their room, and those that are   *)
(* gone stay gone, edited since or not.                                    *)
RowsKept(tab, new) ==
    /\ DOMAIN tab \subseteq DOMAIN new
    /\ \A i \in DOMAIN tab : /\ new[i].room = tab[i].room
                            /\ (tab[i].gone => new[i].gone) /\ (tab[i].back => new[i].back)

----------------------------------------------------------------------------
(* Queues: the next event goes, others come.                               *)

LEMMA EmptyQueue == ASSUME NEW S, NEW T PROVE ~Meets(<<>>, S) /\ Followed(<<>>, S, T)
BY DEF Meets, Followed

(* What is left when the next event is taken.                              *)
LEMMA TailEvents ==
    ASSUME NEW E, NEW q \in Seq(E), q # <<>>
    PROVE  /\ 1 \in DOMAIN q /\ Head(q) = q[1]
           /\ \A k \in DOMAIN Tail(q) : k + 1 \in DOMAIN q /\ Tail(q)[k] = q[k + 1]
           /\ \A k \in DOMAIN q : k = 1 \/ (k - 1 \in DOMAIN Tail(q) /\ q[k] = Tail(q)[k - 1])
<1>1. DOMAIN q = 1..Len(q) /\ Len(q) \in Nat /\ Len(q) # 0
      BY LenProperties, EmptySeq
<1>2. /\ Tail(q) \in Seq(E) /\ Len(Tail(q)) = Len(q) - 1
      /\ \A i \in 1..Len(Tail(q)) : Tail(q)[i] = q[i + 1]
      BY HeadTailProperties
<1>3. DOMAIN Tail(q) = 1..(Len(q) - 1)
      BY <1>2, LenProperties
<1>4. 1 \in DOMAIN q
      BY <1>1
<1>5. Head(q) = q[1]
      OBVIOUS
<1>6. ASSUME NEW k \in DOMAIN Tail(q) PROVE k + 1 \in DOMAIN q /\ Tail(q)[k] = q[k + 1]
      BY <1>1, <1>2, <1>3
<1>7. ASSUME NEW k \in DOMAIN q, k # 1 PROVE k - 1 \in DOMAIN Tail(q) /\ q[k] = Tail(q)[k - 1]
  <2>1. k - 1 \in 1..(Len(q) - 1)
        BY <1>1, <1>7
  <2>2. Tail(q)[k - 1] = q[(k - 1) + 1] /\ (k - 1) + 1 = k
        BY <1>1, <1>2, <2>1, <1>7
  <2> QED BY <1>3, <2>1, <2>2
<1> QED BY <1>4, <1>5, <1>6, <1>7

LEMMA TailMeets ==
    ASSUME NEW E, NEW q \in Seq(E), q # <<>>, NEW S, Meets(q, S)
    PROVE  Head(q) \in S \/ Meets(Tail(q), S)
BY TailEvents DEF Meets

LEMMA TailFollowed ==
    ASSUME NEW E, NEW q \in Seq(E), q # <<>>, NEW S, NEW T, Followed(q, S, T)
    PROVE  /\ Followed(Tail(q), S, T)
           /\ Head(q) \in S => Head(q) \in T \/ Meets(Tail(q), T)
<1>1. DOMAIN q \subseteq Nat /\ DOMAIN Tail(q) \subseteq Nat
  <2>1. DOMAIN q = 1..Len(q)
        BY LenProperties
  <2>2. Tail(q) \in Seq(E)
        BY HeadTailProperties
  <2>3. DOMAIN Tail(q) = 1..Len(Tail(q))
        BY <2>2, LenProperties
  <2> QED BY <2>1, <2>3
<1>2. ASSUME NEW j \in DOMAIN Tail(q), Tail(q)[j] \in S
      PROVE  \E k \in DOMAIN Tail(q) : j <= k /\ Tail(q)[k] \in T
  <2>1. j + 1 \in DOMAIN q /\ q[j + 1] \in S
        BY <1>2, TailEvents
  <2>2. PICK k \in DOMAIN q : j + 1 <= k /\ q[k] \in T
        BY <2>1 DEF Followed
  <2>3. k \in Nat /\ j \in Nat /\ k # 1
        BY <1>1, <2>2, TailEvents
  <2>4. k - 1 \in DOMAIN Tail(q) /\ Tail(q)[k - 1] \in T
        BY <2>2, <2>3, TailEvents
  <2>5. j <= k - 1
        BY <2>2, <2>3
  <2> QED BY <2>4, <2>5
<1>3. ASSUME Head(q) \in S, Head(q) \notin T PROVE Meets(Tail(q), T)
  <2>1. 1 \in DOMAIN q /\ q[1] \in S /\ q[1] \notin T
        BY <1>3, TailEvents
  <2>2. PICK k \in DOMAIN q : q[k] \in T
        BY <2>1 DEF Followed
  <2>3. k # 1
        BY <2>1, <2>2
  <2>4. k - 1 \in DOMAIN Tail(q) /\ q[k] = Tail(q)[k - 1]
        BY <2>3, TailEvents
  <2> QED BY <2>2, <2>4 DEF Meets
<1> QED BY <1>2, <1>3 DEF Followed

(* What is there when one event is put behind the others.                  *)
Behind(q, e) == q \o <<e>>

LEMMA OneMore ==
    ASSUME NEW E, NEW q \in Seq(E), NEW e \in E, NEW S, NEW T
    PROVE  /\ Behind(q, e) \in Seq(E)
           /\ Meets(Behind(q, e), S) <=> Meets(q, S) \/ e \in S
           /\ e \in T => Followed(Behind(q, e), S, T)
           /\ Followed(q, S, T) /\ (e \in S => e \in T) => Followed(Behind(q, e), S, T)
<1> DEFINE p == Behind(q, e)
           n == Len(q)
<1>1. <<e>> \in Seq(E) /\ Len(<<e>>) = 1 /\ <<e>>[1] = e
      OBVIOUS
<1>2. n \in Nat /\ DOMAIN q = 1..n
      BY LenProperties
<1>3. /\ p \in Seq(E) /\ Len(p) = n + 1
      /\ \A i \in 1..(n + 1) : p[i] = IF i <= n THEN q[i] ELSE <<e>>[i - n]
      BY <1>1, ConcatProperties DEF Behind
<1>4. DOMAIN p = 1..(n + 1)
      BY <1>3, LenProperties
<1> HIDE DEF p, n
<1>5. p[n + 1] = e
  <2>1. n + 1 \in 1..(n + 1) /\ ~(n + 1 <= n) /\ (n + 1) - n = 1
        BY <1>2
  <2> QED BY <1>1, <1>3, <2>1
<1>6. \A i \in DOMAIN q : i \in DOMAIN p /\ p[i] = q[i] /\ i <= n + 1 /\ i \in Nat
      BY <1>2, <1>3, <1>4
<1>7. n + 1 \in DOMAIN p
      BY <1>2, <1>4
<1>8. \A i \in DOMAIN p : i <= n + 1 /\ i \in Nat /\ (i \in DOMAIN q \/ i = n + 1)
      BY <1>2, <1>4
<1>9. Meets(p, S) <=> Meets(q, S) \/ e \in S
      BY <1>5, <1>6, <1>7, <1>8 DEF Meets
<1>10. ASSUME e \in T PROVE Followed(p, S, T)
      BY <1>10, <1>5, <1>7, <1>8 DEF Followed
<1>11. ASSUME Followed(q, S, T), e \in S => e \in T PROVE Followed(p, S, T)
  <2>1. ASSUME NEW j \in DOMAIN p, p[j] \in S PROVE \E k \in DOMAIN p : j <= k /\ p[k] \in T
    <3>1. CASE j \in DOMAIN q
          BY <1>6, <1>11, <2>1, <3>1 DEF Followed
    <3>2. CASE j = n + 1
          BY <1>2, <1>5, <1>7, <1>11, <2>1, <3>2
    <3> QED BY <1>8, <3>1, <3>2
  <2> QED BY <2>1 DEF Followed
<1> QED BY <1>3, <1>9, <1>10, <1>11 DEF p

(* What a handler sent is behind the rest on the connections that hear it. *)
LEMMA SentOne ==
    ASSUME QueueOK, NEW e \in Events, Send(<<e>>, <<>>), NEW c \in Conn, NEW S, NEW T
    PROVE  /\ Meets(queue'[c], S) <=> Meets(queue[c], S) \/ (Hears(c, e) /\ e \in S)
           /\ Followed(queue[c], S, T) /\ (e \in S => e \in T) => Followed(queue'[c], S, T)
           /\ Hears(c, e) /\ e \in T => Followed(queue'[c], S, T)
           /\ ~Hears(c, e) => queue'[c] = queue[c]
<1>1. queue[c] \in Seq(Events)
      BY DEF QueueOK
<1>2. queue'[c] = queue[c] \o Heard(c, <<e>>) \o Heard(c, <<>>)
      BY DEF Send
<1>3. <<e>>[1] = e /\ <<e>> # <<>> /\ Heard(c, <<>>) = <<>>
      BY DEF Heard
<1>4. CASE Hears(c, e)
  <2>1. Heard(c, <<e>>) = <<e>>
        BY <1>3, <1>4 DEF Heard
  <2>2. Behind(queue[c], e) \in Seq(Events)
        BY <1>1, OneMore
  <2>3. queue'[c] = Behind(queue[c], e)
        BY <1>2, <1>3, <2>1, <2>2, ConcatEmptySeq DEF Behind
  <2> QED BY <1>1, <1>4, <2>3, OneMore
<1>5. CASE ~Hears(c, e)
  <2>1. Heard(c, <<e>>) = <<>>
        BY <1>3, <1>5 DEF Heard
  <2>2. queue[c] \o <<>> = queue[c]
        BY <1>1, ConcatEmptySeq
  <2>3. queue'[c] = queue[c]
        BY <1>2, <1>3, <2>1, <2>2
  <2>4. Followed(queue[c], S, T) => Followed(queue'[c], S, T)
        BY <2>3
  <2> QED BY <1>5, <2>3, <2>4
<1> QED BY <1>4, <1>5

LEMMA SentTwo ==
    ASSUME QueueOK, NEW e \in Events, NEW d \in Events, Send(<<e>>, <<d>>),
           NEW c \in Conn, NEW S, NEW T
    PROVE  /\ Meets(queue'[c], S) <=>
                 Meets(queue[c], S) \/ (Hears(c, e) /\ e \in S) \/ (Hears(c, d) /\ d \in S)
           /\ Followed(queue[c], S, T) /\ (e \in S => e \in T) /\ (d \in S => d \in T)
                 => Followed(queue'[c], S, T)
           /\ Hears(c, e) /\ e \in T /\ (d \in S => d \in T) => Followed(queue'[c], S, T)
           /\ Hears(c, d) /\ d \in T => Followed(queue'[c], S, T)
           /\ ~Hears(c, e) /\ ~Hears(c, d) => queue'[c] = queue[c]
<1>1. PICK p : p = queue[c] \o Heard(c, <<e>>)
      OBVIOUS
<1>2. queue[c] \in Seq(Events)
      BY DEF QueueOK
<1>3. queue'[c] = p \o Heard(c, <<d>>)
      BY <1>1 DEF Send
<1>4. /\ p \in Seq(Events)
      /\ Meets(p, S) <=> Meets(queue[c], S) \/ (Hears(c, e) /\ e \in S)
      /\ Followed(queue[c], S, T) /\ (e \in S => e \in T) => Followed(p, S, T)
      /\ Hears(c, e) /\ e \in T => Followed(p, S, T)
      /\ ~Hears(c, e) => p = queue[c]
  <2>1. <<e>>[1] = e /\ <<e>> # <<>>
        OBVIOUS
  <2>2. CASE Hears(c, e)
    <3>1. p = Behind(queue[c], e)
          BY <1>1, <2>1, <2>2 DEF Heard, Behind
    <3> QED BY <1>2, <2>2, <3>1, OneMore
  <2>3. CASE ~Hears(c, e)
    <3>1. p = queue[c] \o <<>>
          BY <1>1, <2>1, <2>3 DEF Heard
    <3>2. p = queue[c]
          BY <1>2, <3>1, ConcatEmptySeq
    <3>3. Followed(queue[c], S, T) => Followed(p, S, T)
          BY <3>2
    <3>4. Meets(p, S) <=> Meets(queue[c], S)
          BY <3>2
    <3> QED BY <1>2, <2>3, <3>2, <3>3, <3>4
  <2> QED BY <2>2, <2>3
<1>5. <<d>>[1] = d /\ <<d>> # <<>>
      OBVIOUS
<1>6. CASE Hears(c, d)
  <2>1. queue'[c] = Behind(p, d)
        BY <1>3, <1>5, <1>6 DEF Heard, Behind
  <2>2. /\ Meets(queue'[c], S) <=> Meets(p, S) \/ d \in S
        /\ d \in T => Followed(queue'[c], S, T)
        /\ Followed(p, S, T) /\ (d \in S => d \in T) => Followed(queue'[c], S, T)
        BY <1>4, <2>1, OneMore
  <2> QED BY <1>4, <1>6, <2>2
<1>7. CASE ~Hears(c, d)
  <2>1. queue'[c] = p \o <<>>
        BY <1>3, <1>5, <1>7 DEF Heard
  <2>2. queue'[c] = p
        BY <1>4, <2>1, ConcatEmptySeq
  <2>3. /\ Followed(p, S, T) => Followed(queue'[c], S, T)
        /\ Meets(queue'[c], S) <=> Meets(p, S)
        BY <2>2
  <2> QED BY <1>4, <1>7, <2>2, <2>3
<1> QED BY <1>6, <1>7

(* A room of which nothing is in doubt: every connection heard.            *)
LEMMA NoDoubt ==
    ASSUME NEW e, NEW d, Send(<<e>>, <<>>) \/ Send(<<e>>, <<d>>)
    PROVE  /\ hazy \subseteq hazy' /\ dim \subseteq dim'
           /\ \A c \in Conn : ~IsCount(e) /\ e.room \notin hazy' => Hears(c, e)
           /\ \A c \in Conn : IsCount(e) /\ e.room \notin dim' => Hears(c, e)
           /\ Send(<<e>>, <<d>>) =>
                 \A c \in Conn : IsCount(d) /\ d.room \notin dim' => Hears(c, d)
<1>1. Range(<<e>>) = {e} /\ Range(<<d>>) = {d} /\ Range(<<>>) = {}
  <2>1. \A x : Range(<<x>>) = {x}
    <3> TAKE x
    <3>1. DOMAIN <<x>> = {1} /\ <<x>>[1] = x
          OBVIOUS
    <3> QED BY <3>1 DEF Range
  <2>2. Range(<<>>) = {}
        BY DEF Range
  <2> QED BY <2>1, <2>2
<1>2. ASSUME NEW es, es \in {<<>>, <<d>>}, Send(<<e>>, es)
      PROVE  /\ hazy \subseteq hazy' /\ dim \subseteq dim'
             /\ \A x \in {e} \cup Range(es), c \in Conn :
                   /\ ~IsCount(x) /\ x.room \notin hazy' => Hears(c, x)
                   /\ IsCount(x) /\ x.room \notin dim' => Hears(c, x)
  <2> DEFINE unheard == {x \in {e} \cup Range(es) : \E c \in Conn : ~Hears(c, x)}
  <2>1. /\ hazy' = hazy \cup {x.room : x \in {y \in unheard : ~IsCount(y)}}
        /\ dim' = dim \cup {x.room : x \in {y \in unheard : IsCount(y)}}
        BY <1>1, <1>2 DEF Send
  <2>2. \A x \in {e} \cup Range(es), c \in Conn : ~Hears(c, x) => x \in unheard
        OBVIOUS
  <2> HIDE DEF unheard
  <2> QED BY <2>1, <2>2
<1>3. CASE Send(<<e>>, <<>>) /\ ~Send(<<e>>, <<d>>)
      BY <1>1, <1>2, <1>3
<1>4. CASE Send(<<e>>, <<d>>)
      BY <1>1, <1>2, <1>4
<1> QED BY <1>3, <1>4

----------------------------------------------------------------------------
(* Rows, and lists of them.                                                *)

LEMMA RowIds == ASSUME RowsOK PROVE RowId = DOMAIN rows /\ DOMAIN rows \subseteq Nat
<1>1. RowId = DOMAIN rows
      BY LenProperties DEF RowsOK, RowId
<1>2. RowId \subseteq Nat
      BY RowOK
<1> QED BY <1>1, <1>2

LEMMA StillReal ==
    ASSUME NEW tab, NEW new, RowsKept(tab, new)
    PROVE  /\ \A s : Exist(tab, s) => Exist(new, s)
           /\ \A s, r : Exist(tab, s) /\ OfRoom(tab, s, r) => OfRoom(new, s, r)
           /\ \A e : SentOK(tab, e) => SentOK(new, e)
           /\ \A q : Meets(q, Wrong(new)) => Meets(q, Wrong(tab))
<1>1. ASSUME NEW s, Exist(tab, s)
      PROVE  Exist(new, s) /\ \A r : OfRoom(tab, s, r) => OfRoom(new, s, r)
      BY <1>1 DEF Exist, OfRoom, RowsKept
<1>2. ASSUME NEW e, SentOK(tab, e) PROVE SentOK(new, e)
      BY <1>2 DEF SentOK, RowsKept
<1>3. Wrong(new) \subseteq Wrong(tab)
      BY <1>2 DEF Wrong
<1> QED BY <1>1, <1>2, <1>3 DEF Meets

(* An answer of the server lists the rows it is of, as they are.           *)
LEMMA AnswersSay ==
    ASSUME RowsOK, NEW S \in SUBSET RowId, NEW a \in AnswerOf(S)
    PROVE  /\ \A k \in DOMAIN a : a[k].id \in S /\ ~a[k].gone /\ a[k].rev = rows[a[k].id].rev
           /\ \A i \in S : \E k \in DOMAIN a : a[k].id = i
<1> DEFINE n == Cardinality(S)
<1>1. PICK f \in Ascending(S) : a = [k \in DOMAIN f |-> MessageDto(f[k], rows[f[k]])]
      BY DEF AnswerOf
<1>2. IsFiniteSet(S) /\ n \in Nat
  <2>1. IsFiniteSet(RowId)
        BY LenProperties, FS_Interval DEF RowId, RowsOK
  <2> QED BY <2>1, FS_Subset, FS_CardinalityType
<1>3. f \in [1..n -> S] /\ \A j, k \in DOMAIN f : j < k => f[j] < f[k]
      BY DEF Ascending
<1>4. S \subseteq Nat
      BY RowIds
<1>5. \A k \in DOMAIN a : k \in 1..n /\ a[k] = MessageDto(f[k], rows[f[k]]) /\ f[k] \in S
      BY <1>1, <1>3
<1>6. \A k \in DOMAIN a : a[k].id \in S /\ ~a[k].gone /\ a[k].rev = rows[a[k].id].rev
      BY <1>5 DEF MessageDto
<1>7. ASSUME NEW i \in S PROVE \E k \in DOMAIN a : a[k].id = i
  <2>1. \A j, k \in 1..n : f[j] = f[k] => j = k
    <3> SUFFICES ASSUME NEW j \in 1..n, NEW k \in 1..n, f[j] = f[k] PROVE j = k
        OBVIOUS
    <3>1. f[j] \in Nat /\ f[k] \in Nat /\ DOMAIN f = 1..n
          BY <1>3, <1>4
    <3>2. ~(j < k) /\ ~(k < j)
          BY <1>3, <3>1
    <3> QED BY <1>2, <3>2
  <2>2. f \in Injection(1..n, S)
        BY <1>3, <2>1 DEF Injection, IsInjective
  <2>3. Cardinality(1..n) = n /\ IsFiniteSet(1..n)
        BY <1>2, FS_Interval
  <2>4. f \in Surjection(1..n, S)
        BY <1>2, <2>2, <2>3, FS_Injection DEF n
  <2>5. PICK k \in 1..n : f[k] = i
        BY <2>4 DEF Surjection
  <2>6. k \in DOMAIN a /\ a[k].id = i
        BY <1>1, <1>3, <2>5 DEF MessageDto
  <2> QED BY <2>6
<1> QED BY <1>6, <1>7

(* What the reducer makes of a room's list: what was there stays in its    *)
(* place, and only the event's own message changes.                        *)
Untouched(s, t, k) ==
    k \in DOMAIN s /\ t[k].id = s[k].id /\ t[k].rev = s[k].rev /\ t[k].gone = s[k].gone

LEMMA ReducedSays ==
    ASSUME ItemsOK, NEW e \in Events, NEW s, s = items[e.room], NEW t, t = Reduced(e)
    PROVE  /\ \A k \in DOMAIN s : k \in DOMAIN t /\ t[k].id = s[k].id
           /\ \A k \in DOMAIN t : \/ Untouched(s, t, k)
                                  \/ e.kind \in {"message", "edited"} /\ t[k] = e.data
                                  \/ /\ e.kind = "deleted" /\ t[k].id = e.data /\ t[k].gone
                                     /\ k \in DOMAIN s /\ t[k].rev = s[k].rev
           /\ e.kind = "message" => \E k \in DOMAIN t : t[k].id = e.data.id
           /\ e.kind = "edited" => \A k \in DOMAIN t : t[k].id = e.data.id => t[k] = e.data
           /\ e.kind = "deleted" => \A k \in DOMAIN t : t[k].id = e.data => t[k].gone
           /\ IsCount(e) => t = s
<1>1. e.room \in Room /\ s \in Lists
      BY EventCases DEF ItemsOK
<1>2. s \in Seq(Message)
      BY <1>1 DEF Lists
<1>3. CASE e.kind = "message"
  <2>1. t = IF InList(e.room, e.data.id) THEN s ELSE Append(s, e.data)
        BY <1>3 DEF Reduced, IsCount, AddMessage
  <2>2. CASE InList(e.room, e.data.id)
        BY <1>3, <2>1, <2>2 DEF InList, Untouched, IsCount
  <2>3. CASE ~InList(e.room, e.data.id)
    <3>1. e.data \in Message
          BY <1>3, EventCases
    <3>2. /\ Len(t) = Len(s) + 1 /\ t[Len(s) + 1] = e.data /\ t \in Seq(Message)
          /\ \A i \in 1..Len(s) : t[i] = s[i]
          BY <1>2, <2>1, <2>3, <3>1, AppendProperties
    <3>3. DOMAIN s = 1..Len(s) /\ Len(s) \in Nat /\ DOMAIN t = 1..(Len(s) + 1)
          BY <1>2, <3>2, LenProperties
    <3>4. Len(s) + 1 \in DOMAIN t /\ \A k \in DOMAIN t : k \in DOMAIN s \/ k = Len(s) + 1
          BY <3>3
    <3>5. \A k \in DOMAIN s : k \in DOMAIN t /\ t[k] = s[k]
          BY <3>2, <3>3
    <3> QED BY <1>3, <3>2, <3>4, <3>5 DEF Untouched, IsCount
  <2> QED BY <2>2, <2>3
<1>4. CASE e.kind \in {"edited", "deleted", "reacted"}
  <2>1. t = [k \in DOMAIN s |-> IF s[k].id = About(e) THEN Changed(s[k], e) ELSE s[k]]
        BY <1>4 DEF Reduced, IsCount
  <2>2. \A k \in DOMAIN s : s[k] \in Message
        BY <1>2, LenProperties, ElementOfSeq
  <2>3. \A k \in DOMAIN s : s[k].id = About(e) =>
            /\ t[k] = Changed(s[k], e) /\ t[k].id = s[k].id
            /\ e.kind = "edited" => t[k] = e.data
            /\ e.kind = "deleted" => t[k].gone /\ t[k].rev = s[k].rev
            /\ e.kind = "reacted" => Untouched(s, t, k)
    <3> SUFFICES ASSUME NEW k \in DOMAIN s, s[k].id = About(e)
                 PROVE  /\ t[k] = Changed(s[k], e) /\ t[k].id = s[k].id
                        /\ e.kind = "edited" => t[k] = e.data
                        /\ e.kind = "deleted" => t[k].gone /\ t[k].rev = s[k].rev
                        /\ e.kind = "reacted" => Untouched(s, t, k)
        OBVIOUS
    <3>1. t[k] = Changed(s[k], e)
          BY <2>1
    <3>2. t[k].id = s[k].id
          BY <1>4, <2>2, <3>1, ChangedOK
    <3>3. CASE e.kind = "edited"
          BY <3>1, <3>2, <3>3 DEF Changed, Edited
    <3>4. CASE e.kind = "deleted"
      <4>1. t[k] = [s[k] EXCEPT !.gone = TRUE]
            BY <3>1, <3>4 DEF Changed, Erased
      <4>2. s[k] \in [id : Nat, by : User, rev : Nat, gone : BOOLEAN, react : SUBSET Entry]
            BY <2>2 DEF Message
      <4>3. t[k].gone /\ t[k].rev = s[k].rev
            BY <4>1, <4>2
      <4> QED BY <3>1, <3>2, <3>4, <4>3
    <3>5. CASE e.kind = "reacted"
      <4>1. t[k] = [s[k] EXCEPT !.react = ReactedList(s[k].react, e.data)]
            BY <3>1, <3>5 DEF Changed, ReactedTo
      <4>2. s[k] \in [id : Nat, by : User, rev : Nat, gone : BOOLEAN, react : SUBSET Entry]
            BY <2>2 DEF Message
      <4>3. t[k].gone = s[k].gone /\ t[k].rev = s[k].rev
            BY <4>1, <4>2
      <4> QED BY <3>1, <3>2, <3>5, <4>3 DEF Untouched
    <3> QED BY <1>4, <3>3, <3>4, <3>5
  <2>4. \A k \in DOMAIN s : s[k].id # About(e) => t[k] = s[k]
        BY <2>1
  <2>5. DOMAIN t = DOMAIN s
        BY <2>1
  <2>6. /\ e.kind = "deleted" => About(e) = e.data
        /\ e.kind = "edited" => About(e) = e.data.id
        BY DEF About
  <2>7. \A k \in DOMAIN s : t[k].id = s[k].id
        BY <2>3, <2>4
  <2>8. \A k \in DOMAIN t : \/ Untouched(s, t, k)
                            \/ e.kind \in {"message", "edited"} /\ t[k] = e.data
                            \/ /\ e.kind = "deleted" /\ t[k].id = e.data /\ t[k].gone
                               /\ k \in DOMAIN s /\ t[k].rev = s[k].rev
    <3> SUFFICES ASSUME NEW k \in DOMAIN t
                 PROVE  \/ Untouched(s, t, k)
                        \/ e.kind \in {"message", "edited"} /\ t[k] = e.data
                        \/ /\ e.kind = "deleted" /\ t[k].id = e.data /\ t[k].gone
                           /\ k \in DOMAIN s /\ t[k].rev = s[k].rev
        OBVIOUS
    <3>1. CASE s[k].id # About(e)
          BY <2>4, <2>5, <3>1 DEF Untouched
    <3>2. CASE s[k].id = About(e)
          BY <1>4, <2>3, <2>5, <2>6, <3>2
    <3> QED BY <3>1, <3>2
  <2>9. /\ e.kind = "edited" => \A k \in DOMAIN t : t[k].id = e.data.id => t[k] = e.data
        /\ e.kind = "deleted" => \A k \in DOMAIN t : t[k].id = e.data => t[k].gone
        BY <2>3, <2>5, <2>6, <2>7
  <2> QED BY <1>4, <2>5, <2>7, <2>8, <2>9 DEF IsCount
<1>5. CASE IsCount(e)
  <2>1. t = s
        BY <1>5 DEF Reduced, IsCount
  <2> QED BY <1>5, <2>1 DEF IsCount, Untouched
<1> QED BY <1>3, <1>4, <1>5, EventCases DEF IsCount

----------------------------------------------------------------------------
(* Lists in step: what the server does.                                    *)

(* Only the text of a row and whether it is gone matter.                   *)
LEMMA SameWord ==
    ASSUME NEW row, NEW new, new.gone = row.gone, new.rev = row.rev, NEW q, NEW i, NEW s, NEW om
    PROVE  /\ Told(row, q, i) => Told(new, q, i)
           /\ Shown(row, q, s, i, om) => Shown(new, q, s, i, om)
BY DEF Told, Shown, Latest

(* What is sent of other messages changes nothing for message i.           *)
LEMMA SentElsewhere ==
    ASSUME QueueOK, NEW e \in Events, NEW d \in Events,
           Send(<<e>>, <<>>) \/ Send(<<e>>, <<d>>),
           NEW i, e \notin Texts(i) \cup Erasures(i), d \notin Texts(i) \cup Erasures(i),
           NEW row, NEW s, NEW om
    PROVE  /\ Told(row, queue, i) => Told(row, queue', i)
           /\ Shown(row, queue, s, i, om) => Shown(row, queue', s, i, om)
<1>1. ASSUME NEW c \in Conn, NEW S \in SUBSET (Texts(i) \cup Erasures(i)), NEW T
      PROVE  /\ Meets(queue[c], S) => Meets(queue'[c], S)
             /\ Followed(queue[c], S, T) => Followed(queue'[c], S, T)
  <2>1. e \notin S /\ d \notin S
        OBVIOUS
  <2>2. CASE Send(<<e>>, <<>>)
        BY <2>1, <2>2, SentOne
  <2>3. CASE Send(<<e>>, <<d>>)
        BY <2>1, <2>3, SentTwo
  <2> QED BY <2>2, <2>3
<1>2. /\ Texts(i) \in SUBSET (Texts(i) \cup Erasures(i))
      /\ Posts(i) \in SUBSET (Texts(i) \cup Erasures(i))
      /\ Stale(i, row.rev) \in SUBSET (Texts(i) \cup Erasures(i))
      /\ Fresh(i, row.rev) \in SUBSET (Texts(i) \cup Erasures(i))
      /\ Erasures(i) \in SUBSET (Texts(i) \cup Erasures(i))
      BY DEF Posts, Stale, Fresh
<1>3. ASSUME Told(row, queue, i) PROVE Told(row, queue', i)
      BY <1>1, <1>2, <1>3 DEF Told
<1>4. ASSUME Shown(row, queue, s, i, om) PROVE Shown(row, queue', s, i, om)
  <2>1. Lost(queue, s, i) => Lost(queue', s, i)
        BY <1>1, <1>2 DEF Lost
  <2>2. Listed(queue, s, i) => Listed(queue', s, i)
        BY <1>1, <1>2 DEF Listed
  <2>3. Latest(row, queue, s, i) => Latest(row, queue', s, i)
        BY <1>1, <1>2 DEF Latest
  <2> QED BY <1>4, <2>1, <2>2, <2>3 DEF Shown
<1> QED BY <1>3, <1>4

LEMMA HomeKept ==
    ASSUME Real, Home, UNCHANGED <<items, load>>, RowsKept(rows, rows'), hazy \subseteq hazy'
    PROVE  Home'
<1> SUFFICES ASSUME NEW r \in Room, r \notin hazy', ~Overtaken(r)' PROVE OfRoom(rows', Coming(r)', r)
    BY DEF Home
<1>1. Coming(r)' = Coming(r) /\ (Overtaken(r)' <=> Overtaken(r))
      BY DEF Coming, Overtaken
<1>2. Exist(rows, Coming(r)) /\ OfRoom(rows, Coming(r), r)
      BY <1>1 DEF Home, Real, Coming
<1>3. OfRoom(rows', Coming(r), r)
      BY <1>2, StillReal
<1> QED BY <1>1, <1>3

(* A handler changes rows and sends events about them.                     *)
LEMMA SyncSent ==
    ASSUME QueueOK, SyncInv, NEW e \in Events, NEW d \in Events,
           Send(<<e>>, <<>>) \/ Send(<<e>>, <<d>>),
           UNCHANGED <<items, beyond, load>>, RowsKept(rows, rows'),
           SentOK(rows', e), SentOK(rows', d),
           \A i \in deletions' : i \in DOMAIN rows' /\ rows'[i].gone, Brought',
           \A i \in DOMAIN rows' : rows'[i].room \notin hazy' =>
               \/ rows'[i].back \/ Synced(i)'
               \/ /\ i \in DOMAIN rows /\ rows'[i].gone = rows[i].gone /\ rows'[i].rev = rows[i].rev
                  /\ e \notin Texts(i) \cup Erasures(i) /\ d \notin Texts(i) \cup Erasures(i)
    PROVE  SyncInv'
<1>1. hazy \subseteq hazy'
      BY NoDoubt
<1>2. \A c \in Conn : ~Meets(queue'[c], Wrong(rows'))
  <2> SUFFICES ASSUME NEW c \in Conn PROVE ~Meets(queue'[c], Wrong(rows'))
      OBVIOUS
  <2>1. ~Meets(queue[c], Wrong(rows'))
        BY StillReal DEF SyncInv, Real
  <2>2. e \notin Wrong(rows') /\ d \notin Wrong(rows')
        BY DEF Wrong
  <2>3. CASE Send(<<e>>, <<>>)
        BY <2>1, <2>2, <2>3, SentOne
  <2>4. CASE Send(<<e>>, <<d>>)
        BY <2>1, <2>2, <2>4, SentTwo
  <2> QED BY <2>3, <2>4
<1>3. Real'
  <2>1. \A r \in Room : Exist(rows', items[r]) /\ Exist(rows', load[r].rows)
        BY StillReal DEF SyncInv, Real
  <2>2. \A r \in Room : Exist(rows', items'[r]) /\ Exist(rows', load'[r].rows)
        BY <2>1
  <2> QED BY <1>2, <2>2 DEF SyncInv, Real
<1>4. ASSUME NEW i \in DOMAIN rows, rows'[i].room \notin hazy',
             ~rows'[i].back, rows'[i].gone = rows[i].gone, rows'[i].rev = rows[i].rev,
             e \notin Texts(i) \cup Erasures(i), d \notin Texts(i) \cup Erasures(i)
      PROVE  Synced(i)'
  <2>1. PICK r : r = rows[i].room /\ r = rows'[i].room
        BY DEF RowsKept
  <2>2. Synced(i)
        BY <1>1, <1>4, <2>1 DEF SyncInv, RowsKept
  <2>3. Told(rows[i], queue', i)
        BY <1>4, <2>2, SentElsewhere DEF Synced
  <2>4. Told(rows'[i], queue', i)
        BY <1>4, <2>3, SameWord
  <2>5. (Overtaken(r)' <=> Overtaken(r)) /\ Coming(r)' = Coming(r) /\ Omitted(r)' = Omitted(r)
        BY DEF Overtaken, Coming, Omitted
  <2>6. Shown(rows[i], queue, Coming(r), i, Omitted(r)) => Shown(rows'[i], queue', Coming(r), i, Omitted(r))
        BY <1>4, SentElsewhere, SameWord
  <2>7. Overtaken(r) \/ Shown(rows[i], queue, Coming(r), i, Omitted(r))
        BY <2>1, <2>2 DEF Synced
  <2>8. Overtaken(r)' \/ Shown(rows'[i], queue', Coming(r)', i, Omitted(r)')
        BY <2>5, <2>6, <2>7
  <2> QED BY <2>1, <2>4, <2>8 DEF Synced
<1>5. Home'
      BY <1>1, HomeKept DEF SyncInv
<1> QED BY <1>3, <1>4, <1>5 DEF SyncInv

LEMMA NeverMet == ASSUME NEW q, NEW S, ~Meets(q, S), NEW T PROVE Followed(q, S, T)
BY DEF Meets, Followed

LEMMA OthersMessage ==
    ASSUME NEW i
    PROVE  /\ \A e : e.kind \in {"message", "edited"} /\ e.data.id # i
                        => e \notin Texts(i) \cup Erasures(i)
           /\ \A e : e.kind = "deleted" /\ e.data # i => e \notin Texts(i) \cup Erasures(i)
           /\ \A e : e.kind \in {"room", "unread", "reacted"} => e \notin Texts(i) \cup Erasures(i)
BY DEF Texts, Erasures

LEMMA PostSync ==
    ASSUME ClientInv, SyncInv, NEW u \in User, NEW r \in Room, Post(u, r) PROVE SyncInv'
<1> DEFINE row == [room |-> r, by |-> u, rev |-> 0, gone |-> FALSE, back |-> FALSE, react |-> [v \in User |-> None]]
           new == Append(rows, row)
<1>1. PICK n : n = Len(new)
      OBVIOUS
<1> DEFINE e == Event("message", r, MessageDto(n, row))
           d == Event("room", r, UnreadOf(new, r, lastRead[r]))
<1>2. rows' = new /\ Send(<<e>>, IF u = Me THEN <<>> ELSE <<d>>)
      BY <1>1 DEF Post
<1>3. UNCHANGED <<items, beyond, load, deletions>>
      BY DEF Post, page, asks
<1>4. row \in Row /\ row.room = r /\ row.rev = 0 /\ ~row.gone /\ ~row.back
      BY DEF Row
<1>5. rows \in Seq(Row) /\ QueueOK
      BY DEF ClientInv, RowsOK
<1> HIDE DEF row
<1>6. /\ new \in Seq(Row) /\ n = Len(rows) + 1 /\ new[n] = row
      /\ \A i \in 1..Len(rows) : new[i] = rows[i]
      BY <1>1, <1>4, <1>5, AppendProperties
<1>7. /\ DOMAIN rows = 1..Len(rows) /\ Len(rows) \in Nat /\ DOMAIN new = 1..n
      BY <1>5, <1>6, LenProperties
<1>8. n \in Nat /\ n \in DOMAIN new /\ n \notin DOMAIN rows
      BY <1>6, <1>7
<1>9. \A i \in DOMAIN new : i = n \/ i \in DOMAIN rows
      BY <1>6, <1>7
<1>10. \A i \in DOMAIN rows : i \in DOMAIN new /\ new[i] = rows[i]
      BY <1>6, <1>7
<1>11. /\ MessageDto(n, row) \in Message
       /\ e.kind = "message" /\ e.room = r /\ e.data.id = n /\ e.data.rev = 0 /\ ~e.data.gone
       BY <1>4, <1>8, MessageDtoOK DEF Event, MessageDto
<1>12. e \in Events /\ d \in Events /\ d.kind = "room"
       BY <1>6, <1>11, PostedOK, UnreadNat, NumberedOK DEF Event
<1> HIDE DEF e, d, new
<1>13. Send(<<e>>, <<>>) \/ Send(<<e>>, <<d>>)
       BY <1>2
<1>14. RowsKept(rows, rows')
       BY <1>2, <1>10 DEF RowsKept
<1>15. SentOK(rows', e) /\ SentOK(rows', d)
       BY <1>2, <1>4, <1>6, <1>8, <1>11, <1>12 DEF SentOK
<1>16. \A i \in deletions' : i \in DOMAIN rows' /\ rows'[i].gone
       BY <1>2, <1>3, <1>10 DEF SyncInv, Real
<1>20. Brought'
       BY <1>2, <1>4, <1>6, <1>9, <1>10 DEF SyncInv, Real, Brought
<1>17. ASSUME NEW i \in DOMAIN rows, i # n
       PROVE  /\ rows'[i].gone = rows[i].gone /\ rows'[i].rev = rows[i].rev
              /\ e \notin Texts(i) \cup Erasures(i) /\ d \notin Texts(i) \cup Erasures(i)
       BY <1>2, <1>10, <1>11, <1>12, <1>17, OthersMessage
<1>18. ASSUME r \notin hazy' PROVE Synced(n)'
  <2>1. rows'[n] = row
        BY <1>2, <1>6
  <2>2. ASSUME NEW c \in Conn PROVE ~Meets(queue'[c], Stale(n, 0)) /\ Meets(queue'[c], Posts(n))
    <3>1. Stale(n, 0) \subseteq Wrong(rows)
          BY <1>8 DEF Stale, Texts, Wrong, SentOK
    <3>2. ~Meets(queue[c], Stale(n, 0))
          BY <3>1 DEF Meets, SyncInv, Real
    <3>3. e \notin Stale(n, 0) /\ d \notin Stale(n, 0) /\ e \in Posts(n)
          BY <1>11, <1>12 DEF Stale, Texts, Posts
    <3>4. Hears(c, e)
          BY <1>11, <1>13, <1>18, NoDoubt DEF IsCount
    <3>5. CASE Send(<<e>>, <<>>)
          BY <1>5, <1>12, <3>2, <3>3, <3>4, <3>5, SentOne
    <3>6. CASE Send(<<e>>, <<d>>)
          BY <1>5, <1>12, <3>2, <3>3, <3>4, <3>6, SentTwo
    <3> QED BY <1>13, <3>5, <3>6
  <2>3. Told(row, queue', n)
        BY <1>4, <2>2, NeverMet DEF Told
  <2>4. \A k \in DOMAIN Coming(r) : Coming(r)[k].id # n
        BY <1>8 DEF SyncInv, Real, Exist, Coming
  <2>5. Shown(row, queue', Coming(r), n, Omitted(r))
        BY <1>4, <2>2, <2>4 DEF Shown, Listed, Latest
  <2>6. Coming(r)' = Coming(r) /\ Omitted(r)' = Omitted(r)
        BY <1>3 DEF Coming, Omitted
  <2> QED BY <1>4, <2>1, <2>3, <2>5, <2>6 DEF Synced
<1>19. \A i \in DOMAIN rows' : rows'[i].room \notin hazy' =>
           \/ Synced(i)'
           \/ /\ i \in DOMAIN rows /\ rows'[i].gone = rows[i].gone /\ rows'[i].rev = rows[i].rev
              /\ e \notin Texts(i) \cup Erasures(i) /\ d \notin Texts(i) \cup Erasures(i)
  <2> SUFFICES ASSUME NEW i \in DOMAIN rows', rows'[i].room \notin hazy'
               PROVE  \/ Synced(i)'
                      \/ /\ i \in DOMAIN rows
                         /\ rows'[i].gone = rows[i].gone /\ rows'[i].rev = rows[i].rev
                         /\ e \notin Texts(i) \cup Erasures(i) /\ d \notin Texts(i) \cup Erasures(i)
      OBVIOUS
  <2>1. CASE i = n
        BY <1>2, <1>4, <1>6, <1>18, <2>1
  <2>2. CASE i # n
        BY <1>2, <1>9, <1>17, <2>2
  <2> QED BY <2>1, <2>2
<1> QED BY <1>3, <1>5, <1>12, <1>13, <1>14, <1>15, <1>16, <1>19, <1>20, SyncSent

LEMMA EditSync ==
    ASSUME ClientInv, SyncInv, NEW i \in RowId, Edit(i) PROVE SyncInv'
<1> DEFINE known == rows[i].back \/ rows[i].gone
           row == [rows[i] EXCEPT !.rev = rows[i].rev + 1, !.back = known]
           r == rows[i].room
           e == Event("edited", r, MessageDto(i, rows'[i]))
<1>1. rows' = [rows EXCEPT ![i] = row] /\ Send(<<e>>, <<>>) /\ UNCHANGED <<items, beyond, load, deletions>>
      BY DEF Edit, Change, page
<1>2. i \in Nat /\ rows[i] \in Row /\ r \in Room /\ QueueOK
      BY RowOK DEF ClientInv
<1>3. row \in Row /\ row.room = r /\ row.gone = rows[i].gone /\ (row.back <=> known)
      BY <1>2, EditedRow
<1>4. i \in DOMAIN rows
      BY RowIds DEF ClientInv
<1> HIDE DEF row, r, known
<1>5. /\ rows'[i] = row /\ DOMAIN rows' = DOMAIN rows
      /\ \A j \in DOMAIN rows : j # i => rows'[j] = rows[j]
      BY <1>1, <1>4
<1>6. /\ MessageDto(i, row) \in Message
      /\ e.kind = "edited" /\ e.room = r /\ e.data.id = i /\ e.data.rev = row.rev /\ ~e.data.gone
      BY <1>2, <1>3, <1>5, MessageDtoOK DEF Event, MessageDto
<1>7. e \in Events
      BY <1>2, <1>5, <1>6, PostedOK
<1> HIDE DEF e
<1>8. RowsKept(rows, rows')
      BY <1>2, <1>3, <1>4, <1>5 DEF RowsKept, r, known
<1>9. SentOK(rows', e)
      BY <1>3, <1>4, <1>5, <1>6 DEF SentOK
<1>10. \A j \in deletions' : j \in DOMAIN rows' /\ rows'[j].gone
       BY <1>1, <1>8 DEF SyncInv, Real, RowsKept
<1>14. Brought'
       BY <1>3, <1>4, <1>5 DEF SyncInv, Real, Brought, known
<1>11. ASSUME r \notin hazy', ~row.back PROVE Synced(i)'
  <2>0. ~rows[i].gone /\ ~rows[i].back
        BY <1>3, <1>11 DEF known
  <2>1. ASSUME NEW c \in Conn
        PROVE  /\ Followed(queue'[c], Stale(i, row.rev), Fresh(i, row.rev))
               /\ Meets(queue'[c], Fresh(i, row.rev))
               /\ Meets(queue[c], Posts(i)) => Meets(queue'[c], Posts(i))
    <3>1. Hears(c, e)
          BY <1>1, <1>6, <1>11, NoDoubt DEF IsCount
    <3>2. e \in Fresh(i, row.rev)
          BY <1>6, <1>7 DEF Fresh, Texts
    <3> QED BY <1>1, <1>2, <1>7, <3>1, <3>2, SentOne
  <2>2. Told(row, queue', i)
        BY <2>0, <1>3, <2>1 DEF Told
  <2>3. r \notin hazy
        BY <1>1, <1>11, NoDoubt
  <2>4. Overtaken(r) \/ Shown(rows[i], queue, Coming(r), i, Omitted(r))
        BY <1>4, <2>0, <2>3 DEF SyncInv, Synced, r
  <2>5. Link \in Conn
        BY ClientAssumption
  <2>6. Shown(rows[i], queue, Coming(r), i, Omitted(r)) => Shown(row, queue', Coming(r), i, Omitted(r))
        BY <2>0, <1>3, <2>1, <2>5 DEF Shown, Listed, Latest
  <2>7. PICK x : x = r
        OBVIOUS
  <2>8. Coming(x)' = Coming(x) /\ (Overtaken(x)' <=> Overtaken(x)) /\ Omitted(x)' = Omitted(x)
        BY <1>1 DEF Coming, Overtaken, Omitted
  <2>9. Overtaken(x)' \/ Shown(row, queue', Coming(x)', i, Omitted(x)')
        BY <2>4, <2>6, <2>7, <2>8
  <2> QED BY <1>3, <1>5, <2>2, <2>7, <2>9 DEF Synced
<1>12. ASSUME NEW j \in DOMAIN rows, j # i
       PROVE  /\ rows'[j].gone = rows[j].gone /\ rows'[j].rev = rows[j].rev
              /\ e \notin Texts(j) \cup Erasures(j)
       BY <1>5, <1>6, <1>12, OthersMessage
<1>13. \A j \in DOMAIN rows' : rows'[j].room \notin hazy' =>
           \/ rows'[j].back \/ Synced(j)'
           \/ /\ j \in DOMAIN rows /\ rows'[j].gone = rows[j].gone /\ rows'[j].rev = rows[j].rev
              /\ e \notin Texts(j) \cup Erasures(j)
       BY <1>3, <1>5, <1>11, <1>12
<1> QED BY <1>1, <1>2, <1>7, <1>8, <1>9, <1>10, <1>13, <1>14, SyncSent

LEMMA DeleteSync ==
    ASSUME ClientInv, SyncInv, NEW i \in RowId, Delete(i) PROVE SyncInv'
<1> DEFINE row == [rows[i] EXCEPT !.gone = TRUE]
           r == rows[i].room
           e == Event("deleted", r, i)
           d == Event("room", r, UnreadKept(rows', r, lastRead[r]))
<1>1. /\ rows' = [rows EXCEPT ![i] = row] /\ Send(<<e>>, <<d>>) /\ UNCHANGED <<items, beyond, load>>
      /\ deletions' \subseteq deletions \cup {i}
      BY DEF Delete, Change, page
<1>2. i \in Nat /\ rows[i] \in Row /\ r \in Room /\ QueueOK
      BY RowOK DEF ClientInv
<1>3. row \in Row /\ row.room = r /\ row.gone /\ row.rev = rows[i].rev /\ row.back = rows[i].back
      BY <1>2 DEF Row
<1>4. i \in DOMAIN rows
      BY RowIds DEF ClientInv
<1> HIDE DEF row, r
<1>5. /\ rows'[i] = row /\ DOMAIN rows' = DOMAIN rows
      /\ \A j \in DOMAIN rows : j # i => rows'[j] = rows[j]
      BY <1>1, <1>4
<1>6. RowsOK'
      BY <1>1, <1>3, RowChanged DEF ClientInv
<1>7. UnreadKept(rows', r, lastRead[r]) \in Nat
      BY <1>6, UnreadNat DEF RowsOK
<1>8. /\ e \in Events /\ e.kind = "deleted" /\ e.room = r /\ e.data = i
      /\ d \in Events /\ d.kind = "room"
      BY <1>2, <1>7, NumberedOK DEF Event
<1> HIDE DEF e, d
<1>9. RowsKept(rows, rows')
      BY <1>3, <1>4, <1>5 DEF RowsKept, r
<1>10. SentOK(rows', e) /\ SentOK(rows', d)
       BY <1>3, <1>4, <1>5, <1>8 DEF SentOK
<1>11. \A j \in deletions' : j \in DOMAIN rows' /\ rows'[j].gone
       BY <1>1, <1>3, <1>4, <1>5, <1>9 DEF SyncInv, Real, RowsKept
<1>15. Brought'
       BY <1>3, <1>5 DEF SyncInv, Real, Brought
<1>12. ASSUME r \notin hazy' PROVE Synced(i)'
  <2>1. ASSUME NEW c \in Conn
        PROVE  /\ Followed(queue'[c], Texts(i), Erasures(i))
               /\ Meets(queue'[c], Erasures(i))
    <3>1. Hears(c, e)
          BY <1>1, <1>8, <1>12, NoDoubt DEF IsCount
    <3>2. e \in Erasures(i) /\ d \notin Texts(i)
          BY <1>8 DEF Texts, Erasures
    <3> QED BY <1>1, <1>2, <1>8, <3>1, <3>2, SentTwo
  <2>2. Told(row, queue', i)
        BY <1>3, <2>1 DEF Told
  <2>3. Link \in Conn
        BY ClientAssumption
  <2>4. \A s, om : Shown(row, queue', s, i, om)
        BY <1>3, <2>1, <2>3 DEF Shown, Lost
  <2> QED BY <1>3, <1>5, <2>2, <2>4 DEF Synced
<1>13. ASSUME NEW j \in DOMAIN rows, j # i
       PROVE  /\ rows'[j].gone = rows[j].gone /\ rows'[j].rev = rows[j].rev
              /\ e \notin Texts(j) \cup Erasures(j) /\ d \notin Texts(j) \cup Erasures(j)
       BY <1>5, <1>8, <1>13, OthersMessage
<1>14. \A j \in DOMAIN rows' : rows'[j].room \notin hazy' =>
           \/ Synced(j)'
           \/ /\ j \in DOMAIN rows /\ rows'[j].gone = rows[j].gone /\ rows'[j].rev = rows[j].rev
              /\ e \notin Texts(j) \cup Erasures(j) /\ d \notin Texts(j) \cup Erasures(j)
       BY <1>3, <1>5, <1>12, <1>13
<1> QED BY <1>1, <1>2, <1>8, <1>9, <1>10, <1>11, <1>14, <1>15, SyncSent

LEMMA ReactSync ==
    ASSUME ClientInv, SyncInv, NEW u \in User, NEW i \in RowId, NEW x \in Emoji, React(u, i, x)
    PROVE  SyncInv'
<1> DEFINE removed == rows[i].react[u] = x
           row == [rows[i] EXCEPT !.react[u] = IF removed THEN None ELSE x]
           r == rows[i].room
           e == Event("reacted", r,
                      [id |-> i, name |-> <<u, "live">>, emoji |-> x, removed |-> removed])
<1>1. rows' = [rows EXCEPT ![i] = row] /\ Send(<<e>>, <<>>) /\ UNCHANGED <<items, beyond, load, deletions>>
      BY DEF React, Change, page
<1>2. i \in Nat /\ rows[i] \in Row /\ r \in Room /\ QueueOK
      BY RowOK DEF ClientInv
<1>3. row \in Row /\ row.room = r /\ row.gone = rows[i].gone /\ row.rev = rows[i].rev
      /\ row.back = rows[i].back
      BY <1>2 DEF Row
<1>4. i \in DOMAIN rows
      BY RowIds DEF ClientInv
<1>5. removed \in BOOLEAN
      OBVIOUS
<1> HIDE DEF row, r, removed
<1>6. /\ rows'[i] = row /\ DOMAIN rows' = DOMAIN rows
      /\ \A j \in DOMAIN rows : j # i => rows'[j] = rows[j]
      BY <1>1, <1>4
<1>7. e \in Events /\ e.kind = "reacted"
      BY <1>2, <1>5, GivenOK DEF Event
<1> HIDE DEF e
<1>8. RowsKept(rows, rows')
      BY <1>3, <1>4, <1>6 DEF RowsKept, r
<1>9. SentOK(rows', e)
      BY <1>7 DEF SentOK
<1>10. \A j \in deletions' : j \in DOMAIN rows' /\ rows'[j].gone
       BY <1>1, <1>8 DEF SyncInv, Real, RowsKept
<1>12. Brought'
       BY <1>3, <1>4, <1>6 DEF SyncInv, Real, Brought
<1>11. \A j \in DOMAIN rows' :
           /\ j \in DOMAIN rows /\ rows'[j].gone = rows[j].gone /\ rows'[j].rev = rows[j].rev
           /\ e \notin Texts(j) \cup Erasures(j)
       BY <1>3, <1>6, <1>7, OthersMessage
<1> QED BY <1>1, <1>2, <1>7, <1>8, <1>9, <1>10, <1>11, <1>12, SyncSent

LEMMA SyncSame ==
    ASSUME SyncInv, UNCHANGED <<rows, queue, items, beyond, load, deletions>>, hazy \subseteq hazy'
    PROVE  SyncInv'
<1>1. Real'
      BY DEF SyncInv, Real, Brought
<1>2. ASSUME NEW i \in DOMAIN rows, Synced(i) PROVE Synced(i)'
  <2>1. PICK r : r = rows[i].room
        OBVIOUS
  <2>2. Coming(r)' = Coming(r) /\ (Overtaken(r)' <=> Overtaken(r)) /\ Omitted(r)' = Omitted(r)
        BY DEF Coming, Overtaken, Omitted
  <2>3. Told(rows[i], queue, i) /\ (Overtaken(r) \/ Shown(rows[i], queue, Coming(r), i, Omitted(r)))
        BY <1>2, <2>1 DEF Synced
  <2>4. Told(rows'[i], queue', i) /\ (Overtaken(r)' \/ Shown(rows'[i], queue', Coming(r)', i, Omitted(r)'))
        BY <2>2, <2>3
  <2> QED BY <2>1, <2>4 DEF Synced
<1>3. RowsKept(rows, rows')
      BY DEF RowsKept
<1>4. Home'
      BY <1>3, HomeKept DEF SyncInv
<1> QED BY <1>1, <1>2, <1>4 DEF SyncInv

LEMMA HubCallSync == ASSUME ClientInv, SyncInv, HubCall PROVE SyncInv'
<1> DEFINE r == Head(calls).room
           e == Event("unread", r, UnreadKept(rows, r, lastRead'[r]))
           d == Event("room", r, 0)
<1>1. UNCHANGED <<rows, items, beyond, load, deletions>>
      BY DEF HubCall, page, asks
<1>2. \/ Send(<<e>>, IF Incoming(r) = {} THEN <<>> ELSE <<d>>)
      \/ UNCHANGED <<queue, hazy>>
      BY DEF HubCall, doubts
<1>3. r \in Room
  <2>1. calls \in Seq(Call) /\ calls # <<>>
        BY DEF HubCall, ClientInv, CallsOK
  <2>2. Head(calls) \in Call
        BY <2>1, HeadTailProperties
  <2> QED BY <2>2 DEF Call
<1>4. rows \in Seq(Row) /\ QueueOK
      BY DEF ClientInv, RowsOK
<1>5. UnreadKept(rows, r, lastRead'[r]) \in Nat
      BY <1>4, UnreadNat
<1>6. e \in Events /\ d \in Events /\ e.kind = "unread" /\ d.kind = "room"
      BY <1>3, <1>5, NumberedOK DEF Event
<1> HIDE DEF r, e, d
<1>7. CASE Send(<<e>>, IF Incoming(r) = {} THEN <<>> ELSE <<d>>)
  <2>1. Send(<<e>>, <<>>) \/ Send(<<e>>, <<d>>)
        BY <1>7
  <2>2. RowsKept(rows, rows') /\ SentOK(rows', e) /\ SentOK(rows', d)
        BY <1>1, <1>6 DEF RowsKept, SentOK
  <2>3. \A i \in deletions' : i \in DOMAIN rows' /\ rows'[i].gone
        BY <1>1 DEF SyncInv, Real
  <2>5. Brought'
        BY <1>1 DEF SyncInv, Real, Brought
  <2>4. \A i : e \notin Texts(i) \cup Erasures(i) /\ d \notin Texts(i) \cup Erasures(i)
        BY <1>6, OthersMessage
  <2> QED BY <1>1, <1>4, <1>6, <2>1, <2>2, <2>3, <2>4, <2>5, SyncSent
<1>8. CASE UNCHANGED <<queue, hazy>>
      BY <1>1, <1>8, SyncSame
<1> QED BY <1>2, <1>7, <1>8

(* What was on its way on a broken connection is lost, and the rooms it    *)
(* was about are in doubt.                                                 *)
LEMMA DropSync == ASSUME ClientInv, SyncInv, NEW c \in Conn, Drop(c) PROVE SyncInv'
<1>1. /\ queue' = [queue EXCEPT ![c] = <<>>]
      /\ hazy' = hazy \cup {e.room : e \in {x \in Range(queue[c]) : ~IsCount(x)}}
      /\ UNCHANGED <<rows, items, beyond, load, deletions>>
      BY DEF Drop, server, page, asks
<1>2. \A x \in Conn : queue'[x] = IF x = c THEN <<>> ELSE queue[x]
      BY <1>1 DEF ClientInv, QueueOK
<1>3. Real'
  <2>1. \A x \in Conn : ~Meets(queue'[x], Wrong(rows))
        BY <1>2, EmptyQueue DEF SyncInv, Real
  <2> QED BY <1>1, <2>1 DEF SyncInv, Real, Brought
<1>4. ASSUME NEW i \in DOMAIN rows, rows[i].room \notin hazy', ~rows[i].back PROVE Synced(i)'
  <2>1. ~Meets(queue[c], Texts(i) \cup Erasures(i))
    <3> SUFFICES ASSUME NEW k \in DOMAIN queue[c], queue[c][k] \in Texts(i) \cup Erasures(i)
                 PROVE  FALSE
        BY DEF Meets
    <3>1. queue[c][k] \in Range(queue[c]) /\ ~IsCount(queue[c][k])
          BY DEF Texts, Erasures, IsCount, Range
    <3>2. queue[c][k].room \in hazy'
          BY <1>1, <3>1
    <3>3. SentOK(rows, queue[c][k])
          BY DEF SyncInv, Real, Meets, Wrong, Texts, Erasures
    <3>4. queue[c][k].room = rows[i].room
          BY <3>3 DEF SentOK, Texts, Erasures
    <3> QED BY <1>4, <3>2, <3>4
  <2>2. ~Meets(queue[c], Posts(i)) /\ ~Meets(queue[c], Erasures(i)) /\ \A n : ~Meets(queue[c], Fresh(i, n))
        BY <2>1 DEF Meets, Posts, Fresh
  <2>3. PICK r : r = rows[i].room
        OBVIOUS
  <2>4. Told(rows[i], queue, i) /\ (Overtaken(r) \/ Shown(rows[i], queue, Coming(r), i, Omitted(r)))
        BY <1>1, <1>4, <2>3 DEF SyncInv, Synced
  <2>5. Told(rows[i], queue', i)
        BY <1>2, <2>4, EmptyQueue DEF Told
  <2>6. ASSUME NEW s, NEW om, Shown(rows[i], queue, s, i, om) PROVE Shown(rows[i], queue', s, i, om)
    <3>1. Lost(queue, s, i) => Lost(queue', s, i)
          BY <1>2, <2>2 DEF Lost
    <3>2. Listed(queue, s, i) => Listed(queue', s, i)
          BY <2>2 DEF Listed
    <3>3. Latest(rows[i], queue, s, i) => Latest(rows[i], queue', s, i)
          BY <1>2, <2>2 DEF Latest
    <3> QED BY <2>6, <3>1, <3>2, <3>3 DEF Shown
  <2>7. Coming(r)' = Coming(r) /\ (Overtaken(r)' <=> Overtaken(r)) /\ Omitted(r)' = Omitted(r)
        BY <1>1 DEF Coming, Overtaken, Omitted
  <2>8. Told(rows'[i], queue', i) /\ (Overtaken(r)' \/ Shown(rows'[i], queue', Coming(r)', i, Omitted(r)'))
        BY <1>1, <2>4, <2>5, <2>6, <2>7
  <2> QED BY <1>1, <2>3, <2>8 DEF Synced
<1>5. RowsKept(rows, rows') /\ hazy \subseteq hazy'
      BY <1>1 DEF RowsKept
<1>6. Home'
      BY <1>1, <1>5, HomeKept DEF SyncInv
<1> QED BY <1>1, <1>3, <1>4, <1>6 DEF SyncInv

----------------------------------------------------------------------------
(* Lists in step: what the page does.                                      *)

(* The next event of a connection is taken.                                *)
LEMMA NextEvent ==
    ASSUME QueueOK, NEW c \in Conn, queue[c] # <<>>,
           queue' = [queue EXCEPT ![c] = Tail(queue[c])], NEW e, e = Head(queue[c])
    PROVE  /\ e \in Events
           /\ \A S : e \notin S => \A x \in Conn : Meets(queue[x], S) => Meets(queue'[x], S)
           /\ \A S : \A x \in Conn : Meets(queue'[x], S) => Meets(queue[x], S)
           /\ \A S, T : \A x \in Conn : Followed(queue[x], S, T) => Followed(queue'[x], S, T)
           /\ \A S, T : Followed(queue[c], S, T) /\ e \in S /\ e \notin T => Meets(queue'[c], T)
<1>1. queue[c] \in Seq(Events)
      BY DEF QueueOK
<1>2. \A x \in Conn : queue'[x] = IF x = c THEN Tail(queue[c]) ELSE queue[x]
      BY DEF QueueOK
<1>3. e \in Events
      BY <1>1, HeadTailProperties
<1>4. ASSUME NEW S, e \notin S, NEW x \in Conn, Meets(queue[x], S) PROVE Meets(queue'[x], S)
  <2>1. CASE x = c
    <3>1. Meets(Tail(queue[c]), S)
          BY <1>1, <1>4, <2>1, TailMeets
    <3> QED BY <1>2, <2>1, <3>1
  <2>2. CASE x # c
        BY <1>2, <1>4, <2>2
  <2> QED BY <2>1, <2>2
<1>5. ASSUME NEW S, NEW T, NEW x \in Conn, Followed(queue[x], S, T) PROVE Followed(queue'[x], S, T)
  <2>1. CASE x = c
    <3>1. Followed(Tail(queue[c]), S, T)
          BY <1>1, <1>5, <2>1, TailFollowed
    <3> QED BY <1>2, <2>1, <3>1
  <2>2. CASE x # c
        BY <1>2, <1>5, <2>2
  <2> QED BY <2>1, <2>2
<1>6. ASSUME NEW S, NEW T, Followed(queue[c], S, T), e \in S, e \notin T PROVE Meets(queue'[c], T)
  <2>1. Meets(Tail(queue[c]), T)
        BY <1>1, <1>6, TailFollowed
  <2> QED BY <1>2, <2>1
<1>7. ASSUME NEW S, NEW x \in Conn, Meets(queue'[x], S) PROVE Meets(queue[x], S)
  <2>1. CASE x = c
    <3>1. Meets(Tail(queue[c]), S)
          BY <1>2, <1>7, <2>1
    <3>2. Meets(queue[c], S)
          BY <1>1, <3>1, TailEvents DEF Meets
    <3> QED BY <2>1, <3>2
  <2>2. CASE x # c
        BY <1>2, <1>7, <2>2
  <2> QED BY <2>1, <2>2
<1> QED BY <1>3, <1>4, <1>5, <1>6, <1>7

LEMMA NextTold ==
    ASSUME QueueOK, NEW c \in Conn, queue[c] # <<>>,
           queue' = [queue EXCEPT ![c] = Tail(queue[c])],
           NEW row, NEW i, Told(row, queue, i)
    PROVE  Told(row, queue', i)
BY NextEvent DEF Told

(* An event that is not about message i.                                   *)
LEMMA NextElsewhere ==
    ASSUME QueueOK, NEW c \in Conn, queue[c] # <<>>,
           queue' = [queue EXCEPT ![c] = Tail(queue[c])], NEW e, e = Head(queue[c]),
           NEW row, NEW i, NEW s, NEW om, Shown(row, queue, s, i, om), e \notin Texts(i) \cup Erasures(i)
    PROVE  Shown(row, queue', s, i, om)
<1>1. e \notin Erasures(i) /\ e \notin Posts(i) /\ e \notin Fresh(i, row.rev)
      BY DEF Posts, Fresh
<1>2. Lost(queue, s, i) => Lost(queue', s, i)
      BY <1>1, NextEvent DEF Lost
<1>3. Listed(queue, s, i) => Listed(queue', s, i)
      BY <1>1, NextEvent DEF Listed
<1>4. Latest(row, queue, s, i) => Latest(row, queue', s, i)
      BY <1>1, NextEvent DEF Latest
<1> QED BY <1>2, <1>3, <1>4 DEF Shown

(* The reducer keeps a room's list in step with what is still to come.     *)
LEMMA NextShown ==
    ASSUME ClientInv, NEW c \in Conn, queue[c] # <<>>,
           queue' = [queue EXCEPT ![c] = Tail(queue[c])], NEW e, e = Head(queue[c]),
           NEW row, NEW i, Told(row, queue, i), NEW s, s = items[e.room], NEW t, t = Reduced(e),
           NEW om, Shown(row, queue, s, i, om)
    PROVE  Shown(row, queue', t, i, om)
<1> USE DEF ClientInv
<1>1. e \in Events
      BY NextEvent
<1>2. /\ \A k \in DOMAIN s : k \in DOMAIN t /\ t[k].id = s[k].id
      /\ \A k \in DOMAIN t : \/ Untouched(s, t, k)
                             \/ e.kind \in {"message", "edited"} /\ t[k] = e.data
                             \/ /\ e.kind = "deleted" /\ t[k].id = e.data /\ t[k].gone
                                /\ k \in DOMAIN s /\ t[k].rev = s[k].rev
      /\ e.kind = "message" => \E k \in DOMAIN t : t[k].id = e.data.id
      /\ e.kind = "edited" => \A k \in DOMAIN t : t[k].id = e.data.id => t[k] = e.data
      /\ e.kind = "deleted" => \A k \in DOMAIN t : t[k].id = e.data => t[k].gone
      BY <1>1, ReducedSays
<1>3. e \in Texts(i) <=> e.kind \in {"message", "edited"} /\ e.data.id = i
      BY <1>1 DEF Texts
<1>4. e \in Erasures(i) <=> e.kind = "deleted" /\ e.data = i
      BY <1>1 DEF Erasures
<1>5. CASE row.gone
  <2>1. Lost(queue, s, i)
        BY <1>5 DEF Shown
  <2>2. Lost(queue', t, i)
    <3>1. CASE e \in Erasures(i)
          BY <1>2, <1>4, <3>1 DEF Lost
    <3>2. CASE e \in Texts(i)
      <4>1. e \notin Erasures(i)
            BY <1>3, <1>4, <3>2
      <4>2. Meets(queue'[c], Erasures(i))
            BY <1>5, <3>2, <4>1, NextEvent DEF Told
      <4> QED BY <4>2 DEF Lost
    <3>3. CASE e \notin Erasures(i) /\ e \notin Texts(i)
      <4>1. CASE \A k \in DOMAIN s : s[k].id = i => s[k].gone
        <5>1. ASSUME NEW k \in DOMAIN t, t[k].id = i PROVE t[k].gone
          <6>1. CASE Untouched(s, t, k)
                BY <4>1, <5>1, <6>1 DEF Untouched
          <6>2. CASE e.kind \in {"message", "edited"} /\ t[k] = e.data
                BY <1>3, <3>3, <5>1, <6>2
          <6>3. CASE e.kind = "deleted" /\ t[k].gone
                BY <6>3
          <6> QED BY <1>2, <6>1, <6>2, <6>3
        <5> QED BY <5>1 DEF Lost
      <4>2. CASE \E x \in Conn : Meets(queue[x], Erasures(i))
            BY <3>3, <4>2, NextEvent DEF Lost
      <4> QED BY <2>1, <4>1, <4>2 DEF Lost
    <3> QED BY <3>1, <3>2, <3>3
  <2> QED BY <1>5, <2>2 DEF Shown
<1>6. CASE ~row.gone
  <2>1. (i \in om \/ Listed(queue, s, i)) /\ Latest(row, queue, s, i)
        BY <1>6 DEF Shown
  <2>2. ASSUME Listed(queue, s, i) PROVE Listed(queue', t, i)
    <3>1. CASE \E k \in DOMAIN s : s[k].id = i
          BY <1>2, <3>1 DEF Listed
    <3>2. CASE e \in Posts(i)
      <4>1. e.kind = "message" /\ e.data.id = i
            BY <3>2 DEF Posts, Texts
      <4> QED BY <1>2, <4>1 DEF Listed
    <3>3. CASE e \notin Posts(i) /\ \A x \in Conn : Meets(queue[x], Posts(i))
          BY <3>3, NextEvent DEF Listed
    <3> QED BY <2>2, <3>1, <3>2, <3>3 DEF Listed
  <2>3. Latest(row, queue', t, i)
    <3>1. CASE e \in Stale(i, row.rev)
      <4>1. e \notin Fresh(i, row.rev)
            BY <3>1 DEF Stale, Fresh
      <4>2. Meets(queue'[c], Fresh(i, row.rev))
            BY <1>6, <3>1, <4>1, NextEvent DEF Told
      <4> QED BY <4>2 DEF Latest
    <3>2. CASE e \in Fresh(i, row.rev)
      <4>1. e.kind = "edited" /\ e.data.id = i /\ e.data.rev = row.rev
            BY <3>2 DEF Fresh, Texts
      <4> QED BY <1>2, <4>1 DEF Latest
    <3>3. CASE e \notin Stale(i, row.rev) /\ e \notin Fresh(i, row.rev)
      <4>1. e \in Texts(i) => e.data.rev = row.rev
            BY <3>3 DEF Stale
      <4>2. CASE \A k \in DOMAIN s : s[k].id = i => s[k].rev = row.rev
        <5>1. ASSUME NEW k \in DOMAIN t, t[k].id = i PROVE t[k].rev = row.rev
          <6>1. CASE Untouched(s, t, k)
                BY <4>2, <5>1, <6>1 DEF Untouched
          <6>2. CASE e.kind \in {"message", "edited"} /\ t[k] = e.data
                BY <1>3, <4>1, <5>1, <6>2
          <6>3. CASE k \in DOMAIN s /\ t[k].rev = s[k].rev
            <7>1. t[k].id = s[k].id
                  BY <1>2, <6>3
            <7> QED BY <4>2, <5>1, <6>3, <7>1
          <6> QED BY <1>2, <6>1, <6>2, <6>3
        <5> QED BY <5>1 DEF Latest
      <4>3. CASE \E x \in Conn : Meets(queue[x], Fresh(i, row.rev))
            BY <3>3, <4>3, NextEvent DEF Latest
      <4> QED BY <2>1, <4>2, <4>3 DEF Latest
    <3> QED BY <3>1, <3>2, <3>3
  <2> QED BY <1>6, <2>1, <2>2, <2>3 DEF Shown
<1> QED BY <1>5, <1>6

LEMMA ReducedReal ==
    ASSUME ItemsOK, NEW e \in Events, SentOK(rows, e), Exist(rows, items[e.room])
    PROVE  /\ Exist(rows, Reduced(e))
           /\ OfRoom(rows, items[e.room], e.room) => OfRoom(rows, Reduced(e), e.room)
<1>1. PICK s, t, r : s = items[e.room] /\ t = Reduced(e) /\ r = e.room
      OBVIOUS
<1>2. \A k \in DOMAIN t : \/ Untouched(s, t, k)
                          \/ e.kind \in {"message", "edited"} /\ t[k] = e.data
                          \/ /\ e.kind = "deleted" /\ t[k].id = e.data /\ t[k].gone
                             /\ k \in DOMAIN s /\ t[k].rev = s[k].rev
      BY <1>1, ReducedSays
<1>3. Exist(rows, t)
      BY <1>1, <1>2 DEF Exist, Untouched, SentOK
<1>4. OfRoom(rows, s, r) => OfRoom(rows, t, r)
      BY <1>1, <1>2 DEF OfRoom, Untouched, SentOK
<1> QED BY <1>1, <1>3, <1>4

LEMMA HandleSync == ASSUME ClientInv, SyncInv, NEW c \in Conn, Handle(c) PROVE SyncInv'
<1>1. PICK e : e = Head(queue[c])
      OBVIOUS
<1>2. /\ queue[c] # <<>> /\ queue' = [queue EXCEPT ![c] = Tail(queue[c])]
      /\ items' = [items EXCEPT ![e.room] = Reduced(e)]
      /\ load' = [load EXCEPT ![e.room].late =
                    load[e.room].late \/ (load[e.room].at = "answered" /\ ~IsCount(e))]
      /\ UNCHANGED <<rows, beyond, deletions, hazy>>
      BY <1>1 DEF Handle, Overtake, server
<1>3. QueueOK /\ ItemsOK /\ LoadOK /\ RowsOK
      BY DEF ClientInv
<1>4. e \in Events /\ e.room \in Room
      BY <1>1, <1>2, <1>3, NextEvent, EventCases
<1>5. SentOK(rows, e)
  <2>1. queue[c] \in Seq(Events)
        BY <1>3 DEF QueueOK
  <2>2. 1 \in DOMAIN queue[c] /\ e = queue[c][1]
        BY <1>1, <1>2, <2>1, TailEvents
  <2> QED BY <1>4, <2>2 DEF SyncInv, Real, Meets, Wrong
<1>6. \A r \in Room : items'[r] = IF r = e.room THEN Reduced(e) ELSE items[r]
      BY <1>2, <1>3 DEF ItemsOK
<1>7. \A r \in Room : /\ load'[r].rows = load[r].rows /\ load'[r].at = load[r].at
                      /\ load'[r].left = load[r].left
                      /\ r # e.room => load'[r].late = load[r].late
                      /\ r = e.room => (load'[r].late <=> load[r].late
                                          \/ (load[r].at = "answered" /\ ~IsCount(e)))
  <2> DEFINE b == load[e.room].late \/ (load[e.room].at = "answered" /\ ~IsCount(e))
             L == Load
  <2>1. load' = [load EXCEPT ![e.room].late = b] /\ b \in BOOLEAN
        BY <1>2
  <2>2. load \in [Room -> L]
        BY <1>3 DEF LoadOK
  <2>3. \A r \in Room : load[r] \in L
        BY <2>2
  <2> HIDE DEF b, Lists
  <2>4. \A r \in Room : r # e.room => load'[r] = load[r]
        BY <2>1, <2>2
  <2>5. load'[e.room] = [load[e.room] EXCEPT !.late = b]
        BY <1>4, <2>1, <2>2
  <2>6. load'[e.room].rows = load[e.room].rows /\ load'[e.room].at = load[e.room].at
        /\ load'[e.room].left = load[e.room].left /\ load'[e.room].late = b
        BY <1>4, <2>3, <2>5 DEF Load
  <2> QED BY <2>4, <2>6 DEF b
<1>8. Real'
  <2>1. \A x \in Conn : ~Meets(queue'[x], Wrong(rows'))
        BY <1>1, <1>2, <1>3, NextEvent DEF SyncInv, Real
  <2>2. Exist(rows, Reduced(e))
        BY <1>3, <1>4, <1>5, ReducedReal DEF SyncInv, Real
  <2>3. \A r \in Room : Exist(rows', items'[r]) /\ Exist(rows', load'[r].rows)
        BY <1>2, <1>6, <1>7, <2>2 DEF SyncInv, Real
  <2>4. \A i \in deletions' : i \in DOMAIN rows' /\ rows'[i].gone
        BY <1>2 DEF SyncInv, Real
  <2> QED BY <1>2, <2>1, <2>3, <2>4 DEF SyncInv, Real, Brought
<1>9. ASSUME NEW i \in DOMAIN rows, rows[i].room \notin hazy, ~rows[i].back PROVE Synced(i)'
  <2>1. PICK r : r = rows[i].room
        OBVIOUS
  <2>2. r \in Room
        BY <1>3, <2>1, RowIds, RowOK
  <2>3. Told(rows[i], queue, i) /\ (Overtaken(r) \/ Shown(rows[i], queue, Coming(r), i, Omitted(r)))
        BY <1>9, <2>1 DEF SyncInv, Synced
  <2>4. Told(rows[i], queue', i)
        BY <1>2, <1>3, <2>3, NextTold
  <2>0. Omitted(r)' = Omitted(r)
        BY <1>2, <1>7, <2>2 DEF Omitted
  <2>5. Overtaken(r)' \/ Shown(rows[i], queue', Coming(r)', i, Omitted(r)')
    <3>1. CASE Overtaken(r)
          BY <1>7, <2>2, <3>1 DEF Overtaken
    <3>2. CASE r = e.room /\ ~IsCount(e) /\ load[r].at = "answered"
          BY <1>7, <2>2, <3>2 DEF Overtaken
    <3>3. CASE r = e.room /\ load[r].at # "answered" /\ Shown(rows[i], queue, Coming(r), i, Omitted(r))
      <4>1. Coming(r) = items[e.room] /\ Coming(r)' = Reduced(e)
            BY <1>6, <1>7, <2>2, <3>3 DEF Coming
      <4>2. Shown(rows[i], queue', Reduced(e), i, Omitted(r))
            BY <1>1, <1>2, <2>3, <3>3, <4>1, NextShown
      <4> QED BY <2>0, <4>1, <4>2
    <3>4. CASE (r # e.room \/ IsCount(e)) /\ Shown(rows[i], queue, Coming(r), i, Omitted(r))
      <4>1. e \notin Texts(i) \cup Erasures(i)
            BY <1>5, <2>1, <3>4 DEF Texts, Erasures, IsCount, SentOK
      <4>2. Shown(rows[i], queue', Coming(r), i, Omitted(r))
            BY <1>1, <1>2, <1>3, <3>4, <4>1, NextElsewhere
      <4>3. items'[r] = items[r]
        <5>1. CASE r # e.room
              BY <1>6, <2>2, <5>1
        <5>2. CASE IsCount(e)
          <6>1. Reduced(e) = items[e.room]
                BY <1>3, <1>4, <5>2, ReducedSays
          <6> QED BY <1>6, <2>2, <6>1
        <5> QED BY <3>4, <5>1, <5>2
      <4>4. Coming(r)' = Coming(r)
            BY <1>7, <2>2, <4>3 DEF Coming
      <4> QED BY <2>0, <4>2, <4>4
    <3> QED BY <2>3, <3>1, <3>2, <3>3, <3>4
  <2> QED BY <1>2, <2>1, <2>4, <2>5 DEF Synced
<1>10. Home'
  <2> SUFFICES ASSUME NEW r \in Room, r \notin hazy, ~Overtaken(r)' PROVE OfRoom(rows, Coming(r)', r)
      BY <1>2 DEF Home
  <2>1. ~Overtaken(r)
        BY <1>7 DEF Overtaken
  <2>2. OfRoom(rows, Coming(r), r)
        BY <2>1 DEF SyncInv, Home
  <2>3. CASE load[r].at = "answered"
        BY <1>7, <2>2, <2>3 DEF Coming
  <2>4. CASE load[r].at # "answered"
    <3>1. Coming(r) = items[r] /\ Coming(r)' = items'[r]
          BY <1>7, <2>4 DEF Coming
    <3>2. OfRoom(rows, items'[r], r)
          BY <1>3, <1>4, <1>5, <1>6, <2>2, <3>1, ReducedReal DEF SyncInv, Real
    <3> QED BY <3>1, <3>2
  <2> QED BY <2>3, <2>4
<1> QED BY <1>2, <1>8, <1>9, <1>10 DEF SyncInv

LEMMA AskSync ==
    ASSUME ClientInv, SyncInv, NEW r \in Room, NEW s \in Room, NEW S \in SUBSET Kept(s), Ask(r, s, S)
    PROVE  SyncInv'
<1> DEFINE left == Kept(r) \ S
<1>1. PICK a \in AnswerOf(S) :
          load' = [load EXCEPT ![r] = [at |-> "answered", rows |-> a, left |-> left, late |-> FALSE]]
      BY DEF Ask
<1>2. /\ load[r].at = "no"
      /\ s # r => r \in hazy'
      /\ r \notin hazy' => r \notin hazy \/ ~\E c \in Conn : \E e \in Range(queue[c]) : e.room = r
      /\ hazy \ {r} \subseteq hazy'
      /\ UNCHANGED <<rows, queue, items, beyond, deletions>>
      BY DEF Ask, server, wire, page
<1>3. RowsOK /\ LoadOK /\ S \subseteq RowId /\ RowId = DOMAIN rows
      BY RowIds DEF ClientInv, Kept
<1> HIDE DEF left
<1>4. /\ load'[r].at = "answered" /\ load'[r].rows = a /\ load'[r].left = left /\ ~load'[r].late
      /\ \A x \in Room : x # r => load'[x] = load[x]
  <2>1. load'[r] = [at |-> "answered", rows |-> a, left |-> left, late |-> FALSE]
        BY <1>1, <1>3 DEF LoadOK
  <2> QED BY <1>1, <1>3, <2>1 DEF LoadOK
<1>5. /\ \A k \in DOMAIN a : /\ a[k].id \in DOMAIN rows /\ ~a[k].gone
                             /\ rows[a[k].id].room = s /\ ~rows[a[k].id].gone
                             /\ a[k].rev = rows[a[k].id].rev
      /\ \A i \in S : \E k \in DOMAIN a : a[k].id = i
      BY <1>3, AnswersSay DEF Kept
<1>6. Real'
  <2>1. Exist(rows, a)
        BY <1>5 DEF Exist
  <2>2. \A x \in Room : Exist(rows', items'[x]) /\ Exist(rows', load'[x].rows)
        BY <1>2, <1>4, <2>1 DEF SyncInv, Real
  <2> QED BY <1>2, <2>2 DEF SyncInv, Real, Brought
<1>7. ASSUME NEW i \in DOMAIN rows, rows[i].room \notin hazy', ~rows[i].back PROVE Synced(i)'
  <2>1. CASE rows[i].room = r
    <3>1. Told(rows[i], queue, i)
      <4>1. CASE r \notin hazy
            BY <1>7, <2>1, <4>1 DEF SyncInv, Synced
      <4>2. CASE ~\E c \in Conn : \E e \in Range(queue[c]) : e.room = r
        <5>1. ASSUME NEW c \in Conn PROVE ~Meets(queue[c], Texts(i))
          <6> SUFFICES ASSUME NEW k \in DOMAIN queue[c], queue[c][k] \in Texts(i) PROVE FALSE
              BY DEF Meets
          <6>1. SentOK(rows, queue[c][k])
                BY DEF SyncInv, Real, Meets, Wrong, Texts
          <6>2. queue[c][k].room = r
                BY <2>1, <6>1 DEF SentOK, Texts
          <6>3. queue[c][k] \in Range(queue[c])
                BY DEF Range
          <6> QED BY <4>2, <6>2, <6>3
        <5>2. \A c \in Conn : ~Meets(queue[c], Stale(i, rows[i].rev))
              BY <5>1 DEF Meets, Stale
        <5> QED BY <5>1, <5>2, NeverMet DEF Told
      <4> QED BY <1>2, <1>7, <2>1, <4>1, <4>2
    <3>2. ~rows[i].gone => i \in S \/ i \in left
          BY <1>3, <2>1 DEF left, Kept
    <3>3. \A k \in DOMAIN a : a[k].id = i => ~rows[i].gone /\ a[k].rev = rows[i].rev
          BY <1>5
    <3>4. Shown(rows[i], queue, a, i, left)
          BY <1>5, <3>2, <3>3 DEF Shown, Lost, Listed, Latest
    <3>5. Coming(r)' = a /\ Omitted(r)' = left
          BY <1>4 DEF Coming, Omitted
    <3> QED BY <1>2, <2>1, <3>1, <3>4, <3>5 DEF Synced
  <2>2. CASE rows[i].room # r
    <3>1. PICK x : x = rows[i].room
          OBVIOUS
    <3>2. x \in Room /\ x # r /\ x \notin hazy
          BY <1>2, <1>3, <1>7, <2>2, <3>1, RowIds, RowOK
    <3>3. Coming(x)' = Coming(x) /\ (Overtaken(x)' <=> Overtaken(x)) /\ Omitted(x)' = Omitted(x)
          BY <1>2, <1>4, <3>2 DEF Coming, Overtaken, Omitted
    <3>4. Told(rows[i], queue, i) /\ (Overtaken(x) \/ Shown(rows[i], queue, Coming(x), i, Omitted(x)))
          BY <1>7, <3>1, <3>2 DEF SyncInv, Synced
    <3>5. Told(rows'[i], queue', i) /\ (Overtaken(x)' \/ Shown(rows'[i], queue', Coming(x)', i, Omitted(x)'))
          BY <1>2, <3>3, <3>4
    <3> QED BY <1>2, <3>1, <3>5 DEF Synced
  <2> QED BY <2>1, <2>2
<1>8. Home'
  <2> SUFFICES ASSUME NEW x \in Room, x \notin hazy', ~Overtaken(x)' PROVE OfRoom(rows, Coming(x)', x)
      BY <1>2 DEF Home
  <2>1. CASE x = r
        BY <1>2, <1>4, <1>5, <2>1 DEF Coming, OfRoom
  <2>2. CASE x # r
    <3>1. Coming(x)' = Coming(x) /\ ~Overtaken(x) /\ x \notin hazy
          BY <1>2, <1>4, <2>2 DEF Coming, Overtaken
    <3> QED BY <3>1 DEF SyncInv, Home
  <2> QED BY <2>1, <2>2
<1> QED BY <1>2, <1>6, <1>7, <1>8 DEF SyncInv

LEMMA MessagesAppliedSync ==
    ASSUME ClientInv, SyncInv, NEW r \in Room, MessagesApplied(r) PROVE SyncInv'
<1>1. /\ load[r].at = "answered" /\ items' = [items EXCEPT ![r] = load[r].rows]
      /\ hazy' = IF load[r].late THEN hazy \cup {r} ELSE hazy
      /\ load' = [load EXCEPT ![r] = NoLoad]
      /\ beyond' = [beyond EXCEPT ![r] = load[r].left]
      /\ UNCHANGED <<rows, queue, deletions>>
      BY DEF MessagesApplied, server, wire
<1>2. RowsOK /\ LoadOK /\ ItemsOK /\ DOMAIN beyond = Room
      BY DEF ClientInv, SyncInv, Real
<1>3. /\ load'[r] = NoLoad /\ items'[r] = load[r].rows /\ beyond'[r] = load[r].left
      /\ \A x \in Room : x # r => load'[x] = load[x] /\ items'[x] = items[x] /\ beyond'[x] = beyond[x]
      BY <1>1, <1>2 DEF LoadOK, ItemsOK
<1>4. Real'
  <2>1. Exist(rows, NoLoad.rows)
        BY DEF Exist, NoLoad
  <2>2. \A x \in Room : Exist(rows', items'[x]) /\ Exist(rows', load'[x].rows)
        BY <1>1, <1>3, <2>1 DEF SyncInv, Real
  <2> QED BY <1>1, <2>2 DEF SyncInv, Real, Brought
<1>5. ASSUME NEW i \in DOMAIN rows, rows[i].room \notin hazy', ~rows[i].back PROVE Synced(i)'
  <2>1. PICK x : x = rows[i].room
        OBVIOUS
  <2>2. x \in Room /\ x \notin hazy
        BY <1>1, <1>2, <1>5, <2>1, RowIds, RowOK
  <2>3. Told(rows[i], queue, i) /\ (Overtaken(x) \/ Shown(rows[i], queue, Coming(x), i, Omitted(x)))
        BY <1>5, <2>1, <2>2 DEF SyncInv, Synced
  <2>4. Coming(x)' = Coming(x) /\ Omitted(x)' = Omitted(x)
        BY <1>1, <1>3, <2>2 DEF Coming, Omitted, NoLoad
  <2>5. Overtaken(x) => Overtaken(x)'
        BY <1>1, <1>3, <1>5, <2>1, <2>2 DEF Overtaken
  <2>6. Told(rows'[i], queue', i) /\ (Overtaken(x)' \/ Shown(rows'[i], queue', Coming(x)', i, Omitted(x)'))
        BY <1>1, <2>3, <2>4, <2>5
  <2> QED BY <1>1, <2>1, <2>6 DEF Synced
<1>6. Home'
  <2> SUFFICES ASSUME NEW x \in Room, x \notin hazy', ~Overtaken(x)' PROVE OfRoom(rows, Coming(x)', x)
      BY <1>1 DEF Home
  <2>1. Coming(x)' = Coming(x)
        BY <1>1, <1>3 DEF Coming, NoLoad
  <2>2. x \notin hazy /\ ~Overtaken(x)
        BY <1>1, <1>3 DEF Overtaken
  <2> QED BY <2>1, <2>2 DEF SyncInv, Home
<1> QED BY <1>1, <1>4, <1>5, <1>6 DEF SyncInv

LEMMA DeletionAnsweredSync ==
    ASSUME ClientInv, SyncInv, NEW i \in RowId, DeletionAnswered(i) PROVE SyncInv'
<1>1. PICK e : e = Event("deleted", rows[i].room, i)
      OBVIOUS
<1>2. /\ i \in deletions /\ deletions' \subseteq deletions
      /\ items' = [items EXCEPT ![e.room] = Reduced(e)]
      /\ UNCHANGED <<rows, queue, beyond, load, hazy>>
      BY <1>1 DEF DeletionAnswered, server, wire, doubts, Event
<1>3. RowsOK /\ ItemsOK
      BY DEF ClientInv
<1>4. e \in Events /\ e.room \in Room /\ e.kind = "deleted" /\ e.data = i /\ e.room = rows[i].room
      BY <1>1, <1>3, RowOK, NumberedOK DEF Event
<1>5. SentOK(rows, e)
      BY <1>2, <1>4 DEF SentOK, SyncInv, Real
<1>6. \A r \in Room : items'[r] = IF r = e.room THEN Reduced(e) ELSE items[r]
      BY <1>2, <1>3 DEF ItemsOK
<1>7. Real'
  <2>1. Exist(rows, Reduced(e))
        BY <1>3, <1>4, <1>5, ReducedReal DEF SyncInv, Real
  <2>2. \A r \in Room : Exist(rows', items'[r]) /\ Exist(rows', load'[r].rows)
        BY <1>2, <1>6, <2>1 DEF SyncInv, Real
  <2>3. \A c \in Conn : ~Meets(queue'[c], Wrong(rows'))
        BY <1>2 DEF SyncInv, Real
  <2>4. \A j \in deletions' : j \in DOMAIN rows' /\ rows'[j].gone
        BY <1>2 DEF SyncInv, Real
  <2> QED BY <1>2, <2>2, <2>3, <2>4 DEF SyncInv, Real, Brought
<1>8. ASSUME NEW j \in DOMAIN rows, rows[j].room \notin hazy, ~rows[j].back PROVE Synced(j)'
  <2>1. PICK r, s, t : r = rows[j].room /\ s = items[e.room] /\ t = Reduced(e)
        OBVIOUS
  <2>2. r \in Room
        BY <1>3, <2>1, RowIds, RowOK
  <2>3. Told(rows[j], queue, j) /\ (Overtaken(r) \/ Shown(rows[j], queue, Coming(r), j, Omitted(r)))
        BY <1>8, <2>1 DEF SyncInv, Synced
  <2>4. /\ \A k \in DOMAIN s : k \in DOMAIN t /\ t[k].id = s[k].id
        /\ \A k \in DOMAIN t : \/ Untouched(s, t, k)
                               \/ /\ t[k].id = e.data /\ t[k].gone
                                  /\ k \in DOMAIN s /\ t[k].rev = s[k].rev
        BY <1>3, <1>4, <2>1, ReducedSays
  <2>5. \A om : Shown(rows[j], queue, s, j, om) => Shown(rows[j], queue, t, j, om)
    <3>1. Lost(queue, s, j) => Lost(queue, t, j)
          BY <2>4 DEF Lost, Untouched
    <3>2. Listed(queue, s, j) => Listed(queue, t, j)
          BY <2>4 DEF Listed
    <3>3. Latest(rows[j], queue, s, j) => Latest(rows[j], queue, t, j)
          BY <2>4 DEF Latest, Untouched
    <3> QED BY <3>1, <3>2, <3>3 DEF Shown
  <2>6. Coming(r)' = Coming(r) \/ (Coming(r) = s /\ Coming(r)' = t)
        BY <1>2, <1>6, <2>1, <2>2 DEF Coming
  <2>7. (Overtaken(r)' <=> Overtaken(r)) /\ Omitted(r)' = Omitted(r)
        BY <1>2 DEF Overtaken, Omitted
  <2>8. Told(rows'[j], queue', j) /\ (Overtaken(r)' \/ Shown(rows'[j], queue', Coming(r)', j, Omitted(r)'))
        BY <1>2, <2>3, <2>5, <2>6, <2>7
  <2> QED BY <1>2, <2>1, <2>8 DEF Synced
<1>9. Home'
  <2> SUFFICES ASSUME NEW r \in Room, r \notin hazy, ~Overtaken(r)' PROVE OfRoom(rows, Coming(r)', r)
      BY <1>2 DEF Home
  <2>1. OfRoom(rows, Coming(r), r)
        BY <1>2 DEF SyncInv, Home, Overtaken
  <2>2. CASE load[r].at = "answered"
        BY <1>2, <2>1, <2>2 DEF Coming
  <2>3. CASE load[r].at # "answered"
    <3>1. Coming(r) = items[r] /\ Coming(r)' = items'[r]
          BY <1>2, <2>3 DEF Coming
    <3>2. OfRoom(rows, items'[r], r)
          BY <1>3, <1>4, <1>5, <1>6, <2>1, <3>1, ReducedReal DEF SyncInv, Real
    <3> QED BY <3>1, <3>2
  <2> QED BY <2>2, <2>3
<1> QED BY <1>2, <1>7, <1>8, <1>9 DEF SyncInv

LEMMA SyncInit == Init => SyncInv
<1> SUFFICES ASSUME Init PROVE SyncInv
    OBVIOUS
<1>1. /\ \A r \in Room : items[r] = <<>> /\ load[r].rows = <<>> /\ Coming(r) = <<>>
      /\ \A c \in Conn : queue[c] = <<>>
      /\ rows = <<>> /\ deletions = {} /\ DOMAIN beyond = Room
      BY DEF Init, NoLoad, Coming
<1>2. Exist(rows, <<>>) /\ \A r : OfRoom(rows, <<>>, r)
      BY DEF Exist, OfRoom
<1>3. \A S : ~Meets(<<>>, S)
      BY DEF Meets
<1> QED BY <1>1, <1>2, <1>3 DEF SyncInv, Real, Home, Brought

LEMMA SyncStep == ClientInv /\ SyncInv /\ [Next]_vars => SyncInv'
<1> SUFFICES ASSUME ClientInv, SyncInv, [Next]_vars PROVE SyncInv'
    OBVIOUS
<1>1. ASSUME NEW u \in User, NEW r \in Room, Post(u, r) PROVE SyncInv'
      BY <1>1, PostSync
<1>2. ASSUME NEW i \in RowId, Edit(i) PROVE SyncInv'
      BY <1>2, EditSync
<1>3. ASSUME NEW i \in RowId, Delete(i) PROVE SyncInv'
      BY <1>3, DeleteSync
<1>4. ASSUME NEW i \in RowId, DeletionAnswered(i) PROVE SyncInv'
      BY <1>4, DeletionAnsweredSync
<1>5. ASSUME NEW i \in RowId, NEW u \in User, NEW e \in Emoji, React(u, i, e) PROVE SyncInv'
      BY <1>5, ReactSync
<1>6. CASE HubCall
      BY <1>6, HubCallSync
<1>7. ASSUME NEW c \in Conn, Drop(c) PROVE SyncInv'
      BY <1>7, DropSync
<1>8. ASSUME NEW c \in Conn, Handle(c) PROVE SyncInv'
      BY <1>8, HandleSync
<1>9. ASSUME NEW r \in Room, LoadMessages(r) \/ \E i \in RowId : LoadContext(r, i) PROVE SyncInv'
  <2>1. \E s \in Room : \E S \in SUBSET Kept(s) : Ask(r, s, S)
        BY <1>9, Asked DEF ClientInv
  <2> QED BY <2>1, AskSync
<1>10. ASSUME NEW r \in Room, MessagesApplied(r) PROVE SyncInv'
      BY <1>10, MessagesAppliedSync
<1>11. CASE UNCHANGED <<rows, queue, items, beyond, load, deletions, hazy>>
      BY <1>11, SyncSame
<1>12. /\ \A c \in Conn : Return(c) => UNCHANGED <<rows, queue, items, beyond, load, deletions, hazy>>
       /\ \A r : SetCurrentRoom(r) => UNCHANGED <<rows, queue, items, beyond, load, deletions, hazy>>
       /\ \A r \in Room : JoinRoom(r) \/ LeaveRoom(r) \/ MarkAll(r) =>
             UNCHANGED <<rows, queue, items, beyond, load, deletions, hazy>>
       /\ Rearm \/ LoadRooms \/ RoomsApplied =>
             UNCHANGED <<rows, queue, items, beyond, load, deletions, hazy>>
       /\ UNCHANGED vars => UNCHANGED <<rows, queue, items, beyond, load, deletions, hazy>>
      BY DEF Return, SetCurrentRoom, JoinRoom, LeaveRoom, MarkAll, Rearm, LoadRooms, RoomsApplied,
             vars, server, wire, page, asks, doubts
<1> QED BY <1>1, <1>2, <1>3, <1>4, <1>5, <1>6, <1>7, <1>8, <1>9, <1>10, <1>11, <1>12 DEF Next

LEMMA SyncInvImplies == ClientInv /\ SyncInv => InSync
<1> SUFFICES ASSUME ClientInv, SyncInv, AtRest, NEW r \in Room \ hazy
             PROVE  LET shown == {m \in Range(items[r]) : ~m.gone}
                    IN  /\ \A m \in shown :
                              rows[m.id].back \/ (m.id \in Kept(r) /\ m.rev = rows[m.id].rev)
                        /\ \A i \in Kept(r) \ beyond[r] : \E m \in shown : m.id = i
    BY DEF InSync
<1>1. /\ \A c \in Conn : queue[c] = <<>>
      /\ load[r].at = "no" /\ Exist(rows, items[r]) /\ RowId = DOMAIN rows /\ Link \in Conn
      BY RowIds, ClientAssumption DEF AtRest, SyncInv, Real, ClientInv
<1>2. Coming(r) = items[r] /\ Omitted(r) = beyond[r] /\ ~Overtaken(r)
      BY <1>1 DEF Coming, Omitted, Overtaken
<1>3. OfRoom(rows, items[r], r)
      BY <1>2 DEF SyncInv, Home
<1>4. ASSUME NEW i \in DOMAIN rows, rows[i].room = r, ~rows[i].back
      PROVE  /\ rows[i].gone => \A k \in DOMAIN items[r] : items[r][k].id = i => items[r][k].gone
             /\ ~rows[i].gone =>
                   /\ i \in beyond[r] \/ \E k \in DOMAIN items[r] : items[r][k].id = i
                   /\ \A k \in DOMAIN items[r] :
                         items[r][k].id = i => items[r][k].rev = rows[i].rev
  <2>1. Shown(rows[i], queue, items[r], i, beyond[r])
        BY <1>2, <1>4 DEF SyncInv, Synced
  <2>2. \A S : \A c \in Conn : ~Meets(queue[c], S)
        BY <1>1 DEF Meets
  <2> QED BY <1>1, <2>1, <2>2 DEF Shown, Lost, Listed, Latest
<1>5. ASSUME NEW k \in DOMAIN items[r], ~items[r][k].gone, ~rows[items[r][k].id].back
      PROVE  /\ items[r][k].id \in Kept(r)
             /\ items[r][k].rev = rows[items[r][k].id].rev
  <2>1. PICK i : i = items[r][k].id
        OBVIOUS
  <2>2. i \in DOMAIN rows /\ rows[i].room = r /\ ~rows[i].back
        BY <1>1, <1>3, <1>5, <2>1 DEF Exist, OfRoom
  <2> QED BY <1>1, <1>4, <1>5, <2>1, <2>2 DEF Kept
<1>6. ASSUME NEW i \in Kept(r) \ beyond[r]
      PROVE  \E k \in DOMAIN items[r] : items[r][k].id = i /\ ~items[r][k].gone
  <2>1. i \in DOMAIN rows /\ rows[i].room = r /\ ~rows[i].gone
        BY <1>1 DEF Kept
  <2>2. ~rows[i].back
        BY <2>1 DEF SyncInv, Real, Brought
  <2>3. PICK k \in DOMAIN items[r] : items[r][k].id = i
        BY <1>4, <2>1, <2>2
  <2> QED BY <1>1, <2>1, <2>3 DEF Exist
<1> QED BY <1>5, <1>6 DEF Range

(* When nothing is on its way, the list of a room shows messages the       *)
(* server has, each with its latest text, and all but those its answer     *)
(* left out, unless the page missed an event of the room, applied a load   *)
(* an event had overtaken, jumped to another room's message, or somebody   *)
(* edited a deleted one (ChatContext.jsx, the reducer and the hub          *)
(* listeners; Chat.jsx; GetChatMessagesQuery; EditMessageCommand).         *)
THEOREM ListsInSync == Spec => []InSync
<1>1. Init => ClientInv /\ SyncInv
      BY ClientInitInv, SyncInit
<1>2. ClientInv /\ SyncInv /\ [Next]_vars => (ClientInv /\ SyncInv)'
      BY ClientStepInv, SyncStep
<1> QED BY <1>1, <1>2, SyncInvImplies, PTL DEF Spec

----------------------------------------------------------------------------
(* Badges: types.                                                          *)

CountTypes ==
    /\ lastRead \in [Room -> Nat] /\ badge \in [Room -> Nat]
    /\ list \in [at : {"no", "answered"}, count : [Room -> Nat], late : SUBSET Room]

LEMMA NewestIs ==
    ASSUME RowsOK, NEW r, Incoming(r) # {}
    PROVE  Newest(Incoming(r)) \in Incoming(r) /\ \A j \in Incoming(r) : j <= Newest(Incoming(r))
<1> DEFINE S == Incoming(r)
           n == Len(rows)
           R == {p \in Nat \X Nat : p[1] < p[2]}
           T == {k \in Nat : n - k \in S}
<1>1. n \in Nat /\ S \subseteq 1..n
      BY LenProperties DEF RowsOK, Incoming, RowId
<1>2. R = OpToRel(<, Nat)
      BY Zenon DEF OpToRel
<1>3. IsWellFoundedOn(R, Nat)
      BY <1>2, NatLessThanWellFounded
<1>4. T \subseteq Nat /\ T # {}
  <2>1. PICK i \in S : TRUE
        OBVIOUS
  <2>2. n - i \in Nat /\ n - (n - i) = i
        BY <1>1
  <2> QED BY <2>1, <2>2
<1> HIDE DEF S, T
<1>5. PICK k \in T : \A j \in T : ~(<<j, k>> \in R)
      BY <1>3, <1>4, WFMin
<1>6. n - k \in S /\ k \in Nat
      BY DEF T
<1>7. \A j \in S : j <= n - k
  <2> SUFFICES ASSUME NEW j \in S, j > n - k PROVE FALSE
      BY <1>1, <1>6
  <2>1. n - j \in Nat /\ n - (n - j) = j /\ n - j < k
        BY <1>1, <1>6
  <2>2. n - j \in T
        BY <2>1 DEF T
  <2>3. <<n - j, k>> \in Nat \X Nat /\ <<n - j, k>>[1] < <<n - j, k>>[2]
        BY <1>6, <2>1
  <2>4. <<n - j, k>> \in R
        BY <2>3, Zenon
  <2> QED BY <1>5, <2>2, <2>4
<1>8. \E i \in S : \A j \in S : j <= i
      BY <1>6, <1>7
<1>9. Newest(S) \in S /\ \A j \in S : j <= Newest(S)
      BY <1>8 DEF Newest
<1> QED BY <1>9 DEF S

LEMMA UnreadType == ASSUME ClientInv, CountTypes PROVE \A r \in Room : UnreadListed(rows, r, lastRead[r], Len(rows)) \in Nat
BY UnreadNat, LenProperties DEF ClientInv, RowsOK

LEMMA CountTypesInit == Init => CountTypes
BY DEF Init, CountTypes, NoList

LEMMA CountTypesStep == ClientInv /\ CountTypes /\ [Next]_vars => CountTypes'
<1> SUFFICES ASSUME ClientInv, CountTypes, [Next]_vars PROVE CountTypes'
    OBVIOUS
<1> USE DEF CountTypes
<1>1. CASE HubCall
  <2>1. UNCHANGED <<badge, list>>
        BY <1>1 DEF HubCall, page, asks
  <2>2. PICK r : r = Head(calls).room
        OBVIOUS
  <2>3. \/ UNCHANGED lastRead
        \/ lastRead' = [lastRead EXCEPT ![r] = IF Incoming(r) = {} THEN lastRead[r] ELSE Newest(Incoming(r))]
        BY <1>1, <2>2 DEF HubCall
  <2>4. Incoming(r) # {} => Newest(Incoming(r)) \in Nat
    <3>1. Incoming(r) \subseteq RowId
          BY DEF Incoming
    <3> QED BY <3>1, NewestIs, RowOK DEF ClientInv
  <2> QED BY <2>1, <2>3, <2>4
<1>2. ASSUME NEW c \in Conn, Handle(c) PROVE CountTypes'
  <2>1. PICK e : e = Head(queue[c])
        OBVIOUS
  <2>2. /\ badge' = BadgeReduced(e) /\ lastRead' = lastRead /\ queue[c] # <<>>
        /\ list' = IF list.at = "answered" THEN [list EXCEPT !.late = list.late \cup {e.room}] ELSE list
        BY <1>2, <2>1 DEF Handle, Overtake, server
  <2>3. e \in Events
    <3>1. queue[c] \in Seq(Events)
          BY DEF ClientInv, QueueOK
    <3> QED BY <2>1, <2>2, <3>1, HeadTailProperties
  <2>4. /\ e.room \in Room
        /\ e.kind \in {"deleted", "room", "unread"} => e.data \in Nat
        BY <2>3, EventCases
  <2>5. \/ badge' = [badge EXCEPT ![e.room] = e.data] /\ e.kind \in {"room", "unread"}
        \/ badge' = [badge EXCEPT ![e.room] = 0]
        \/ badge' = [badge EXCEPT ![e.room] = CountUp(e)]
        \/ badge' = badge
        BY <2>2 DEF BadgeReduced, RoomUpserted, UnreadUpdated, AllRead, MarksRead
  <2>6. CountUp(e) \in Nat
        BY <2>4 DEF CountUp
  <2>7. badge' \in [Room -> Nat]
        BY <2>4, <2>5, <2>6
  <2>8. list' \in [at : {"no", "answered"}, count : [Room -> Nat], late : SUBSET Room]
        BY <2>2, <2>4
  <2> QED BY <2>2, <2>7, <2>8
<1>3. ASSUME NEW r \in Room, MarkAll(r) PROVE CountTypes'
      BY <1>3 DEF MarkAll, AllRead, server, asks
<1>4. CASE LoadRooms
      BY <1>4, UnreadType DEF LoadRooms, server, page
<1>5. CASE RoomsApplied
      BY <1>5 DEF RoomsApplied, server, NoList
<1>6. CASE UNCHANGED <<lastRead, badge, list>>
      BY <1>6
<1>7. /\ \A u \in User, r \in Room : Post(u, r) => UNCHANGED <<lastRead, badge, list>>
      /\ \A i \in RowId : Edit(i) \/ Delete(i) \/ DeletionAnswered(i) =>
            UNCHANGED <<lastRead, badge, list>>
      /\ \A i \in RowId, u \in User, e \in Emoji : React(u, i, e) => UNCHANGED <<lastRead, badge, list>>
      /\ \A c \in Conn : Drop(c) \/ Return(c) => UNCHANGED <<lastRead, badge, list>>
      /\ \A r : SetCurrentRoom(r) => UNCHANGED <<lastRead, badge, list>>
      /\ \A r \in Room : JoinRoom(r) \/ LeaveRoom(r) => UNCHANGED <<lastRead, badge, list>>
      /\ \A r \in Room : LoadMessages(r) \/ MessagesApplied(r) => UNCHANGED <<lastRead, badge, list>>
      /\ \A r \in Room : \A i \in RowId : LoadContext(r, i) => UNCHANGED <<lastRead, badge, list>>
      /\ Rearm => UNCHANGED <<lastRead, badge, list>>
      /\ UNCHANGED vars => UNCHANGED <<lastRead, badge, list>>
      BY DEF Post, Edit, Delete, React, Change, DeletionAnswered, Drop, Return, SetCurrentRoom, Rearm,
             JoinRoom, LeaveRoom, LoadMessages, LoadContext, Ask, MessagesApplied, vars, server, wire, page, asks
<1> QED BY <1>1, <1>2, <1>3, <1>4, <1>5, <1>6, <1>7 DEF Next

----------------------------------------------------------------------------
(* Badges: what the server does.                                           *)

(* A change that leaves the others' messages of room r alone.              *)
Later(tab, r, k, i) == {j \in 1..k : tab[j].room = r /\ j > i}

LEMMA SameListed ==
    ASSUME NEW tab, NEW new, NEW r, NEW mark, NEW k,
           \A j \in 1..k : new[j].room = tab[j].room /\ new[j].by = tab[j].by
    PROVE  UnreadListed(new, r, mark, k) = UnreadListed(tab, r, mark, k)
<1>1. \A i : Later(new, r, k, i) = Later(tab, r, k, i)
      BY DEF Later
<1>2. \A t : Recent(t, r, k) = {i \in 1..k : t[i].room = r /\ Cardinality(Later(t, r, k, i)) < Window}
      BY Zenon DEF Recent, Later
<1>3. Recent(new, r, k) = Recent(tab, r, k)
      BY <1>1, <1>2
<1>4. Recent(tab, r, k) \subseteq 1..k
      BY <1>2
<1>5. {i \in Recent(new, r, k) : new[i].by # Me /\ i > mark} =
      {i \in Recent(tab, r, k) : tab[i].by # Me /\ i > mark}
      BY <1>3, <1>4
<1> QED BY <1>5, Zenon DEF UnreadListed

LEMMA SameUnread ==
    ASSUME NEW tab \in Seq(Row), NEW new \in Seq(Row), NEW r, NEW mark, DOMAIN tab \subseteq DOMAIN new,
           \A i \in DOMAIN tab :
               /\ new[i].room = tab[i].room /\ new[i].by = tab[i].by
               /\ tab[i].room = r => new[i].gone = tab[i].gone,
           \A i \in DOMAIN new \ DOMAIN tab : new[i].room # r \/ new[i].by = Me
    PROVE  CountsGiven(tab, r, mark) \subseteq CountsGiven(new, r, mark)
<1>1. UnreadOf(new, r, mark) = UnreadOf(tab, r, mark)
  <2>1. {i \in DOMAIN new : new[i].room = r /\ new[i].by # Me /\ i > mark} =
        {i \in DOMAIN tab : tab[i].room = r /\ tab[i].by # Me /\ i > mark}
        OBVIOUS
  <2> QED BY <2>1, Zenon DEF UnreadOf
<1>2. UnreadKept(new, r, mark) = UnreadKept(tab, r, mark)
  <2>1. {i \in DOMAIN new : new[i].room = r /\ new[i].by # Me /\ i > mark /\ ~new[i].gone} =
        {i \in DOMAIN tab : tab[i].room = r /\ tab[i].by # Me /\ i > mark /\ ~tab[i].gone}
        OBVIOUS
  <2> QED BY <2>1, Zenon DEF UnreadKept
<1>3. /\ DOMAIN tab = 1..Len(tab) /\ Len(tab) \in Nat
      /\ DOMAIN new = 1..Len(new) /\ Len(new) \in Nat
      BY LenProperties
<1>4. ASSUME NEW k \in SinceTheirs(tab, r)
      PROVE  k \in SinceTheirs(new, r) /\ UnreadListed(new, r, mark, k) = UnreadListed(tab, r, mark, k)
  <2>1. k \in 0..Len(tab) /\ \A i \in DOMAIN tab : i > k /\ tab[i].room = r => tab[i].by = Me
        BY DEF SinceTheirs
  <2>2. Len(tab) <= Len(new)
    <3>1. CASE Len(tab) = 0
          BY <1>3, <3>1
    <3>2. CASE Len(tab) # 0
      <4>1. Len(tab) \in DOMAIN tab
            BY <1>3, <3>2
      <4> QED BY <1>3, <4>1
    <3> QED BY <3>1, <3>2
  <2>3. k \in 0..Len(new)
        BY <1>3, <2>1, <2>2
  <2>4. \A i \in DOMAIN new : i > k /\ new[i].room = r => new[i].by = Me
        BY <2>1
  <2>5. \A j \in 1..k : j \in DOMAIN tab
        BY <1>3, <2>1
  <2>6. UnreadListed(new, r, mark, k) = UnreadListed(tab, r, mark, k)
        BY <2>5, SameListed
  <2> QED BY <2>3, <2>4, <2>6 DEF SinceTheirs
<1> QED BY <1>1, <1>2, <1>4 DEF CountsGiven

(* Of room r nothing is sent that counts, and nothing is read.             *)
LEMMA CountElsewhere ==
    ASSUME QueueOK, NEW e \in Events, NEW d \in Events,
           Send(<<e>>, <<>>) \/ Send(<<e>>, <<d>>), NEW r,
           e \notin CountsOf(r) \cup PeerPosts(r), d \notin CountsOf(r) \cup PeerPosts(r),
           CountsGiven(rows, r, lastRead[r]) \subseteq CountsGiven(rows', r, lastRead'[r]),
           Marking(r, calls) => Marking(r, calls'), UNCHANGED <<list, badge>>,
           LastWord(r) /\ Counted(r)
    PROVE  LastWord(r)' /\ Counted(r)'
<1> DEFINE U == CountsGiven(rows, r, lastRead[r])
           V == CountsGiven(rows', r, lastRead'[r])
<1>1. U \subseteq V
      OBVIOUS
<1>2. /\ \A c \in Conn : Followed(queue[c], CountsOf(r), Right(r, U))
      /\ \A c \in Conn : Followed(queue[c], PeerPosts(r), CountsOf(r))
      BY DEF LastWord
<1>3. r \in dim \/ (list.at = "answered" /\ r \in list.late) \/ Promised(r, U, queue, calls, Shows(r))
      BY DEF Counted
<1> HIDE DEF U, V
<1>8. Right(r, U) \subseteq Right(r, V)
      BY <1>1 DEF Right
<1>4. ASSUME NEW c \in Conn, NEW S \in {CountsOf(r), PeerPosts(r)}, NEW T
      PROVE  /\ Meets(queue[c], S) => Meets(queue'[c], S)
             /\ Followed(queue[c], S, T) => Followed(queue'[c], S, T)
  <2>1. e \notin S /\ d \notin S
        OBVIOUS
  <2>2. CASE Send(<<e>>, <<>>)
        BY <2>1, <2>2, SentOne
  <2>3. CASE Send(<<e>>, <<d>>)
        BY <2>1, <2>3, SentTwo
  <2> QED BY <2>2, <2>3
<1>5. dim \subseteq dim'
      BY NoDoubt
<1>6. LastWord(r)'
  <2>1. /\ \A c \in Conn : Followed(queue'[c], CountsOf(r), Right(r, U))
        /\ \A c \in Conn : Followed(queue'[c], PeerPosts(r), CountsOf(r))
        BY <1>2, <1>4
  <2>2. \A c \in Conn : Followed(queue'[c], CountsOf(r), Right(r, V))
        BY <1>8, <2>1 DEF Followed
  <2> QED BY <2>1, <2>2 DEF LastWord, V
<1>7. Counted(r)'
  <2>1. Promised(r, U, queue, calls, Shows(r)) => Promised(r, V, queue', calls', Shows(r))
        BY <1>1, <1>4 DEF Promised
  <2>2. Shows(r)' = Shows(r)
        BY DEF Shows
  <2>3. r \in dim' \/ (list'.at = "answered" /\ r \in list'.late)
          \/ Promised(r, V, queue', calls', Shows(r)')
        BY <1>3, <1>5, <2>1, <2>2
  <2> QED BY <2>3 DEF Counted, V
<1> QED BY <1>6, <1>7

(* The last thing sent is a right count of room r.                         *)
LEMMA CountTold ==
    ASSUME QueueOK, DownOK, NEW e \in Events, NEW d \in Events, NEW r, NEW x,
           \/ x = e /\ Send(<<e>>, <<>>)
           \/ x = d /\ Send(<<e>>, <<d>>),
           x \in CountsOf(r), x.data \in CountsGiven(rows', r, lastRead'[r])
    PROVE  LastWord(r)' /\ Counted(r)'
<1> DEFINE U == CountsGiven(rows', r, lastRead'[r])
<1>1. x.data \in U
      OBVIOUS
<1> HIDE DEF U
<1>2. x \in CountsOf(r) /\ x \in Right(r, U) /\ IsCount(x) /\ x.room = r
      BY <1>1 DEF CountsOf, Right
<1>3. ASSUME NEW c \in Conn, Hears(c, x)
      PROVE  /\ Followed(queue'[c], CountsOf(r), Right(r, U))
             /\ Followed(queue'[c], PeerPosts(r), CountsOf(r))
             /\ Meets(queue'[c], CountsOf(r))
  <2>1. CASE x = e /\ Send(<<e>>, <<>>)
        BY <1>2, <1>3, <2>1, SentOne
  <2>2. CASE x = d /\ Send(<<e>>, <<d>>)
        BY <1>2, <1>3, <2>2, SentTwo
  <2> QED BY <2>1, <2>2
<1>4. ASSUME NEW c \in Conn, ~Hears(c, x) PROVE queue'[c] = <<>>
  <2>1. c \notin up
        BY <1>2, <1>4 DEF Hears
  <2>2. queue[c] = <<>> /\ ~Hears(c, e) /\ ~Hears(c, d)
        BY <2>1 DEF Hears, DownOK
  <2>3. CASE Send(<<e>>, <<>>)
        BY <2>2, <2>3, SentOne
  <2>4. CASE Send(<<e>>, <<d>>)
        BY <2>2, <2>4, SentTwo
  <2> QED BY <2>3, <2>4
<1>5. LastWord(r)'
  <2>1. /\ \A c \in Conn : Followed(queue'[c], CountsOf(r), Right(r, U))
        /\ \A c \in Conn : Followed(queue'[c], PeerPosts(r), CountsOf(r))
        BY <1>3, <1>4, EmptyQueue
  <2> QED BY <2>1 DEF LastWord, U
<1>6. Counted(r)'
  <2>1. CASE r \in dim'
        BY <2>1 DEF Counted
  <2>2. CASE r \notin dim'
    <3>1. Link \in Conn
          BY ClientAssumption
    <3>2. Hears(Link, x)
      <4>1. CASE x = e /\ Send(<<e>>, <<>>)
            BY <1>2, <2>2, <3>1, <4>1, NoDoubt
      <4>2. CASE x = d /\ Send(<<e>>, <<d>>)
            BY <1>2, <2>2, <3>1, <4>2, NoDoubt
      <4> QED BY <4>1, <4>2
    <3>3. \E c \in Conn : Meets(queue'[c], CountsOf(r))
          BY <1>3, <3>1, <3>2
    <3> QED BY <3>3 DEF Counted, Promised
  <2> QED BY <2>1, <2>2
<1> QED BY <1>5, <1>6

LEMMA SentDown ==
    ASSUME QueueOK, DownOK, NEW e \in Events, NEW d \in Events,
           Send(<<e>>, <<>>) \/ Send(<<e>>, <<d>>), UNCHANGED up,
           UNCHANGED calls \/ Link \in up
    PROVE  DownOK'
<1>1. ASSUME NEW c \in Conn, c \notin up PROVE queue'[c] = <<>>
  <2>1. queue[c] = <<>> /\ ~Hears(c, e) /\ ~Hears(c, d)
        BY <1>1 DEF Hears, DownOK
  <2>2. CASE Send(<<e>>, <<>>)
        BY <2>1, <2>2, SentOne
  <2>3. CASE Send(<<e>>, <<d>>)
        BY <2>1, <2>3, SentTwo
  <2> QED BY <2>2, <2>3
<1> QED BY <1>1 DEF DownOK

LEMMA NoCount ==
    ASSUME NEW r
    PROVE  /\ \A e : e.kind \in {"edited", "deleted", "reacted"} => e \notin CountsOf(r) \cup PeerPosts(r)
           /\ \A e : e.kind = "message" => e \notin CountsOf(r)
           /\ \A e : e.room # r \/ (e.kind = "message" /\ e.data.by = Me) => e \notin PeerPosts(r)
           /\ \A e : e.room # r => e \notin CountsOf(r)
BY DEF CountsOf, PeerPosts, IsCount

LEMMA PostCount ==
    ASSUME ClientInv, CountInv, NEW u \in User, NEW r \in Room, Post(u, r) PROVE CountInv'
<1> DEFINE row == [room |-> r, by |-> u, rev |-> 0, gone |-> FALSE, back |-> FALSE, react |-> [v \in User |-> None]]
           new == Append(rows, row)
           e == Event("message", r, MessageDto(Len(new), row))
           d == Event("room", r, UnreadOf(new, r, lastRead[r]))
<1>1. rows' = new /\ Send(<<e>>, IF u = Me THEN <<>> ELSE <<d>>)
      BY DEF Post
<1>2. UNCHANGED <<lastRead, up, calls, list, badge>>
      BY DEF Post, page, asks
<1>3. row \in Row /\ row.room = r /\ row.by = u /\ MessageDto(Len(new), row).by = u
      BY DEF Row, MessageDto
<1>4. rows \in Seq(Row) /\ QueueOK
      BY DEF ClientInv, RowsOK
<1> HIDE DEF row
<1>5. /\ new \in Seq(Row) /\ Len(new) = Len(rows) + 1 /\ new[Len(new)] = row
      /\ \A i \in 1..Len(rows) : new[i] = rows[i]
      BY <1>3, <1>4, AppendProperties
<1>6. /\ DOMAIN rows = 1..Len(rows) /\ Len(rows) \in Nat /\ DOMAIN new = 1..(Len(rows) + 1)
      BY <1>4, <1>5, LenProperties
<1>7. /\ DOMAIN rows \subseteq DOMAIN new
      /\ \A i \in DOMAIN rows : new[i] = rows[i]
      /\ \A i \in DOMAIN new \ DOMAIN rows : new[i].room = r /\ new[i].by = u
      BY <1>3, <1>5, <1>6
<1>8. /\ MessageDto(Len(new), row) \in Message
      /\ e.kind = "message" /\ e.room = r /\ e.data.by = u
      BY <1>3, <1>5, <1>6, MessageDtoOK DEF Event
<1>9. /\ e \in Events /\ d \in Events /\ d.kind = "room" /\ d.room = r
      /\ d.data = UnreadOf(new, r, lastRead[r])
      BY <1>5, <1>8, PostedOK, UnreadNat, NumberedOK DEF Event
<1> HIDE DEF e, d, new
<1>10. Send(<<e>>, <<>>) \/ Send(<<e>>, <<d>>)
       BY <1>1
<1>11. DownOK'
       BY <1>2, <1>4, <1>9, <1>10, SentDown DEF CountInv
<1>12. ASSUME NEW x \in Room, x # r \/ u = Me PROVE LastWord(x)' /\ Counted(x)'
  <2>1. CountsGiven(rows, x, lastRead[x]) \subseteq CountsGiven(rows', x, lastRead'[x])
    <3>1. \A i \in DOMAIN new \ DOMAIN rows : new[i].room # x \/ new[i].by = Me
          BY <1>7, <1>12
    <3> QED BY <1>1, <1>2, <1>4, <1>5, <1>7, <3>1, SameUnread
  <2>2. e \notin CountsOf(x) \cup PeerPosts(x)
        BY <1>8, <1>12, NoCount
  <2>3. CASE x # r
    <3>1. d \notin CountsOf(x) \cup PeerPosts(x)
          BY <1>9, <2>3, NoCount
    <3> QED BY <1>2, <1>4, <1>9, <1>10, <2>1, <2>2, <3>1, CountElsewhere DEF CountInv
  <2>4. CASE u = Me
    <3>1. Send(<<e>>, <<>>)
          BY <1>1, <2>4
    <3> QED BY <1>2, <1>4, <1>9, <2>1, <2>2, <3>1, CountElsewhere DEF CountInv
  <2> QED BY <1>12, <2>3, <2>4
<1>13. ASSUME u # Me PROVE LastWord(r)' /\ Counted(r)'
  <2>1. Send(<<e>>, <<d>>)
        BY <1>1, <1>13
  <2>2. d \in CountsOf(r) /\ d.data \in CountsGiven(rows', r, lastRead'[r])
        BY <1>1, <1>2, <1>9 DEF CountsOf, IsCount, CountsGiven
  <2> QED BY <1>4, <1>9, <2>1, <2>2, CountTold DEF CountInv
<1> QED BY <1>11, <1>12, <1>13 DEF CountInv

LEMMA EditCount ==
    ASSUME ClientInv, CountInv, NEW i \in RowId,
           Edit(i) \/ \E u \in User, x \in Emoji : React(u, i, x)
    PROVE  CountInv'
<1>1. i \in Nat /\ rows[i] \in Row /\ rows[i].room \in Room /\ i \in DOMAIN rows
      BY RowOK, RowIds DEF ClientInv
<1>2. UNCHANGED <<lastRead, up, calls, list, badge>>
      BY DEF Edit, React, Change, page
<1>3. PICK e, row : /\ Send(<<e>>, <<>>) /\ rows' = [rows EXCEPT ![i] = row] /\ e \in Events
                    /\ e.kind \in {"edited", "reacted"}
                    /\ row.room = rows[i].room /\ row.by = rows[i].by /\ row.gone = rows[i].gone
  <2>1. CASE Edit(i)
    <3> DEFINE row == [rows[i] EXCEPT !.rev = rows[i].rev + 1, !.back = rows[i].back \/ rows[i].gone]
               e == Event("edited", rows[i].room, MessageDto(i, rows'[i]))
    <3>1. rows' = [rows EXCEPT ![i] = row] /\ Send(<<e>>, <<>>)
          BY <2>1 DEF Edit
    <3>2. row.room = rows[i].room /\ row.by = rows[i].by /\ row.gone = rows[i].gone /\ row \in Row
          BY <1>1, EditedRow
    <3> HIDE DEF row
    <3>3. rows'[i] \in Row
          BY <1>1, <3>1, <3>2
    <3>4. e \in Events /\ e.kind = "edited"
          BY <1>1, <3>3, MessageDtoOK, PostedOK DEF Event
    <3> HIDE DEF e
    <3> QED BY <3>1, <3>2, <3>4
  <2>2. ASSUME NEW u \in User, NEW x \in Emoji, React(u, i, x)
        PROVE  \E e, row : /\ Send(<<e>>, <<>>) /\ rows' = [rows EXCEPT ![i] = row] /\ e \in Events
                           /\ e.kind \in {"edited", "reacted"}
                           /\ row.room = rows[i].room /\ row.by = rows[i].by
                           /\ row.gone = rows[i].gone
    <3> DEFINE removed == rows[i].react[u] = x
               row == [rows[i] EXCEPT !.react[u] = IF removed THEN None ELSE x]
               e == Event("reacted", rows[i].room,
                          [id |-> i, name |-> <<u, "live">>, emoji |-> x, removed |-> removed])
    <3>1. rows' = [rows EXCEPT ![i] = row] /\ Send(<<e>>, <<>>)
          BY <2>2 DEF React
    <3>2. row.room = rows[i].room /\ row.by = rows[i].by /\ row.gone = rows[i].gone
          BY <1>1 DEF Row
    <3>3. removed \in BOOLEAN
          OBVIOUS
    <3> HIDE DEF row, removed
    <3>4. e \in Events /\ e.kind = "reacted"
          BY <1>1, <3>3, GivenOK DEF Event
    <3> HIDE DEF e
    <3> QED BY <3>1, <3>2, <3>4
  <2> QED BY <2>1, <2>2
<1>4. QueueOK
      BY DEF ClientInv
<1>7. ClientInv'
      BY EditStep, ReactStep
<1>5. ASSUME NEW x \in Room PROVE LastWord(x)' /\ Counted(x)'
  <2>1. CountsGiven(rows, x, lastRead[x]) \subseteq CountsGiven(rows', x, lastRead'[x])
    <3>1. /\ DOMAIN rows' = DOMAIN rows
          /\ \A j \in DOMAIN rows : /\ rows'[j].room = rows[j].room /\ rows'[j].by = rows[j].by
                                    /\ rows'[j].gone = rows[j].gone
          BY <1>1, <1>3
    <3>2. rows \in Seq(Row) /\ rows' \in Seq(Row)
          BY <1>7 DEF ClientInv, RowsOK
    <3> QED BY <1>2, <3>1, <3>2, SameUnread
  <2>2. e \notin CountsOf(x) \cup PeerPosts(x)
        BY <1>3, NoCount
  <2> QED BY <1>2, <1>3, <1>4, <2>1, <2>2, CountElsewhere DEF CountInv
<1>6. DownOK'
      BY <1>2, <1>3, <1>4, SentDown DEF CountInv
<1> QED BY <1>5, <1>6 DEF CountInv

LEMMA DeleteCount ==
    ASSUME ClientInv, CountInv, NEW i \in RowId, Delete(i) PROVE CountInv'
<1> DEFINE row == [rows[i] EXCEPT !.gone = TRUE]
           r == rows[i].room
           e == Event("deleted", r, i)
           d == Event("room", r, UnreadKept(rows', r, lastRead[r]))
<1>1. /\ rows' = [rows EXCEPT ![i] = row] /\ Send(<<e>>, <<d>>)
      /\ UNCHANGED <<lastRead, up, calls, list, badge>>
      BY DEF Delete, Change, page
<1>2. i \in Nat /\ rows[i] \in Row /\ r \in Room /\ QueueOK /\ i \in DOMAIN rows
      BY RowOK, RowIds DEF ClientInv
<1>3. row \in Row /\ row.room = r /\ row.by = rows[i].by
      BY <1>2 DEF Row
<1> HIDE DEF row
<1>4. RowsOK'
      BY <1>1, <1>3, RowChanged DEF ClientInv
<1>5. UnreadKept(rows', r, lastRead[r]) \in Nat
      BY <1>4, UnreadNat DEF RowsOK
<1>6. /\ e \in Events /\ e.kind = "deleted" /\ e.room = r
      /\ d \in Events /\ d.kind = "room" /\ d.room = r /\ d.data = UnreadKept(rows', r, lastRead[r])
      BY <1>2, <1>5, NumberedOK DEF Event
<1>7. /\ DOMAIN rows' = DOMAIN rows
      /\ \A j \in DOMAIN rows :
            /\ rows'[j].room = rows[j].room /\ rows'[j].by = rows[j].by
            /\ rows[j].room # r => rows'[j].gone = rows[j].gone
      BY <1>1, <1>2, <1>3
<1>8. PICK x : x = r
      OBVIOUS
<1> HIDE DEF e, d, r
<1>9. ASSUME NEW y \in Room, y # x PROVE LastWord(y)' /\ Counted(y)'
  <2>1. CountsGiven(rows, y, lastRead[y]) \subseteq CountsGiven(rows', y, lastRead'[y])
    <3>1. DOMAIN rows \subseteq DOMAIN rows' /\ DOMAIN rows' \ DOMAIN rows = {} /\ lastRead'[y] = lastRead[y]
          BY <1>1, <1>7
    <3>2. \A j \in DOMAIN rows : /\ rows'[j].room = rows[j].room /\ rows'[j].by = rows[j].by
                                 /\ rows[j].room = y => rows'[j].gone = rows[j].gone
          BY <1>7, <1>8, <1>9
    <3>3. \A j \in DOMAIN rows' \ DOMAIN rows : rows'[j].room # y \/ rows'[j].by = Me
          BY <3>1
    <3>5. rows \in Seq(Row) /\ rows' \in Seq(Row)
          BY <1>4 DEF ClientInv, RowsOK
    <3>4. CountsGiven(rows, y, lastRead[y]) \subseteq CountsGiven(rows', y, lastRead[y])
          BY <3>5, <3>1, <3>2, <3>3, SameUnread
    <3> QED BY <3>1, <3>4
  <2>2. e \notin CountsOf(y) \cup PeerPosts(y) /\ d \notin CountsOf(y) \cup PeerPosts(y)
        BY <1>6, <1>8, <1>9, NoCount
  <2> QED BY <1>1, <1>2, <1>6, <2>1, <2>2, CountElsewhere DEF CountInv
<1>10. LastWord(x)' /\ Counted(x)'
  <2>1. d \in CountsOf(x) /\ d.data \in CountsGiven(rows', x, lastRead'[x])
        BY <1>1, <1>6, <1>8 DEF CountsOf, IsCount, CountsGiven
  <2> QED BY <1>1, <1>2, <1>6, <2>1, CountTold DEF CountInv
<1>11. DownOK'
       BY <1>1, <1>2, <1>6, SentDown DEF CountInv
<1> QED BY <1>9, <1>10, <1>11 DEF CountInv

LEMMA TailMarks ==
    ASSUME CallsOK, calls # <<>>, NEW r, Head(calls).op # "mark" \/ Head(calls).room # r
    PROVE  Marking(r, calls) => Marking(r, Tail(calls))
<1>1. \A k \in DOMAIN calls : k = 1 \/ (k - 1 \in DOMAIN Tail(calls) /\ calls[k] = Tail(calls)[k - 1])
      BY TailEvents DEF CallsOK
<1>2. Head(calls) = calls[1]
      BY TailEvents DEF CallsOK
<1> QED BY <1>1, <1>2 DEF Marking

LEMMA HubCallCount == ASSUME ClientInv, CountTypes, CountInv, HubCall PROVE CountInv'
<1>1. PICK r : r = Head(calls).room
      OBVIOUS
<1>2. PICK m : m = lastRead'[r]
      OBVIOUS
<1> DEFINE e == Event("unread", r, UnreadKept(rows, r, m))
           d == Event("room", r, 0)
<1>3. /\ calls # <<>> /\ Link \in up /\ calls' = Tail(calls)
      /\ UNCHANGED <<rows, up, list, badge>>
      BY DEF HubCall, page, asks
<1>4. \/ /\ Head(calls).op = "mark"
         /\ lastRead' = [lastRead EXCEPT ![r] =
                           IF Incoming(r) = {} THEN lastRead[r] ELSE Newest(Incoming(r))]
         /\ Send(<<e>>, IF Incoming(r) = {} THEN <<>> ELSE <<d>>)
      \/ Head(calls).op # "mark" /\ UNCHANGED <<lastRead, queue, doubts>>
      BY <1>1, <1>2 DEF HubCall
<1>5. calls \in Seq(Call) /\ QueueOK /\ RowsOK /\ CallsOK
      BY DEF ClientInv, CallsOK
<1>6. r \in Room
  <2>1. Head(calls) \in Call
        BY <1>3, <1>5, HeadTailProperties
  <2> QED BY <1>1, <2>1 DEF Call
<1>7. UnreadKept(rows, r, m) \in Nat
      BY <1>5, UnreadNat DEF RowsOK
<1>8. /\ e \in Events /\ d \in Events /\ IsCount(e) /\ IsCount(d)
      /\ e.room = r /\ d.room = r /\ e.data = UnreadKept(rows, r, m) /\ d.data = 0
      /\ e.kind = "unread" /\ d.kind = "room"
      BY <1>6, <1>7, NumberedOK DEF Event, IsCount
<1> HIDE DEF e, d
<1>9. CASE Head(calls).op # "mark" /\ UNCHANGED <<lastRead, queue, doubts>>
  <2>1. \A x \in Room : Marking(x, calls) => Marking(x, calls')
        BY <1>3, <1>5, <1>9, TailMarks
  <2>2. UNCHANGED <<rows, lastRead, queue, up, dim, list, badge>>
        BY <1>3, <1>9 DEF doubts
  <2>3. ASSUME NEW x \in Room PROVE LastWord(x)' /\ Counted(x)'
    <3>1. LastWord(x)'
          BY <2>2 DEF CountInv, LastWord
    <3>2. Shows(x)' = Shows(x)
          BY <2>2 DEF Shows
    <3>3. Promised(x, CountsGiven(rows, x, lastRead[x]), queue, calls, Shows(x))
             => Promised(x, CountsGiven(rows, x, lastRead[x]), queue, calls', Shows(x))
          BY <2>1 DEF Promised
    <3>4. \/ x \in dim' \/ (list'.at = "answered" /\ x \in list'.late)
          \/ Promised(x, CountsGiven(rows', x, lastRead'[x]), queue', calls', Shows(x)')
          BY <2>2, <3>2, <3>3 DEF CountInv, Counted
    <3> QED BY <3>1, <3>4 DEF Counted
  <2>4. DownOK'
        BY <1>3, <2>2 DEF CountInv, DownOK
  <2> QED BY <2>3, <2>4 DEF CountInv
<1>10. CASE /\ Head(calls).op = "mark"
            /\ lastRead' = [lastRead EXCEPT ![r] =
                              IF Incoming(r) = {} THEN lastRead[r] ELSE Newest(Incoming(r))]
            /\ Send(<<e>>, IF Incoming(r) = {} THEN <<>> ELSE <<d>>)
  <2>1. Send(<<e>>, <<>>) \/ Send(<<e>>, <<d>>)
        BY <1>10
  <2>2. DownOK'
        BY <1>3, <1>5, <1>8, <2>1, SentDown DEF CountInv
  <2>3. ASSUME NEW x \in Room, x # r PROVE LastWord(x)' /\ Counted(x)'
    <3>1. lastRead'[x] = lastRead[x]
          BY <1>10, <2>3 DEF CountTypes
    <3>2. CountsGiven(rows, x, lastRead[x]) \subseteq CountsGiven(rows', x, lastRead'[x])
          BY <1>3, <3>1
    <3>3. Marking(x, calls) => Marking(x, calls')
          BY <1>1, <1>3, <1>5, <2>3, TailMarks
    <3>4. e \notin CountsOf(x) \cup PeerPosts(x) /\ d \notin CountsOf(x) \cup PeerPosts(x)
          BY <1>8, <2>3, NoCount
    <3> QED BY <1>3, <1>5, <1>8, <2>1, <3>2, <3>3, <3>4, CountElsewhere DEF CountInv
  <2>4. LastWord(r)' /\ Counted(r)'
    <3>1. e \in CountsOf(r) /\ d \in CountsOf(r)
          BY <1>8 DEF CountsOf
    <3>2. e.data \in CountsGiven(rows', r, lastRead'[r])
          BY <1>2, <1>3, <1>8 DEF CountsGiven
    <3>3. CASE Incoming(r) = {}
      <4>1. Send(<<e>>, <<>>)
            BY <1>10, <3>3
      <4> QED BY <1>5, <1>8, <3>1, <3>2, <4>1, CountTold DEF CountInv
    <3>4. CASE Incoming(r) # {}
      <4>1. Send(<<e>>, <<d>>)
            BY <1>10, <3>4
      <4>2. m = Newest(Incoming(r))
            BY <1>2, <1>6, <1>10, <3>4 DEF CountTypes
      <4>3. \A j \in Incoming(r) : j <= m
            BY <1>5, <3>4, <4>2, NewestIs
      <4>4. m \in Incoming(r)
            BY <1>5, <3>4, <4>2, NewestIs
      <4>5. m \in Nat /\ m > lastRead[r] /\ lastRead[r] \in Nat
            BY <1>5, <1>6, <4>4, RowOK DEF Incoming, CountTypes
      <4>6. {i \in DOMAIN rows : rows[i].room = r /\ rows[i].by # Me /\ i > m /\ ~rows[i].gone} = {}
        <5> SUFFICES ASSUME NEW i \in DOMAIN rows, rows[i].room = r, rows[i].by # Me, i > m,
                            ~rows[i].gone
                     PROVE  FALSE
            OBVIOUS
        <5>1. i \in Nat /\ i \in RowId
              BY <1>5, RowIds
        <5>2. i \in Incoming(r)
              BY <4>5, <5>1 DEF Incoming
        <5> QED BY <4>3, <4>5, <5>1, <5>2
      <4>7. UnreadKept(rows, r, m) = 0
            BY <4>6, FS_EmptySet DEF UnreadKept
      <4>8. d.data \in CountsGiven(rows', r, lastRead'[r])
            BY <1>2, <1>3, <1>8, <4>7 DEF CountsGiven
      <4> QED BY <1>5, <1>8, <3>1, <4>1, <4>8, CountTold DEF CountInv
    <3> QED BY <3>3, <3>4
  <2> QED BY <2>2, <2>3, <2>4 DEF CountInv
<1> QED BY <1>4, <1>9, <1>10

LEMMA DropCount == ASSUME ClientInv, CountInv, NEW c \in Conn, Drop(c) PROVE CountInv'
<1>1. /\ up' = up \ {c} /\ queue' = [queue EXCEPT ![c] = <<>>]
      /\ calls' = IF c = Link THEN <<>> ELSE calls
      /\ dim' = dim \cup {e.room : e \in {x \in Range(queue[c]) : IsCount(x)}}
                    \cup {x.room : x \in Range(calls) \ Range(calls')}
      /\ UNCHANGED <<rows, lastRead, list, badge>>
      BY DEF Drop, server, page, asks
<1>2. \A x \in Conn : queue'[x] = IF x = c THEN <<>> ELSE queue[x]
      BY <1>1 DEF ClientInv, QueueOK
<1>3. DownOK'
      BY <1>1, <1>2 DEF CountInv, DownOK
<1>4. ASSUME NEW r \in Room PROVE LastWord(r)'
  <2> DEFINE U == CountsGiven(rows, r, lastRead[r])
  <2>1. /\ \A x \in Conn : Followed(queue[x], CountsOf(r), Right(r, U))
        /\ \A x \in Conn : Followed(queue[x], PeerPosts(r), CountsOf(r))
        BY DEF CountInv, LastWord
  <2> HIDE DEF U
  <2>2. /\ \A x \in Conn : Followed(queue'[x], CountsOf(r), Right(r, U))
        /\ \A x \in Conn : Followed(queue'[x], PeerPosts(r), CountsOf(r))
        BY <1>2, <2>1, EmptyQueue
  <2> QED BY <1>1, <2>2 DEF LastWord, U
<1>5. ASSUME NEW r \in Room, r \notin dim' PROVE Counted(r)'
  <2> DEFINE U == CountsGiven(rows, r, lastRead[r])
  <2>1. (list.at = "answered" /\ r \in list.late) \/ Promised(r, U, queue, calls, Shows(r))
        BY <1>1, <1>5 DEF CountInv, Counted
  <2> HIDE DEF U
  <2>2. ~Meets(queue[c], CountsOf(r))
    <3> SUFFICES ASSUME NEW k \in DOMAIN queue[c], queue[c][k] \in CountsOf(r) PROVE FALSE
        BY DEF Meets
    <3>1. queue[c][k] \in Range(queue[c]) /\ IsCount(queue[c][k]) /\ queue[c][k].room = r
          BY DEF CountsOf, Range
    <3> QED BY <1>1, <1>5, <3>1
  <2>3. Marking(r, calls) => Marking(r, calls')
    <3>1. CASE c # Link
          BY <1>1, <3>1
    <3>2. CASE c = Link
      <4>1. calls' = <<>> /\ Range(<<>>) = {}
            BY <1>1, <3>2 DEF Range
      <4>2. \A k \in DOMAIN calls : calls[k] \in Range(calls) \ Range(calls')
            BY <4>1 DEF Range
      <4>3. \A k \in DOMAIN calls : calls[k].room \in dim'
            BY <1>1, <4>2
      <4> QED BY <1>5, <4>3 DEF Marking
    <3> QED BY <3>1, <3>2
  <2>4. Promised(r, U, queue, calls, Shows(r)) => Promised(r, U, queue', calls', Shows(r))
        BY <1>2, <2>2, <2>3 DEF Promised
  <2>5. Shows(r)' = Shows(r)
        BY <1>1 DEF Shows
  <2>6. (list'.at = "answered" /\ r \in list'.late) \/ Promised(r, U, queue', calls', Shows(r)')
        BY <1>1, <2>1, <2>4, <2>5
  <2> QED BY <1>1, <2>6 DEF Counted, U
<1> QED BY <1>3, <1>4, <1>5 DEF CountInv, Counted

----------------------------------------------------------------------------
(* Badges: what the page does.                                             *)

LEMMA InvokeMarks ==
    ASSUME CallsOK, NEW op, NEW r, Invoke(op, r), [op |-> op, room |-> r] \in Call
    PROVE  /\ \A x : Marking(x, calls) => Marking(x, calls')
           /\ dim \subseteq dim'
           /\ op = "mark" => r \in dim' \/ Marking(r, calls')
           /\ Link \notin up => calls' = calls
<1> DEFINE a == [op |-> op, room |-> r]
<1>1. \/ Link \in up /\ calls' = Append(calls, a)
      \/ Link \notin up /\ calls' = calls
      BY DEF Invoke
<1>2. dim' = IF Link \notin up /\ op = "mark" THEN dim \cup {r} ELSE dim
      BY DEF Invoke
<1>3. a.op = op /\ a.room = r
      OBVIOUS
<1>4. ASSUME calls' = Append(calls, a)
      PROVE  /\ \A x : Marking(x, calls) => Marking(x, calls')
             /\ op = "mark" => Marking(r, calls')
  <2>1. calls \in Seq(Call) /\ a \in Call
        BY DEF CallsOK
  <2> HIDE DEF a
  <2>2. /\ calls' \in Seq(Call) /\ Len(calls') = Len(calls) + 1 /\ calls'[Len(calls) + 1] = a
        /\ \A i \in 1..Len(calls) : calls'[i] = calls[i]
        BY <1>4, <2>1, AppendProperties
  <2>3. /\ DOMAIN calls = 1..Len(calls) /\ Len(calls) \in Nat
        /\ DOMAIN calls' = 1..(Len(calls) + 1)
        BY <2>1, <2>2, LenProperties
  <2>4. \A k \in DOMAIN calls : k \in DOMAIN calls' /\ calls'[k] = calls[k]
        BY <2>2, <2>3
  <2>5. Len(calls) + 1 \in DOMAIN calls'
        BY <2>3
  <2> QED BY <1>3, <2>2, <2>4, <2>5 DEF Marking
<1> HIDE DEF a
<1> QED BY <1>1, <1>2, <1>4

(* The page changes what it asks of the hub, and no badge of a room that   *)
(* is in no doubt.                                                         *)
LEMMA CountKept ==
    ASSUME CountInv, UNCHANGED <<rows, lastRead, queue, up>>, dim \subseteq dim',
           \A x : Marking(x, calls) => Marking(x, calls'),
           Link \notin up => calls' = calls,
           \A r \in Room :
               \/ r \in dim'
               \/ Shows(r)' = Shows(r) /\ (list'.at = "answered" /\ r \in list'.late
                                              <=> list.at = "answered" /\ r \in list.late)
               \/ Promised(r, CountsGiven(rows, r, lastRead[r]), queue, calls', Shows(r)')
    PROVE  CountInv'
<1>1. DownOK'
      BY DEF CountInv, DownOK
<1>2. ASSUME NEW r \in Room PROVE LastWord(r)' /\ Counted(r)'
  <2>1. LastWord(r)'
        BY DEF CountInv, LastWord
  <2>2. PICK U : U = CountsGiven(rows, r, lastRead[r])
        OBVIOUS
  <2>3. r \in dim \/ (list.at = "answered" /\ r \in list.late) \/ Promised(r, U, queue, calls, Shows(r))
        BY <2>2 DEF CountInv, Counted
  <2>4. Promised(r, U, queue, calls, Shows(r)) => Promised(r, U, queue, calls', Shows(r))
        BY DEF Promised
  <2>5. \/ r \in dim' \/ (list'.at = "answered" /\ r \in list'.late)
        \/ Promised(r, U, queue, calls', Shows(r)')
        BY <2>2, <2>3, <2>4
  <2> QED BY <2>1, <2>2, <2>5 DEF Counted
<1> QED BY <1>1, <1>2 DEF CountInv

LEMMA ReturnCount == ASSUME CountInv, NEW c \in Conn, Return(c) PROVE CountInv'
<1>1. up \subseteq up' /\ UNCHANGED <<rows, lastRead, queue, calls, list, badge, dim>>
      BY DEF Return, server, page, asks, doubts
<1>2. DownOK'
      BY <1>1 DEF CountInv, DownOK
<1>3. ASSUME NEW r \in Room PROVE LastWord(r)' /\ Counted(r)'
  <2>1. LastWord(r)'
        BY <1>1 DEF CountInv, LastWord
  <2>2. Shows(r)' = Shows(r)
        BY <1>1 DEF Shows
  <2>3. \/ r \in dim' \/ (list'.at = "answered" /\ r \in list'.late)
        \/ Promised(r, CountsGiven(rows', r, lastRead'[r]), queue', calls', Shows(r)')
        BY <1>1, <2>2 DEF CountInv, Counted
  <2> QED BY <2>1, <2>3 DEF Counted
<1> QED BY <1>2, <1>3 DEF CountInv

LEMMA AskCount ==
    ASSUME ClientInv, CountTypes, CountInv, NEW r \in Room,
           JoinRoom(r) \/ LeaveRoom(r) \/ MarkAll(r)
    PROVE  CountInv'
<1>1. UNCHANGED <<rows, lastRead, queue, up, list>>
      BY DEF JoinRoom, LeaveRoom, MarkAll, server, page, asks
<1>2. PICK op \in {"join", "leave", "mark"} :
          /\ Invoke(op, r)
          /\ op # "mark" => badge' = badge
          /\ op = "mark" => badge' = [badge EXCEPT ![r] = 0]
      BY DEF JoinRoom, LeaveRoom, MarkAll, page, AllRead
<1>3. [op |-> op, room |-> r] \in Call /\ CallsOK
      BY DEF Call, ClientInv
<1>4. /\ \A x : Marking(x, calls) => Marking(x, calls')
      /\ dim \subseteq dim'
      /\ op = "mark" => r \in dim' \/ Marking(r, calls')
      /\ Link \notin up => calls' = calls
      BY <1>2, <1>3, InvokeMarks
<1>5. ASSUME NEW x \in Room
      PROVE  \/ x \in dim'
             \/ Shows(x)' = Shows(x)
             \/ Promised(x, CountsGiven(rows, x, lastRead[x]), queue, calls', Shows(x)')
  <2>1. CASE x = r /\ op = "mark"
        BY <1>4, <2>1 DEF Promised
  <2>2. CASE x # r \/ op # "mark"
    <3>1. badge'[x] = badge[x]
          BY <1>2, <2>2 DEF CountTypes
    <3> QED BY <1>1, <3>1 DEF Shows
  <2> QED BY <2>1, <2>2
<1> QED BY <1>1, <1>4, <1>5, CountKept

LEMMA LoadRoomsCount == ASSUME ClientInv, CountTypes, CountInv, LoadRooms PROVE CountInv'
<1>1. /\ list' = [at |-> "answered", late |-> {},
                  count |-> [r \in Room |-> UnreadListed(rows, r, lastRead[r], Len(rows))]]
      /\ UNCHANGED <<rows, lastRead, queue, up, calls>>
      BY DEF LoadRooms, server, wire
<1>2. DownOK'
      BY <1>1 DEF CountInv, DownOK
<1>3. ASSUME NEW r \in Room PROVE LastWord(r)' /\ Counted(r)'
  <2>1. LastWord(r)'
        BY <1>1 DEF CountInv, LastWord
  <2>2. Shows(r)' = UnreadListed(rows, r, lastRead[r], Len(rows))
        BY <1>1 DEF Shows
  <2>3. Shows(r)' \in CountsGiven(rows', r, lastRead'[r])
    <3>1. DOMAIN rows = 1..Len(rows) /\ Len(rows) \in Nat
          BY LenProperties DEF ClientInv, RowsOK
    <3>2. Len(rows) \in SinceTheirs(rows, r)
          BY <3>1 DEF SinceTheirs
    <3>3. UnreadListed(rows, r, lastRead[r], Len(rows)) \in CountsGiven(rows, r, lastRead[r])
          BY <3>2 DEF CountsGiven
    <3> QED BY <1>1, <2>2, <3>3
  <2> QED BY <2>1, <2>3 DEF Counted, Promised
<1> QED BY <1>2, <1>3 DEF CountInv

LEMMA RoomsAppliedCount == ASSUME CountInv, RoomsApplied PROVE CountInv'
<1>1. /\ list.at = "answered" /\ badge' = list.count /\ list' = NoList
      /\ dim' = dim \cup list.late /\ UNCHANGED <<rows, lastRead, queue, up, calls>>
      BY DEF RoomsApplied, server, wire
<1>2. DownOK'
      BY <1>1 DEF CountInv, DownOK
<1>3. ASSUME NEW r \in Room PROVE LastWord(r)' /\ Counted(r)'
  <2>1. LastWord(r)'
        BY <1>1 DEF CountInv, LastWord
  <2>2. Shows(r)' = Shows(r)
        BY <1>1 DEF Shows, NoList
  <2>3. r \in dim' \/ Promised(r, CountsGiven(rows', r, lastRead'[r]), queue', calls', Shows(r)')
        BY <1>1, <2>2 DEF CountInv, Counted
  <2> QED BY <2>1, <2>3 DEF Counted
<1> QED BY <1>2, <1>3 DEF CountInv

LEMMA CountSame ==
    ASSUME CountInv, UNCHANGED <<rows, lastRead, queue, up, calls, list, badge, dim>>
    PROVE  CountInv'
<1>1. \A r \in Room : Shows(r)' = Shows(r)
      BY DEF Shows
<1> QED BY <1>1, CountKept

(* What an event does to the badges: a count is shown, and only a message  *)
(* of another moves a badge otherwise.                                     *)
LEMMA BadgeSays ==
    ASSUME CountTypes, NEW e \in Events, badge' = BadgeReduced(e)
    PROVE  \A r \in Room : \/ badge'[r] = badge[r]
                           \/ r = e.room /\ e \in CountsOf(r) /\ badge'[r] = e.data
                           \/ r = e.room /\ e \in PeerPosts(r)
<1>1. e.room \in Room
      BY EventCases
<1>2. badge \in [Room -> Nat]
      BY DEF CountTypes
<1>3. CASE IsCount(e)
  <2>1. badge' = [badge EXCEPT ![e.room] = e.data]
        BY <1>3 DEF BadgeReduced, RoomUpserted, UnreadUpdated, IsCount, MarksRead
  <2>2. e \in CountsOf(e.room)
        BY <1>3 DEF CountsOf
  <2>3. \A r \in Room : badge'[r] = IF r = e.room THEN e.data ELSE badge[r]
        BY <1>2, <2>1
  <2> QED BY <2>2, <2>3
<1>4. CASE e.kind = "message" /\ e.data.by # Me
  <2>1. e \in PeerPosts(e.room)
        BY <1>4 DEF PeerPosts
  <2>2. PICK n : badge' = [badge EXCEPT ![e.room] = n]
        BY <1>4 DEF BadgeReduced, AllRead, MarksRead
  <2>3. \A r \in Room : r # e.room => badge'[r] = badge[r]
        BY <1>2, <2>2
  <2> QED BY <2>1, <2>3
<1>5. CASE e.kind = "message" /\ e.data.by = Me
  <2>1. badge' = [badge EXCEPT ![e.room] = CountUp(e)]
        BY <1>5 DEF BadgeReduced, MarksRead
  <2>2. CountUp(e) = badge[e.room]
        BY <1>1, <1>2, <1>5 DEF CountUp, Counts
  <2>3. \A r \in Room : badge'[r] = badge[r]
        BY <1>1, <1>2, <2>1, <2>2
  <2> QED BY <2>3
<1>6. CASE ~IsCount(e) /\ e.kind # "message"
  <2>1. badge' = badge
        BY <1>6 DEF BadgeReduced, MarksRead, IsCount
  <2> QED BY <2>1
<1> QED BY <1>3, <1>4, <1>5, <1>6

LEMMA HandleCount ==
    ASSUME ClientInv, CountTypes, CountInv, NEW c \in Conn, Handle(c) PROVE CountInv'
<1>1. PICK e : e = Head(queue[c])
      OBVIOUS
<1>2. /\ queue[c] # <<>> /\ queue' = [queue EXCEPT ![c] = Tail(queue[c])]
      /\ badge' = BadgeReduced(e)
      /\ (MarksRead(e) /\ Invoke("mark", e.room)) \/ UNCHANGED <<calls, dim>>
      /\ list' = IF list.at = "answered" THEN [list EXCEPT !.late = list.late \cup {e.room}] ELSE list
      /\ UNCHANGED <<rows, lastRead, up>>
      BY <1>1 DEF Handle, Overtake, server
<1>3. QueueOK /\ CallsOK
      BY DEF ClientInv
<1>4. e \in Events /\ e.room \in Room
      BY <1>1, <1>2, <1>3, NextEvent, EventCases
<1>5. /\ \A x : Marking(x, calls) => Marking(x, calls')
      /\ dim \subseteq dim'
      /\ Link \notin up => calls' = calls
  <2>1. CASE Invoke("mark", e.room)
    <3>1. [op |-> "mark", room |-> e.room] \in Call
          BY <1>4 DEF Call
    <3> QED BY <1>3, <2>1, <3>1, InvokeMarks
  <2>2. CASE UNCHANGED <<calls, dim>>
        BY <2>2
  <2> QED BY <1>2, <2>1, <2>2
<1>6. DownOK'
  <2>1. \A x \in Conn : queue'[x] = IF x = c THEN Tail(queue[c]) ELSE queue[x]
        BY <1>2, <1>3 DEF QueueOK
  <2>2. \A x \in Conn : x \notin up => queue'[x] = <<>>
        BY <1>2, <2>1 DEF CountInv, DownOK
  <2> QED BY <1>2, <1>5, <2>2 DEF CountInv, DownOK
<1>7. /\ list'.at = list.at /\ list'.count = list.count
      /\ list.at = "answered" => list.late \subseteq list'.late /\ e.room \in list'.late
      BY <1>2 DEF CountTypes
<1>8. ASSUME NEW r \in Room PROVE LastWord(r)' /\ Counted(r)'
  <2>1. PICK U : U = CountsGiven(rows, r, lastRead[r])
        OBVIOUS
  <2>2. /\ \A x \in Conn : Followed(queue[x], CountsOf(r), Right(r, U))
        /\ \A x \in Conn : Followed(queue[x], PeerPosts(r), CountsOf(r))
        BY <2>1 DEF CountInv, LastWord
  <2>3. LastWord(r)'
    <3>1. /\ \A x \in Conn : Followed(queue'[x], CountsOf(r), Right(r, U))
          /\ \A x \in Conn : Followed(queue'[x], PeerPosts(r), CountsOf(r))
          BY <1>1, <1>2, <1>3, <2>2, NextEvent
    <3> QED BY <1>2, <2>1, <3>1 DEF LastWord
  <2>4. \/ r \in dim' \/ (list'.at = "answered" /\ r \in list'.late)
        \/ Promised(r, U, queue', calls', Shows(r)')
    <3>1. r \in dim \/ (list.at = "answered" /\ r \in list.late) \/ Promised(r, U, queue, calls, Shows(r))
          BY <2>1 DEF CountInv, Counted
    <3>2. CASE r \in dim \/ (list.at = "answered" /\ (r \in list.late \/ r = e.room))
          BY <1>5, <1>7, <3>2
    <3>3. CASE e \notin CountsOf(r) /\ Shows(r)' = Shows(r) /\ Promised(r, U, queue, calls, Shows(r))
      <4>1. \A x \in Conn : Meets(queue[x], CountsOf(r)) => Meets(queue'[x], CountsOf(r))
            BY <1>1, <1>2, <1>3, <3>3, NextEvent
      <4>2. Promised(r, U, queue', calls', Shows(r))
            BY <1>5, <3>3, <4>1 DEF Promised
      <4> QED BY <3>3, <4>2
    <3>4. CASE e \in PeerPosts(r)
      <4>1. e \notin CountsOf(r)
            BY <3>4 DEF PeerPosts, CountsOf, IsCount
      <4>2. Meets(queue'[c], CountsOf(r))
            BY <1>1, <1>2, <1>3, <2>2, <3>4, <4>1, NextEvent
      <4> QED BY <4>2 DEF Promised
    <3>5. CASE e \in CountsOf(r) /\ Shows(r)' = e.data
      <4>1. CASE e \in Right(r, U)
            BY <3>5, <4>1 DEF Right, Promised
      <4>2. CASE e \notin Right(r, U)
        <5>1. Meets(queue'[c], Right(r, U))
              BY <1>1, <1>2, <1>3, <2>2, <3>5, <4>2, NextEvent
        <5>2. Meets(queue'[c], CountsOf(r))
              BY <5>1 DEF Meets, Right
        <5> QED BY <5>2 DEF Promised
      <4> QED BY <4>1, <4>2
    <3>6. CASE list.at # "answered" \/ r # e.room
      <4>1. \/ badge'[r] = badge[r]
            \/ r = e.room /\ e \in CountsOf(r) /\ badge'[r] = e.data
            \/ r = e.room /\ e \in PeerPosts(r)
            BY <1>2, <1>4, BadgeSays
      <4>2. CASE list.at = "answered"
        <5>1. Shows(r)' = Shows(r) /\ e \notin CountsOf(r)
              BY <1>7, <3>6, <4>2 DEF Shows, CountsOf
        <5> QED BY <3>1, <3>2, <3>3, <5>1
      <4>3. CASE list.at # "answered"
        <5>1. Shows(r) = badge[r] /\ Shows(r)' = badge'[r]
              BY <1>7, <4>3 DEF Shows
        <5>2. CASE e \in CountsOf(r)
          <6>1. badge'[r] = e.data
            <7>1. badge' = [badge EXCEPT ![e.room] = e.data] /\ r = e.room
                  BY <1>2, <5>2 DEF BadgeReduced, RoomUpserted, UnreadUpdated, MarksRead, CountsOf, IsCount
            <7> QED BY <1>4, <7>1 DEF CountTypes
          <6> QED BY <3>5, <5>1, <5>2, <6>1
        <5>3. CASE e \notin CountsOf(r)
              BY <3>1, <3>2, <3>3, <3>4, <4>1, <4>3, <5>1, <5>3
        <5> QED BY <5>2, <5>3
      <4> QED BY <4>2, <4>3
    <3> QED BY <3>2, <3>6
  <2> QED BY <1>2, <2>1, <2>3, <2>4 DEF Counted
<1> QED BY <1>6, <1>8 DEF CountInv

LEMMA CountInit == Init => CountInv
<1> SUFFICES ASSUME Init PROVE CountInv
    OBVIOUS
<1>1. /\ \A c \in Conn : queue[c] = <<>>
      /\ calls = <<>> /\ rows = <<>>
      /\ \A r \in Room : badge[r] = 0 /\ list.at = "no"
      BY DEF Init, NoList
<1>2. \A r, m : 0 \in CountsGiven(<<>>, r, m)
  <2>1. \A r, m : {i \in DOMAIN <<>> : <<>>[i].room = r /\ <<>>[i].by # Me /\ i > m} = {}
        OBVIOUS
  <2>2. \A r, m : UnreadOf(<<>>, r, m) = 0
        BY <2>1, FS_EmptySet DEF UnreadOf
  <2> QED BY <2>2 DEF CountsGiven
<1>3. ASSUME NEW r \in Room PROVE LastWord(r) /\ Counted(r)
  <2>1. LastWord(r)
        BY <1>1, EmptyQueue DEF LastWord
  <2>2. Counted(r)
        BY <1>1, <1>2 DEF Counted, Promised, Shows
  <2> QED BY <2>1, <2>2
<1> QED BY <1>1, <1>3 DEF CountInv, DownOK

LEMMA CountStep == ClientInv /\ CountTypes /\ CountInv /\ [Next]_vars => CountInv'
<1> SUFFICES ASSUME ClientInv, CountTypes, CountInv, [Next]_vars PROVE CountInv'
    OBVIOUS
<1>1. ASSUME NEW u \in User, NEW r \in Room, Post(u, r) PROVE CountInv'
      BY <1>1, PostCount
<1>2. ASSUME NEW i \in RowId, Edit(i) \/ \E u \in User, e \in Emoji : React(u, i, e) PROVE CountInv'
      BY <1>2, EditCount
<1>3. ASSUME NEW i \in RowId, Delete(i) PROVE CountInv'
      BY <1>3, DeleteCount
<1>4. CASE HubCall
      BY <1>4, HubCallCount
<1>5. ASSUME NEW c \in Conn, Drop(c) PROVE CountInv'
      BY <1>5, DropCount
<1>6. ASSUME NEW c \in Conn, Return(c) PROVE CountInv'
      BY <1>6, ReturnCount
<1>7. ASSUME NEW c \in Conn, Handle(c) PROVE CountInv'
      BY <1>7, HandleCount
<1>8. ASSUME NEW r \in Room, JoinRoom(r) \/ LeaveRoom(r) \/ MarkAll(r) PROVE CountInv'
      BY <1>8, AskCount
<1>9. CASE LoadRooms
      BY <1>9, LoadRoomsCount
<1>10. CASE RoomsApplied
      BY <1>10, RoomsAppliedCount
<1>11. CASE UNCHANGED <<rows, lastRead, queue, up, calls, list, badge, dim>>
      BY <1>11, CountSame
<1>12. /\ \A i \in RowId : DeletionAnswered(i) =>
             UNCHANGED <<rows, lastRead, queue, up, calls, list, badge, dim>>
       /\ \A r : SetCurrentRoom(r) =>
             UNCHANGED <<rows, lastRead, queue, up, calls, list, badge, dim>>
       /\ \A r \in Room : LoadMessages(r) \/ MessagesApplied(r) =>
             UNCHANGED <<rows, lastRead, queue, up, calls, list, badge, dim>>
       /\ \A r \in Room : \A i \in RowId : LoadContext(r, i) =>
             UNCHANGED <<rows, lastRead, queue, up, calls, list, badge, dim>>
       /\ Rearm => UNCHANGED <<rows, lastRead, queue, up, calls, list, badge, dim>>
       /\ UNCHANGED vars => UNCHANGED <<rows, lastRead, queue, up, calls, list, badge, dim>>
      BY DEF DeletionAnswered, SetCurrentRoom, LoadMessages, LoadContext, Ask, MessagesApplied, Rearm,
             vars, server, wire, page, asks, doubts
<1> QED BY <1>1, <1>2, <1>3, <1>4, <1>5, <1>6, <1>7, <1>8, <1>9, <1>10, <1>11, <1>12 DEF Next

LEMMA CountInvImplies == CountInv => BadgeIsCount
<1> SUFFICES ASSUME CountInv, AtRest, NEW r \in Room \ dim
             PROVE  badge[r] \in CountsGiven(rows, r, lastRead[r])
    BY DEF BadgeIsCount
<1>1. /\ \A c \in Conn : queue[c] = <<>>
      /\ calls = <<>> /\ list.at = "no"
      BY DEF AtRest
<1>2. Promised(r, CountsGiven(rows, r, lastRead[r]), queue, calls, badge[r])
      BY <1>1 DEF CountInv, Counted, Shows
<1>3. ~Marking(r, calls)
      BY <1>1 DEF Marking
<1>4. \A c \in Conn : ~Meets(queue[c], CountsOf(r))
      BY <1>1 DEF Meets
<1> QED BY <1>2, <1>3, <1>4 DEF Promised

(* When nothing is on its way, a badge shows a number of unread messages   *)
(* the server gives, unless a count was lost or overtaken or a mark could  *)
(* not be sent (ChatContext.jsx, UPSERT_CHAT_ROOM and UPDATE_UNREAD_COUNT; *)
(* ChatHub.MarkRoomAsRead; GetChatRoomsQuery).                             *)
THEOREM BadgesCorrect == Spec => []BadgeIsCount
<1>1. Init => ClientInv /\ CountTypes /\ CountInv
      BY ClientInitInv, CountTypesInit, CountInit
<1>2. ClientInv /\ CountTypes /\ CountInv /\ [Next]_vars => (ClientInv /\ CountTypes /\ CountInv)'
      BY ClientStepInv, CountTypesStep, CountStep
<1>3. ClientInv /\ CountTypes /\ CountInv => BadgeIsCount
      BY CountInvImplies
<1> QED BY <1>1, <1>2, <1>3, PTL DEF Spec

=============================================================================

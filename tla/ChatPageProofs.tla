--------------------------- MODULE ChatPageProofs ---------------------------
(***************************************************************************)
(* Proofs about the chat page, Chat.jsx, for any rooms and any number of   *)
(* clicks, visits and requests: a page at rest is in the group of the room *)
(* it shows, and shows the room of its address.                            *)
(*                                                                         *)
(* Both follow from what is under way when they do not hold yet: the page  *)
(* leaves the group of a room only to wait for the hub and then to enter   *)
(* that of another one.                                                    *)
(***************************************************************************)
EXTENDS ChatPage, SequenceTheorems, TLAPS

Select == [to : Room, from : MaybeRoom, jump : MaybeRoom, at : {"forward", "leave", "join"},
           busy : BOOLEAN]
Pull   == [to : Room, jump : MaybeRoom, busy : BOOLEAN]

Types ==
    /\ {addr, jump, currentRoom} \subseteq MaybeRoom
    /\ {rooms, alive, unborn, groups} \subseteq SUBSET Room
    /\ isLoading \in BOOLEAN /\ loads \in Nat /\ (isLoading => loads > 0)
    /\ isForwarding \in BOOLEAN /\ isLoadingMessages \in BOOLEAN /\ link \in BOOLEAN
    /\ forwards \subseteq Select /\ calls \in Seq(Select) /\ pulls \subseteq Pull
    /\ mutes \subseteq Room /\ deletions \subseteq Room

(* The rooms that selections waiting for the hub go to, all of them, and   *)
(* those that wait for it to leave another room.                           *)
Goals(s)     == {s[k].to : k \in DOMAIN s}
LeavingOf(s) == {s[k].to : k \in {k \in DOMAIN s : s[k].at = "leave"}}
Leaving      == LeavingOf(calls)

(* Nothing knows of a room before it is created.                           *)
UnbornUnknown ==
    /\ currentRoom \notin unborn
    /\ \A r \in unborn : r \notin rooms /\ r \notin alive /\ r \notin mutes
    /\ \A s \in forwards : s.to \notin unborn
    /\ Goals(calls) \cap unborn = {}

(* A page out of the group of its room is about to show another one.       *)
Hears == link /\ currentRoom \in alive => currentRoom \in groups \cup strayed \/ Leaving # {}

(* A page that does not show the room of its address will go there.        *)
FollowsAddress ==
    ~due /\ addr \in rooms => \/ currentRoom = addr
                              \/ isLoading
                              \/ isForwarding /\ forwards # {}
                              \/ addr \in Leaving

PageInv == Types /\ UnbornUnknown /\ Hears /\ FollowsAddress

----------------------------------------------------------------------------
(* Calls of the hub, which wait in a queue.                                *)

LEMMA CallAppended ==
    ASSUME NEW s \in Seq(Select), NEW x \in Select, NEW r, r = Append(s, x)
    PROVE  /\ r \in Seq(Select) /\ Goals(r) = Goals(s) \cup {x.to}
           /\ LeavingOf(s) \subseteq LeavingOf(r)
           /\ x.at = "leave" => x.to \in LeavingOf(r)
<1>1. /\ r \in Seq(Select) /\ Len(s) \in Nat /\ DOMAIN s = 1..Len(s) /\ DOMAIN r = 1..(Len(s) + 1)
      /\ r[Len(s) + 1] = x /\ \A k \in 1..Len(s) : r[k] = s[k]
      BY AppendProperties, LenProperties
<1>2. DOMAIN r = DOMAIN s \cup {Len(s) + 1}
      BY <1>1
<1> QED BY <1>1, <1>2 DEF Goals, LeavingOf

LEMMA CallTaken ==
    ASSUME NEW s \in Seq(Select), s # <<>>, NEW r, r = Tail(s)
    PROVE  /\ r \in Seq(Select) /\ Head(s) \in Select /\ Head(s).to \in Goals(s)
           /\ Goals(r) \subseteq Goals(s)
           /\ \A x \in LeavingOf(s) : x \in LeavingOf(r) \/ (Head(s).at = "leave" /\ x = Head(s).to)
<1>1. /\ Len(s) \in Nat \ {0} /\ DOMAIN s = 1..Len(s) /\ r \in Seq(Select) /\ Head(s) = s[1]
      /\ Head(s) \in Select /\ DOMAIN r = 1..(Len(s) - 1) /\ \A k \in 1..(Len(s) - 1) : r[k] = s[k + 1]
      BY HeadTailProperties, EmptySeq, LenProperties
<1>2. Head(s).to \in Goals(s)
      BY <1>1 DEF Goals
<1>3. Goals(r) \subseteq Goals(s)
  <2> SUFFICES ASSUME NEW k \in DOMAIN r PROVE r[k].to \in Goals(s)
      BY DEF Goals
  <2>1. k + 1 \in DOMAIN s /\ r[k] = s[k + 1]
        BY <1>1
  <2> QED BY <2>1 DEF Goals
<1>4. ASSUME NEW k \in DOMAIN s, s[k].at = "leave"
      PROVE  s[k].to \in LeavingOf(r) \/ (Head(s).at = "leave" /\ s[k].to = Head(s).to)
  <2>1. CASE k = 1
        BY <1>1, <1>4, <2>1
  <2>2. CASE k # 1
    <3>1. k - 1 \in DOMAIN r /\ r[k - 1] = s[k]
          BY <1>1, <2>2
    <3> QED BY <1>4, <3>1 DEF LeavingOf
  <2> QED BY <2>1, <2>2
<1> QED BY <1>1, <1>2, <1>3, <1>4 DEF LeavingOf

----------------------------------------------------------------------------
(* Selections.                                                             *)

(* The page goes to a room: at once, or when the hub has left another one. *)
Goes(r) ==
    /\ addr' = r /\ jump' = NoRoom /\ groups' \subseteq Room
    /\ calls' \in Seq(Select) /\ Goals(calls') \subseteq Goals(calls) \cup {r}
    /\ \/ currentRoom' = r /\ (link => r \in groups')
       \/ currentRoom' = currentRoom /\ r \in LeavingOf(calls')

(* What is shown, waited for and joined stays, or changes as the selection *)
(* of a room makes it.                                                     *)
Rests    == UNCHANGED <<addr, jump, currentRoom, calls, groups>>
Taken(r) ==
    \/ Rests /\ UNCHANGED forwards /\ (currentRoom = r \/ isLoading)
    \/ /\ Rests /\ isForwarding /\ forwards' # {} /\ forwards' \subseteq Select
       /\ \A s \in forwards' : s \in forwards \/ s.to = r
    \/ Goes(r) /\ UNCHANGED forwards

LEMMA GoGoes == ASSUME Types, NEW s \in Select, Go(s) PROVE Goes(s.to)
<1>1. s.to \in Room /\ s.from \in MaybeRoom /\ calls \in Seq(Select) /\ groups \subseteq Room
      /\ addr' = s.to /\ jump' = NoRoom
      BY DEF Types, Select, Go
<1>2. CASE s.from = NoRoom
  <2> DEFINE x == [s EXCEPT !.at = "join"]
  <2>1. x \in Select /\ x.to = s.to
        BY DEF Select
  <2>2. calls' = Append(calls, x) /\ currentRoom' = s.to /\ groups' = Joined(s.to)
        BY <1>2 DEF Go
  <2> HIDE DEF x
  <2>3. calls' \in Seq(Select) /\ Goals(calls') = Goals(calls) \cup {s.to}
        BY <1>1, <2>1, <2>2, CallAppended
  <2> QED BY <1>1, <2>2, <2>3 DEF Goes, Joined
<1>3. CASE s.from # NoRoom
  <2> DEFINE x == [s EXCEPT !.at = "leave"]
  <2>1. x \in Select /\ x.to = s.to /\ x.at = "leave"
        BY DEF Select
  <2>2. calls' = Append(calls, x) /\ groups' = groups \ {s.from} /\ currentRoom' = currentRoom
        BY <1>3 DEF Go
  <2> HIDE DEF x
  <2>3. calls' \in Seq(Select) /\ Goals(calls') = Goals(calls) \cup {s.to} /\ s.to \in LeavingOf(calls')
        BY <1>1, <2>1, <2>2, CallAppended
  <2> QED BY <1>1, <2>2, <2>3 DEF Goes
<1> QED BY <1>2, <1>3

LEMMA SelectionTaken ==
    ASSUME Types, NEW r \in Room, HandleRoomSelect(r) PROVE Taken(r)
<1>1. Selection(r) \in Select /\ Selection(r).to = r
      BY DEF Selection, Select, Types, MaybeRoom
<1>2. CASE currentRoom = r \/ isLoading
      BY <1>2 DEF HandleRoomSelect, Taken, Rests
<1>3. CASE ~(currentRoom = r \/ isLoading) /\ isForwarding
  <2>1. forwards' = forwards \cup {Selection(r)} /\ Rests
        BY <1>3 DEF HandleRoomSelect, Rests
  <2> QED BY <1>1, <1>3, <2>1 DEF Taken, Types
<1>4. CASE ~(currentRoom = r \/ isLoading) /\ ~isForwarding
  <2>1. Go(Selection(r)) /\ UNCHANGED forwards
        BY <1>4 DEF HandleRoomSelect
  <2> QED BY <1>1, <2>1, GoGoes DEF Taken
<1> QED BY <1>2, <1>3, <1>4

LEMMA Rendered ==
    ASSUME Render, ~due'
    PROVE  UNCHANGED <<addr, currentRoom, rooms, isLoading, isForwarding>>
BY DEF Render, seen

(* A selection leaves the page with the types, and in the group it hears   *)
(* or about to leave it.                                                   *)
LEMMA TakenKeeps ==
    ASSUME Types, UnbornUnknown, NEW r \in Room, Taken(r), r \notin unborn'
    PROVE  /\ {addr', jump', currentRoom'} \subseteq MaybeRoom /\ groups' \subseteq Room
           /\ calls' \in Seq(Select) /\ forwards' \subseteq Select
           /\ unborn' \subseteq unborn =>
                 /\ currentRoom' \notin unborn' /\ Goals(calls') \cap unborn' = {}
                 /\ \A s \in forwards' : s.to \notin unborn'
           /\ Hears /\ UNCHANGED link /\ strayed \subseteq strayed' /\ alive' \subseteq alive \cup unborn =>
                 Hears'
<1>1. r \in MaybeRoom /\ NoRoom \in MaybeRoom
      BY DEF MaybeRoom
<1>2. CASE Rests /\ UNCHANGED forwards
      BY <1>2 DEF Rests, Types, UnbornUnknown, Hears, Leaving
<1>3. CASE Rests /\ forwards' \subseteq Select /\ \A s \in forwards' : s \in forwards \/ s.to = r
      BY <1>3 DEF Rests, Types, UnbornUnknown, Hears, Leaving
<1>4. CASE Goes(r) /\ UNCHANGED forwards
      BY <1>1, <1>4 DEF Goes, Types, UnbornUnknown, Hears, Leaving
<1> QED BY <1>2, <1>3, <1>4 DEF Taken

----------------------------------------------------------------------------
(* The steps.                                                              *)

(* A list is asked for, unless one is.                                     *)
LEMMA LoadKeeps ==
    ASSUME Types, LoadRooms
    PROVE  isLoading' \in BOOLEAN /\ loads' \in Nat /\ (isLoading' => loads' > 0)
           /\ (isLoading => isLoading')
<1>1. CASE isLoading
      BY <1>1 DEF Types, LoadRooms
<1>2. CASE ~isLoading
  <2>1. isLoading' = TRUE /\ loads' = loads + 1 /\ loads \in Nat
        BY <1>2 DEF Types, LoadRooms
  <2> QED BY <1>2, <2>1
<1> QED BY <1>1, <1>2

LEMMA ClickKeeps == ASSUME PageInv, NEW r \in Room, Click(r) PROVE PageInv'
<1>1. /\ ~due /\ r \in rooms /\ r \notin unborn /\ Taken(r)
      /\ UNCHANGED <<rooms, alive, unborn, isLoading, loads, isForwarding, pulls, isLoadingMessages,
                     link, mutes, deletions, strayed>>
      BY SelectionTaken DEF Click, Move, PageInv, UnbornUnknown, list, asks
<1>2. /\ {addr', jump', currentRoom'} \subseteq MaybeRoom /\ groups' \subseteq Room
      /\ calls' \in Seq(Select) /\ forwards' \subseteq Select
      /\ currentRoom' \notin unborn' /\ Goals(calls') \cap unborn' = {}
      /\ \A s \in forwards' : s.to \notin unborn'
      /\ Hears'
      BY <1>1, TakenKeeps DEF PageInv
<1>3. FollowsAddress'
  <2> SUFFICES ASSUME ~due', addr' \in rooms'
               PROVE  currentRoom' = addr' \/ isLoading' \/ (isForwarding' /\ forwards' # {}) \/ addr' \in Leaving'
      BY DEF FollowsAddress
  <2>1. UNCHANGED <<addr, currentRoom, rooms, isLoading, isForwarding>>
        BY Rendered DEF Click
  <2>2. CASE Goes(r)
        BY <2>1, <2>2 DEF Goes, Leaving
  <2>3. CASE Rests /\ (UNCHANGED forwards \/ (isForwarding /\ forwards' # {}))
        BY <1>1, <2>1, <2>3 DEF PageInv, FollowsAddress, Rests, Leaving
  <2> QED BY <1>1, <2>2, <2>3 DEF Taken
<1> QED BY <1>1, <1>2, <1>3 DEF PageInv, Types, UnbornUnknown

LEMMA ForwardedKeeps == ASSUME PageInv, NEW s \in forwards, Forwarded(s) PROVE PageInv'
<1>1. /\ ~due /\ forwards' = forwards \ {s} /\ isForwarding' = FALSE
      /\ Go(s) \/ Rests
      /\ UNCHANGED <<rooms, alive, unborn, isLoading, loads, pulls, isLoadingMessages,
                     link, mutes, deletions, strayed>>
      BY DEF Forwarded, Turn, list, asks, Rests
<1>2. s \in Select /\ s.to \in Room /\ s.to \notin unborn
      BY DEF PageInv, Types, UnbornUnknown, Select
<1>3. Goes(s.to) \/ Rests
      BY <1>1, <1>2, GoGoes DEF PageInv
<1>4. /\ {addr', jump', currentRoom'} \subseteq MaybeRoom /\ groups' \subseteq Room
      /\ calls' \in Seq(Select)
      /\ currentRoom' \notin unborn' /\ Goals(calls') \cap unborn' = {}
      BY <1>1, <1>2, <1>3 DEF Goes, Rests, PageInv, Types, UnbornUnknown, MaybeRoom
<1>5. Hears'
      BY <1>1, <1>2, <1>3 DEF Goes, Rests, PageInv, Hears, Leaving
<1>6. FollowsAddress'
  <2> SUFFICES ASSUME ~due', addr' \in rooms'
               PROVE  currentRoom' = addr' \/ isLoading' \/ addr' \in Leaving'
      BY DEF FollowsAddress
  <2>1. UNCHANGED <<addr, currentRoom, rooms, isLoading, isForwarding>>
        BY Rendered DEF Forwarded
  <2>2. CASE Goes(s.to)
        BY <2>2 DEF Goes, Leaving
  <2>3. CASE Rests
        BY <1>1, <2>1, <2>3 DEF PageInv, FollowsAddress, Rests, Leaving
  <2> QED BY <1>3, <2>2, <2>3
<1> QED BY <1>1, <1>4, <1>5, <1>6 DEF PageInv, Types, UnbornUnknown

(* The hub has left a room: the page shows the next one, and enters it.    *)
LEMMA LeftKeeps == ASSUME PageInv, Left PROVE PageInv'
<1> DEFINE s == Head(calls)
           x == [s EXCEPT !.at = "join"]
           t == Tail(calls)
<1>1. /\ ~due /\ calls # <<>> /\ s.at = "leave" /\ currentRoom' = s.to /\ groups' = Joined(s.to)
      /\ calls' = Append(t, x)
      /\ UNCHANGED <<addr, jump, rooms, alive, unborn, isLoading, loads, isForwarding, forwards, pulls,
                     isLoadingMessages, link, mutes, deletions, strayed>>
      BY DEF Left, Turn, list, asks
<1>2. /\ t \in Seq(Select) /\ s \in Select /\ s.to \in Goals(calls) /\ Goals(t) \subseteq Goals(calls)
      /\ \A r \in Leaving : r \in LeavingOf(t) \/ r = s.to
      BY <1>1, CallTaken DEF PageInv, Types, Leaving
<1>3. x \in Select /\ x.to = s.to /\ s.to \in Room
      BY <1>2 DEF Select
<1> HIDE DEF s, t, x
<1>4. calls' \in Seq(Select) /\ Goals(calls') = Goals(t) \cup {s.to} /\ LeavingOf(t) \subseteq Leaving'
      BY <1>1, <1>2, <1>3, CallAppended DEF Leaving
<1>5. Types'
      BY <1>1, <1>3, <1>4 DEF PageInv, Types, MaybeRoom, Joined
<1>6. UnbornUnknown'
      BY <1>1, <1>2, <1>4 DEF PageInv, UnbornUnknown
<1>7. Hears'
      BY <1>1 DEF Hears, Joined
<1>8. FollowsAddress'
  <2> SUFFICES ASSUME ~due' PROVE FollowsAddress'
      BY DEF FollowsAddress
  <2>1. UNCHANGED <<addr, currentRoom, rooms, isLoading, isForwarding>>
        BY Rendered DEF Left
  <2> QED BY <1>1, <1>2, <1>4, <2>1 DEF PageInv, FollowsAddress
<1> QED BY <1>5, <1>6, <1>7, <1>8 DEF PageInv

LEMMA EnteredKeeps == ASSUME PageInv, Entered PROVE PageInv'
<1> DEFINE s == Head(calls)
           p == [to |-> s.to, jump |-> s.jump, busy |-> s.busy]
<1>1. /\ ~due /\ calls # <<>> /\ s.at = "join" /\ calls' = Tail(calls)
      /\ pulls' = pulls \cup {p} /\ isLoadingMessages' = (isLoadingMessages \/ ~s.busy)
      /\ UNCHANGED <<addr, jump, currentRoom, rooms, alive, unborn, isLoading, loads, isForwarding, forwards,
                     link, groups, mutes, deletions, strayed>>
      BY DEF Entered, Turn, list, hub, asks
<1>2. /\ calls' \in Seq(Select) /\ s \in Select /\ Goals(calls') \subseteq Goals(calls)
      /\ \A r \in Leaving : r \in Leaving'
      BY <1>1, CallTaken DEF PageInv, Types, Leaving
<1>3. p \in Pull
      BY <1>2 DEF Select, Pull
<1> HIDE DEF s, p
<1>4. isLoadingMessages' \in BOOLEAN
      BY <1>1, <1>2 DEF Select, PageInv, Types
<1>5. Types'
      BY <1>1, <1>2, <1>3, <1>4 DEF PageInv, Types
<1>6. UnbornUnknown'
      BY <1>1, <1>2 DEF PageInv, UnbornUnknown
<1>7. Hears' /\ FollowsAddress'
      BY <1>1, <1>2 DEF PageInv, Hears, FollowsAddress
<1> QED BY <1>5, <1>6, <1>7 DEF PageInv

LEMMA PulledKeeps == ASSUME PageInv, NEW s \in pulls, Pulled(s) PROVE PageInv'
<1>1. /\ ~due /\ pulls' = pulls \ {s} /\ isLoadingMessages' = (isLoadingMessages /\ s.busy)
      /\ IF s.jump \in Room THEN addr' = s.jump /\ jump' = NoRoom ELSE UNCHANGED <<addr, jump>>
      /\ UNCHANGED <<currentRoom, rooms, alive, unborn, isLoading, loads, isForwarding, forwards, calls,
                     link, groups, mutes, deletions, strayed>>
      BY DEF Pulled, Turn, list, hub, asks
<1>2. s.busy \in BOOLEAN
      BY DEF PageInv, Types, Pull
<1>3. isLoadingMessages' \in BOOLEAN
      BY <1>1, <1>2 DEF PageInv, Types
<1>4. Types'
      BY <1>1, <1>3 DEF PageInv, Types, MaybeRoom
<1>5. UnbornUnknown' /\ Hears'
      BY <1>1 DEF PageInv, UnbornUnknown, Hears, Leaving
<1>6. FollowsAddress'
  <2> SUFFICES ASSUME ~due' PROVE FollowsAddress'
      BY DEF FollowsAddress
  <2>1. UNCHANGED addr
        BY Rendered DEF Pulled
  <2> QED BY <1>1, <2>1 DEF PageInv, FollowsAddress, Leaving
<1> QED BY <1>4, <1>5, <1>6 DEF PageInv

LEMMA EffectsKeep == ASSUME PageInv, Effects PROVE PageInv'
<1>1. /\ UNCHANGED <<rooms, alive, unborn, isForwarding, pulls, isLoadingMessages, link, mutes, deletions, strayed>>
      /\ UNCHANGED <<isLoading, loads>> \/ LoadRooms
      BY DEF Effects, asks
<1>2. isLoading' \in BOOLEAN /\ loads' \in Nat /\ (isLoading' => loads' > 0) /\ (isLoading => isLoading')
      BY <1>1, LoadKeeps DEF PageInv, Types
<1>3. CASE EffectSelects(addr)
  <2>1. addr \in Room /\ addr \notin unborn /\ ~isLoading /\ currentRoom # addr
        BY <1>3 DEF EffectSelects, PageInv, Types, UnbornUnknown
  <2>2. Taken(addr)
        BY <1>3, <2>1, SelectionTaken DEF Effects, PageInv
  <2>3. /\ {addr', jump', currentRoom'} \subseteq MaybeRoom /\ groups' \subseteq Room
        /\ calls' \in Seq(Select) /\ forwards' \subseteq Select
        /\ currentRoom' \notin unborn' /\ Goals(calls') \cap unborn' = {}
        /\ \A s \in forwards' : s.to \notin unborn'
        /\ Hears'
        BY <1>1, <2>1, <2>2, TakenKeeps DEF PageInv
  <2>4. FollowsAddress'
    <3> SUFFICES ASSUME ~due' PROVE FollowsAddress'
        BY DEF FollowsAddress
    <3>1. UNCHANGED <<addr, currentRoom, isForwarding>>
          BY Rendered DEF Effects
    <3> QED BY <2>1, <2>2, <3>1 DEF Taken, Goes, FollowsAddress, Leaving
  <2> QED BY <1>1, <1>2, <2>3, <2>4 DEF PageInv, Types, UnbornUnknown
<1>4. CASE ~EffectSelects(addr)
  <2>1. UNCHANGED <<addr, jump, currentRoom, forwards, calls, groups>>
        BY <1>4 DEF Effects
  <2>2. FollowsAddress'
        BY <1>1, <1>2, <1>4, <2>1 DEF FollowsAddress, EffectSelects
  <2>3. Hears'
        BY <1>1, <2>1 DEF PageInv, Hears, Leaving
  <2> QED BY <1>1, <1>2, <2>1, <2>2, <2>3 DEF PageInv, Types, UnbornUnknown
<1> QED BY <1>3, <1>4

LEMMA NewRoomKeeps == ASSUME PageInv, NEW r \in Room, NewRoom(r) PROVE PageInv'
<1>1. /\ r \in unborn /\ unborn' = unborn \ {r} /\ alive' = alive \cup {r} /\ rooms' = rooms \cup {r}
      /\ Taken(r) /\ due'
      /\ UNCHANGED <<isLoading, loads, isForwarding, pulls, isLoadingMessages, link, mutes, deletions, strayed>>
      BY SelectionTaken DEF NewRoom, Move, PageInv, asks
<1>2. /\ {addr', jump', currentRoom'} \subseteq MaybeRoom /\ groups' \subseteq Room
      /\ calls' \in Seq(Select) /\ forwards' \subseteq Select
      /\ currentRoom' \notin unborn' /\ Goals(calls') \cap unborn' = {}
      /\ \A s \in forwards' : s.to \notin unborn'
      /\ Hears'
      BY <1>1, TakenKeeps DEF PageInv
<1> QED BY <1>1, <1>2 DEF PageInv, Types, UnbornUnknown, FollowsAddress

(* What ends in an effect, or changes neither room nor address.            *)
LEMMA OthersKeep ==
    ASSUME PageInv,
           \/ RoomsAnswered \/ Back \/ Forward \/ Mute \/ Delete \/ LinkDown \/ LinkUp
           \/ \E r \in mutes : Muted(r)
           \/ \E r \in deletions : Deleted(r)
           \/ \E a \in MaybeRoom : \E j \in {NoRoom} \cup (IF a = NoRoom THEN {} ELSE Room \ {a}) : Visit(a, j)
           \/ UNCHANGED vars
    PROVE  PageInv'
<1> USE PageAssumption
<1>1. NoRoom \in MaybeRoom /\ Room \subseteq MaybeRoom /\ NoRoom \notin Room
      BY DEF MaybeRoom
<1>2. NoRoom \notin alive /\ NoRoom \notin unborn
      BY <1>1 DEF PageInv, Types
<1>3. CASE RoomsAnswered
  <2>1. /\ loads' \in Nat /\ isLoading' = FALSE /\ rooms' \in {alive, rooms} /\ due' = TRUE
        /\ UNCHANGED <<addr, jump, currentRoom, alive, unborn, isForwarding, forwards, calls, pulls,
                       isLoadingMessages, link, groups, mutes, deletions, strayed>>
        BY <1>3 DEF RoomsAnswered, Turn, work, hub, asks, PageInv, Types
  <2>2. Types'
        BY <2>1 DEF PageInv, Types
  <2>3. UnbornUnknown'
        BY <2>1 DEF PageInv, UnbornUnknown
  <2> QED BY <2>1, <2>2, <2>3 DEF PageInv, Hears, Leaving, FollowsAddress
<1>4. CASE Back
      BY <1>1, <1>2, <1>4, LoadKeeps
         DEF Back, Move, work, asks, PageInv, Types, UnbornUnknown, Hears, Leaving, FollowsAddress
<1>5. CASE Forward
      BY <1>5 DEF Forward, Move, list, hub, asks, PageInv, Types, UnbornUnknown, Hears, Leaving,
                  FollowsAddress
<1>6. CASE Mute
  <2>1. currentRoom \in Room /\ mutes' = mutes \cup {currentRoom}
        BY <1>6 DEF Mute, HeaderShown, PageInv, Types, MaybeRoom
  <2> QED BY <1>6, <2>1
          DEF Mute, Move, list, work, hub, PageInv, Types, UnbornUnknown, Hears, Leaving, FollowsAddress
<1>7. CASE Delete
  <2>1. currentRoom \in Room /\ deletions' = deletions \cup {currentRoom}
        BY <1>7 DEF Delete, HeaderShown, PageInv, Types, MaybeRoom
  <2> QED BY <1>7, <2>1
          DEF Delete, Move, list, work, hub, PageInv, Types, UnbornUnknown, Hears, Leaving, FollowsAddress
<1>8. CASE LinkDown \/ LinkUp
  <2>1. /\ (link' = FALSE /\ groups' = {}) \/ (link' = TRUE /\ groups' = alive)
        /\ UNCHANGED <<addr, jump, currentRoom, rooms, alive, unborn, isLoading, loads, isForwarding,
                       forwards, calls, pulls, isLoadingMessages, mutes, deletions, due, strayed>>
        BY <1>8 DEF LinkDown, LinkUp, list, work, asks
  <2>2. Types'
        BY <2>1 DEF PageInv, Types
  <2>3. UnbornUnknown'
        BY <2>1 DEF PageInv, UnbornUnknown
  <2>4. Hears'
        BY <2>1 DEF Hears
  <2> QED BY <2>1, <2>2, <2>3, <2>4 DEF PageInv, Leaving, FollowsAddress
<1>9. ASSUME NEW r \in mutes, Muted(r) PROVE PageInv'
  <2>1. r \in Room /\ r \notin unborn
        BY DEF PageInv, Types, UnbornUnknown
  <2> QED BY <1>1, <1>9, <2>1, LoadKeeps
          DEF Muted, Turn, work, hub, PageInv, Types, UnbornUnknown, Hears, Leaving, FollowsAddress
<1>10. ASSUME NEW r \in deletions, Deleted(r) PROVE PageInv'
       BY <1>1, <1>2, <1>10, LoadKeeps
          DEF Deleted, Turn, work, hub, PageInv, Types, UnbornUnknown, Hears, Leaving, FollowsAddress
<1>11. ASSUME NEW a \in MaybeRoom, NEW j \in {NoRoom} \cup (IF a = NoRoom THEN {} ELSE Room \ {a}), Visit(a, j)
       PROVE  PageInv'
  <2>1. j \in MaybeRoom
        BY <1>1
  <2> QED BY <1>11, <2>1
          DEF Visit, Move, list, work, hub, asks, PageInv, Types, UnbornUnknown, Hears, Leaving, FollowsAddress
<1>12. CASE UNCHANGED vars
       BY <1>12 DEF vars, list, work, hub, asks, PageInv, Types, UnbornUnknown, Hears, Leaving, FollowsAddress
<1> QED BY <1>3, <1>4, <1>5, <1>6, <1>7, <1>8, <1>9, <1>10, <1>11, <1>12

LEMMA PageStep == PageInv /\ [Next]_vars => PageInv'
BY ClickKeeps, ForwardedKeeps, LeftKeeps, EnteredKeeps, PulledKeeps, EffectsKeep, NewRoomKeeps, OthersKeep
   DEF Next, Answers, User

LEMMA PageStart == Init => PageInv
<1> SUFFICES ASSUME Init PROVE PageInv
    OBVIOUS
<1>1. /\ NoRoom \in MaybeRoom /\ NoRoom \notin Room /\ Later \subseteq Room
      BY PageAssumption DEF MaybeRoom
<1>2. calls \in Seq(Select) /\ DOMAIN calls = {}
      BY DEF Init
<1>3. Goals(calls) = {}
      BY <1>2 DEF Goals
<1>4. Types
      BY <1>1, <1>2 DEF Init, Types
<1>5. UnbornUnknown
      BY <1>1, <1>3 DEF Init, UnbornUnknown
<1> QED BY <1>1, <1>4, <1>5 DEF Init, PageInv, Hears, FollowsAddress

LEMMA PageOK == FairSpec => []PageInv
BY PageStart, PageStep, PTL DEF FairSpec

LEMMA AtRestNothingLeaves == ASSUME AtRest PROVE Leaving = {}
BY DEF AtRest, Leaving, LeavingOf

(* The variables have their types, only live requests keep the page from   *)
(* its list, and a page at rest shows the room of its address, if it has   *)
(* it: no click, forward, answer or failure leaves the address and the     *)
(* room apart (the effect on roomId and handleRoomSelect).                 *)
THEOREM PageTypes == FairSpec => []TypeOK
<1>1. PageInv => TypeOK
      BY AtRestNothingLeaves DEF PageInv, Types, TypeOK, FollowsAddress, AtRest
<1> QED BY <1>1, PageOK, PTL

(* A page at rest that shows a room is in the hub's group of that room,    *)
(* whatever was clicked, answered late or cut off, for any rooms and any   *)
(* number of moves, unless a mute's answer brought the room back.          *)
THEOREM PageHears == FairSpec => []HearsRoom
<1>1. PageInv => HearsRoom
      BY AtRestNothingLeaves DEF PageInv, Hears, HearsRoom
<1> QED BY <1>1, PageOK, PTL

=============================================================================

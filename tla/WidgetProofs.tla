---------------------------- MODULE WidgetProofs ----------------------------
(***************************************************************************)
(* Proof about the support widget, LiveChatWidget.jsx: that it shows every *)
(* message of the chat once, for any number of connections, of messages    *)
(* and of the visitor's letters.                                           *)
(*                                                                         *)
(* Every step of the widget is one of five kinds: it leaves the talk and   *)
(* what has come of it alone (Aside), something is said at the server      *)
(* (Says), the chat starts there or on the page, an event is taken, or the *)
(* visitor's letter goes, is answered or fails.                            *)
(***************************************************************************)
EXTENDS Widget, FiniteSetTheorems, SequenceTheorems, TLAPS

WireType == [is : {"starting", "up", "down", "closed", "failed"},
             starts : {"no", "asked", "answered", "joining"},
             history : Nat, hears : BOOLEAN, mail : Seq(Nat)]
Saying   == Phrase \cup {"agent", "file", "first"}
RowType  == [own : BOOLEAN, phrase : Saying]

(* A connection that has not started does nothing and hears nothing; the   *)
(* mail of one that hears is the end of what is saved, n messages.         *)
EndOf(m, n)    == Len(m) <= n /\ \A k \in 1..Len(m) : m[k] = (n - Len(m)) + k
Quiet(w)       == w.is \in {"starting", "failed"}
WireFits(w, n) ==
    /\ w \in WireType
    /\ Quiet(w) => w.starts = "no" /\ ~w.hears
    /\ ~w.hears => w.mail = <<>>
    /\ EndOf(w.mail, n)

(* The connection that is shared is the one that started, and the only one *)
(* that has not failed unless another was built beside it.                 *)
WiresInv ==
    /\ wires \in Seq(WireType) /\ saved \in Seq(RowType)
    /\ \A c \in Wire : WireFits(wires[c], Len(saved))
    /\ shared \in Wire \cup {0}
    /\ shared # 0 => ~Quiet(wires[shared])
    /\ \A c \in Wire : ~Quiet(wires[c]) => shared # 0
    /\ ~doubtful => \A c, d \in Wire : wires[c].is # "failed" /\ wires[d].is # "failed" => c = d
    /\ ticketIs = "none" => saved = <<>>
    /\ doubtful \in BOOLEAN

LEMMA EndGrows ==
    ASSUME NEW s \in Seq(Nat), NEW n \in Nat, EndOf(s, n), NEW m, m = Append(s, n + 1)
    PROVE  EndOf(m, n + 1)
<1>1. /\ Len(s) \in Nat /\ Len(m) = Len(s) + 1
      /\ m[Len(s) + 1] = n + 1 /\ \A k \in 1..Len(s) : m[k] = s[k]
      BY AppendProperties, LenProperties
<1>2. Len(s) <= n /\ \A k \in 1..Len(s) : s[k] = (n - Len(s)) + k
      BY DEF EndOf
<1>3. ASSUME NEW k \in 1..Len(m) PROVE m[k] = ((n + 1) - Len(m)) + k
  <2>1. CASE k = Len(s) + 1
        BY <1>1, <2>1
  <2>2. CASE k # Len(s) + 1
        BY <1>1, <1>2, <1>3, <2>2
  <2> QED BY <2>1, <2>2
<1> QED BY <1>1, <1>2, <1>3 DEF EndOf

LEMMA EndShrinks ==
    ASSUME NEW s \in Seq(Nat), NEW n \in Nat, EndOf(s, n), s # <<>>, NEW m, m = Tail(s)
    PROVE  /\ EndOf(m, n) /\ m \in Seq(Nat) /\ Len(m) = Len(s) - 1 /\ Len(s) \in Nat \ {0}
           /\ Head(s) = (n - Len(s)) + 1
<1>1. /\ Len(s) \in Nat \ {0} /\ m \in Seq(Nat) /\ Len(m) = Len(s) - 1
      /\ \A k \in 1..Len(m) : m[k] = s[k + 1]
      BY HeadTailProperties, EmptySeq, LenProperties
<1>2. Len(s) <= n /\ \A k \in 1..Len(s) : s[k] = (n - Len(s)) + k
      BY DEF EndOf
<1>3. Head(s) = s[1] /\ 1 \in 1..Len(s)
      BY <1>1
<1>4. ASSUME NEW k \in 1..Len(m) PROVE m[k] = (n - Len(m)) + k
  <2>1. k + 1 \in 1..Len(s)
        BY <1>1
  <2> QED BY <1>1, <1>2, <2>1
<1> QED BY <1>1, <1>2, <1>3, <1>4 DEF EndOf

LEMMA WireLists ==
    ASSUME WiresInv
    PROVE  /\ Len(wires) \in Nat /\ Wire = 1..Len(wires) /\ Len(saved) \in Nat
           /\ \A c \in Wire : wires[c] \in WireType /\ Len(wires[c].mail) \in Nat
                              /\ c \in Nat /\ c # 0
<1>1. Len(wires) \in Nat /\ Wire = 1..Len(wires) /\ Len(saved) \in Nat
      BY LenProperties DEF WiresInv, Wire
<1>2. \A c \in Wire : wires[c] \in WireType
      BY DEF WiresInv, WireFits
<1>3. \A c \in Wire : wires[c].mail \in Seq(Nat)
      BY <1>2 DEF WireType
<1>4. \A c \in Wire : Len(wires[c].mail) \in Nat
      BY <1>3, LenProperties
<1> QED BY <1>1, <1>2, <1>4

LEMMA NewWireFits == ASSUME NEW n \in Nat PROVE WireFits(NewWire, n) /\ Quiet(NewWire)
<1>1. <<>> \in Seq(Nat) /\ Len(<<>>) = 0
      OBVIOUS
<1>2. NewWire \in WireType /\ NewWire.is = "starting" /\ NewWire.starts = "no" /\ ~NewWire.hears
      /\ NewWire.mail = <<>>
      BY <1>1 DEF NewWire, WireType
<1> QED BY <1>1, <1>2 DEF WireFits, Quiet, EndOf

(* One connection changes, and nothing is saved.                           *)
LEMMA OneChanges ==
    ASSUME WiresInv, NEW c \in Wire, NEW w, WireFits(w, Len(saved)),
           wires' = [wires EXCEPT ![c] = w], UNCHANGED <<saved, ticketIs>>,
           doubtful' \in BOOLEAN, ~doubtful' => ~doubtful,
           w.is # "failed" => wires[c].is # "failed",
           ~Quiet(wires[c]) => ~Quiet(w),
           \/ UNCHANGED shared /\ (Quiet(wires[c]) => Quiet(w))
           \/ shared' = c /\ ~Quiet(w)
    PROVE  WiresInv' /\ Wire' = Wire
<1>1. /\ Wire' = Wire /\ wires'[c] = w /\ \A d \in Wire \ {c} : wires'[d] = wires[d]
      BY DEF Wire
<1>2. wires' \in Seq(WireType)
  <2>1. wires \in Seq(WireType) /\ c \in 1..Len(wires) /\ w \in WireType
        BY WireLists DEF WiresInv, WireFits
  <2> QED BY <2>1, ExceptSeq
<1>3. \A d \in Wire : WireFits(wires'[d], Len(saved'))
      BY <1>1 DEF WiresInv
<1>4. shared' \in Wire \cup {0} /\ (shared' # 0 => ~Quiet(wires'[shared']))
      BY <1>1 DEF WiresInv
<1>5. ASSUME NEW d \in Wire, ~Quiet(wires'[d]) PROVE shared' # 0
  <2>1. CASE shared' = c
        BY <2>1, WireLists
  <2>2. CASE UNCHANGED shared /\ (Quiet(wires[c]) => Quiet(w))
    <3>1. ~Quiet(wires[d])
          BY <1>1, <1>5, <2>2
    <3> QED BY <2>2, <3>1 DEF WiresInv
  <2> QED BY <2>1, <2>2
<1>6. ASSUME ~doubtful', NEW d \in Wire, NEW e \in Wire, wires'[d].is # "failed", wires'[e].is # "failed"
      PROVE  d = e
  <2>1. wires[d].is # "failed" /\ wires[e].is # "failed"
        BY <1>1, <1>6
  <2> QED BY <1>6, <2>1 DEF WiresInv
<1>7. saved' \in Seq(RowType) /\ doubtful' \in BOOLEAN /\ (ticketIs' = "none" => saved' = <<>>)
      BY DEF WiresInv
<1> HIDE DEF Wire
<1> QED BY <1>1, <1>2, <1>3, <1>4, <1>5, <1>6, <1>7 DEF WiresInv

(* A connection is built.                                                  *)
LEMMA BuiltKeeps ==
    ASSUME WiresInv, ConnectionBuilt, UNCHANGED <<shared, saved, ticketIs>>
    PROVE  WiresInv'
<1>1. CASE UNCHANGED <<wires, doubtful>>
      BY <1>1 DEF WiresInv, Wire
<1>2. ASSUME NEW c \in Failed, wires' = [wires EXCEPT ![c] = NewWire],
             doubtful' = (doubtful \/ Wire # Failed), shared = 0
      PROVE  WiresInv'
  <2>1. c \in Wire /\ wires[c].is = "failed" /\ Quiet(NewWire) /\ NewWire.is = "starting"
        /\ WireFits(NewWire, Len(saved))
        BY <1>2, WireLists, NewWireFits DEF Failed, NewWire, Quiet
  <2>2. Wire' = Wire /\ wires'[c] = NewWire /\ \A d \in Wire \ {c} : wires'[d] = wires[d]
        BY <1>2, <2>1 DEF Wire
  <2>3. wires' \in Seq(WireType)
    <3>1. wires \in Seq(WireType) /\ c \in 1..Len(wires) /\ NewWire \in WireType
          BY <2>1, WireLists DEF WiresInv, WireFits
    <3> QED BY <1>2, <3>1, ExceptSeq
  <2>4. \A d \in Wire : WireFits(wires'[d], Len(saved')) /\ (~Quiet(wires'[d]) => shared' # 0)
        BY <2>1, <2>2 DEF WiresInv
  <2>5. ASSUME ~doubtful', NEW d \in Wire, wires'[d].is # "failed" PROVE d = c
        BY <1>2, <2>2, <2>5 DEF Failed
  <2>6. doubtful' \in BOOLEAN
        BY <1>2 DEF WiresInv
  <2> HIDE DEF Wire
  <2> QED BY <1>2, <2>2, <2>3, <2>4, <2>5, <2>6 DEF WiresInv
<1>3. ASSUME Failed = {}, wires' = Append(wires, NewWire),
             doubtful' = (doubtful \/ Wire # Failed), shared = 0
      PROVE  WiresInv'
  <2>0. NewWire \in WireType /\ Quiet(NewWire) /\ WireFits(NewWire, Len(saved))
        BY WireLists, NewWireFits DEF WireFits
  <2>1. /\ wires' \in Seq(WireType) /\ Wire' = 1..(Len(wires) + 1)
        /\ wires'[Len(wires) + 1] = NewWire /\ \A d \in 1..Len(wires) : wires'[d] = wires[d]
        BY <1>3, <2>0, AppendProperties, LenProperties DEF Wire, WiresInv
  <2>2. Len(wires) \in Nat /\ Wire = 1..Len(wires)
        BY WireLists
  <2>3. \A d \in Wire' : WireFits(wires'[d], Len(saved')) /\ (~Quiet(wires'[d]) => shared' # 0)
        BY <2>0, <2>1, <2>2 DEF WiresInv
  <2>4. ASSUME ~doubtful', NEW d \in Wire', NEW e \in Wire' PROVE d = e
    <3>1. Wire = {}
          BY <1>3, <2>4
    <3>2. Len(wires) = 0
          BY <2>2, <3>1
    <3> QED BY <2>1, <3>2
  <2>5. doubtful' \in BOOLEAN
        BY <1>3 DEF WiresInv
  <2> HIDE DEF Wire
  <2> QED BY <1>3, <2>1, <2>3, <2>4, <2>5 DEF WiresInv
<1> QED BY <1>1, <1>2, <1>3 DEF ConnectionBuilt

(* A message is saved, and comes to whoever hears.                         *)
LEMMA SavedKeeps ==
    ASSUME WiresInv, NEW own \in BOOLEAN, NEW phrase \in Saying, SavedBy(own, phrase),
           UNCHANGED <<shared, ticketIs>>
    PROVE  /\ WiresInv' /\ Wire' = Wire /\ Len(saved') = Len(saved) + 1
           /\ saved' = Append(saved, [own |-> own, phrase |-> phrase])
           /\ \A c \in Wire :
                 /\ wires'[c].is = wires[c].is /\ wires'[c].starts = wires[c].starts
                 /\ wires'[c].history = wires[c].history
                 /\ wires'[c].mail = IF wires[c].hears THEN Append(wires[c].mail, Len(saved'))
                                     ELSE wires[c].mail
                 /\ ~doubtful' => ~Misses(wires[c])
<1>1. /\ ticketIs = "open" /\ saved' = Append(saved, [own |-> own, phrase |-> phrase])
      /\ doubtful' = (doubtful \/ \E c \in Wire : Misses(wires[c]))
      BY DEF SavedBy
<1>2. saved' \in Seq(RowType) /\ Len(saved') = Len(saved) + 1 /\ Len(saved) \in Nat
      BY <1>1, AppendProperties, LenProperties DEF WiresInv, RowType
<1>3. /\ Wire' = Wire
      /\ \A c \in Wire : wires'[c] = IF wires[c].hears
                                     THEN [wires[c] EXCEPT !.mail = Append(wires[c].mail, Len(saved'))]
                                     ELSE wires[c]
      BY DEF SavedBy, Wire
<1>4. ASSUME NEW c \in Wire
      PROVE  /\ wires'[c].is = wires[c].is /\ wires'[c].starts = wires[c].starts
             /\ wires'[c].history = wires[c].history
             /\ wires'[c].mail = IF wires[c].hears THEN Append(wires[c].mail, Len(saved'))
                                 ELSE wires[c].mail
             /\ WireFits(wires'[c], Len(saved'))
  <2> DEFINE w == wires[c]
             m == Append(w.mail, Len(saved'))
  <2>1. w \in WireType /\ WireFits(w, Len(saved)) /\ w.mail \in Seq(Nat) /\ Len(w.mail) \in Nat
        BY WireLists DEF WiresInv, WireType
  <2>2. CASE w.hears
    <3>1. m \in Seq(Nat) /\ Len(m) = Len(w.mail) + 1
          /\ m[Len(w.mail) + 1] = Len(saved') /\ \A k \in 1..Len(w.mail) : m[k] = w.mail[k]
          BY <1>2, <2>1, AppendProperties
    <3>2. wires'[c] = [w EXCEPT !.mail = m]
          BY <1>3, <2>2
    <3> HIDE DEF m, w
    <3>3. /\ wires'[c] \in WireType /\ wires'[c].is = w.is /\ wires'[c].starts = w.starts
          /\ wires'[c].history = w.history /\ wires'[c].mail = m /\ wires'[c].hears
          BY <2>1, <2>2, <3>1, <3>2 DEF WireType
    <3>4. EndOf(m, Len(saved'))
      <4>1. w.mail \in Seq(Nat) /\ EndOf(w.mail, Len(saved)) /\ m = Append(w.mail, Len(saved) + 1)
            BY <1>2, <2>1 DEF WireFits, m
      <4> QED BY <1>2, <4>1, EndGrows
    <3> QED BY <2>1, <2>2, <3>3, <3>4 DEF WireFits, Quiet, m, w
  <2>3. CASE ~w.hears
    <3>1. wires'[c] = w
          BY <1>3, <2>3
    <3>2. w.mail = <<>> /\ Len(w.mail) = 0
          BY <2>1, <2>3 DEF WireFits
    <3> QED BY <1>2, <2>1, <2>3, <3>1, <3>2 DEF WireFits, EndOf
  <2> QED BY <2>2, <2>3
<1>5. wires' \in Seq(WireType)
  <2>1. Len(wires) \in Nat /\ Wire = 1..Len(wires)
        BY WireLists
  <2>2. \A c \in 1..Len(wires) : wires'[c] \in WireType
        BY <1>4, <2>1 DEF WireFits
  <2>3. wires' = [c \in 1..Len(wires) |-> wires'[c]]
        BY <2>1 DEF SavedBy
  <2> QED BY <2>1, <2>2, <2>3, SeqDef
<1>6. doubtful' \in BOOLEAN /\ (~doubtful' => ~doubtful)
      BY <1>1 DEF WiresInv
<1>7. WiresInv'
  <2>1. \A c \in Wire : wires'[c].is = wires[c].is /\ WireFits(wires'[c], Len(saved'))
                         /\ (Quiet(wires'[c]) <=> Quiet(wires[c]))
        BY <1>4 DEF Quiet
  <2>2. ASSUME ~doubtful', NEW c \in Wire, NEW d \in Wire, wires'[c].is # "failed", wires'[d].is # "failed"
        PROVE  c = d
        BY <1>6, <2>1, <2>2 DEF WiresInv
  <2>3. /\ shared' \in Wire \cup {0} /\ (shared' # 0 => ~Quiet(wires'[shared']))
        /\ \A c \in Wire : ~Quiet(wires'[c]) => shared' # 0
        BY <2>1 DEF WiresInv
  <2>4. ticketIs' # "none"
        BY <1>1
  <2> HIDE DEF Wire
  <2> QED BY <1>2, <1>3, <1>5, <1>6, <2>1, <2>2, <2>3, <2>4 DEF WiresInv
<1> QED BY <1>1, <1>2, <1>3, <1>4, <1>7

(* The connection of the page; before there is one, a new one.             *)
Here == IF shared = 0 THEN NewWire ELSE wires[shared]

(* What a step does with it, as far as the talk is concerned, unless it    *)
(* becomes doubtful.                                                       *)
Aside ==
    /\ UNCHANGED <<saved, talk>>
    /\ shared # 0 => shared' # 0
    /\ ~doubtful' => /\ ~doubtful
                     /\ Here'.mail = Here.mail
                     /\ Here'.starts = "answered" =>
                           Here.starts = "answered" /\ Here'.history = Here.history
                     /\ shared # 0 => Here'.starts \in {"no", Here.starts}

Says(own, phrase) ==
    /\ saved' = Append(saved, [own |-> own, phrase |-> phrase])
    /\ UNCHANGED <<inChat, bubbles, awaited, wrote, shared>>
    /\ ~doubtful' => /\ ~doubtful
                     /\ Here'.starts = Here.starts /\ Here'.history = Here.history
                     /\ \/ Here'.mail = Append(Here.mail, Len(saved'))
                        \/ /\ Here'.mail = <<>> /\ Here.mail = <<>>
                           /\ shared = 0 \/ Here.starts = "asked"

(* On ~doubtful the connection that does something is the one of the page. *)
LEMMA Alone ==
    ASSUME WiresInv, ~doubtful
    PROVE  /\ \A c \in Wire : ~Quiet(wires[c]) => c = shared
           /\ shared # 0 => \A c \in Wire : wires[c].is = "starting" => FALSE
<1>1. \A c \in Wire : Quiet(wires[c]) <=> wires[c].is \in {"starting", "failed"}
      BY DEF Quiet
<1>2. ASSUME shared # 0 PROVE shared \in Wire /\ wires[shared].is # "failed" /\ ~Quiet(wires[shared])
      BY <1>1, <1>2 DEF WiresInv
<1>3. \A c \in Wire : ~Quiet(wires[c]) => shared # 0
      BY DEF WiresInv
<1>4. \A c, d \in Wire : wires[c].is # "failed" /\ wires[d].is # "failed" => c = d
      BY DEF WiresInv
<1> HIDE DEF Wire
<1> QED BY <1>1, <1>2, <1>3, <1>4

(* A connection of which only its state changes.                           *)
LEMMA AsideOf ==
    ASSUME WiresInv, NEW c \in Wire, NEW w, WireFits(w, Len(saved)),
           wires' = [wires EXCEPT ![c] = w], UNCHANGED <<saved, talk, ticketIs>>,
           doubtful' \in BOOLEAN, ~doubtful' => ~doubtful,
           w.is # "failed" => wires[c].is # "failed",
           ~Quiet(wires[c]) => ~Quiet(w),
           \/ UNCHANGED shared /\ (Quiet(wires[c]) => Quiet(w))
           \/ shared' = c /\ ~Quiet(w) /\ wires[c].is = "starting",
           ~doubtful' => w.mail = wires[c].mail,
           w.starts = "answered" => wires[c].starts = "answered" /\ w.history = wires[c].history,
           ~Quiet(wires[c]) => w.starts \in {"no", wires[c].starts}
    PROVE  WiresInv' /\ Aside
<1>1. WiresInv' /\ Wire' = Wire
      BY OneChanges
<1>2. wires'[c] = w /\ \A d \in Wire \ {c} : wires'[d] = wires[d]
      BY DEF Wire
<1>3. c # 0 /\ WireFits(wires[c], Len(saved)) /\ NewWire.mail = <<>>
      BY WireLists DEF WiresInv, NewWire
<1>4. ASSUME ~doubtful'
      PROVE  /\ Here'.mail = Here.mail
             /\ Here'.starts = "answered" =>
                   Here.starts = "answered" /\ Here'.history = Here.history
             /\ shared # 0 => Here'.starts \in {"no", Here.starts}
  <2>1. CASE UNCHANGED shared
    <3>1. CASE shared = 0
          BY <2>1, <3>1 DEF Here, NewWire
    <3>2. CASE shared = c
          BY <1>2, <1>3, <1>4, <2>1, <3>2 DEF Here, WiresInv
    <3>3. CASE shared # 0 /\ shared # c
      <4>1. shared \in Wire \ {c}
            BY <3>3 DEF WiresInv
      <4> QED BY <1>2, <2>1, <3>3, <4>1 DEF Here
    <3> QED BY <3>1, <3>2, <3>3
  <2>2. CASE shared' = c /\ ~Quiet(w) /\ wires[c].is = "starting"
    <3>1. shared = 0
          BY <1>4, <2>2, Alone
    <3>2. Quiet(wires[c])
          BY <2>2 DEF Quiet
    <3>3. wires[c].mail = <<>> /\ wires[c].starts = "no"
          BY <1>3, <3>2 DEF WireFits
    <3> QED BY <1>2, <1>3, <1>4, <2>2, <3>1, <3>3 DEF Here
  <2> QED BY <2>1, <2>2
<1>5. shared # 0 => shared' # 0
      BY <1>3
<1> QED BY <1>1, <1>4, <1>5 DEF Aside

LEMMA BuiltAside ==
    ASSUME WiresInv, ConnectionBuilt, UNCHANGED <<shared, saved, ticketIs, talk>>
    PROVE  WiresInv' /\ Aside
<1>1. WiresInv'
      BY BuiltKeeps
<1>2. (wires' = wires \/ shared = 0) /\ (~doubtful' => ~doubtful)
      BY DEF ConnectionBuilt, WiresInv
<1> QED BY <1>1, <1>2 DEF Aside, Here, NewWire

(* The steps of a connection by itself.                                    *)
LEMMA ConnectionSteps ==
    ASSUME WiresInv, NEW c \in Wire,
           \/ WireStarts(c) \/ WireFails(c) \/ WireBreaks(c) \/ WireReturns(c) \/ WireCloses(c)
           \/ ChatNotStarted(c)
    PROVE  WiresInv' /\ Aside
<1> DEFINE w == wires[c]
           h == ticketIs # "none"
<1>1. /\ w \in WireType /\ WireFits(w, Len(saved)) /\ doubtful \in BOOLEAN
      /\ <<>> \in Seq(Nat) /\ EndOf(<<>>, Len(saved)) /\ h \in BOOLEAN
      BY WireLists DEF WiresInv, EndOf
<1>2. ASSUME WireStarts(c) PROVE WiresInv' /\ Aside
  <2> DEFINE x == [w EXCEPT !.is = "up", !.starts = "asked", !.hears = h]
  <2>1. w.is = "starting" /\ wires' = [wires EXCEPT ![c] = x] /\ shared' = c
        /\ UNCHANGED <<saved, ticketIs, talk, doubtful>>
        BY <1>2 DEF WireStarts, chat
  <2>2. Quiet(w) /\ w.starts = "no" /\ w.mail = <<>>
        BY <1>1, <2>1 DEF Quiet, WireFits
  <2> HIDE DEF h
  <2>3. x \in WireType /\ x.is = "up" /\ x.starts = "asked" /\ x.mail = w.mail
        BY <1>1 DEF WireType
  <2> HIDE DEF x
  <2>4. WireFits(x, Len(saved)) /\ ~Quiet(x)
        BY <1>1, <2>2, <2>3 DEF WireFits, Quiet
  <2> QED BY <1>1, <2>1, <2>2, <2>3, <2>4, AsideOf
<1>3. ASSUME WireFails(c) PROVE WiresInv' /\ Aside
  <2> DEFINE x == [w EXCEPT !.is = "failed"]
  <2>1. w.is = "starting" /\ wires' = [wires EXCEPT ![c] = x]
        /\ UNCHANGED <<shared, saved, ticketIs, talk, doubtful>>
        BY <1>3 DEF WireFails, chat
  <2>2. x \in WireType /\ x.is = "failed" /\ x.starts = w.starts /\ x.mail = w.mail
        /\ x.hears = w.hears /\ x.history = w.history
        BY <1>1 DEF WireType
  <2> HIDE DEF x
  <2>3. WireFits(x, Len(saved)) /\ Quiet(x) /\ Quiet(w)
        BY <1>1, <2>1, <2>2 DEF WireFits, Quiet
  <2> QED BY <1>1, <2>1, <2>2, <2>3, AsideOf
<1>4. ASSUME WireBreaks(c) PROVE WiresInv' /\ Aside
  <2> DEFINE x == [w EXCEPT !.is = "down", !.hears = FALSE, !.mail = <<>>]
  <2>1. w.is = "up" /\ wires' = [wires EXCEPT ![c] = x]
        /\ doubtful' = (doubtful \/ w.mail # <<>>)
        /\ UNCHANGED <<shared, saved, ticketIs, talk>>
        BY <1>4 DEF WireBreaks, chat
  <2>2. x \in WireType /\ x.is = "down" /\ x.starts = w.starts /\ x.mail = <<>>
        /\ ~x.hears /\ x.history = w.history
        BY <1>1 DEF WireType
  <2> HIDE DEF x
  <2>3. WireFits(x, Len(saved)) /\ ~Quiet(x) /\ ~Quiet(w)
        BY <1>1, <2>1, <2>2 DEF WireFits, Quiet
  <2>4. doubtful' \in BOOLEAN /\ (~doubtful' => ~doubtful /\ x.mail = w.mail)
        BY <2>1, <2>2
  <2> QED BY <1>1, <2>1, <2>2, <2>3, <2>4, AsideOf
<1>5. ASSUME WireReturns(c) PROVE WiresInv' /\ Aside
  <2> DEFINE x == [w EXCEPT !.is = "up", !.hears = h]
  <2>1. w.is = "down" /\ wires' = [wires EXCEPT ![c] = x]
        /\ UNCHANGED <<shared, saved, ticketIs, talk, doubtful>>
        BY <1>5 DEF WireReturns, chat
  <2> HIDE DEF h
  <2>2. x \in WireType /\ x.is = "up" /\ x.starts = w.starts /\ x.mail = w.mail
        /\ (x.hears <=> h) /\ x.history = w.history
        BY <1>1 DEF WireType
  <2> HIDE DEF x
  <2>3. ~h => x.mail = <<>>
    <3>1. ASSUME ~h PROVE Len(saved) = 0
          BY <3>1 DEF h, WiresInv
    <3>2. Len(w.mail) <= Len(saved) /\ w.mail \in Seq(Nat)
          BY <1>1 DEF WireFits, EndOf, WireType
    <3>3. ASSUME ~h PROVE Len(w.mail) = 0
          BY <3>1, <3>2, <3>3, LenProperties
    <3> QED BY <2>2, <3>2, <3>3, EmptySeq
  <2>4. WireFits(x, Len(saved)) /\ ~Quiet(x) /\ ~Quiet(w)
        BY <1>1, <2>1, <2>2, <2>3 DEF WireFits, Quiet
  <2> QED BY <1>1, <2>1, <2>2, <2>4, AsideOf
<1>6. ASSUME WireCloses(c) PROVE WiresInv' /\ Aside
  <2> DEFINE x == [w EXCEPT !.is = "closed"]
  <2>1. w.is = "down" /\ wires' = [wires EXCEPT ![c] = x]
        /\ UNCHANGED <<shared, saved, ticketIs, talk, doubtful>>
        BY <1>6 DEF WireCloses, chat
  <2>2. x \in WireType /\ x.is = "closed" /\ x.starts = w.starts /\ x.mail = w.mail
        /\ x.hears = w.hears /\ x.history = w.history
        BY <1>1 DEF WireType
  <2> HIDE DEF x
  <2>3. WireFits(x, Len(saved)) /\ ~Quiet(x) /\ ~Quiet(w)
        BY <1>1, <2>1, <2>2 DEF WireFits, Quiet
  <2> QED BY <1>1, <2>1, <2>2, <2>3, AsideOf
<1>7. ASSUME ChatNotStarted(c) PROVE WiresInv' /\ Aside
  <2> DEFINE x == [w EXCEPT !.starts = "no"]
  <2>1. w.starts # "no" /\ wires' = [wires EXCEPT ![c] = x] /\ doubtful' = TRUE
        /\ UNCHANGED <<shared, saved, ticketIs, talk>>
        BY <1>7 DEF ChatNotStarted, chat
  <2>2. x \in WireType /\ x.is = w.is /\ x.starts = "no" /\ x.mail = w.mail
        /\ x.hears = w.hears /\ x.history = w.history
        BY <1>1 DEF WireType
  <2> HIDE DEF x
  <2>3. WireFits(x, Len(saved)) /\ ~Quiet(x) /\ ~Quiet(w)
        BY <1>1, <2>1, <2>2 DEF WireFits, Quiet
  <2> QED BY <1>1, <2>1, <2>2, <2>3, AsideOf
<1> QED BY <1>2, <1>3, <1>4, <1>5, <1>6, <1>7

LEMMA SaidAside ==
    ASSUME WiresInv, NEW own \in BOOLEAN, NEW phrase \in Saying, SavedBy(own, phrase),
           UNCHANGED <<shared, ticketIs, inChat, bubbles, awaited, wrote>>
    PROVE  WiresInv' /\ Says(own, phrase)
<1>1. /\ WiresInv' /\ Wire' = Wire
      /\ saved' = Append(saved, [own |-> own, phrase |-> phrase])
      /\ \A c \in Wire :
            /\ wires'[c].starts = wires[c].starts /\ wires'[c].history = wires[c].history
            /\ wires'[c].mail = IF wires[c].hears THEN Append(wires[c].mail, Len(saved'))
                                ELSE wires[c].mail
            /\ ~doubtful' => ~Misses(wires[c])
      BY SavedKeeps
<1>0. ~doubtful' => ~doubtful
      BY DEF SavedBy, WiresInv
<1>2. CASE shared = 0
      BY <1>0, <1>1, <1>2 DEF Says, Here, NewWire
<1>3. CASE shared # 0
  <2>1. shared \in Wire /\ ~Quiet(wires[shared])
        BY <1>3 DEF WiresInv
  <2>2. ASSUME ~doubtful', ~wires[shared].hears
        PROVE  wires[shared].starts = "asked" /\ wires[shared].mail = <<>>
        BY <1>1, <2>1, <2>2 DEF Misses, Quiet, WiresInv, WireFits
  <2>3. Here = wires[shared] /\ Here' = wires'[shared]
        BY <1>3 DEF Here
  <2> QED BY <1>0, <1>1, <2>1, <2>2, <2>3 DEF Says
<1> QED BY <1>2, <1>3

(* The server starts the chat, or finds it.                                *)
LEMMA StartedByServer ==
    ASSUME WiresInv, NEW c \in Wire, ChatStartedByServer(c)
    PROVE  /\ WiresInv' /\ UNCHANGED talk
           /\ shared' # 0
           /\ ~doubtful' => /\ Here.starts = "asked" /\ ~doubtful
                            /\ Here.mail = <<>> /\ Here'.mail = <<>>
                            /\ Here'.starts = "answered" /\ Here'.history = Len(saved')
<1> DEFINE w == wires[c]
           n == Len(saved')
           x == [w EXCEPT !.starts = "answered", !.history = n]
<1>1. /\ w \in WireType /\ WireFits(w, Len(saved)) /\ Len(saved) \in Nat /\ c # 0 /\ w.mail \in Seq(Nat)
      BY WireLists DEF WiresInv, WireType
<1>2. /\ w.starts = "asked" /\ wires' = [wires EXCEPT ![c] = x]
      /\ ticketIs' = "open" /\ doubtful' = (doubtful \/ w.mail # <<>>)
      /\ saved' = IF ticketIs = "none" THEN <<[own |-> TRUE, phrase |-> "first"]>> ELSE saved
      /\ UNCHANGED <<shared, talk>>
      BY DEF ChatStartedByServer
<1>3. /\ saved' \in Seq(RowType) /\ n \in Nat
      /\ ticketIs = "none" => Len(saved) = 0
  <2>1. CASE ticketIs = "none"
    <3>1. [own |-> TRUE, phrase |-> "first"] \in RowType
          BY DEF RowType, Saying
    <3>2. saved' \in Seq(RowType) /\ Len(saved') = 1
          BY <1>2, <2>1, <3>1
    <3>3. Len(saved) = 0
          BY <2>1 DEF WiresInv
    <3> QED BY <3>2, <3>3
  <2>2. CASE ticketIs # "none"
        BY <1>1, <1>2, <2>2 DEF WiresInv
  <2> QED BY <2>1, <2>2
<1> HIDE DEF n
<1>4. /\ x \in WireType /\ x.is = w.is /\ x.starts = "answered" /\ x.history = n
      /\ x.mail = w.mail /\ x.hears = w.hears
      BY <1>1, <1>3 DEF WireType
<1> HIDE DEF x
<1>5. Wire' = Wire /\ wires'[c] = x /\ \A d \in Wire \ {c} : wires'[d] = wires[d]
      BY <1>2 DEF Wire
<1>6. \A d \in Wire : /\ wires'[d].mail = wires[d].mail /\ wires'[d].is = wires[d].is
                      /\ wires'[d].hears = wires[d].hears
                      /\ d # c => wires'[d].starts = wires[d].starts
                      /\ wires'[d] \in WireType
      BY <1>4, <1>5, WireLists
<1>7. \A d \in Wire : EndOf(wires[d].mail, Len(saved)) => EndOf(wires'[d].mail, Len(saved'))
  <2> SUFFICES ASSUME NEW d \in Wire, EndOf(wires[d].mail, Len(saved))
               PROVE  EndOf(wires[d].mail, Len(saved'))
      BY <1>6
  <2>1. CASE saved' = saved
        BY <2>1
  <2>2. CASE ticketIs = "none"
    <3>1. Len(wires[d].mail) = 0
          BY <1>3, <2>2, WireLists DEF EndOf
    <3> QED BY <1>3, <3>1 DEF EndOf, n
  <2> QED BY <1>2, <2>1, <2>2
<1>8. ~Quiet(w)
      BY <1>1, <1>2 DEF WireFits
<1>9. \A d \in Wire : WireFits(wires'[d], Len(saved')) /\ (Quiet(wires'[d]) <=> Quiet(wires[d]))
      BY <1>6, <1>7, <1>8 DEF WiresInv, WireFits, Quiet
<1>10. wires' \in Seq(WireType)
  <2>1. wires \in Seq(WireType) /\ c \in 1..Len(wires) /\ x \in WireType
        BY <1>4, WireLists DEF WiresInv
  <2> QED BY <1>2, <2>1, ExceptSeq
<1>11. WiresInv'
  <2>1. doubtful' \in BOOLEAN /\ (~doubtful' => ~doubtful) /\ ticketIs' # "none" /\ shared' = shared
        BY <1>2 DEF WiresInv
  <2>2. ASSUME ~doubtful', NEW d \in Wire, NEW e \in Wire, wires'[d].is # "failed", wires'[e].is # "failed"
        PROVE  d = e
        BY <1>6, <2>1, <2>2 DEF WiresInv
  <2>3. /\ shared' \in Wire \cup {0} /\ (shared' # 0 => ~Quiet(wires'[shared']))
        /\ \A d \in Wire : ~Quiet(wires'[d]) => shared' # 0
        BY <1>9, <2>1 DEF WiresInv
  <2> HIDE DEF Wire
  <2> QED BY <1>3, <1>5, <1>9, <1>10, <2>1, <2>2, <2>3 DEF WiresInv
<1>12. ASSUME ~doubtful'
       PROVE  /\ Here.starts = "asked" /\ ~doubtful
              /\ Here.mail = <<>> /\ Here'.mail = <<>>
              /\ Here'.starts = "answered" /\ Here'.history = Len(saved')
  <2>1. ~doubtful /\ w.mail = <<>>
        BY <1>2, <1>12 DEF WiresInv
  <2>2. c = shared
        BY <1>8, <2>1, Alone
  <2> QED BY <1>1, <1>2, <1>4, <1>5, <2>1, <2>2 DEF Here, n
<1>13. shared' # 0
       BY <1>2, <1>8 DEF WiresInv
<1> QED BY <1>2, <1>11, <1>12, <1>13

(* The page takes the history.                                             *)
LEMMA StartedOnPage ==
    ASSUME WiresInv, NEW c \in Wire, ChatStarted(c)
    PROVE  /\ WiresInv' /\ UNCHANGED <<saved, awaited, letters, wrote>> /\ inChat' = TRUE
           /\ \E h \in Nat : /\ bubbles' = [i \in 1..h |-> FromServer(i)]
                             /\ ~doubtful' => Here.history = h
           /\ ~doubtful' => /\ Here.starts = "answered"
                            /\ Here'.starts = "joining" /\ Here'.mail = Here.mail
           /\ shared' # 0 /\ doubtful' = doubtful
<1> DEFINE w == wires[c]
           x == [w EXCEPT !.starts = "joining"]
<1>1. w \in WireType /\ WireFits(w, Len(saved)) /\ c # 0 /\ doubtful \in BOOLEAN /\ w.history \in Nat
      BY WireLists DEF WiresInv, WireType
<1>2. /\ w.starts = "answered" /\ wires' = [wires EXCEPT ![c] = x]
      /\ inChat' = TRUE /\ bubbles' = [i \in 1..w.history |-> FromServer(i)]
      /\ UNCHANGED <<shared, saved, ticketIs, awaited, letters, wrote, doubtful>>
      BY DEF ChatStarted, chat
<1>3. /\ x \in WireType /\ x.is = w.is /\ x.starts = "joining" /\ x.history = w.history
      /\ x.mail = w.mail /\ x.hears = w.hears
      BY <1>1 DEF WireType
<1> HIDE DEF x
<1>4. WireFits(x, Len(saved)) /\ ~Quiet(x) /\ ~Quiet(w)
      BY <1>1, <1>2, <1>3 DEF WireFits, Quiet
<1>5. WiresInv'
      BY <1>1, <1>2, <1>3, <1>4, OneChanges
<1>6. wires'[c] = x
      BY <1>2 DEF Wire
<1>7. ~doubtful' => c = shared
      BY <1>2, <1>4, Alone
<1>8. shared # 0 /\ shared' = shared
      BY <1>2, <1>4 DEF WiresInv
<1> QED BY <1>1, <1>2, <1>3, <1>5, <1>6, <1>7, <1>8 DEF Here

LEMMA JoinAside ==
    ASSUME WiresInv, NEW c \in Wire, JoinsChat(c) PROVE WiresInv' /\ Aside
<1>1. /\ wires[c].starts = "joining"
      /\ wires' = [d \in Wire |->
                     [wires[d] EXCEPT !.starts = IF d = c THEN "no" ELSE wires[d].starts,
                                      !.hears = wires[d].hears \/ (d = shared /\ wires[d].is = "up")]]
      /\ UNCHANGED <<shared, saved, ticketIs, talk, doubtful>>
      BY DEF JoinsChat, chat
<1>2. Wire' = Wire
      BY <1>1 DEF Wire
<1>3. ASSUME NEW d \in Wire
      PROVE  /\ wires'[d] \in WireType /\ wires'[d].is = wires[d].is
             /\ wires'[d].starts = IF d = c THEN "no" ELSE wires[d].starts
             /\ wires'[d].history = wires[d].history /\ wires'[d].mail = wires[d].mail
             /\ WireFits(wires'[d], Len(saved'))
  <2> DEFINE w == wires[d]
             s == IF d = c THEN "no" ELSE wires[d].starts
             h == wires[d].hears \/ (d = shared /\ wires[d].is = "up")
             x == [w EXCEPT !.starts = s, !.hears = h]
  <2>1. w \in WireType /\ WireFits(w, Len(saved))
        BY WireLists DEF WiresInv
  <2>2. wires'[d] = x
        BY <1>1
  <2>3. /\ s \in {"no", "asked", "answered", "joining"} /\ (w.starts = "no" => s = "no")
        /\ h \in BOOLEAN /\ (w.hears => h) /\ (h => w.hears \/ ~Quiet(w))
        BY <2>1 DEF WireType, Quiet
  <2> HIDE DEF s, h, w
  <2>4. /\ x \in WireType /\ x.is = w.is /\ x.starts = s /\ x.history = w.history
        /\ x.mail = w.mail /\ (x.hears <=> h)
        BY <2>1, <2>3 DEF WireType
  <2> HIDE DEF x
  <2>5. WireFits(x, Len(saved))
        BY <2>1, <2>3, <2>4 DEF WireFits, Quiet
  <2> QED BY <1>1, <2>2, <2>4, <2>5 DEF s, w
<1>4. wires' \in Seq(WireType)
  <2>1. Len(wires) \in Nat /\ Wire = 1..Len(wires)
        BY WireLists
  <2>2. wires' = [d \in 1..Len(wires) |-> wires'[d]]
        BY <1>1, <2>1
  <2> QED BY <1>3, <2>1, <2>2, SeqDef
<1>5. \A d \in Wire : Quiet(wires'[d]) <=> Quiet(wires[d])
      BY <1>3 DEF Quiet
<1>6. WiresInv'
  <2>1. doubtful' = doubtful /\ ticketIs' = ticketIs /\ shared' = shared /\ saved' = saved
        BY <1>1
  <2>2. ASSUME ~doubtful', NEW d \in Wire, NEW e \in Wire, wires'[d].is # "failed", wires'[e].is # "failed"
        PROVE  d = e
        BY <1>3, <2>1, <2>2 DEF WiresInv
  <2>3. /\ shared' \in Wire \cup {0} /\ (shared' # 0 => ~Quiet(wires'[shared']))
        /\ \A d \in Wire : ~Quiet(wires'[d]) => shared' # 0
        BY <1>5, <2>1 DEF WiresInv
  <2>4. \A d \in Wire : WireFits(wires'[d], Len(saved'))
        BY <1>3
  <2> HIDE DEF Wire
  <2> QED BY <1>2, <1>4, <2>1, <2>2, <2>3, <2>4 DEF WiresInv
<1>7. shared # 0 /\ shared \in Wire
  <2>1. ~Quiet(wires[c])
        BY <1>1 DEF WiresInv, WireFits
  <2> QED BY <2>1 DEF WiresInv
<1>8. Here = wires[shared] /\ Here' = wires'[shared]
      BY <1>1, <1>7 DEF Here
<1>9. /\ Here'.mail = Here.mail /\ Here'.history = Here.history
      /\ Here'.starts \in {"no", Here.starts}
      BY <1>3, <1>7, <1>8
<1> QED BY <1>1, <1>6, <1>9 DEF Aside

(* An event is taken from the mail.                                        *)
LEMMA MailTaken ==
    ASSUME WiresInv, NEW c \in Wire, Receives(c)
    PROVE  /\ WiresInv' /\ UNCHANGED <<saved, inChat, letters, wrote>>
           /\ \E i \in Nat : /\ bubbles' = Echoed(i)
                             /\ awaited' = IF Awaits(i) THEN Nobody ELSE awaited
                             /\ ~doubtful' => /\ Here.mail # <<>> /\ i = Head(Here.mail)
                                              /\ Here'.mail = Tail(Here.mail)
           /\ shared' # 0
           /\ ~doubtful' => /\ ~doubtful
                            /\ Here.starts # "answered" /\ Here'.starts = Here.starts
<1> DEFINE w == wires[c]
           t == Tail(w.mail)
           x == [w EXCEPT !.mail = t]
<1>1. /\ w \in WireType /\ WireFits(w, Len(saved)) /\ c # 0 /\ w.mail \in Seq(Nat) /\ Len(saved) \in Nat
      BY WireLists DEF WiresInv, WireType
<1>2. /\ w.mail # <<>> /\ wires' = [wires EXCEPT ![c] = x]
      /\ doubtful' = (doubtful \/ \E d \in Wire : wires[d].starts = "answered")
      /\ bubbles' = Echoed(Head(w.mail))
      /\ awaited' = IF Awaits(Head(w.mail)) THEN Nobody ELSE awaited
      /\ UNCHANGED <<shared, saved, ticketIs, inChat, letters, wrote>>
      BY DEF Receives, chat
<1>3. EndOf(t, Len(saved)) /\ t \in Seq(Nat)
      BY <1>1, <1>2, EndShrinks DEF WireFits
<1>4. Head(w.mail) \in Nat
      BY <1>1, <1>2, HeadTailProperties
<1> HIDE DEF t
<1>5. /\ x \in WireType /\ x.is = w.is /\ x.starts = w.starts /\ x.history = w.history
      /\ x.mail = t /\ x.hears = w.hears
      BY <1>1, <1>3 DEF WireType
<1> HIDE DEF x
<1>6. w.hears /\ ~Quiet(w)
      BY <1>1, <1>2 DEF WireFits
<1>7. WireFits(x, Len(saved)) /\ ~Quiet(x)
      BY <1>1, <1>3, <1>5, <1>6 DEF WireFits, Quiet
<1>8. doubtful' \in BOOLEAN /\ (~doubtful' => ~doubtful /\ w.starts # "answered")
      BY <1>2 DEF WiresInv
<1>9. WiresInv'
      BY <1>2, <1>5, <1>6, <1>7, <1>8, OneChanges
<1>10. wires'[c] = x
      BY <1>2 DEF Wire
<1>11. ~doubtful' => c = shared
      BY <1>6, <1>8, Alone
<1>12. shared # 0 /\ shared' = shared
       BY <1>2, <1>6 DEF WiresInv
<1> QED BY <1>1, <1>2, <1>4, <1>5, <1>8, <1>9, <1>10, <1>11, <1>12 DEF Here, t

LEMMA HereMail ==
    ASSUME WiresInv
    PROVE  /\ Here.mail \in Seq(Nat) /\ EndOf(Here.mail, Len(saved))
           /\ Len(saved) \in Nat /\ Len(Here.mail) \in Nat
<1>1. CASE shared = 0
  <2>1. Here.mail = <<>>
        BY <1>1 DEF Here, NewWire
  <2> QED BY <2>1, WireLists DEF EndOf
<1>2. CASE shared # 0
  <2>1. shared \in Wire
        BY <1>2 DEF WiresInv
  <2> QED BY <1>2, <2>1, WireLists DEF Here, WiresInv, WireFits, WireType
<1> QED BY <1>1, <1>2

----------------------------------------------------------------------------
(* The talk.                                                               *)

BubbleType == [row : Nat, letter : Nat, status : {"saved", "sending", "failed"}]
LetterType == [letter : Nat \ {0}, phrase : Phrase, saved : BOOLEAN]

TalkTypeOK ==
    /\ inChat \in BOOLEAN /\ wrote \in Nat
    /\ bubbles \in Seq(BubbleType)
    /\ awaited.letter \in Nat /\ awaited.letter <= wrote
    /\ awaited.letter # 0 => awaited.phrase \in Phrase
    /\ letters \subseteq LetterType
    /\ \A l \in letters : l.letter <= wrote
    /\ inChat => shared # 0
    /\ ~inChat => letters = {} /\ awaited.letter = 0

(* A bubble of the visitor's waits for the server's, each for its own.     *)
BubblesWait(b, n) ==
    /\ \A k \in DOMAIN b : b[k].letter <= n /\ (b[k].letter # 0 => b[k].row = 0)
    /\ \A j, k \in DOMAIN b : b[j].letter # 0 /\ b[j].letter = b[k].letter => j = k

(* How many messages of the chat have come: the rest is in the mail.       *)
Come == Len(saved) - Len(Here.mail)

HistoryFits == Here.starts = "answered" => Here.history = Come
ChatBegun   == inChat => Here.starts \in {"no", "joining"}

(* Each of the first n messages is shown once, and no other.               *)
RowsOnce(b, n) ==
    /\ \A k \in DOMAIN b : b[k].row <= n
    /\ \A i \in 1..n : \E k \in DOMAIN b : b[k].row = i /\ \A j \in DOMAIN b : b[j].row = i => j = k

(* What is being sent is awaited: it is not saved yet, or it is the only   *)
(* text of the visitor's that is to come.                                  *)
OwnText(i)       == saved[i].own /\ saved[i].phrase \in Phrase
Coming           == {i \in 1..Len(saved) : i > Come /\ OwnText(i)}
SendingAwaited   == \A k \in DOMAIN bubbles :
                       bubbles[k].status = "sending" =>
                           bubbles[k].letter # 0 /\ bubbles[k].letter = awaited.letter
UnsavedAwaited   == \A l \in letters :
                       ~l.saved => l.letter = awaited.letter /\ l.phrase = awaited.phrase
ComingAwaited    == \A i \in Coming :
                       /\ awaited.letter # 0 /\ saved[i].phrase = awaited.phrase
                       /\ \A l \in letters : l.saved
OneComing        == \A i, j \in Coming : i = j
AwaitedComes     == awaited.letter # 0 => (\E l \in letters : ~l.saved) \/ Coming # {}

TalkFits ==
    /\ HistoryFits /\ ChatBegun /\ (inChat => RowsOnce(bubbles, Come))
    /\ SendingAwaited /\ UnsavedAwaited /\ ComingAwaited /\ OneComing /\ AwaitedComes

TalkInv == TalkTypeOK /\ BubblesWait(bubbles, wrote) /\ (~doubtful => TalkFits)

LEMMA ComeNat == ASSUME WiresInv PROVE Come \in Nat /\ Come <= Len(saved) /\ Len(saved) \in Nat
BY HereMail DEF EndOf, Come

(* What a connection does aside leaves the talk as it was.                 *)
LEMMA AsideKeeps == ASSUME WiresInv, TalkInv, Aside PROVE TalkInv'
<1>1. UNCHANGED <<saved, inChat, bubbles, awaited, letters, wrote>> /\ (shared # 0 => shared' # 0)
      BY DEF Aside, talk
<1>2. TalkTypeOK' /\ BubblesWait(bubbles, wrote)'
      BY <1>1 DEF TalkInv, TalkTypeOK, BubblesWait
<1>3. ASSUME ~doubtful' PROVE TalkFits'
  <2>1. /\ ~doubtful /\ Here'.mail = Here.mail
        /\ Here'.starts = "answered" => Here.starts = "answered" /\ Here'.history = Here.history
        /\ shared # 0 => Here'.starts \in {"no", Here.starts}
        BY <1>3 DEF Aside
  <2>2. Come' = Come
        BY <1>1, <2>1 DEF Come
  <2>3. Coming' = Coming
        BY <1>1, <2>2 DEF Coming, OwnText
  <2> QED BY <1>1, <2>1, <2>2, <2>3
          DEF TalkInv, TalkTypeOK, TalkFits, HistoryFits, ChatBegun, RowsOnce, SendingAwaited,
              UnsavedAwaited, ComingAwaited, OneComing, AwaitedComes
<1> QED BY <1>2, <1>3 DEF TalkInv

(* What is saved is yet to come, unless nobody has asked for it.           *)
LEMMA SaysComes ==
    ASSUME WiresInv, NEW own \in BOOLEAN, NEW phrase \in Saying, Says(own, phrase), TalkInv, ~doubtful'
    PROVE  /\ ~doubtful /\ Here'.starts = Here.starts /\ Here'.history = Here.history
           /\ inChat \/ Here.starts = "answered" =>
                 /\ Come' = Come
                 /\ own /\ phrase \in Phrase => Coming' = Coming \cup {Len(saved) + 1}
           /\ ~(own /\ phrase \in Phrase) => Coming' = Coming
           /\ Len(saved) \in Nat /\ Len(saved) + 1 \notin Coming
           /\ saved'[Len(saved) + 1] = [own |-> own, phrase |-> phrase]
           /\ \A i \in 1..Len(saved) : saved'[i] = saved[i]
<1>1. /\ Len(saved) \in Nat /\ Come \in Nat /\ Come <= Len(saved)
      /\ Here.mail \in Seq(Nat) /\ Len(Here.mail) \in Nat
      BY HereMail, ComeNat
<1>2. /\ Len(saved') = Len(saved) + 1
      /\ saved'[Len(saved) + 1] = [own |-> own, phrase |-> phrase]
      /\ \A i \in 1..Len(saved) : saved'[i] = saved[i]
      BY AppendProperties DEF Says, WiresInv, RowType
<1>3. /\ ~doubtful /\ Here'.starts = Here.starts /\ Here'.history = Here.history
      /\ \/ Here'.mail = Append(Here.mail, Len(saved'))
         \/ /\ Here'.mail = <<>> /\ Here.mail = <<>>
            /\ shared = 0 \/ Here.starts = "asked"
      BY DEF Says
<1>4. CASE Here'.mail = Append(Here.mail, Len(saved'))
  <2>1. Len(Here'.mail) = Len(Here.mail) + 1
        BY <1>1, <1>2, <1>4, AppendProperties
  <2>2. Come' = Come
        BY <1>1, <1>2, <2>1 DEF Come
  <2>3. ASSUME own /\ phrase \in Phrase PROVE Coming' = Coming \cup {Len(saved) + 1}
        BY <1>1, <1>2, <2>2, <2>3 DEF Coming, OwnText
  <2>4. ASSUME ~(own /\ phrase \in Phrase) PROVE Coming' = Coming
        BY <1>1, <1>2, <2>2, <2>4 DEF Coming, OwnText
  <2> QED BY <1>1, <1>2, <1>3, <2>2, <2>3, <2>4 DEF Coming
<1>5. CASE Here'.mail = <<>> /\ Here.mail = <<>> /\ (shared = 0 \/ Here.starts = "asked")
  <2>1. Come = Len(saved) /\ Come' = Len(saved')
        BY <1>1, <1>2, <1>5 DEF Come
  <2>2. Coming = {} /\ Coming' = {}
        BY <1>1, <1>2, <2>1 DEF Coming
  <2>3. ~(inChat \/ Here.starts = "answered")
        BY <1>3, <1>5 DEF TalkInv, TalkTypeOK, TalkFits, ChatBegun, Here, NewWire
  <2> QED BY <1>1, <1>2, <1>3, <2>2, <2>3
<1> QED BY <1>3, <1>4, <1>5

(* Somebody else's message, or a file.                                     *)
LEMMA OthersKeep ==
    ASSUME WiresInv, TalkInv, NEW own \in BOOLEAN, NEW phrase \in {"agent", "file"},
           own => phrase = "file", Says(own, phrase), UNCHANGED letters
    PROVE  TalkInv'
<1>1. UNCHANGED <<inChat, bubbles, awaited, letters, wrote, shared>>
      BY DEF Says
<1>2. TalkTypeOK' /\ BubblesWait(bubbles, wrote)'
      BY <1>1 DEF TalkInv, TalkTypeOK, BubblesWait
<1>3. ASSUME ~doubtful' PROVE TalkFits'
  <2>1. phrase \in Saying /\ ~(own /\ phrase \in Phrase)
        BY WidgetAssumption DEF Saying
  <2>2. /\ ~doubtful /\ Here'.starts = Here.starts /\ Here'.history = Here.history
        /\ inChat \/ Here.starts = "answered" => Come' = Come
        /\ Coming' = Coming
        /\ \A i \in Coming : saved'[i] = saved[i]
        BY <1>3, <2>1, SaysComes DEF Coming
  <2> QED BY <1>1, <2>2
          DEF TalkInv, TalkFits, HistoryFits, ChatBegun, RowsOnce, SendingAwaited,
              UnsavedAwaited, ComingAwaited, OneComing, AwaitedComes
<1> QED BY <1>2, <1>3 DEF TalkInv

(* A letter is saved: it is the one that is awaited, and it will come.     *)
LEMMA LetterSavedKeeps ==
    ASSUME WiresInv, TalkInv, NEW l \in letters, ~l.saved, Says(TRUE, l.phrase),
           letters' = (letters \ {l}) \cup {[l EXCEPT !.saved = TRUE]}
    PROVE  TalkInv'
<1> DEFINE x == [l EXCEPT !.saved = TRUE]
<1>1. UNCHANGED <<inChat, bubbles, awaited, wrote, shared>>
      BY DEF Says
<1>2. l \in LetterType /\ inChat /\ l.letter <= wrote
      BY DEF TalkInv, TalkTypeOK
<1>3. x \in LetterType /\ x.saved /\ x.letter = l.letter
      BY <1>2 DEF LetterType
<1> HIDE DEF x
<1>4. letters' = (letters \ {l}) \cup {x}
      BY DEF x
<1>5. TalkTypeOK' /\ BubblesWait(bubbles, wrote)'
      BY <1>1, <1>2, <1>3, <1>4 DEF TalkInv, TalkTypeOK, BubblesWait
<1>6. ASSUME ~doubtful' PROVE TalkFits'
  <2> DEFINE n == Len(saved) + 1
  <2>1. l.phrase \in Saying /\ l.phrase \in Phrase
        BY <1>2 DEF Saying, LetterType
  <2>2. /\ ~doubtful /\ Here'.starts = Here.starts /\ Here'.history = Here.history
        /\ Come' = Come /\ Coming' = Coming \cup {n}
        /\ saved'[n] = [own |-> TRUE, phrase |-> l.phrase]
        BY <1>2, <1>6, <2>1, SaysComes
  <2> HIDE DEF n
  <2>3. TalkFits
        BY <2>2 DEF TalkInv
  <2>4. l.letter = awaited.letter /\ l.phrase = awaited.phrase /\ awaited.letter # 0
        BY <1>2, <2>3 DEF TalkFits, UnsavedAwaited, LetterType
  <2>5. Coming' = {n}
        BY <2>2, <2>3 DEF TalkFits, ComingAwaited
  <2>6. \A m \in letters : ~m.saved => m = l
    <3> SUFFICES ASSUME NEW m \in letters, ~m.saved PROVE m = l
        OBVIOUS
    <3>1. m.letter = l.letter /\ m.phrase = l.phrase /\ m \in LetterType
          BY <2>3, <2>4 DEF TalkFits, UnsavedAwaited, TalkInv, TalkTypeOK
    <3>2. m.saved = l.saved
          BY <1>2, <3>1 DEF LetterType
    <3> QED BY <1>2, <3>1, <3>2 DEF LetterType
  <2>7. \A m \in letters' : m.saved
        BY <1>3, <1>4, <2>6
  <2>8. ComingAwaited' /\ OneComing' /\ AwaitedComes' /\ UnsavedAwaited'
        BY <1>1, <2>2, <2>4, <2>5, <2>7
           DEF ComingAwaited, OneComing, AwaitedComes, UnsavedAwaited
  <2> QED BY <1>1, <2>2, <2>3, <2>8
          DEF TalkFits, HistoryFits, ChatBegun, RowsOnce, SendingAwaited
<1> QED BY <1>5, <1>6 DEF TalkInv

LEMMA LetterAnsweredKeeps ==
    ASSUME TalkInv, NEW l \in letters, LetterAnswered(l) PROVE TalkInv'
<1>1. /\ l.saved /\ letters' = letters \ {l}
      /\ UNCHANGED <<wires, shared, saved, inChat, bubbles, awaited, wrote, doubtful>>
      BY DEF LetterAnswered, chat
<1>2. Here' = Here /\ Come' = Come
      BY <1>1 DEF Here, Come
<1>3. Coming' = Coming
      BY <1>1, <1>2 DEF Coming, OwnText
<1> QED BY <1>1, <1>2, <1>3
        DEF TalkInv, TalkTypeOK, BubblesWait, TalkFits, HistoryFits, ChatBegun, RowsOnce,
            SendingAwaited, UnsavedAwaited, ComingAwaited, OneComing, AwaitedComes

(* A letter fails: if it was not saved, it was the one that is awaited.    *)
LEMMA LetterFailsKeeps ==
    ASSUME TalkInv, NEW l \in letters, LetterFails(l) PROVE TalkInv'
<1>1. /\ letters' = letters \ {l} /\ awaited' = Nobody
      /\ bubbles' = [k \in DOMAIN bubbles |->
                       IF bubbles[k].letter = l.letter THEN [bubbles[k] EXCEPT !.status = "failed"]
                       ELSE bubbles[k]]
      /\ doubtful' = (doubtful \/ l.saved)
      /\ UNCHANGED <<wires, shared, saved, inChat, wrote>>
      BY DEF LetterFails, chat
<1>2. Here' = Here /\ Come' = Come
      BY <1>1 DEF Here, Come
<1>3. Coming' = Coming
      BY <1>1, <1>2 DEF Coming, OwnText
<1>4. /\ bubbles \in Seq(BubbleType) /\ l \in LetterType
      /\ Len(bubbles) \in Nat /\ DOMAIN bubbles = 1..Len(bubbles)
      BY LenProperties DEF TalkInv, TalkTypeOK
<1>5. \A k \in DOMAIN bubbles : bubbles[k] \in BubbleType
      BY <1>4
<1>6. DOMAIN bubbles' = DOMAIN bubbles
      /\ \A k \in DOMAIN bubbles :
            /\ bubbles'[k] \in BubbleType
            /\ bubbles'[k].row = bubbles[k].row /\ bubbles'[k].letter = bubbles[k].letter
            /\ bubbles'[k].status = "sending" =>
                  bubbles[k].status = "sending" /\ bubbles[k].letter # l.letter
      BY <1>1, <1>5 DEF BubbleType
<1>7. bubbles' \in Seq(BubbleType)
  <2>1. bubbles' = [k \in 1..Len(bubbles) |-> bubbles'[k]]
        BY <1>1, <1>4
  <2> QED BY <1>4, <1>6, <2>1, SeqDef
<1>8. Nobody.letter = 0
      BY DEF Nobody
<1>9. TalkTypeOK'
      BY <1>1, <1>7, <1>8 DEF TalkInv, TalkTypeOK
<1>10. BubblesWait(bubbles, wrote)'
       BY <1>1, <1>6 DEF TalkInv, BubblesWait
<1>11. ASSUME ~doubtful' PROVE TalkFits'
  <2>1. ~doubtful /\ ~l.saved /\ TalkFits
        BY <1>1, <1>11 DEF TalkInv
  <2>2. l.letter = awaited.letter /\ l.phrase = awaited.phrase
        BY <2>1 DEF TalkFits, UnsavedAwaited
  <2>3. Coming = {}
        BY <2>1 DEF TalkFits, ComingAwaited
  <2>4. SendingAwaited'
        BY <1>6, <2>1, <2>2 DEF TalkFits, SendingAwaited
  <2>5. UnsavedAwaited'
    <3> SUFFICES ASSUME NEW m \in letters, m # l, ~m.saved PROVE FALSE
        BY <1>1 DEF UnsavedAwaited
    <3>1. m.letter = l.letter /\ m.phrase = l.phrase /\ m \in LetterType
          BY <2>1, <2>2 DEF TalkFits, UnsavedAwaited, TalkInv, TalkTypeOK
    <3>2. m.saved = l.saved
          BY <1>4, <2>1, <3>1 DEF LetterType
    <3> QED BY <1>4, <3>1, <3>2 DEF LetterType
  <2>6. ComingAwaited' /\ OneComing' /\ AwaitedComes'
        BY <1>1, <1>3, <1>8, <2>3 DEF ComingAwaited, OneComing, AwaitedComes
  <2>7. inChat' => RowsOnce(bubbles, Come)'
        BY <1>1, <1>2, <1>6, <2>1 DEF TalkFits, RowsOnce
  <2> QED BY <1>1, <1>2, <2>1, <2>4, <2>5, <2>6, <2>7 DEF TalkFits, HistoryFits, ChatBegun
<1> QED BY <1>9, <1>10, <1>11 DEF TalkInv

LEMMA RowAppended ==
    ASSUME NEW b \in Seq(BubbleType), NEW n \in Nat, RowsOnce(b, n), NEW x \in BubbleType,
           NEW r, r = Append(b, x)
    PROVE  /\ x.row = 0 => RowsOnce(r, n)
           /\ x.row = n + 1 => RowsOnce(r, n + 1)
<1> DEFINE m == Len(b)
<1>1. /\ m \in Nat /\ DOMAIN b = 1..m /\ DOMAIN r = 1..(m + 1)
      /\ r[m + 1] = x /\ \A k \in 1..m : r[k] = b[k]
      BY AppendProperties, LenProperties
<1>0. \A k \in DOMAIN b : b[k] \in BubbleType
      BY <1>1
<1>2. \A k \in 1..m : b[k].row \in Nat /\ b[k].row <= n
      BY <1>0, <1>1 DEF RowsOnce, BubbleType
<1> HIDE DEF m
<1>3. ASSUME x.row = 0 PROVE RowsOnce(r, n)
  <2>1. \A k \in DOMAIN r : r[k].row <= n
        BY <1>1, <1>2, <1>3
  <2>2. ASSUME NEW i \in 1..n
        PROVE  \E k \in DOMAIN r : r[k].row = i /\ \A j \in DOMAIN r : r[j].row = i => j = k
    <3>1. PICK k \in DOMAIN b : b[k].row = i /\ \A j \in DOMAIN b : b[j].row = i => j = k
          BY DEF RowsOnce
    <3>2. k \in DOMAIN r /\ r[k].row = i
          BY <1>1, <3>1
    <3>3. \A j \in DOMAIN r : r[j].row = i => j = k
          BY <1>1, <1>3, <3>1
    <3> QED BY <3>2, <3>3
  <2> QED BY <2>1, <2>2 DEF RowsOnce
<1>4. ASSUME x.row = n + 1 PROVE RowsOnce(r, n + 1)
  <2>1. \A k \in DOMAIN r : r[k].row <= n + 1
        BY <1>1, <1>2, <1>4
  <2>2. ASSUME NEW i \in 1..(n + 1)
        PROVE  \E k \in DOMAIN r : r[k].row = i /\ \A j \in DOMAIN r : r[j].row = i => j = k
    <3>1. CASE i = n + 1
      <4>1. \A j \in DOMAIN r : r[j].row = i => j = m + 1
            BY <1>1, <1>2, <3>1
      <4> QED BY <1>1, <1>4, <3>1, <4>1
    <3>2. CASE i # n + 1
      <4>0. i \in 1..n
            BY <3>2
      <4>1. PICK k \in DOMAIN b : b[k].row = i /\ \A j \in DOMAIN b : b[j].row = i => j = k
            BY <4>0 DEF RowsOnce
      <4>2. k \in DOMAIN r /\ r[k].row = i
            BY <1>1, <4>1
      <4>3. \A j \in DOMAIN r : r[j].row = i => j = k
            BY <1>1, <1>4, <3>2, <4>1
      <4> QED BY <4>2, <4>3
    <3> QED BY <3>1, <3>2
  <2> QED BY <2>1, <2>2 DEF RowsOnce
<1> QED BY <1>3, <1>4

LEMMA RowReplaced ==
    ASSUME NEW b \in Seq(BubbleType), NEW n \in Nat, RowsOnce(b, n), NEW x, x.row = n + 1,
           NEW p \in DOMAIN b, b[p].row = 0, NEW r, DOMAIN r = DOMAIN b,
           r[p] = x, \A k \in DOMAIN b : k # p => r[k] = b[k]
    PROVE  RowsOnce(r, n + 1)
<1>0. DOMAIN b = 1..Len(b) /\ Len(b) \in Nat
      BY LenProperties
<1>4. \A k \in DOMAIN b : b[k] \in BubbleType
      BY <1>0
<1>1. \A k \in DOMAIN b : b[k].row \in Nat /\ b[k].row <= n
      BY <1>4 DEF RowsOnce, BubbleType
<1>2. \A k \in DOMAIN r : r[k].row <= n + 1
      BY <1>1
<1>3. ASSUME NEW i \in 1..(n + 1)
      PROVE  \E k \in DOMAIN r : r[k].row = i /\ \A j \in DOMAIN r : r[j].row = i => j = k
  <2>1. CASE i = n + 1
    <3>1. \A j \in DOMAIN r : r[j].row = i => j = p
          BY <1>1, <2>1
    <3> QED BY <2>1, <3>1
  <2>2. CASE i # n + 1
    <3>0. i \in 1..n
          BY <2>2
    <3>1. PICK k \in DOMAIN b : b[k].row = i /\ \A j \in DOMAIN b : b[j].row = i => j = k
          BY <3>0 DEF RowsOnce
    <3>2. k # p
          BY <3>0, <3>1
    <3>3. \A j \in DOMAIN r : r[j].row = i => j = k
          BY <2>2, <3>1
    <3> QED BY <3>1, <3>2, <3>3
  <2> QED BY <2>1, <2>2
<1> QED BY <1>2, <1>3 DEF RowsOnce

LEMMA SendKeeps ==
    ASSUME WiresInv, TalkInv, NEW phrase \in Phrase, SendMessage(phrase) PROVE TalkInv'
<1> DEFINE n == wrote + 1
           x == Bubble(0, n, "sending")
           l == [letter |-> n, phrase |-> phrase, saved |-> FALSE]
<1>1. /\ inChat /\ wrote' = n /\ bubbles' = Append(bubbles, x)
      /\ awaited' = [letter |-> n, phrase |-> phrase] /\ letters' = letters \cup {l}
      /\ doubtful' = (doubtful \/ awaited.letter # 0)
      /\ UNCHANGED <<wires, shared, saved, inChat>>
      BY DEF SendMessage, chat
<1>2. /\ n \in Nat \ {0} /\ n > wrote /\ wrote \in Nat /\ bubbles \in Seq(BubbleType)
      BY DEF TalkInv, TalkTypeOK
<1>3. x \in BubbleType /\ x.row = 0 /\ x.letter = n /\ l \in LetterType /\ l.letter = n /\ ~l.saved
      /\ l.phrase = phrase
      BY <1>2 DEF Bubble, BubbleType, LetterType
<1> HIDE DEF x, l
<1>4. /\ bubbles' \in Seq(BubbleType) /\ DOMAIN bubbles = 1..Len(bubbles) /\ Len(bubbles) \in Nat
      /\ DOMAIN bubbles' = 1..(Len(bubbles) + 1)
      /\ bubbles'[Len(bubbles) + 1] = x /\ \A k \in 1..Len(bubbles) : bubbles'[k] = bubbles[k]
      BY <1>1, <1>2, <1>3, AppendProperties, LenProperties
<1>5. Here' = Here /\ Come' = Come
      BY <1>1 DEF Here, Come
<1>6. Coming' = Coming
      BY <1>1, <1>5 DEF Coming, OwnText
<1>7. TalkTypeOK'
  <2>1. \A m \in letters' : m \in LetterType /\ m.letter <= wrote'
        BY <1>1, <1>2, <1>3 DEF TalkInv, TalkTypeOK, LetterType
  <2>2. awaited'.letter = n /\ awaited'.phrase = phrase
        BY <1>1
  <2> QED BY <1>1, <1>2, <1>4, <2>1, <2>2 DEF TalkInv, TalkTypeOK
<1>8. BubblesWait(bubbles, wrote)'
  <2>0. \A k \in 1..Len(bubbles) : bubbles[k] \in BubbleType
        BY <1>2, <1>4
  <2>1. \A k \in 1..Len(bubbles) : /\ bubbles[k].letter \in Nat /\ bubbles[k].letter <= wrote
                                   /\ bubbles[k].letter # 0 => bubbles[k].row = 0
        BY <1>4, <2>0 DEF TalkInv, BubblesWait, BubbleType
  <2>2. \A k \in DOMAIN bubbles' : /\ bubbles'[k].letter <= wrote'
                                   /\ bubbles'[k].letter # 0 => bubbles'[k].row = 0
        BY <1>1, <1>2, <1>3, <1>4, <2>1
  <2>3. ASSUME NEW j \in DOMAIN bubbles', NEW k \in DOMAIN bubbles',
               bubbles'[j].letter # 0, bubbles'[j].letter = bubbles'[k].letter
        PROVE  j = k
    <3>1. CASE j \in 1..Len(bubbles) /\ k \in 1..Len(bubbles)
          BY <1>4, <2>3, <3>1 DEF TalkInv, BubblesWait
    <3>2. CASE j = Len(bubbles) + 1 /\ k \in 1..Len(bubbles)
          BY <1>2, <1>3, <1>4, <2>1, <2>3, <3>2
    <3>3. CASE k = Len(bubbles) + 1 /\ j \in 1..Len(bubbles)
          BY <1>2, <1>3, <1>4, <2>1, <2>3, <3>3
    <3> QED BY <1>4, <3>1, <3>2, <3>3
  <2> QED BY <2>2, <2>3 DEF BubblesWait
<1>9. ASSUME ~doubtful' PROVE TalkFits'
  <2>1. ~doubtful /\ awaited.letter = 0 /\ TalkFits
        BY <1>1, <1>9 DEF TalkInv, TalkTypeOK
  <2>2. Coming = {}
        BY <2>1 DEF TalkFits, ComingAwaited
  <2>3. \A m \in letters : m.saved
        BY <2>1 DEF TalkFits, UnsavedAwaited, TalkInv, TalkTypeOK, LetterType
  <2>4. \A k \in DOMAIN bubbles : bubbles[k].status # "sending"
        BY <2>1 DEF TalkFits, SendingAwaited
  <2>5. SendingAwaited'
        BY <1>1, <1>2, <1>3, <1>4, <2>4 DEF SendingAwaited
  <2>6. UnsavedAwaited'
        BY <1>1, <1>3, <2>3 DEF UnsavedAwaited
  <2>7. ComingAwaited' /\ OneComing' /\ AwaitedComes'
        BY <1>1, <1>3, <1>6, <2>2 DEF ComingAwaited, OneComing, AwaitedComes
  <2>8. RowsOnce(bubbles', Come)
        BY <1>1, <1>2, <1>3, <2>1, RowAppended, ComeNat DEF TalkFits
  <2> QED BY <1>1, <1>5, <2>1, <2>5, <2>6, <2>7, <2>8 DEF TalkFits, HistoryFits, ChatBegun
<1> QED BY <1>7, <1>8, <1>9 DEF TalkInv

(* The server starts the chat: nothing has been said yet.                  *)
LEMMA ByServerKeeps ==
    ASSUME WiresInv, TalkInv, NEW c \in Wire, ChatStartedByServer(c) PROVE TalkInv'
<1>1. /\ UNCHANGED <<inChat, bubbles, awaited, letters, wrote>> /\ shared' # 0 /\ WiresInv'
      /\ ~doubtful' => /\ Here.starts = "asked" /\ ~doubtful
                       /\ Here.mail = <<>> /\ Here'.mail = <<>>
                       /\ Here'.starts = "answered" /\ Here'.history = Len(saved')
      BY StartedByServer DEF talk
<1>2. TalkTypeOK' /\ BubblesWait(bubbles, wrote)'
      BY <1>1 DEF TalkInv, TalkTypeOK, BubblesWait
<1>3. ASSUME ~doubtful' PROVE TalkFits'
  <2>1. ~inChat /\ letters = {} /\ awaited.letter = 0 /\ TalkFits
        BY <1>1, <1>3 DEF TalkInv, TalkTypeOK, TalkFits, ChatBegun
  <2>2. Len(saved') \in Nat /\ Len(<<>>) = 0
        BY <1>1, LenProperties DEF WiresInv
  <2>3. Come' = Len(saved')
        BY <1>1, <1>3, <2>2 DEF Come
  <2>4. Coming' = {}
        BY <2>2, <2>3 DEF Coming
  <2> QED BY <1>1, <1>3, <2>1, <2>3, <2>4
          DEF TalkFits, HistoryFits, ChatBegun, SendingAwaited, UnsavedAwaited,
              ComingAwaited, OneComing, AwaitedComes
<1> QED BY <1>2, <1>3 DEF TalkInv

(* The page takes the history: what has come is what it shows.             *)
LEMMA OnPageKeeps ==
    ASSUME WiresInv, TalkInv, NEW c \in Wire, ChatStarted(c) PROVE TalkInv'
<1>1. /\ WiresInv' /\ UNCHANGED <<saved, awaited, letters, wrote, doubtful>> /\ inChat' = TRUE
      /\ ~doubtful' => /\ Here.starts = "answered"
                       /\ Here'.starts = "joining" /\ Here'.mail = Here.mail
      /\ shared' # 0
      BY StartedOnPage
<1>2. PICK h \in Nat : /\ bubbles' = [i \in 1..h |-> FromServer(i)]
                       /\ ~doubtful' => Here.history = h
      BY StartedOnPage
<1>3. /\ DOMAIN bubbles' = 1..h
      /\ \A k \in 1..h : /\ bubbles'[k] \in BubbleType /\ bubbles'[k].row = k
                         /\ bubbles'[k].letter = 0 /\ bubbles'[k].status = "saved"
      BY <1>2 DEF FromServer, Bubble, BubbleType
<1>4. bubbles' \in Seq(BubbleType)
  <2>1. bubbles' = [k \in 1..h |-> bubbles'[k]]
        BY <1>2
  <2> QED BY <1>3, <2>1, SeqDef
<1>5. TalkTypeOK'
      BY <1>1, <1>4 DEF TalkInv, TalkTypeOK
<1>6. BubblesWait(bubbles, wrote)'
  <2>1. wrote' \in Nat
        BY <1>1 DEF TalkInv, TalkTypeOK
  <2> QED BY <1>3, <2>1 DEF BubblesWait
<1>7. ASSUME ~doubtful' PROVE TalkFits'
  <2>1. ~doubtful /\ TalkFits /\ ~inChat /\ letters = {} /\ awaited.letter = 0 /\ h = Come
        BY <1>1, <1>2, <1>7 DEF TalkInv, TalkTypeOK, TalkFits, ChatBegun, HistoryFits
  <2>2. Come' = Come
        BY <1>1, <1>7 DEF Come
  <2>3. Coming' = Coming /\ Coming = {}
        BY <1>1, <2>1, <2>2 DEF Coming, OwnText, TalkFits, ComingAwaited
  <2>4. RowsOnce(bubbles', h)
        BY <1>3 DEF RowsOnce
  <2> QED BY <1>1, <1>3, <1>7, <2>1, <2>2, <2>3, <2>4
          DEF TalkFits, HistoryFits, ChatBegun, SendingAwaited, UnsavedAwaited,
              ComingAwaited, OneComing, AwaitedComes
<1> QED BY <1>5, <1>6, <1>7 DEF TalkInv

(* What an event does to the bubbles: the one that is awaited becomes the  *)
(* server's, or the server's is added.                                     *)
LEMMA EchoShows ==
    ASSUME TalkInv, NEW i \in Nat, NEW r, r = Echoed(i)
    PROVE  /\ r \in Seq(BubbleType) /\ BubblesWait(r, wrote)
           /\ \A k \in DOMAIN r : r[k].status = "sending" =>
                 /\ k \in DOMAIN bubbles /\ r[k] = bubbles[k]
                 /\ Awaits(i) => bubbles[k].letter # awaited.letter
           /\ \A n \in Nat : RowsOnce(bubbles, n) /\ i = n + 1 => RowsOnce(r, n + 1)
<1> DEFINE x == FromServer(i)
           m == Len(bubbles)
<1>1. /\ bubbles \in Seq(BubbleType) /\ m \in Nat /\ DOMAIN bubbles = 1..m /\ wrote \in Nat
      BY LenProperties DEF TalkInv, TalkTypeOK
<1>2. \A k \in DOMAIN bubbles : bubbles[k] \in BubbleType
      BY <1>1
<1>3. x \in BubbleType /\ x.row = i /\ x.letter = 0 /\ x.status = "saved"
      BY DEF FromServer, Bubble, BubbleType
<1>4. /\ \A k \in DOMAIN bubbles : bubbles[k].letter <= wrote /\ (bubbles[k].letter # 0 => bubbles[k].row = 0)
      /\ \A j, k \in DOMAIN bubbles :
            bubbles[j].letter # 0 /\ bubbles[j].letter = bubbles[k].letter => j = k
      BY DEF TalkInv, BubblesWait
<1>5. ASSUME Awaits(i), NEW p \in DOMAIN bubbles, bubbles[p].letter = awaited.letter
      PROVE  /\ r \in Seq(BubbleType) /\ BubblesWait(r, wrote)
             /\ \A k \in DOMAIN r : r[k].status = "sending" =>
                   /\ k \in DOMAIN bubbles /\ r[k] = bubbles[k]
                   /\ Awaits(i) => bubbles[k].letter # awaited.letter
             /\ \A n \in Nat : RowsOnce(bubbles, n) /\ i = n + 1 => RowsOnce(r, n + 1)
  <2>1. awaited.letter # 0
        BY <1>5 DEF Awaits
  <2>2. r = [k \in DOMAIN bubbles |-> IF bubbles[k].letter = awaited.letter THEN x ELSE bubbles[k]]
        BY <1>5 DEF Echoed
  <2> HIDE DEF x
  <2>3. /\ DOMAIN r = DOMAIN bubbles /\ r[p] = x
        /\ \A k \in DOMAIN bubbles : k # p => r[k] = bubbles[k] /\ bubbles[k].letter # awaited.letter
        BY <1>4, <1>5, <2>1, <2>2
  <2>4. r \in Seq(BubbleType)
    <3>1. r = [k \in 1..m |-> r[k]] /\ \A k \in 1..m : r[k] \in BubbleType
          BY <1>1, <1>2, <1>3, <2>2, <2>3
    <3> QED BY <1>1, <3>1, SeqDef
  <2>5. BubblesWait(r, wrote)
        BY <1>1, <1>3, <1>4, <2>3 DEF BubblesWait
  <2>6. \A n \in Nat : RowsOnce(bubbles, n) /\ i = n + 1 => RowsOnce(r, n + 1)
    <3> SUFFICES ASSUME NEW n \in Nat, RowsOnce(bubbles, n), i = n + 1 PROVE RowsOnce(r, n + 1)
        OBVIOUS
    <3>1. bubbles[p].row = 0 /\ x.row = n + 1
          BY <1>3, <1>4, <1>5, <2>1
    <3> QED BY <1>1, <2>3, <3>1, RowReplaced
  <2>7. \A k \in DOMAIN r : r[k].status = "sending" => k # p
        BY <1>3, <2>3
  <2> QED BY <2>3, <2>4, <2>5, <2>6, <2>7
<1>6. ASSUME ~(Awaits(i) /\ \E k \in DOMAIN bubbles : bubbles[k].letter = awaited.letter)
      PROVE  /\ r \in Seq(BubbleType) /\ BubblesWait(r, wrote)
             /\ \A k \in DOMAIN r : r[k].status = "sending" =>
                   /\ k \in DOMAIN bubbles /\ r[k] = bubbles[k]
                   /\ Awaits(i) => bubbles[k].letter # awaited.letter
             /\ \A n \in Nat : RowsOnce(bubbles, n) /\ i = n + 1 => RowsOnce(r, n + 1)
  <2>1. r = Append(bubbles, x)
        BY <1>6 DEF Echoed
  <2> HIDE DEF x
  <2>2. /\ r \in Seq(BubbleType) /\ DOMAIN r = 1..(m + 1) /\ r[m + 1] = x
        /\ \A k \in 1..m : r[k] = bubbles[k]
        BY <1>1, <1>3, <2>1, AppendProperties, LenProperties
  <2>3. BubblesWait(r, wrote)
    <3> HIDE DEF m
    <3>1. \A k \in DOMAIN r : r[k].letter <= wrote /\ (r[k].letter # 0 => r[k].row = 0)
          BY <1>1, <1>3, <1>4, <2>2
    <3>2. \A k \in DOMAIN r : r[k].letter # 0 => k \in 1..m
          BY <1>1, <1>3, <2>2
    <3>3. ASSUME NEW j \in DOMAIN r, NEW k \in DOMAIN r, r[j].letter # 0, r[j].letter = r[k].letter
          PROVE  j = k
          BY <1>1, <1>4, <2>2, <3>2, <3>3
    <3> QED BY <3>1, <3>3 DEF BubblesWait
  <2>4. \A n \in Nat : RowsOnce(bubbles, n) /\ i = n + 1 => RowsOnce(r, n + 1)
        BY <1>1, <1>3, <2>1, RowAppended
  <2>5. \A k \in DOMAIN r : r[k].status = "sending" => k \in DOMAIN bubbles /\ r[k] = bubbles[k]
    <3> HIDE DEF m
    <3> QED BY <1>1, <1>3, <2>2
  <2> QED BY <1>6, <2>2, <2>3, <2>4, <2>5
<1> QED BY <1>5, <1>6

(* An event comes: it is the one that is awaited exactly if it is the text *)
(* of the visitor's that was to come.                                      *)
LEMMA TakenKeeps ==
    ASSUME WiresInv, TalkInv, NEW c \in Wire, Receives(c) PROVE TalkInv'
<1>1. /\ WiresInv' /\ UNCHANGED <<saved, inChat, letters, wrote>> /\ shared' # 0
      /\ ~doubtful' => ~doubtful /\ Here.starts # "answered" /\ Here'.starts = Here.starts
      BY MailTaken
<1>2. PICK i \in Nat : /\ bubbles' = Echoed(i)
                       /\ awaited' = IF Awaits(i) THEN Nobody ELSE awaited
                       /\ ~doubtful' => /\ Here.mail # <<>> /\ i = Head(Here.mail)
                                        /\ Here'.mail = Tail(Here.mail)
      BY MailTaken
<1>3. /\ bubbles' \in Seq(BubbleType) /\ BubblesWait(bubbles', wrote)
      /\ \A k \in DOMAIN bubbles' : bubbles'[k].status = "sending" =>
            /\ k \in DOMAIN bubbles /\ bubbles'[k] = bubbles[k]
            /\ Awaits(i) => bubbles[k].letter # awaited.letter
      /\ \A n \in Nat : RowsOnce(bubbles, n) /\ i = n + 1 => RowsOnce(bubbles', n + 1)
      BY <1>2, EchoShows
<1>4. Nobody.letter = 0
      BY DEF Nobody
<1>5. TalkTypeOK'
      BY <1>1, <1>2, <1>3, <1>4 DEF TalkInv, TalkTypeOK
<1>6. ASSUME ~doubtful' PROVE TalkFits'
  <2>1. ~doubtful /\ TalkFits
        BY <1>1, <1>6 DEF TalkInv
  <2>2. i = Come + 1 /\ Come' = Come + 1 /\ Come \in Nat /\ i <= Len(saved)
    <3>1. /\ Len(Tail(Here.mail)) = Len(Here.mail) - 1 /\ Len(Here.mail) \in Nat \ {0}
          /\ i = (Len(saved) - Len(Here.mail)) + 1
          BY <1>2, <1>6, HereMail, EndShrinks
    <3>2. Come' = Len(saved) - (Len(Here.mail) - 1)
          BY <1>1, <1>2, <1>6, <3>1 DEF Come
    <3>3. Come = Len(saved) - Len(Here.mail) /\ Come \in Nat /\ Come <= Len(saved) /\ Len(saved) \in Nat
          BY ComeNat DEF Come
    <3> QED BY <3>1, <3>2, <3>3
  <2>3. Len(saved) \in Nat
        BY ComeNat
  <2>4. Coming' = Coming \ {i}
        BY <1>1, <2>2, <2>3 DEF Coming, OwnText
  <2>5. Awaits(i) <=> i \in Coming
    <3>1. ASSUME Awaits(i) PROVE i \in Coming
          BY <2>2, <2>3, <3>1 DEF Awaits, Coming, OwnText, TalkInv, TalkTypeOK
    <3>2. ASSUME i \in Coming PROVE Awaits(i)
          BY <2>1, <3>2 DEF Awaits, Coming, OwnText, TalkFits, ComingAwaited
    <3> QED BY <3>1, <3>2
  <2>6. inChat' => RowsOnce(bubbles, Come)'
        BY <1>1, <1>3, <2>1, <2>2 DEF TalkFits
  <2>7. HistoryFits' /\ ChatBegun'
        BY <1>1, <1>6, <2>1 DEF TalkFits, HistoryFits, ChatBegun
  <2>8. CASE Awaits(i)
    <3>1. i \in Coming /\ awaited' = Nobody /\ Coming' = {} /\ (\A l \in letters : l.saved)
          BY <1>2, <2>1, <2>4, <2>5, <2>8 DEF TalkFits, OneComing, ComingAwaited
    <3>2. \A k \in DOMAIN bubbles' : bubbles'[k].status # "sending"
          BY <1>3, <2>1, <2>8 DEF TalkFits, SendingAwaited
    <3> QED BY <1>1, <1>4, <2>6, <2>7, <3>1, <3>2
            DEF TalkFits, SendingAwaited, UnsavedAwaited, ComingAwaited, OneComing, AwaitedComes
  <2>9. CASE ~Awaits(i)
    <3>1. awaited' = awaited /\ Coming' = Coming
          BY <1>2, <2>4, <2>5, <2>9
    <3>2. SendingAwaited'
          BY <1>3, <2>1, <3>1 DEF TalkFits, SendingAwaited
    <3>3. UnsavedAwaited' /\ ComingAwaited' /\ OneComing' /\ AwaitedComes'
          BY <1>1, <2>1, <3>1 DEF TalkFits, UnsavedAwaited, ComingAwaited, OneComing, AwaitedComes
    <3> QED BY <2>6, <2>7, <3>2, <3>3 DEF TalkFits
  <2> QED BY <2>8, <2>9
<1>7. BubblesWait(bubbles, wrote)'
      BY <1>1, <1>3
<1> QED BY <1>5, <1>6, <1>7 DEF TalkInv

WidgetInv == WiresInv /\ TalkInv

LEMMA WidgetStart == WidgetInit => WidgetInv
<1> SUFFICES ASSUME WidgetInit PROVE WidgetInv
    OBVIOUS
<1>1. /\ wires = <<>> /\ shared = 0 /\ doubtful = FALSE /\ inChat = FALSE /\ bubbles = <<>>
      /\ awaited = Nobody /\ letters = {} /\ wrote = 0
      /\ \/ ticketIs = "none" /\ saved = <<>>
         \/ ticketIs = "open" /\ saved = <<[own |-> TRUE, phrase |-> "first"]>>
      BY DEF WidgetInit
<1>2. saved \in Seq(RowType)
  <2>1. [own |-> TRUE, phrase |-> "first"] \in RowType
        BY DEF RowType, Saying
  <2>2. <<>> \in Seq(RowType) /\ <<[own |-> TRUE, phrase |-> "first"]>> \in Seq(RowType)
        BY <2>1
  <2> QED BY <1>1, <2>2
<1>3. Wire = {} /\ wires \in Seq(WireType) /\ bubbles \in Seq(BubbleType) /\ DOMAIN bubbles = {}
      BY <1>1 DEF Wire
<1>4. WiresInv
      BY <1>1, <1>2, <1>3 DEF WiresInv
<1>5. Len(saved) \in Nat /\ Len(<<>>) = 0
      BY <1>2, LenProperties
<1>6. Here.mail = <<>> /\ Here.starts = "no"
      BY <1>1 DEF Here, NewWire
<1>7. Come = Len(saved) /\ Coming = {}
  <2>1. Come = Len(saved)
        BY <1>5, <1>6 DEF Come
  <2> QED BY <1>5, <2>1 DEF Coming
<1>8. TalkTypeOK /\ BubblesWait(bubbles, wrote) /\ awaited.letter = 0
  <2>1. awaited.letter = 0
        BY <1>1 DEF Nobody
  <2>2. inChat = FALSE /\ letters = {} /\ wrote = 0
        BY <1>1
  <2>3. TalkTypeOK
    <3>0. inChat \in BOOLEAN
          BY <2>2, Zenon
    <3>1. wrote \in Nat /\ awaited.letter \in Nat /\ awaited.letter <= wrote
          BY <2>1, <2>2
    <3>2. letters \subseteq LetterType
          BY <2>2
    <3>3. \A l \in letters : l.letter <= wrote
          BY <2>2
    <3> QED BY <1>3, <2>1, <2>2, <3>0, <3>1, <3>2, <3>3 DEF TalkTypeOK
  <2> QED BY <1>3, <2>1, <2>3 DEF BubblesWait
<1> QED BY <1>1, <1>3, <1>4, <1>6, <1>7, <1>8
        DEF WidgetInv, TalkInv, TalkFits, HistoryFits, ChatBegun, SendingAwaited,
            UnsavedAwaited, ComingAwaited, OneComing, AwaitedComes

(* Nothing is changed of which the invariant speaks.                       *)
LEMMA NothingKeeps ==
    ASSUME WidgetInv, UNCHANGED <<wires, shared, saved, talk, doubtful>>,
           ticketIs' = "none" => ticketIs = "none"
    PROVE  WidgetInv'
<1>1. WiresInv'
      BY DEF WidgetInv, WiresInv, Wire
<1>2. Aside
  <2>1. Here' = Here /\ doubtful' = doubtful /\ shared' = shared /\ UNCHANGED <<saved, talk>>
        BY DEF Here
  <2> QED BY <2>1 DEF Aside
<1> QED BY <1>1, <1>2, AsideKeeps DEF WidgetInv

LEMMA WidgetStep == WidgetInv /\ [WidgetNext]_widgetVars => WidgetInv'
<1> SUFFICES ASSUME WidgetInv, [WidgetNext]_widgetVars PROVE WidgetInv'
    OBVIOUS
<1> USE DEF WidgetInv
<1>1. ASSUME OpenWidget PROVE WidgetInv'
      BY <1>1, BuiltAside, AsideKeeps DEF OpenWidget, chat
<1>2. ASSUME NEW done \in BOOLEAN, Registration(done) PROVE WidgetInv'
  <2>1. CASE done
        BY <1>2, <2>1, BuiltAside, AsideKeeps DEF Registration, chat
  <2>2. CASE ~done
        BY <1>2, <2>2, NothingKeeps DEF Registration, chat
  <2> QED BY <2>1, <2>2
<1>3. ASSUME CloseWidget \/ HandleRegistration \/ TicketCloses \/ UNCHANGED widgetVars PROVE WidgetInv'
      BY <1>3, NothingKeeps DEF CloseWidget, HandleRegistration, TicketCloses, widgetVars, chat
<1>4. ASSUME NEW c \in Wire,
             \/ WireStarts(c) \/ WireFails(c) \/ WireBreaks(c) \/ WireReturns(c) \/ WireCloses(c)
             \/ ChatNotStarted(c)
      PROVE  WidgetInv'
      BY <1>4, ConnectionSteps, AsideKeeps
<1>5. ASSUME NEW c \in Wire, JoinsChat(c) PROVE WidgetInv'
      BY <1>5, JoinAside, AsideKeeps
<1>6. ASSUME NEW c \in Wire, ChatStartedByServer(c) PROVE WidgetInv'
      BY <1>6, StartedByServer, ByServerKeeps
<1>7. ASSUME NEW c \in Wire, ChatStarted(c) PROVE WidgetInv'
      BY <1>7, StartedOnPage, OnPageKeeps
<1>8. ASSUME NEW c \in Wire, Receives(c) PROVE WidgetInv'
      BY <1>8, MailTaken, TakenKeeps
<1>9. ASSUME AgentWrites PROVE WidgetInv'
  <2>1. /\ SavedBy(FALSE, "agent") /\ UNCHANGED <<shared, ticketIs, inChat, bubbles, awaited, letters, wrote>>
        BY <1>9 DEF AgentWrites, talk
  <2>2. WiresInv' /\ Says(FALSE, "agent")
        BY <2>1, SaidAside DEF Saying
  <2> QED BY <2>1, <2>2, OthersKeep
<1>10. ASSUME FileSent PROVE WidgetInv'
  <2>1. /\ SavedBy(TRUE, "file") /\ UNCHANGED <<shared, ticketIs, inChat, bubbles, awaited, letters, wrote>>
        BY <1>10 DEF FileSent, talk
  <2>2. WiresInv' /\ Says(TRUE, "file")
        BY <2>1, SaidAside DEF Saying
  <2> QED BY <2>1, <2>2, OthersKeep
<1>11. ASSUME NEW phrase \in Phrase, SendMessage(phrase) PROVE WidgetInv'
  <2>1. UNCHANGED <<wires, shared, saved, ticketIs>> /\ doubtful' = (doubtful \/ awaited.letter # 0)
        BY <1>11 DEF SendMessage, chat
  <2>2. WiresInv'
        BY <2>1 DEF WiresInv, Wire
  <2> QED BY <1>11, <2>2, SendKeeps
<1>12. ASSUME NEW l \in letters, LetterSaved(l) PROVE WidgetInv'
  <2>1. /\ ~l.saved /\ SavedBy(TRUE, l.phrase)
        /\ letters' = (letters \ {l}) \cup {[l EXCEPT !.saved = TRUE]}
        /\ UNCHANGED <<shared, ticketIs, inChat, bubbles, awaited, wrote>>
        BY <1>12 DEF LetterSaved
  <2>2. l.phrase \in Saying
        BY DEF TalkInv, TalkTypeOK, LetterType, Saying
  <2>3. WiresInv' /\ Says(TRUE, l.phrase)
        BY <2>1, <2>2, SaidAside
  <2> QED BY <2>1, <2>3, LetterSavedKeeps
<1>13. ASSUME NEW l \in letters, LetterAnswered(l) PROVE WidgetInv'
  <2>1. WiresInv'
        BY <1>13 DEF LetterAnswered, chat, WiresInv, Wire
  <2> QED BY <1>13, <2>1, LetterAnsweredKeeps
<1>14. ASSUME NEW l \in letters, LetterFails(l) PROVE WidgetInv'
  <2>1. UNCHANGED <<wires, shared, saved, ticketIs>> /\ doubtful' = (doubtful \/ l.saved)
        BY <1>14 DEF LetterFails, chat
  <2>2. l.saved \in BOOLEAN
        BY DEF TalkInv, TalkTypeOK, LetterType
  <2>3. WiresInv'
        BY <2>1, <2>2 DEF WiresInv, Wire
  <2> QED BY <1>14, <2>3, LetterFailsKeeps
<1> QED BY <1>1, <1>2, <1>3, <1>4, <1>5, <1>6, <1>7, <1>8, <1>9, <1>10, <1>11, <1>12, <1>13, <1>14
        DEF WidgetNext

LEMMA ShownOnce ==
    ASSUME NEW b, NEW n \in Nat, RowsOnce(b, n), NEW i \in 1..n
    PROVE  Cardinality({k \in DOMAIN b : b[k].row = i}) = 1
<1>1. PICK k \in DOMAIN b : b[k].row = i /\ \A j \in DOMAIN b : b[j].row = i => j = k
      BY DEF RowsOnce
<1>2. {j \in DOMAIN b : b[j].row = i} = {k}
      BY <1>1
<1> QED BY <1>2, FS_Singleton

LEMMA WidgetFits == WidgetInv => WidgetInSync
<1> SUFFICES ASSUME WidgetInv, ~doubtful, inChat, letters = {},
                    \A c \in Wire : wires[c].starts = "no" /\ wires[c].mail = <<>>
             PROVE  /\ \A i \in DOMAIN saved : Cardinality({k \in DOMAIN bubbles : bubbles[k].row = i}) = 1
                    /\ \A k \in DOMAIN bubbles : bubbles[k].status # "sending"
    BY DEF WidgetInSync
<1>1. TalkFits /\ TalkTypeOK /\ WiresInv
      BY DEF WidgetInv, TalkInv
<1>2. Here.mail = <<>>
      BY <1>1 DEF Here, WiresInv, NewWire
<1>3. Len(saved) \in Nat /\ DOMAIN saved = 1..Len(saved) /\ Len(<<>>) = 0
      BY <1>1, LenProperties DEF WiresInv
<1>4. Come = Len(saved)
      BY <1>2, <1>3 DEF Come
<1>5. Coming = {}
      BY <1>3, <1>4 DEF Coming
<1>6. awaited.letter = 0
      BY <1>1, <1>5 DEF TalkFits, AwaitedComes
<1>7. \A k \in DOMAIN bubbles : bubbles[k].status # "sending"
      BY <1>1, <1>6 DEF TalkFits, SendingAwaited
<1>8. RowsOnce(bubbles, Len(saved))
      BY <1>1, <1>4 DEF TalkFits
<1> QED BY <1>3, <1>7, <1>8, ShownOnce

(* When nothing is under way the widget shows every message of the chat    *)
(* once and none of the visitor's as being sent, unless it is doubtful:    *)
(* the history that startSupportChat fetches, the events after it, and     *)
(* lastPendingClientMessageRef agree.                                      *)
THEOREM WidgetCorrect == WidgetSpec => []WidgetInSync
<1>1. WidgetInit => WidgetInv
      BY WidgetStart
<1>2. WidgetInv /\ [WidgetNext]_widgetVars => WidgetInv'
      BY WidgetStep
<1>3. WidgetInv => WidgetInSync
      BY WidgetFits
<1> QED BY <1>1, <1>2, <1>3, PTL DEF WidgetSpec

=============================================================================

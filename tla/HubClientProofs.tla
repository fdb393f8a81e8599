-------------------------- MODULE HubClientProofs ---------------------------
(***************************************************************************)
(* Proofs about the link to the hub, for any number of connections that    *)
(* leak and of timers: signalRService.js and the effects of ChatProvider.  *)
(***************************************************************************)
EXTENDS HubClient, TLAPS

Retrying == \E c \in Conn : conn[c] = "retrying"

(* A timer's own start sets the timer again when it fails; one of the page *)
(* does not.                                                               *)
TimerStarts == \E c \in Conn : conn[c] = "starting" /\ starter[c] = "timer"

HubInv ==
    /\ TypeOK
    /\ FlagHasConnection

(* Who still tries, other than a start of the page: each of these leads to *)
(* another of them, or to a page that is connected or has nobody to serve. *)
StillTries ==
    loaded /\ ~believes /\ token # "none" =>
        due \/ ticker # Off \/ timers > 0 \/ Retrying \/ TimerStarts

(* A service that thinks it is connected while the page shows that it is   *)
(* not has a connection that is being retried.                             *)
ShownLateOnly == believes /\ ~shown => Retrying

LinkBuilt == loaded => link \in Conn

TriesInv == HubInv /\ StillTries /\ ShownLateOnly /\ LinkBuilt

----------------------------------------------------------------------------
(* The types.                                                              *)

LEMMA MoreTimers ==
    ASSUME TypeOK PROVE OneMoreTimer \in 1..MaxTimers
BY HubAssumption DEF TypeOK, OneMoreTimer

(* The connections, and everything else.                                   *)
ConnTypes ==
    /\ conn \in [Conn -> {"down", "starting", "up", "retrying"}]
    /\ starter \in [Conn -> {"none", "page", "timer"}]

LEMMA TypeStep == TypeOK /\ [Next]_vars => TypeOK'
<1> SUFFICES ASSUME TypeOK, [Next]_vars PROVE TypeOK'
    OBVIOUS
<1> USE HubAssumption DEF TypeOK
<1>1. CASE NetChange \/ Expire \/ Refresh \/ OtherTab
      BY <1>1 DEF NetChange, Expire, Refresh, OtherTab, service, react
<1>2. CASE Mount
  <2>1. ConnTypes'
        BY <1>2 DEF Mount, ConnTypes
  <2>2. ticker' \in 0..Off /\ timers' \in 0..MaxTimers
        BY <1>2 DEF Mount, Off, Tries
  <2>3. /\ net' \in BOOLEAN /\ loaded' \in BOOLEAN /\ token' \in {"none", "good", "old"}
        /\ aged' \subseteq Conn /\ link' \in Conn \cup {NoConn}
        BY <1>2 DEF Mount
  <2>4. believes' \in BOOLEAN /\ shown' \in BOOLEAN /\ due' \in BOOLEAN
        BY <1>2 DEF Mount
  <2> QED BY <2>1, <2>2, <2>3, <2>4 DEF ConnTypes
<1>3. CASE Effect
  <2>1. ConnTypes'
        BY <1>3 DEF Effect, EffectTicker, service, ConnTypes
  <2>2. ticker' \in 0..Off /\ timers' \in 0..MaxTimers
        BY <1>3 DEF Effect, EffectTicker, service, Off, Tries
  <2>3. /\ net' \in BOOLEAN /\ loaded' \in BOOLEAN /\ token' \in {"none", "good", "old"}
        /\ aged' \subseteq Conn /\ link' \in Conn \cup {NoConn}
        BY <1>3 DEF Effect, EffectTicker, service
  <2>4. believes' \in BOOLEAN /\ shown' \in BOOLEAN /\ due' \in BOOLEAN
        BY <1>3 DEF Effect, EffectTicker, service
  <2> QED BY <2>1, <2>2, <2>3, <2>4 DEF ConnTypes
<1>4. ASSUME NEW c \in Conn, Build(c)
      PROVE  /\ conn' \in [Conn -> {"down", "starting", "up", "retrying"}]
             /\ starter' \in [Conn -> {"none", "page", "timer"}]
             /\ aged' \subseteq Conn /\ link' \in Conn \cup {NoConn}
      BY <1>4 DEF Build
<1>5. CASE ChangeRoom
      BY <1>4, <1>5 DEF ChangeRoom, react
<1>6. CASE Reload
  <2>1. ConnTypes'
        BY <1>6 DEF Reload, ConnTypes
  <2>2. ticker' \in 0..Off /\ timers' \in 0..MaxTimers
        BY <1>6 DEF Reload, Off, Tries
  <2>3. /\ net' \in BOOLEAN /\ loaded' \in BOOLEAN /\ token' \in {"none", "good", "old"}
        /\ aged' \subseteq Conn /\ link' \in Conn \cup {NoConn}
        BY <1>6 DEF Reload
  <2>4. believes' \in BOOLEAN /\ shown' \in BOOLEAN /\ due' \in BOOLEAN
        BY <1>6 DEF Reload
  <2> QED BY <2>1, <2>2, <2>3, <2>4 DEF ConnTypes
<1>7. CASE Tick
  <2>1. CASE ticker + 1 < Tries
    <3>1. /\ conn' \in [Conn -> {"down", "starting", "up", "retrying"}]
          /\ starter' \in [Conn -> {"none", "page", "timer"}]
          /\ aged' \subseteq Conn /\ link' \in Conn \cup {NoConn}
          BY <1>4, <1>7, <2>1 DEF Tick
    <3>2. ticker' \in 0..Off
          BY <1>7, <2>1 DEF Tick, Off, Tries
    <3> QED BY <1>7, <2>1, <3>1, <3>2 DEF Tick
  <2>2. CASE ~(ticker + 1 < Tries)
    <3>1. CASE token = "none"
          BY <1>7, <2>2, <3>1 DEF Tick, Off, Tries, service
    <3> QED BY <1>6, <1>7, <2>2, <3>1 DEF Tick
  <2> QED BY <2>1, <2>2
<1>8. CASE TimerFires
      BY <1>8 DEF TimerFires, react
<1>9. ASSUME NEW c \in Conn, Break(c) \/ StartSucceeds(c) \/ Reconnected(c) PROVE TypeOK'
      BY <1>9 DEF Break, StartSucceeds, Reconnected, Notify
<1>10. ASSUME NEW c \in Conn, Closed(c) PROVE TypeOK'
  <2>1. ConnTypes'
        BY <1>10 DEF Closed, Notify, FlagAfterClose, TimerAfterClose, ConnTypes
  <2>2. ticker' \in 0..Off /\ timers' \in 0..MaxTimers
        BY <1>10, MoreTimers DEF Closed, Notify, FlagAfterClose, TimerAfterClose, Off, Tries
  <2>3. /\ net' \in BOOLEAN /\ loaded' \in BOOLEAN /\ token' \in {"none", "good", "old"}
        /\ aged' \subseteq Conn /\ link' \in Conn \cup {NoConn}
        BY <1>10 DEF Closed, Notify, FlagAfterClose, TimerAfterClose
  <2>4. believes' \in BOOLEAN /\ shown' \in BOOLEAN /\ due' \in BOOLEAN
        BY <1>10 DEF Closed, Notify, FlagAfterClose, TimerAfterClose
  <2> QED BY <2>1, <2>2, <2>3, <2>4 DEF ConnTypes
<1>11. ASSUME NEW c \in Conn, StartFails(c) PROVE TypeOK'
  <2>1. ConnTypes'
        BY <1>11 DEF StartFails, Notify, TimerAgain, react, ConnTypes
  <2>2. ticker' \in 0..Off /\ timers' \in 0..MaxTimers
    <3>1. UNCHANGED ticker
          BY <1>11 DEF StartFails, Notify, react
    <3>2. timers' = timers \/ timers' = OneMoreTimer
          BY <1>11 DEF StartFails, TimerAgain
    <3> QED BY <3>1, <3>2, MoreTimers
  <2>3. /\ net' \in BOOLEAN /\ loaded' \in BOOLEAN /\ token' \in {"none", "good", "old"}
        /\ aged' \subseteq Conn /\ link' \in Conn \cup {NoConn}
        BY <1>11 DEF StartFails, Notify, TimerAgain, react
  <2>4. believes' \in BOOLEAN /\ shown' \in BOOLEAN /\ due' \in BOOLEAN
        BY <1>11 DEF StartFails, Notify, TimerAgain, react
  <2> QED BY <2>1, <2>2, <2>3, <2>4 DEF ConnTypes
<1>12. CASE UNCHANGED vars
      BY <1>12 DEF vars
<1> QED BY <1>1, <1>2, <1>3, <1>5, <1>6, <1>7, <1>8, <1>9, <1>10, <1>11, <1>12
           DEF Next, Answer, UserReloads

----------------------------------------------------------------------------
(* The flags.                                                              *)

(* Connections that are up or retried stay so in every step but Break,     *)
(* which begins retries, and Closed, which takes the flag down.            *)
LEMMA FlagStep == HubInv /\ [Next]_vars => FlagHasConnection'
<1> SUFFICES ASSUME HubInv, [Next]_vars PROVE FlagHasConnection'
    OBVIOUS
<1> USE DEF HubInv, TypeOK, FlagHasConnection
<1>1. CASE NetChange \/ Expire \/ Refresh \/ OtherTab \/ UNCHANGED vars
      BY <1>1 DEF NetChange, Expire, Refresh, OtherTab, vars, service, react
<1>2. CASE Mount \/ Reload
      BY <1>2 DEF Mount, Reload
<1>3. CASE Effect
      BY <1>3 DEF Effect, service
<1>4. ASSUME NEW c \in Conn, Build(c), UNCHANGED <<believes, shown>> PROVE FlagHasConnection'
      BY <1>4 DEF Build
<1>5. CASE ChangeRoom
      BY <1>4, <1>5 DEF ChangeRoom, react
<1>6. CASE Tick
  <2>1. CASE UNCHANGED <<conn, believes, shown>>
        BY <2>1
  <2> QED BY <1>2, <1>4, <1>6, <2>1 DEF Tick, service
<1>7. CASE TimerFires
      BY <1>7 DEF TimerFires, react
<1>8. ASSUME NEW c \in Conn, Break(c) \/ StartSucceeds(c) \/ Reconnected(c)
      PROVE FlagHasConnection'
      BY <1>8 DEF Break, StartSucceeds, Reconnected, Notify
<1>9. ASSUME NEW c \in Conn, Closed(c) PROVE FlagHasConnection'
      BY <1>9 DEF Closed, Notify, FlagAfterClose
<1>10. ASSUME NEW c \in Conn, StartFails(c) PROVE FlagHasConnection'
      BY <1>10 DEF StartFails, Notify, react
<1> QED BY <1>1, <1>2, <1>3, <1>5, <1>6, <1>7, <1>8, <1>9, <1>10 DEF Next, Answer, UserReloads

LEMMA HubInitial == Init => TriesInv
<1> SUFFICES ASSUME Init PROVE TriesInv
    OBVIOUS
<1>1. ConnTypes
      BY DEF Init, ConnTypes
<1>2. ticker \in 0..Off /\ timers \in 0..MaxTimers
      BY HubAssumption DEF Init, Off, Tries
<1>3. TypeOK
      BY <1>1, <1>2 DEF Init, ConnTypes, TypeOK
<1>4. FlagHasConnection /\ StillTries /\ ShownLateOnly /\ LinkBuilt
      BY DEF Init, FlagHasConnection, StillTries, ShownLateOnly, LinkBuilt
<1> QED BY <1>3, <1>4 DEF TriesInv, HubInv

LEMMA HubStep == HubInv /\ [Next]_vars => HubInv'
BY TypeStep, FlagStep DEF HubInv

(* A page that says it is connected has a service that says so, and that   *)
(* has a connection that is up or being retried, however many leaked.      *)
THEOREM FlagCorrect == Spec => []FlagHasConnection
<1>1. Init => HubInv
      BY HubInitial DEF TriesInv
<1>2. HubInv => FlagHasConnection
      BY DEF HubInv
<1> QED BY <1>1, <1>2, HubStep, PTL DEF Spec

(* Every flag, timer and ticker keeps its type.                            *)
THEOREM HubTypeCorrect == Spec => []TypeOK
<1>1. Init => HubInv
      BY HubInitial DEF TriesInv
<1>2. HubInv => TypeOK
      BY DEF HubInv
<1> QED BY <1>1, <1>2, HubStep, PTL DEF Spec

----------------------------------------------------------------------------
(* Nobody gives up.                                                        *)

LEMMA TriesStep == TriesInv /\ [Next]_vars => TriesInv'
<1> SUFFICES ASSUME TriesInv, [Next]_vars PROVE TriesInv'
    OBVIOUS
<1>0. HubInv' /\ TypeOK
      BY HubStep DEF TriesInv, HubInv
<1> USE DEF TriesInv, StillTries, ShownLateOnly, LinkBuilt, Retrying, TimerStarts
<1>1. CASE NetChange \/ Expire \/ Refresh \/ OtherTab \/ UNCHANGED vars
      BY <1>0, <1>1 DEF NetChange, Expire, Refresh, OtherTab, vars, service, react
<1>2. CASE Mount
      BY <1>0, <1>2 DEF Mount, Off, Tries
<1>3. CASE Reload
      BY <1>0, <1>3 DEF Reload
<1>4. CASE Effect
      BY <1>0, <1>4 DEF Effect, EffectTicker, service, HubInv, FlagHasConnection, Off, Tries
<1>5. ASSUME NEW c \in Conn, Build(c), UNCHANGED <<token, loaded, believes, shown, due, timers>>,
             ticker' = ticker \/ ticker' # Off
      PROVE  TriesInv'
      BY <1>0, <1>5 DEF Build, TypeOK
<1>6. CASE ChangeRoom
      BY <1>5, <1>6 DEF ChangeRoom, react
<1>7. CASE Tick
  <2>1. CASE ticker + 1 < Tries /\ token # "none" /\ ~believes
    <3>1. ticker' # Off
          BY <1>0, <1>7, <2>1 DEF Tick, Off, TypeOK
    <3> QED BY <1>5, <1>7, <2>1, <3>1 DEF Tick
  <2>2. CASE ticker + 1 < Tries /\ ~(token # "none" /\ ~believes)
        BY <1>0, <1>7, <2>2 DEF Tick
  <2>3. CASE ~(ticker + 1 < Tries)
        BY <1>0, <1>3, <1>7, <2>3 DEF Tick, service
  <2> QED BY <2>1, <2>2, <2>3
<1>8. CASE TimerFires
      BY <1>0, <1>8, HubAssumption DEF TimerFires, react, TypeOK
<1>9. ASSUME NEW c \in Conn, Break(c) PROVE TriesInv'
      BY <1>0, <1>9 DEF Break, Notify, TypeOK
<1>10. ASSUME NEW c \in Conn, StartSucceeds(c) \/ Reconnected(c) PROVE TriesInv'
  <2>1. believes' /\ shown' /\ UNCHANGED <<loaded, link>>
        BY <1>10 DEF StartSucceeds, Reconnected, Notify
  <2> QED BY <1>0, <2>1
<1>11. ASSUME NEW c \in Conn, Closed(c) PROVE TriesInv'
  <2>1. ~believes' /\ timers' > 0 /\ UNCHANGED <<loaded, link>>
        BY <1>0, <1>11, MoreTimers, HubAssumption DEF Closed, FlagAfterClose, TimerAfterClose
  <2> QED BY <1>0, <2>1
<1>12. ASSUME NEW c \in Conn, StartFails(c) PROVE TriesInv'
  <2>1. CASE starter[c] = "page"
        BY <1>0, <1>12, <2>1 DEF StartFails, Notify, TypeOK
  <2>2. CASE starter[c] # "page"
        BY <1>0, <1>12, <2>2, MoreTimers DEF StartFails, TimerAgain, react, TypeOK
  <2> QED BY <2>1, <2>2
<1> QED BY <1>1, <1>2, <1>3, <1>4, <1>6, <1>7, <1>8, <1>9, <1>10, <1>11, <1>12
           DEF Next, Answer, UserReloads

(* A page without a connection and with a token has somebody who tries, or *)
(* an effect that will decide, for any number of connections and timers.   *)
THEOREM TriesCorrect == Spec => []SomeoneTries
<1>1. TriesInv => SomeoneTries
      BY DEF TriesInv, StillTries, Retrying, TimerStarts, SomeoneTries
<1> QED BY <1>1, HubInitial, TriesStep, PTL DEF Spec
=============================================================================

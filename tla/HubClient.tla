------------------------------ MODULE HubClient ------------------------------
(***************************************************************************)
(* The link of a chat page to ChatHub: the service object of               *)
(* signalRService.js, the SignalR connections it builds, and the effects   *)
(* of ChatProvider that start it again when it is down.                    *)
(*                                                                         *)
(* The service keeps one connection, the link, and one flag.  Whoever      *)
(* finds the flag down builds a new connection in the link's place; the    *)
(* old one is not stopped and its callbacks go on moving the flag.  Three  *)
(* mechanisms repair a broken link side by side: SignalR's own retries, a  *)
(* timer of the service, and a ticker of the page that reloads it in the   *)
(* end.                                                                    *)
(*                                                                         *)
(* A definition marked "fault" is no part of the system: it is the bug a   *)
(* slip in the definition after it would be.                               *)
(***************************************************************************)
EXTENDS Naturals

CONSTANTS
    Conn,       \* connections there can be at a time
    NoConn,     \* the link of a service that has built none
    MaxTimers   \* bound: timers counted; more do what these do

ASSUME HubAssumption ==
    /\ NoConn \notin Conn
    /\ MaxTimers \in Nat \ {0}

Tries == 3      \* ticks before the page is loaded again
Off   == Tries  \* the ticker that does not run

VARIABLES
    net,        \* can the server be reached?
    token,      \* the access token in local storage
    loaded,     \* the page is there, not being loaded again
    conn,       \* the state of each HubConnection
    starter,    \* whose call of start() is under way
    aged,       \* connections whose own token has expired
    link,       \* SignalRService.connection
    believes,   \* SignalRService.isConnected
    shown,      \* isConnected of the page
    due,        \* shown has changed and the effect has not run yet
    ticker,     \* ticks of the page's interval so far, or Off
    timers      \* timeouts of the service that will call reconnect

service == <<conn, starter, aged, link, believes, timers>>
react   == <<shown, due, ticker>>
vars    == <<net, token, loaded, conn, starter, aged, link, believes, shown, due, ticker, timers>>

Up == {c \in Conn : conn[c] = "up"}

----------------------------------------------------------------------------
(* The world: the server, the tokens, and connections that break.          *)

NetChange ==
    /\ net' = ~net
    /\ UNCHANGED <<token, loaded, service, react>>

(* An access token expires; the connections built with it keep it.         *)
Expire ==
    /\ token = "good"
    /\ token' = "old" /\ aged' = Conn
    /\ UNCHANGED <<net, loaded, conn, starter, link, believes, timers, react>>

(* Some request of the page met a 401 and has refreshed the token.         *)
Refresh ==
    /\ token = "old" /\ net
    /\ token' = "good"
    /\ UNCHANGED <<net, loaded, service, react>>

(* notifyListeners("connectionStatusChanged"): React runs the effect that  *)
(* depends on the flag only if the flag changes, and not at once.          *)
Notify(v) ==
    /\ shown' = v
    /\ due' = (due \/ shown # v)
    /\ UNCHANGED ticker

Answerable(c) == net /\ c \notin aged

(* A broken connection retries by itself; the service is told, and keeps   *)
(* its own flag.                                                           *)
Break(c) ==
    /\ conn[c] = "up"
    /\ conn' = [conn EXCEPT ![c] = "retrying"]
    /\ Notify(FALSE)
    /\ UNCHANGED <<net, token, loaded, starter, aged, link, believes, timers>>

Reconnected(c) ==
    /\ conn[c] = "retrying" /\ Answerable(c)
    /\ conn' = [conn EXCEPT ![c] = "up"]
    /\ believes' = TRUE
    /\ Notify(TRUE)
    /\ UNCHANGED <<net, token, loaded, starter, aged, link, timers>>

OneMoreTimer == IF timers < MaxTimers THEN timers + 1 ELSE timers

(* After the last retry the connection is closed for good: onclose takes   *)
(* the flag down and sets a timer, whichever connection it was.            *)
FlagKept       == believes  \* fault
FlagAfterClose == FALSE
NoTimerAfterClose == timers  \* fault
TimerAfterClose   == OneMoreTimer

Closed(c) ==
    /\ conn[c] = "retrying" /\ ~Answerable(c)
    /\ conn' = [conn EXCEPT ![c] = "down"]
    /\ believes' = FlagAfterClose
    /\ timers' = TimerAfterClose
    /\ Notify(FALSE)
    /\ UNCHANGED <<net, token, loaded, starter, aged, link>>

----------------------------------------------------------------------------
(* The service.                                                            *)

(* startConnection, up to its first await: a new connection becomes the    *)
(* link, with the token of this moment.                                    *)
Build(c) ==
    /\ conn[c] = "down"
    /\ conn' = [conn EXCEPT ![c] = "starting"]
    /\ starter' = [starter EXCEPT ![c] = "page"]
    /\ aged' = IF token = "good" THEN aged \ {c} ELSE aged \cup {c}
    /\ link' = c

StartSucceeds(c) ==
    /\ conn[c] = "starting" /\ Answerable(c)
    /\ conn' = [conn EXCEPT ![c] = "up"]
    /\ starter' = [starter EXCEPT ![c] = "none"]
    /\ believes' = TRUE
    /\ Notify(TRUE)
    /\ UNCHANGED <<net, token, loaded, aged, link, timers>>

(* A start of the page that fails takes the flag down; one of the timer    *)
(* sets the timer again.                                                   *)
NoTimerAgain == timers  \* fault
TimerAgain   == OneMoreTimer

StartFails(c) ==
    /\ conn[c] = "starting" /\ ~Answerable(c)
    /\ conn' = [conn EXCEPT ![c] = "down"]
    /\ starter' = [starter EXCEPT ![c] = "none"]
    /\ IF starter[c] = "page"
       THEN believes' = FALSE /\ Notify(FALSE) /\ UNCHANGED timers
       ELSE timers' = TimerAgain /\ UNCHANGED <<believes, react>>
    /\ UNCHANGED <<net, token, loaded, aged, link>>

(* reconnect: start() of a link that is not down throws, and the timer is  *)
(* set again.                                                              *)
TimerFires ==
    /\ timers > 0 /\ loaded
    /\ \/ /\ believes \/ link = NoConn
          /\ timers' = timers - 1
          /\ UNCHANGED <<conn, starter>>
       \/ /\ ~believes /\ link # NoConn /\ conn[link] = "down"
          /\ timers' = timers - 1
          /\ conn' = [conn EXCEPT ![link] = "starting"]
          /\ starter' = [starter EXCEPT ![link] = "timer"]
       \/ /\ ~believes /\ link # NoConn /\ conn[link] # "down"
          /\ UNCHANGED <<timers, conn, starter>>
    /\ UNCHANGED <<net, token, loaded, aged, link, believes, react>>

----------------------------------------------------------------------------
(* The page.                                                               *)

(* ChatProvider mounts: two of its effects start a connection each, the    *)
(* first before the second's answer can be known, and the third sets the   *)
(* ticker.  Its profile was loaded just before, so the token is good.      *)
Mount ==
    /\ ~loaded /\ net /\ token # "none"
    /\ loaded' = TRUE /\ token' = "good"
    /\ \E b, c \in Conn :
        /\ b # c /\ link' = c
        /\ conn' = [d \in Conn |-> IF d \in {b, c} THEN "starting" ELSE "down"]
        /\ starter' = [d \in Conn |-> IF d \in {b, c} THEN "page" ELSE "none"]
    /\ aged' = {} /\ believes' = FALSE /\ timers' = 0
    /\ shown' = FALSE /\ due' = FALSE /\ ticker' = 0
    /\ UNCHANGED net

(* The effect after the flag of the page has changed: the ticker is        *)
(* cleared, and set anew if page and service are both without connection.  *)
EffectTicker == ticker' = IF ~shown /\ ~believes THEN 0 ELSE Off

Effect ==
    /\ loaded /\ due
    /\ due' = FALSE
    /\ EffectTicker
    /\ UNCHANGED <<net, token, loaded, service, shown>>

(* The user goes to another room, and the effect that sets the listeners   *)
(* runs again.                                                             *)
ChangeRoom ==
    /\ loaded /\ token # "none" /\ ~believes
    /\ \E c \in Conn : Build(c)
    /\ UNCHANGED <<net, token, loaded, believes, timers, react>>

(* Everything the page had is gone, its connections too.                   *)
Reload ==
    /\ loaded' = FALSE
    /\ conn' = [c \in Conn |-> "down"] /\ starter' = [c \in Conn |-> "none"]
    /\ aged' = {} /\ link' = NoConn /\ believes' = FALSE /\ timers' = 0
    /\ shown' = FALSE /\ due' = FALSE /\ ticker' = Off
    /\ UNCHANGED <<net, token>>

UserReloads == loaded /\ Reload

(* The interval of three seconds: start, count, and load the page again    *)
(* the third time.                                                         *)
Tick ==
    /\ loaded /\ ticker < Tries
    /\ IF ticker + 1 < Tries
       THEN /\ ticker' = ticker + 1
            /\ IF token # "none" /\ ~believes
               THEN \E c \in Conn : Build(c)
               ELSE UNCHANGED <<conn, starter, aged, link>>
            /\ UNCHANGED <<net, token, loaded, believes, shown, due, timers>>
       ELSE IF token # "none" THEN Reload
            ELSE /\ ticker' = Off
                 /\ UNCHANGED <<net, token, loaded, service, shown, due>>

(* Another tab of the browser logs out.  A page that met three ticks then  *)
(* has no ticker any more, and would not notice a new login.               *)
OtherTab ==
    /\ token # "none" /\ token' = "none"
    /\ UNCHANGED <<net, loaded, service, react>>

----------------------------------------------------------------------------
Init ==
    /\ net = TRUE /\ token = "good" /\ loaded = FALSE
    /\ conn = [c \in Conn |-> "down"] /\ starter = [c \in Conn |-> "none"]
    /\ aged = {} /\ link = NoConn /\ believes = FALSE /\ timers = 0
    /\ shown = FALSE /\ due = FALSE /\ ticker = Off

Answer(c) == StartSucceeds(c) \/ StartFails(c) \/ Reconnected(c) \/ Closed(c)

Next ==
    \/ NetChange \/ Expire \/ Refresh \/ OtherTab
    \/ Mount \/ Effect \/ ChangeRoom \/ UserReloads \/ Tick \/ TimerFires
    \/ \E c \in Conn : Break(c) \/ Answer(c)

Spec == Init /\ [][Next]_vars

(* Timers fire, effects run, attempts end, and a page that is being loaded *)
(* is there when the server answers.                                       *)
Fairness ==
    /\ WF_vars(Mount) /\ WF_vars(Effect) /\ WF_vars(Tick) /\ WF_vars(TimerFires)
    /\ \A c \in Conn : WF_vars(Answer(c))

FairSpec == Spec /\ Fairness

----------------------------------------------------------------------------
(* The types of the state.                                                 *)
TypeOK ==
    /\ net \in BOOLEAN /\ loaded \in BOOLEAN
    /\ token \in {"none", "good", "old"}
    /\ conn \in [Conn -> {"down", "starting", "up", "retrying"}]
    /\ starter \in [Conn -> {"none", "page", "timer"}]
    /\ aged \subseteq Conn
    /\ link \in Conn \cup {NoConn}
    /\ believes \in BOOLEAN /\ shown \in BOOLEAN /\ due \in BOOLEAN
    /\ ticker \in 0..Off
    /\ timers \in 0..MaxTimers

(* The flags tell the truth: a page that says it is connected has a        *)
(* service that says so, and a service that says so has a connection that  *)
(* is up or that SignalR is retrying, though it need not be the link.      *)
FlagHasConnection ==
    /\ shown => believes
    /\ believes => \E c \in Conn : conn[c] \in {"up", "retrying"}

(* Nobody gives up: a page without a connection has a ticker, a timer, a   *)
(* start or a retry of SignalR under way, or an effect that will decide.   *)
SomeoneTries ==
    loaded /\ ~believes /\ token # "none" =>
        \/ due \/ ticker # Off \/ timers > 0
        \/ \E c \in Conn : conn[c] \in {"starting", "retrying"}

(* Once the server can be reached for good, connections do not break and   *)
(* nobody logs out or reloads any more, and no connection is left with an  *)
(* expired token, the page hears the server again.  (It need not say so:   *)
(* a leaked connection that closes takes the flag down for good while the  *)
(* link is up, since its timer only starts the link.  And a link whose     *)
(* token expired is started with that token for ever.)                     *)
Calm ==
    /\ <>[](net /\ token # "none" /\ aged = {})
    /\ <>[][~Expire /\ ~UserReloads /\ \A c \in Conn : ~Break(c)]_vars

HearsAgain == Calm => []<>(loaded /\ Up # {})
=============================================================================

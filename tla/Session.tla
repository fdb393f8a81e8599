------------------------------- MODULE Session -------------------------------
(***************************************************************************)
(* The tokens of the web client: the accounts and the mirrored pair that   *)
(* accounts.js keeps in localStorage, the pages (tabs) of one browser that *)
(* share them, and the requests of apiClient.js.                           *)
(*                                                                         *)
(* A grant is a pair of access and refresh token that a login was given    *)
(* together.  A synchronous piece of script is one step.  A page that goes *)
(* to another address forgets its requests.  The address a refresh goes to *)
(* is one the server does not map: every refresh ends in its catch branch. *)
(*                                                                         *)
(* A definition marked "fault" is no part of the system: it is the bug a   *)
(* slip in the definition after it would be.                               *)
(***************************************************************************)
EXTENDS Naturals, FiniteSets, Sequences, Functions

CONSTANTS
    User,       \* users who have accounts
    Tab,        \* pages of the browser
    Req,        \* requests there can be under way
    None,       \* no token, no user
    TabOf,      \* the page of each request
    MaxGrant,   \* bound: grants each user is ever issued
    MaxFaults   \* bound: answers the network loses

ASSUME SessionAssumption ==
    /\ None \notin User
    /\ TabOf \in [Req -> Tab]
    /\ MaxGrant \in [User -> Nat]
    /\ MaxFaults \in Nat

Grant   == UNION {[user : {u}, n : 1..MaxGrant[u]] : u \in User}
Pair    == Grant \cup {None}
Account == [id : User, grant : Grant]

VARIABLES
    token,      \* localStorage.token, by its grant
    refresh,    \* localStorage.refreshToken, by its grant
    active,     \* localStorage.activeAccountId
    accounts,   \* localStorage.chat_accounts, in its order
    tab,        \* each page: its path, whether it is initialised, its user
    req,        \* each request: its stage and the token it goes with
    issued,     \* how many grants each user was issued
    expired,    \* grants whose access token has expired
    behind,     \* history: pages loaded before another page changed the account
    faults,     \* answers the network has lost
    quiet       \* users and network rest from now on

storage == <<token, refresh, active, accounts>>
steady  == <<issued, expired, faults, quiet>>
vars    == <<token, refresh, active, accounts, tab, req, issued, expired, behind, faults, quiet>>

Idle == [stage |-> "idle", profile |-> FALSE, acc |-> None]

----------------------------------------------------------------------------
(* accounts.js.                                                            *)

Indexes(id) == {i \in DOMAIN accounts : accounts[i].id = id}

ActiveAccount == {i \in DOMAIN accounts : accounts[i].id = active}

Mirror(a) == token' = a.grant /\ refresh' = a.grant /\ active' = a.id

setActiveAccount(id) ==
    \E i \in Indexes(id) : Mirror(accounts[i]) /\ UNCHANGED accounts

addOrUpdateAccount(g) ==
    LET account == [id |-> g.user, grant |-> g]
    IN  /\ accounts' = IF Indexes(g.user) = {} THEN Append(accounts, account)
                       ELSE [i \in DOMAIN accounts |->
                               IF accounts[i].id = g.user THEN account ELSE accounts[i]]
        /\ Mirror(account)

(* The places in S in their order, which there is one of.                  *)
Ascending(S) == {f \in [1..Cardinality(S) -> S] : \A j, k \in DOMAIN f : j < k => f[j] < f[k]}

Remaining(id) ==
    {[k \in DOMAIN f |-> accounts[f[k]]]
       : f \in Ascending({i \in DOMAIN accounts : accounts[i].id # id})}

removeOnly(id) ==  \* fault
    accounts' \in Remaining(id) /\ UNCHANGED <<token, refresh, active>>
removeAccount(id) ==
    \E next \in Remaining(id) :
        /\ accounts' = next
        /\ IF next # <<>> THEN Mirror(next[1])
           ELSE active' = None /\ token' = None /\ refresh' = None

----------------------------------------------------------------------------
(* Pages and where they go.                                                *)

OfTab(t) == {r \in Req : TabOf[r] = t}

(* AuthProvider mirrors the active account when a page is loaded.          *)
MirroredActive(tk) ==
    IF ActiveAccount = {} THEN tk ELSE accounts[CHOOSE i \in ActiveAccount : TRUE].grant

(* The page goes to another address, or is loaded again.                   *)
Loaded(p) == [path |-> p, stage |-> "start", who |-> None]

Stay(t, p) ==  \* fault
    tab' = [tab EXCEPT ![t].path = p] /\ UNCHANGED req /\ behind' = behind \ {t}
Leave(t, p) ==
    /\ tab' = [tab EXCEPT ![t] = Loaded(p)]
    /\ req' = [r \in Req |-> IF r \in OfTab(t) THEN Idle ELSE req[r]]
    /\ behind' = IF active' = active THEN behind \ {t} ELSE Tab \ {t}

(* initializeAuth: asks for the profile if there is a token.               *)
Start(t) ==
    /\ tab[t].stage = "start"
    /\ \E r \in OfTab(t) : LET tk == MirroredActive(token) IN
        /\ token' = tk /\ refresh' = MirroredActive(refresh)
        /\ IF tk = None
           THEN tab' = [tab EXCEPT ![t].stage = "ready"] /\ UNCHANGED req
           ELSE /\ tab' = [tab EXCEPT ![t].stage = "profile"]
                /\ req' = [req EXCEPT ![r] =
                             [Idle EXCEPT !.stage = "sent", !.profile = TRUE, !.acc = tk]]
    /\ UNCHANGED <<active, accounts, behind, steady>>

(* ProtectedRoute and the effect of the login page send the page on.       *)
Redirect(t) ==
    /\ tab[t].stage = "ready"
    /\ UNCHANGED <<storage, steady>>
    /\ \/ tab[t].path = "app" /\ tab[t].who = None /\ Leave(t, "login")
       \/ tab[t].path = "login" /\ tab[t].who # None /\ Leave(t, "app")

----------------------------------------------------------------------------
(* apiClient.js.                                                           *)

(* A request is rejected.  After the profile's the page is nobody's.       *)
StopLoading(r) == IF req[r].profile THEN [tab EXCEPT ![TabOf[r]].stage = "ready"] ELSE tab

Reject(r) ==
    /\ req' = [req EXCEPT ![r] = Idle]
    /\ tab' = StopLoading(r)

OnLoginNever(t) == FALSE  \* fault
OnLogin(t) == tab[t].path # "app"

(* Both tokens are removed and the page goes to /login, if it is not there.*)
SignOut(r) ==
    /\ token' = None /\ refresh' = None /\ UNCHANGED <<active, accounts, steady>>
    /\ IF OnLogin(TabOf[r]) THEN Reject(r) /\ UNCHANGED behind
       ELSE Leave(TabOf[r], "login")

(* Some handler of the page asks the server something.                     *)
Ask(r) ==
    /\ tab[TabOf[r]].stage = "ready" /\ tab[TabOf[r]].who # None
    /\ tab[TabOf[r]].path = "app" /\ req[r] = Idle /\ ~quiet
    /\ req' = [req EXCEPT ![r] = [Idle EXCEPT !.stage = "sent", !.acc = token]]
    /\ UNCHANGED <<storage, tab, behind, steady>>

Accepted(g) == g # None /\ g \notin expired

Served(r) ==
    /\ req[r].stage = "sent" /\ Accepted(req[r].acc)
    /\ req' = [req EXCEPT ![r] = Idle]
    /\ tab' = IF ~req[r].profile THEN tab
              ELSE [tab EXCEPT ![TabOf[r]].stage = "ready", ![TabOf[r]].who = req[r].acc.user]
    /\ UNCHANGED <<storage, behind, steady>>

(* A 401 starts a refresh, if there are tokens to refresh.                 *)
Unauthorized(r) ==
    /\ req[r].stage = "sent" /\ ~Accepted(req[r].acc)
    /\ IF token = None \/ refresh = None THEN SignOut(r)
       ELSE /\ req' = [req EXCEPT ![r].stage = "refresh"]
            /\ UNCHANGED <<storage, tab, behind, steady>>

(* The server does not know the address of the refresh.                    *)
RefreshFails(r) == req[r].stage = "refresh" /\ SignOut(r)

(* No answer at all: the request is rejected, and not tried again.         *)
NetworkFails(r) ==
    /\ ~quiet /\ faults < MaxFaults /\ faults' = faults + 1
    /\ req[r].stage = "sent" /\ Reject(r)
    /\ token' = IF req[r].profile THEN None ELSE token
    /\ UNCHANGED <<refresh, active, accounts, behind, issued, expired, quiet>>

----------------------------------------------------------------------------
(* What users do, and time.                                                *)

NewGrant(u) == [user |-> u, n |-> issued[u] + 1]

(* handleVerifyOtp, or handleRequestOtp when it is given tokens at once.   *)
Login(t, u) ==
    /\ ~quiet /\ tab[t].stage = "ready" /\ tab[t].path \in {"login", "add"}
    /\ NewGrant(u) \in Grant
    /\ issued' = [issued EXCEPT ![u] = @ + 1]
    /\ addOrUpdateAccount(NewGrant(u))
    /\ Leave(t, "app")
    /\ UNCHANGED <<expired, faults, quiet>>

OnApp(t) == ~quiet /\ tab[t].stage = "ready" /\ tab[t].path = "app" /\ tab[t].who # None

AddAccount(t) == OnApp(t) /\ UNCHANGED <<storage, steady>> /\ Leave(t, "add")

Logout(t) ==
    /\ OnApp(t)
    /\ \/ /\ ActiveAccount # {} /\ removeAccount(active)
          /\ Leave(t, IF active' # None THEN "app" ELSE "login")
       \/ /\ ActiveAccount = {}
          /\ token' = None /\ refresh' = None /\ UNCHANGED <<active, accounts>>
          /\ Leave(t, "login")
    /\ UNCHANGED steady

switchAccount(t, u) ==
    /\ OnApp(t) /\ setActiveAccount(u) /\ Leave(t, "app")
    /\ UNCHANGED steady

UserReloads(t) == ~quiet /\ UNCHANGED <<storage, steady>> /\ Leave(t, tab[t].path)

(* Time passes while users rest, too.  An expiry that no request on its    *)
(* way meets is as good as a later one.                                    *)
Noticed(g) == \E r \in Req : req[r].stage = "sent" /\ req[r].acc = g

Expire(g) ==
    /\ g \notin expired /\ Noticed(g)
    /\ expired' = expired \cup {g}
    /\ UNCHANGED <<storage, tab, req, issued, behind, faults, quiet>>

Rest == quiet' = TRUE /\ UNCHANGED <<storage, tab, req, issued, expired, behind, faults>>

----------------------------------------------------------------------------
Init ==
    /\ token = None /\ refresh = None /\ active = None /\ accounts = <<>>
    /\ tab = [t \in Tab |-> Loaded("app")]
    /\ req = [r \in Req |-> Idle]
    /\ issued = [u \in User |-> 0]
    /\ expired = {} /\ behind = {} /\ faults = 0 /\ quiet = FALSE

Progress(r) == Served(r) \/ Unauthorized(r) \/ RefreshFails(r)

Next ==
    \/ \E t \in Tab : Start(t) \/ Redirect(t) \/ AddAccount(t) \/ Logout(t) \/ UserReloads(t)
    \/ \E t \in Tab, u \in User : Login(t, u) \/ switchAccount(t, u)
    \/ \E r \in Req : Ask(r) \/ Progress(r) \/ NetworkFails(r)
    \/ \E g \in Grant : Expire(g)
    \/ Rest

Spec == Init /\ [][Next]_vars

(* While answers are due or pages are being loaded, one arrives.           *)
System == (\E r \in Req : Progress(r)) \/ \E t \in Tab : Start(t) \/ Redirect(t)

FairSpec == Spec /\ WF_vars(System)

----------------------------------------------------------------------------
(* The types of the state, and a page that is loading its profile has one  *)
(* request for it under way.                                               *)
TypeOK ==
    /\ token \in Pair /\ refresh \in Pair /\ active \in User \cup {None}
    /\ accounts \in Seq(Account)
    /\ tab \in [Tab -> [path : {"app", "login", "add"}, stage : {"start", "profile", "ready"},
                         who : User \cup {None}]]
    /\ req \in [Req -> [stage : {"idle", "sent", "refresh"}, profile : BOOLEAN, acc : Pair]]
    /\ \A t \in Tab : (tab[t].stage = "profile") = (\E r \in OfTab(t) : req[r].profile)
    /\ issued \in [User -> Nat] /\ \A u \in User : issued[u] <= MaxGrant[u]
    /\ faults \in 0..MaxFaults /\ quiet \in BOOLEAN
    /\ expired \subseteq Grant /\ behind \subseteq Tab

(* However pages log in, switch, add, log out, reload and sign out beside  *)
(* each other: each account in the list is there once, with tokens of its  *)
(* own user, the active one is among them, and the pair that every request *)
(* goes by is the active account's or gone.                                *)
OwnAccounts ==
    /\ IsInjective([i \in DOMAIN accounts |-> accounts[i].id])
    /\ \A i \in DOMAIN accounts : accounts[i].grant.user = accounts[i].id
    /\ active # None => ActiveAccount # {}
    /\ {token, refresh} \subseteq {None} \cup {accounts[i].grant : i \in ActiveAccount}

(* What a page asks goes with a token of the user it shows, unless another *)
(* page has changed the account since: apiClient.js reads the token at     *)
(* each request, AuthContext.jsx the user once.                            *)
SpeaksAsShown ==
    \A r \in Req :
        req[r].acc # None /\ ~req[r].profile /\ TabOf[r] \notin behind
            => req[r].acc.user = tab[TabOf[r]].who

(* Pages settle: once users and the network rest no page is sent back and  *)
(* forth between /login and the application for ever, dead tokens or not.  *)
Settles == <>[](quiet => \A t \in Tab : tab[t].stage = "ready")
=============================================================================

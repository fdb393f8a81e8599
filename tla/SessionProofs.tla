---------------------------- MODULE SessionProofs -----------------------------
(***************************************************************************)
(* Proofs about the accounts and tokens of a browser, for any number of    *)
(* users, pages and requests, of grants and of answers that are lost:      *)
(* accounts.js, apiClient.js and AuthProvider.                             *)
(***************************************************************************)
EXTENDS Session, FiniteSetTheorems, SequenceTheorems, TLAPS

PathName  == {"app", "login", "add"}
TabStage  == {"start", "profile", "ready"}
ReqStage  == {"idle", "sent", "refresh"}
TabRecord == [path : PathName, stage : TabStage, who : User \cup {None}]
ReqRecord == [stage : ReqStage, profile : BOOLEAN, acc : Pair]

(* The types, by the part of the state.                                    *)
StorageTypes ==
    /\ token \in Pair /\ refresh \in Pair /\ active \in User \cup {None}
    /\ accounts \in Seq(Account)
PageTypes  == tab \in [Tab -> TabRecord] /\ req \in [Req -> ReqRecord]
CountTypes == issued \in [User -> Nat] /\ \A u \in User : issued[u] <= MaxGrant[u]
ClockTypes ==
    /\ expired \subseteq Grant /\ behind \subseteq Tab
    /\ faults \in 0..MaxFaults /\ quiet \in BOOLEAN

(* A page that is about to ask for its profile has no request under way,   *)
(* one outside the application has none but for the profile, and there is  *)
(* one of those while it is being loaded.                                  *)
Undisturbed ==
    /\ \A r \in Req :
        /\ req[r].stage = "idle" => ~req[r].profile
        /\ tab[TabOf[r]].stage = "start" => req[r].stage = "idle"
        /\ tab[TabOf[r]].path # "app" => req[r].stage = "idle" \/ req[r].profile
    /\ \A r, q \in Req : TabOf[r] = TabOf[q] /\ req[r].profile /\ req[q].profile => r = q
    /\ \A t \in Tab : (tab[t].stage = "profile") = (\E r \in OfTab(t) : req[r].profile)

Pages == PageTypes /\ Undisturbed
Types == StorageTypes /\ Pages /\ CountTypes /\ ClockTypes

(* The list of accounts has each user once, the active one among them.     *)
Listed ==
    /\ \A i, j \in DOMAIN accounts : accounts[i].id = accounts[j].id => i = j
    /\ active # None => ActiveAccount # {}

(* Each account has tokens of its own, and the mirrored ones are the       *)
(* active account's.                                                       *)
OwnGrants  == \A i \in DOMAIN accounts : accounts[i].grant.user = accounts[i].id
Mirrors(g) == g = None \/ \E i \in ActiveAccount : accounts[i].grant = g
OwnTokens  == OwnGrants /\ Mirrors(token) /\ Mirrors(refresh)

(* A page that no other has overtaken shows the active user, and its       *)
(* requests go with that user's tokens.                                    *)
Voice ==
    /\ \A r \in Req :
        /\ req[r].stage = "idle" => req[r].acc = None
        /\ req[r].stage # "idle" /\ ~req[r].profile => tab[TabOf[r]].who # None
        /\ req[r].acc # None /\ TabOf[r] \notin behind => req[r].acc.user = active
    /\ \A t \in Tab : tab[t].who # None /\ t \notin behind => tab[t].who = active

SessionInv == Types /\ Listed
OwnInv     == SessionInv /\ OwnTokens
VoiceInv   == OwnInv /\ Voice

----------------------------------------------------------------------------
(* The types.                                                              *)

LEMMA GrantShape ==
    /\ \A g \in Grant : g.user \in User /\ g.n \in Nat \ {0}
    /\ \A u \in User : NewGrant(u).user = u /\ NewGrant(u).n = issued[u] + 1
BY SessionAssumption DEF Grant, NewGrant

LEMMA NewGrantIssued ==
    ASSUME CountTypes, NEW u \in User, NewGrant(u) \in Grant
    PROVE  issued[u] + 1 <= MaxGrant[u]
<1>1. PICK v \in User : NewGrant(u) \in [user : {v}, n : 1..MaxGrant[v]]
      BY DEF Grant
<1>2. v = u /\ issued[u] + 1 \in 1..MaxGrant[v]
      BY <1>1 DEF NewGrant
<1> QED BY <1>2, SessionAssumption

LEMMA IdleRecord == Idle \in ReqRecord /\ Idle.stage = "idle" /\ ~Idle.profile
BY DEF Idle, ReqRecord, ReqStage, Pair

LEMMA LeavePages ==
    ASSUME Pages, NEW t \in Tab, NEW p \in PathName, Leave(t, p)
    PROVE  Pages'
<1> DEFINE blank == Loaded(p)
<1>1. /\ tab' = [tab EXCEPT ![t] = blank] /\ blank \in TabRecord
      /\ blank.stage = "start"
      BY DEF Leave, Loaded, TabRecord, TabStage
<1>2. /\ \A s \in Tab : tab'[s] = IF s = t THEN blank ELSE tab[s]
      /\ tab' \in [Tab -> TabRecord]
      BY <1>1 DEF Pages, PageTypes
<1>3. /\ \A r \in Req : TabOf[r] \in Tab
      /\ \A r \in Req : req'[r] = IF TabOf[r] = t THEN Idle ELSE req[r]
      /\ req' \in [Req -> ReqRecord]
      BY SessionAssumption, IdleRecord DEF Leave, OfTab, Pages, PageTypes
<1> HIDE DEF blank
<1>5. \A r \in Req :
        /\ req'[r].stage = "idle" => ~req'[r].profile
        /\ tab'[TabOf[r]].stage = "start" => req'[r].stage = "idle"
        /\ tab'[TabOf[r]].path # "app" => req'[r].stage = "idle" \/ req'[r].profile
      BY <1>2, <1>3, IdleRecord DEF Pages, Undisturbed
<1>6. \A r, q \in Req : TabOf[r] = TabOf[q] /\ req'[r].profile /\ req'[q].profile => r = q
      BY <1>3, IdleRecord DEF Pages, Undisturbed
<1>7. ASSUME NEW s \in Tab
      PROVE  (tab'[s].stage = "profile") = (\E r \in OfTab(s) : req'[r].profile)
  <2>1. CASE s = t
    <3>1. \A r \in OfTab(s) : ~req'[r].profile
          BY <2>1, <1>3, IdleRecord DEF OfTab
    <3> QED BY <3>1, <2>1, <1>1, <1>2
  <2>2. CASE s # t
    <3>1. \A r \in OfTab(s) : req'[r].profile <=> req[r].profile
          BY <2>2, <1>3 DEF OfTab
    <3>2. tab'[s] = tab[s]
          BY <2>2, <1>2
    <3> QED BY <3>1, <3>2 DEF Pages, Undisturbed
  <2> QED BY <2>1, <2>2
<1>8. Undisturbed'
      BY <1>5, <1>6, <1>7 DEF Undisturbed, OfTab
<1> QED BY <1>2, <1>3, <1>8 DEF Pages, PageTypes

(* A request that ends; the page's profile is no longer loaded.            *)
Ends(r) ==
    /\ req' = [req EXCEPT ![r] = Idle]
    /\ \E u \in User \cup {None} :
        tab' = IF ~req[r].profile THEN tab
               ELSE [tab EXCEPT ![TabOf[r]] = [path |-> tab[TabOf[r]].path, stage |-> "ready", who |-> u]]

LEMMA EndsPages ==
    ASSUME Pages, NEW r \in Req, Ends(r)
    PROVE  Pages'
<1>1. PICK u \in User \cup {None} :
        tab' = IF ~req[r].profile THEN tab
               ELSE [tab EXCEPT ![TabOf[r]] = [path |-> tab[TabOf[r]].path, stage |-> "ready", who |-> u]]
      BY DEF Ends
<1> DEFINE t == TabOf[r]
           shown == [path |-> tab[t].path, stage |-> "ready", who |-> u]
<1>2. /\ t \in Tab /\ tab[t] \in TabRecord /\ shown \in TabRecord
      /\ shown.stage = "ready" /\ shown.path = tab[t].path
      BY SessionAssumption DEF Pages, PageTypes, TabRecord, TabStage
<1>3. /\ \A s \in Tab : tab'[s] = IF req[r].profile /\ s = t THEN shown ELSE tab[s]
      /\ tab' \in [Tab -> TabRecord]
      BY <1>1, <1>2 DEF Pages, PageTypes
<1>4. /\ \A q \in Req : TabOf[q] \in Tab
      /\ \A q \in Req : req'[q] = IF q = r THEN Idle ELSE req[q]
      /\ req' \in [Req -> ReqRecord]
      BY SessionAssumption, IdleRecord DEF Ends, Pages, PageTypes
<1> HIDE DEF shown
<1>6. \A q \in Req :
        /\ req'[q].stage = "idle" => ~req'[q].profile
        /\ tab'[TabOf[q]].stage = "start" => req'[q].stage = "idle"
        /\ tab'[TabOf[q]].path # "app" => req'[q].stage = "idle" \/ req'[q].profile
      BY <1>2, <1>3, <1>4, IdleRecord DEF Pages, Undisturbed
<1>7. \A p, q \in Req : TabOf[p] = TabOf[q] /\ req'[p].profile /\ req'[q].profile => p = q
      BY <1>4, IdleRecord DEF Pages, Undisturbed
<1>8. ASSUME NEW s \in Tab
      PROVE  (tab'[s].stage = "profile") = (\E q \in OfTab(s) : req'[q].profile)
  <2>1. CASE req[r].profile /\ s = t
    <3>1. \A q \in OfTab(s) : ~req'[q].profile
          BY <2>1, <1>4, IdleRecord DEF Pages, Undisturbed, OfTab
    <3> QED BY <3>1, <2>1, <1>2, <1>3
  <2>2. CASE ~(req[r].profile /\ s = t)
    <3>1. \A q \in OfTab(s) : req'[q].profile <=> req[q].profile
          BY <2>2, <1>4, IdleRecord DEF OfTab
    <3>2. tab'[s] = tab[s]
          BY <2>2, <1>3
    <3> QED BY <3>1, <3>2 DEF Pages, Undisturbed
  <2> QED BY <2>1, <2>2
<1>9. Undisturbed'
      BY <1>6, <1>7, <1>8 DEF Undisturbed, OfTab
<1> QED BY <1>3, <1>4, <1>9 DEF Pages, PageTypes

LEMMA ShownRecord ==
    ASSUME NEW x \in TabRecord, NEW y, NEW u
    PROVE  /\ [x EXCEPT !.stage = y] = [path |-> x.path, stage |-> y, who |-> x.who]
           /\ [x EXCEPT !.who = u] = [path |-> x.path, stage |-> x.stage, who |-> u]
BY DEF TabRecord

LEMMA RejectEnds ==
    ASSUME Pages, NEW r \in Req, Reject(r)
    PROVE  Ends(r)
<1>1. TabOf[r] \in Tab /\ tab[TabOf[r]] \in TabRecord
      BY SessionAssumption DEF Pages, PageTypes
<1>2. [tab EXCEPT ![TabOf[r]].stage = "ready"] =
        [tab EXCEPT ![TabOf[r]] = [path |-> tab[TabOf[r]].path, stage |-> "ready", who |-> tab[TabOf[r]].who]]
      BY <1>1, ShownRecord
<1>3. tab[TabOf[r]].who \in User \cup {None}
      BY <1>1 DEF TabRecord
<1> QED BY <1>2, <1>3 DEF Reject, StopLoading, Ends

LEMMA ServedEnds ==
    ASSUME Pages, NEW r \in Req, Served(r)
    PROVE  Ends(r)
<1>1. TabOf[r] \in Tab /\ tab[TabOf[r]] \in TabRecord /\ req[r] \in ReqRecord
      BY SessionAssumption DEF Pages, PageTypes
<1> DEFINE u == req[r].acc.user
<1>2. u \in User
      BY <1>1, GrantShape DEF Served, Accepted, ReqRecord, Pair
<1> HIDE DEF u
<1> DEFINE t == TabOf[r]
           mid == [path |-> tab[t].path, stage |-> "ready", who |-> tab[t].who]
<1>3. mid \in TabRecord /\ mid.path = tab[t].path /\ mid.stage = "ready"
      BY <1>1 DEF TabRecord, TabStage
<1>4. [tab EXCEPT ![t].stage = "ready"] = [tab EXCEPT ![t] = mid]
      BY <1>1, ShownRecord
<1> HIDE DEF mid
<1>5. [[tab EXCEPT ![t] = mid] EXCEPT ![t].who = u] =
        [tab EXCEPT ![t] = [path |-> tab[t].path, stage |-> "ready", who |-> u]]
  <2>1. [mid EXCEPT !.who = u] = [path |-> tab[t].path, stage |-> "ready", who |-> u]
        BY <1>3, ShownRecord
  <2>2. /\ DOMAIN tab = Tab /\ t \in Tab /\ [tab EXCEPT ![t] = mid][t] = mid
        /\ \A s \in Tab : s # t => [tab EXCEPT ![t] = mid][s] = tab[s]
        BY <1>1 DEF Pages, PageTypes
  <2> QED BY <2>1, <2>2
<1>6. [tab EXCEPT ![t].stage = "ready", ![t].who = u] =
        [tab EXCEPT ![t] = [path |-> tab[t].path, stage |-> "ready", who |-> u]]
      BY <1>4, <1>5
<1> QED BY <1>2, <1>6 DEF Served, Ends, u

(* A request that goes on.                                                 *)
Goes(r) ==
    /\ req[r].stage = "sent" /\ UNCHANGED tab
    /\ req' = [req EXCEPT ![r].stage = "refresh"]

LEMMA GoesRequest ==
    ASSUME PageTypes, NEW r \in Req, Goes(r)
    PROVE  /\ req' \in [Req -> ReqRecord] /\ \A q \in Req : q # r => req'[q] = req[q]
           /\ req'[r].stage = "refresh" /\ req[r].stage = "sent"
           /\ req'[r].profile = req[r].profile /\ req'[r].acc = req[r].acc
<1> DEFINE x == [stage |-> "refresh", profile |-> req[r].profile, acc |-> req[r].acc]
<1>1. req[r] \in ReqRecord /\ req \in [Req -> ReqRecord]
      BY DEF PageTypes
<1>2. [req[r] EXCEPT !.stage = "refresh"] = x
      BY <1>1 DEF ReqRecord
<1>3. req' = [req EXCEPT ![r] = x] /\ req[r].stage = "sent"
      BY <1>2 DEF Goes
<1>4. /\ x \in ReqRecord /\ x.stage = "refresh"
      /\ x.profile = req[r].profile /\ x.acc = req[r].acc
      BY <1>1 DEF ReqRecord, ReqStage
<1> HIDE DEF x
<1> QED BY <1>1, <1>3, <1>4

LEMMA GoesPages ==
    ASSUME Pages, NEW r \in Req, Goes(r)
    PROVE  Pages'
<1>1. /\ tab' = tab /\ req' \in [Req -> ReqRecord]
      /\ \A q \in Req : req'[q].profile = req[q].profile
      /\ \A q \in Req : (req'[q].stage = "idle") <=> (req[q].stage = "idle")
      BY GoesRequest DEF Pages, Goes
<1>2. Undisturbed'
      BY <1>1 DEF Pages, Undisturbed, OfTab
<1> QED BY <1>1, <1>2 DEF Pages, PageTypes

(* A request that begins.                                                  *)
LEMMA AskPages ==
    ASSUME Pages, StorageTypes, NEW r \in Req, Ask(r)
    PROVE  Pages'
<1> DEFINE x == [Idle EXCEPT !.stage = "sent", !.acc = token]
<1>1. x \in ReqRecord /\ x.stage = "sent" /\ ~x.profile
      BY DEF Idle, ReqRecord, ReqStage, StorageTypes, Pair
<1>2. /\ req' = [req EXCEPT ![r] = x] /\ req[r] = Idle /\ UNCHANGED tab
      /\ tab[TabOf[r]].stage = "ready" /\ tab[TabOf[r]].path = "app"
      BY DEF Ask
<1> HIDE DEF x
<1>3. /\ req' \in [Req -> ReqRecord] /\ \A q \in Req : req'[q] = IF q = r THEN x ELSE req[q]
      BY <1>1, <1>2 DEF Pages, PageTypes
<1>4. \A q \in Req : req'[q].profile <=> req[q].profile
      BY <1>1, <1>2, <1>3, IdleRecord
<1>5. Undisturbed'
      BY <1>1, <1>2, <1>3, <1>4 DEF Pages, Undisturbed, OfTab
<1> QED BY <1>2, <1>3, <1>5 DEF Pages, PageTypes

LEMMA AccountsShape ==
    ASSUME StorageTypes
    PROVE  /\ Len(accounts) \in Nat /\ DOMAIN accounts = 1..Len(accounts)
           /\ \A i \in DOMAIN accounts :
                accounts[i] \in Account /\ accounts[i].id \in User /\ accounts[i].grant \in Grant
<1>1. accounts \in Seq(Account)
      BY DEF StorageTypes
<1>2. Len(accounts) \in Nat /\ DOMAIN accounts = 1..Len(accounts)
      BY <1>1, LenProperties
<1>3. \A i \in DOMAIN accounts : accounts[i] \in Account
      BY <1>1, <1>2, ElementOfSeq
<1> QED BY <1>2, <1>3 DEF Account

(* What a page finds when it mirrors the active account.                   *)
LEMMA MirroredFrom ==
    /\ ActiveAccount = {} => \A tk : MirroredActive(tk) = tk
    /\ ActiveAccount # {} =>
         \E i \in ActiveAccount : \A tk : MirroredActive(tk) = accounts[i].grant
<1>1. ActiveAccount # {} => (CHOOSE i \in ActiveAccount : TRUE) \in ActiveAccount
      OBVIOUS
<1> QED BY <1>1 DEF MirroredActive

LEMMA MirroredType ==
    ASSUME StorageTypes, NEW tk \in Pair
    PROVE  MirroredActive(tk) \in Pair
BY AccountsShape, MirroredFrom DEF ActiveAccount, Pair

LEMMA StartPages ==
    ASSUME Pages, StorageTypes, NEW t \in Tab, Start(t)
    PROVE  Pages'
<1> DEFINE tk == MirroredActive(token)
           x  == [Idle EXCEPT !.stage = "sent", !.profile = TRUE, !.acc = tk]
<1>1. tab[t] \in TabRecord /\ tab \in [Tab -> TabRecord] /\ tab[t].stage = "start"
      BY DEF Pages, PageTypes, Start
<1>2. PICK r \in OfTab(t) :
        IF tk = None
        THEN tab' = [tab EXCEPT ![t].stage = "ready"] /\ UNCHANGED req
        ELSE /\ tab' = [tab EXCEPT ![t].stage = "profile"]
             /\ req' = [req EXCEPT ![r] = x]
      BY DEF Start
<1>3. tk \in Pair
      BY MirroredType DEF StorageTypes
<1> HIDE DEF tk
<1>4. x \in ReqRecord /\ x.stage = "sent" /\ x.profile
      BY <1>3 DEF Idle, ReqRecord, ReqStage, Pair
<1> HIDE DEF x
<1>5. \A q \in OfTab(t) : req[q].stage = "idle" /\ ~req[q].profile
      BY <1>1 DEF Pages, Undisturbed, OfTab
<1>6. r \in Req /\ TabOf[r] = t /\ (\A q \in Req : TabOf[q] \in Tab)
      BY SessionAssumption DEF OfTab
<1>7. ASSUME NEW y \in {"ready", "profile"}, tab' = [tab EXCEPT ![t].stage = y]
      PROVE  /\ tab' \in [Tab -> TabRecord] /\ \A s \in Tab : s # t => tab'[s] = tab[s]
             /\ tab'[t].stage = y /\ tab'[t].path = tab[t].path
  <2> DEFINE z == [path |-> tab[t].path, stage |-> y, who |-> tab[t].who]
  <2>1. tab' = [tab EXCEPT ![t] = z]
        BY <1>1, <1>7, ShownRecord
  <2>2. z \in TabRecord /\ z.path = tab[t].path /\ z.stage = y
        BY <1>1 DEF TabRecord, TabStage
  <2> HIDE DEF z
  <2> QED BY <2>1, <2>2, <1>1
<1>8. CASE tk = None
  <2>1. /\ req' = req /\ tab' \in [Tab -> TabRecord] /\ \A s \in Tab : s # t => tab'[s] = tab[s]
        /\ tab'[t].stage = "ready" /\ tab'[t].path = tab[t].path
        BY <1>2, <1>7, <1>8
  <2>2. \A q \in Req :
        /\ tab'[TabOf[q]].stage = "start" => req[q].stage = "idle"
        /\ tab'[TabOf[q]].path # "app" => req[q].stage = "idle" \/ req[q].profile
        BY <2>1, <1>6 DEF Pages, Undisturbed
  <2>3. ASSUME NEW s \in Tab
        PROVE  (tab'[s].stage = "profile") = (\E q \in OfTab(s) : req[q].profile)
        BY <2>1, <1>1, <1>5 DEF Pages, Undisturbed
  <2>4. Undisturbed'
        BY <2>1, <2>2, <2>3 DEF Pages, Undisturbed, OfTab
  <2> QED BY <2>1, <2>4 DEF Pages, PageTypes
<1>9. CASE tk # None
  <2>1. /\ tab' \in [Tab -> TabRecord] /\ \A s \in Tab : s # t => tab'[s] = tab[s]
        /\ tab'[t].stage = "profile" /\ tab'[t].path = tab[t].path
        BY <1>2, <1>7, <1>9
  <2>2. req' \in [Req -> ReqRecord] /\ \A q \in Req : req'[q] = IF q = r THEN x ELSE req[q]
        BY <1>2, <1>4, <1>6, <1>9 DEF Pages, PageTypes
  <2>3. \A q \in Req :
        /\ req'[q].stage = "idle" => ~req'[q].profile
        /\ tab'[TabOf[q]].stage = "start" => req'[q].stage = "idle"
        /\ tab'[TabOf[q]].path # "app" => req'[q].stage = "idle" \/ req'[q].profile
        BY <2>1, <2>2, <1>4, <1>6 DEF Pages, Undisturbed
  <2>4. \A p, q \in Req : TabOf[p] = TabOf[q] /\ req'[p].profile /\ req'[q].profile => p = q
        BY <2>2, <1>5, <1>6 DEF Pages, Undisturbed, OfTab
  <2>5. ASSUME NEW s \in Tab
        PROVE  (tab'[s].stage = "profile") = (\E q \in OfTab(s) : req'[q].profile)
    <3>1. CASE s = t
      <4>1. req'[r].profile
            BY <2>2, <1>4, <1>6
      <4> QED BY <3>1, <4>1, <2>1, <1>2
    <3>2. CASE s # t
      <4>1. \A q \in OfTab(s) : req'[q] = req[q]
            BY <3>2, <2>2, <1>6 DEF OfTab
      <4> QED BY <3>2, <4>1, <2>1 DEF Pages, Undisturbed
    <3> QED BY <3>1, <3>2
  <2>6. Undisturbed'
        BY <2>3, <2>4, <2>5 DEF Undisturbed, OfTab
  <2> QED BY <2>1, <2>2, <2>6 DEF Pages, PageTypes
<1> QED BY <1>8, <1>9

----------------------------------------------------------------------------
(* The accounts in the list.                                               *)

(* The list after a login.                                                 *)
LEMMA AddedAccounts ==
    ASSUME StorageTypes, Listed, NEW g \in Grant, addOrUpdateAccount(g)
    PROVE  /\ accounts' \in Seq(Account)
           /\ \A k \in DOMAIN accounts' :
                \/ accounts'[k] = [id |-> g.user, grant |-> g]
                \/ \E i \in DOMAIN accounts : accounts'[k] = accounts[i] /\ accounts[i].id # g.user
           /\ \E k \in DOMAIN accounts' : accounts'[k].id = g.user
           /\ \A i, j \in DOMAIN accounts' : accounts'[i].id = accounts'[j].id => i = j
           /\ token' = g /\ refresh' = g /\ active' = g.user
<1> DEFINE a == [id |-> g.user, grant |-> g]
           n == Len(accounts)
<1>1. /\ accounts' = IF Indexes(g.user) = {} THEN Append(accounts, a)
                      ELSE [i \in DOMAIN accounts |-> IF accounts[i].id = g.user THEN a ELSE accounts[i]]
      /\ token' = a.grant /\ refresh' = a.grant /\ active' = a.id
      BY DEF addOrUpdateAccount, Mirror
<1>2. a \in Account /\ a.id = g.user /\ a.grant = g
      BY GrantShape DEF Account
<1>3. /\ accounts \in Seq(Account) /\ n \in Nat /\ DOMAIN accounts = 1..n
      /\ \A i \in 1..n : accounts[i] \in Account
      BY AccountsShape DEF StorageTypes
<1> HIDE DEF a, n
<1>4. CASE Indexes(g.user) = {}
  <2>1. /\ accounts' \in Seq(Account) /\ Len(accounts') = n + 1
        /\ accounts'[n + 1] = a /\ \A i \in 1..n : accounts'[i] = accounts[i]
        BY <1>1, <1>2, <1>3, <1>4, AppendProperties DEF n
  <2>2. DOMAIN accounts' = 1..(n + 1)
        BY <2>1, LenProperties
  <2>3. \A i \in 1..n : accounts[i].id # g.user
        BY <1>3, <1>4 DEF Indexes
  <2>4. \A k \in DOMAIN accounts' : k \in 1..n \/ k = n + 1
        BY <2>2, <1>3
  <2>5. n + 1 \in DOMAIN accounts'
        BY <2>2, <1>3
  <2>6. ASSUME NEW i \in DOMAIN accounts', NEW j \in DOMAIN accounts', accounts'[i].id = accounts'[j].id
        PROVE  i = j
        BY <2>1, <2>3, <2>4, <2>6, <1>2, <1>3 DEF Listed
  <2> QED BY <2>1, <2>3, <2>4, <2>5, <2>6, <1>1, <1>2, <1>3 DEF a
<1>5. CASE Indexes(g.user) # {}
  <2>1. /\ DOMAIN accounts' = 1..n
        /\ \A i \in 1..n : accounts'[i] = IF accounts[i].id = g.user THEN a ELSE accounts[i]
        BY <1>1, <1>3, <1>5
  <2>2. accounts' \in [1..n -> Account]
        BY <1>1, <1>2, <1>3, <1>5
  <2>3. accounts' \in Seq(Account)
        BY <2>2, <1>3, SeqDef
  <2>4. \A i \in 1..n : accounts'[i].id = accounts[i].id
        BY <2>1, <1>2
  <2>5. PICK k \in 1..n : accounts[k].id = g.user
        BY <1>3, <1>5 DEF Indexes
  <2> QED BY <2>1, <2>3, <2>4, <2>5, <1>1, <1>2, <1>3 DEF Listed, a
<1> QED BY <1>4, <1>5

(* The list without an account: the others, in their order.                *)
LEMMA RemainingAccounts ==
    ASSUME StorageTypes, Listed, NEW id, NEW next \in Remaining(id)
    PROVE  /\ next \in Seq(Account)
           /\ \A k \in DOMAIN next :
                \E i \in DOMAIN accounts : next[k] = accounts[i] /\ accounts[i].id # id
           /\ \A i, j \in DOMAIN next : next[i].id = next[j].id => i = j
           /\ next # <<>> => 1 \in DOMAIN next
<1> DEFINE S == {i \in DOMAIN accounts : accounts[i].id # id}
           n == Cardinality(S)
<1>1. PICK f \in Ascending(S) : next = [k \in DOMAIN f |-> accounts[f[k]]]
      BY DEF Remaining
<1>2. /\ Len(accounts) \in Nat /\ DOMAIN accounts = 1..Len(accounts)
      /\ \A i \in DOMAIN accounts : accounts[i] \in Account
      BY AccountsShape
<1>3. n \in Nat
  <2>1. IsFiniteSet(1..Len(accounts))
        BY <1>2, FS_Interval
  <2>2. S \in SUBSET (1..Len(accounts))
        BY <1>2
  <2> HIDE DEF S
  <2> QED BY <2>1, <2>2, FS_Subset, FS_CardinalityType
<1>4. f \in [1..n -> S] /\ \A j, k \in DOMAIN f : j < k => f[j] < f[k]
      BY DEF Ascending
<1>5. \A i \in S : i \in DOMAIN accounts /\ i \in Nat /\ accounts[i].id # id
      BY <1>2
<1> HIDE DEF S, n
<1>6. /\ DOMAIN next = 1..n
      /\ \A k \in 1..n : f[k] \in S /\ next[k] = accounts[f[k]]
      BY <1>1, <1>4
<1>7. next \in [1..n -> Account]
      BY <1>1, <1>2, <1>4, <1>5
<1>8. next \in Seq(Account)
      BY <1>3, <1>7, SeqDef
<1>9. ASSUME NEW i \in 1..n, NEW j \in 1..n, next[i].id = next[j].id
      PROVE  i = j
  <2>1. f[i] = f[j] /\ f[i] \in Nat /\ f[j] \in Nat
        BY <1>5, <1>6, <1>9 DEF Listed
  <2>2. ~(i < j) /\ ~(j < i)
        BY <2>1, <1>3, <1>4
  <2> QED BY <2>2, <1>3
<1>10. next # <<>> => 1 \in DOMAIN next
  <2>1. next # <<>> => Len(next) # 0
        BY <1>8, EmptySeq
  <2>2. Len(next) = n
        BY <1>3, <1>6, <1>8, LenProperties
  <2> QED BY <2>1, <2>2, <1>3, <1>6
<1> QED BY <1>5, <1>6, <1>8, <1>9, <1>10

(* What the steps do to the storage.                                       *)
Emptied ==
    /\ token' \in {token, None} /\ refresh' \in {refresh, None}
    /\ UNCHANGED <<active, accounts>>

Mirrored ==
    /\ token' = MirroredActive(token) /\ refresh' = MirroredActive(refresh)
    /\ UNCHANGED <<active, accounts>>

Moved == removeAccount(active) \/ \E u \in User : setActiveAccount(u)

(* Where a step can lead that changes the account.                         *)
LEMMA MovedAccounts ==
    ASSUME StorageTypes, Listed, Moved
    PROVE  /\ accounts' \in Seq(Account)
           /\ \A k \in DOMAIN accounts' : \E i \in DOMAIN accounts : accounts'[k] = accounts[i]
           /\ \A i, j \in DOMAIN accounts' : accounts'[i].id = accounts'[j].id => i = j
           /\ \/ active' = None /\ token' = None /\ refresh' = None
              \/ \E k \in DOMAIN accounts' :
                   /\ active' = accounts'[k].id
                   /\ token' = accounts'[k].grant /\ refresh' = accounts'[k].grant
<1>1. CASE removeAccount(active)
  <2>1. PICK next \in Remaining(active) :
          /\ accounts' = next
          /\ IF next # <<>> THEN Mirror(next[1])
             ELSE active' = None /\ token' = None /\ refresh' = None
        BY <1>1 DEF removeAccount
  <2>2. /\ next \in Seq(Account)
        /\ next # <<>> => 1 \in DOMAIN next
        /\ \A k \in DOMAIN next : \E i \in DOMAIN accounts : next[k] = accounts[i]
        /\ \A i, j \in DOMAIN next : next[i].id = next[j].id => i = j
        BY RemainingAccounts
  <2>3. /\ accounts' \in Seq(Account)
        /\ \A k \in DOMAIN accounts' : \E i \in DOMAIN accounts : accounts'[k] = accounts[i]
        /\ \A i, j \in DOMAIN accounts' : accounts'[i].id = accounts'[j].id => i = j
        BY <2>1, <2>2
  <2>4. CASE next # <<>>
    <3>1. 1 \in DOMAIN accounts' /\ Mirror(next[1]) /\ accounts'[1] = next[1]
          BY <2>1, <2>2, <2>4
    <3>2. active' = accounts'[1].id /\ token' = accounts'[1].grant /\ refresh' = accounts'[1].grant
          BY <3>1 DEF Mirror
    <3> QED BY <2>3, <3>1, <3>2
  <2>5. CASE next = <<>>
    <3>1. active' = None /\ token' = None /\ refresh' = None
          BY <2>1, <2>5
    <3> QED BY <2>3, <3>1
  <2> QED BY <2>4, <2>5
<1>2. CASE \E u \in User : setActiveAccount(u)
  <2>1. PICK i \in DOMAIN accounts : Mirror(accounts[i]) /\ UNCHANGED accounts
        BY <1>2 DEF setActiveAccount, Indexes
  <2>2. accounts' = accounts /\ i \in DOMAIN accounts' /\ accounts' \in Seq(Account)
        BY <2>1 DEF StorageTypes
  <2>3. /\ active' = accounts'[i].id
        /\ token' = accounts'[i].grant /\ refresh' = accounts'[i].grant
        BY <2>1 DEF Mirror
  <2>4. \A k \in DOMAIN accounts' : \E j \in DOMAIN accounts : accounts'[k] = accounts[j]
        BY <2>2
  <2>5. \A j, k \in DOMAIN accounts' : accounts'[j].id = accounts'[k].id => j = k
        BY <2>2 DEF Listed
  <2> QED BY <2>2, <2>3, <2>4, <2>5
<1> QED BY <1>1, <1>2 DEF Moved

----------------------------------------------------------------------------
(* The steps, and the invariants they keep.                                *)

Steps ==
    \/ (Emptied \/ Mirrored \/ Moved) /\ UNCHANGED issued
    \/ \E t \in Tab, u \in User : Login(t, u)

StepOK == Pages' /\ ClockTypes' /\ Steps

LEMMA LeaveClocks ==
    ASSUME Types, NEW t \in Tab, NEW p \in PathName, Leave(t, p), UNCHANGED <<expired, quiet>>,
           faults' \in 0..MaxFaults
    PROVE  Pages' /\ ClockTypes'
<1>1. behind' \subseteq Tab
      BY DEF Leave, Types, ClockTypes
<1> QED BY <1>1, LeavePages DEF Types, ClockTypes

LEMMA SignOutStep ==
    ASSUME Types, NEW r \in Req, SignOut(r)
    PROVE  StepOK
<1>1. UNCHANGED <<issued, expired, faults, quiet>> /\ Emptied
      BY DEF SignOut, Emptied, steady
<1>2. Pages' /\ ClockTypes'
  <2>1. CASE OnLogin(TabOf[r])
    <3>1. Reject(r) /\ behind' = behind
          BY <2>1 DEF SignOut
    <3> QED BY <1>1, <3>1, RejectEnds, EndsPages DEF Types, ClockTypes
  <2>2. CASE ~OnLogin(TabOf[r])
    <3>1. Leave(TabOf[r], "login") /\ TabOf[r] \in Tab /\ "login" \in PathName
          BY <2>2, SessionAssumption DEF SignOut, PathName
    <3>2. faults' \in 0..MaxFaults
          BY <1>1 DEF Types, ClockTypes
    <3> QED BY <1>1, <3>1, <3>2, LeaveClocks
  <2> QED BY <2>1, <2>2
<1> QED BY <1>1, <1>2 DEF StepOK, Steps

LEMMA StepsOfPages ==
    ASSUME Types, NEW t \in Tab
    PROVE  /\ Start(t) => StepOK
           /\ Redirect(t) => StepOK
           /\ AddAccount(t) => StepOK
           /\ Logout(t) => StepOK
           /\ UserReloads(t) => StepOK
           /\ \A u \in User : Login(t, u) => StepOK
           /\ \A u \in User : switchAccount(t, u) => StepOK
<1> USE DEF PathName
<1>0. ASSUME NEW p \in PathName, Leave(t, p), UNCHANGED <<issued, expired, faults, quiet>>,
             Emptied \/ Moved
      PROVE  StepOK
  <2>1. faults' \in 0..MaxFaults
        BY <1>0 DEF Types, ClockTypes
  <2>2. Pages' /\ ClockTypes'
        BY <1>0, <2>1, LeaveClocks
  <2> QED BY <1>0, <2>2 DEF StepOK, Steps
<1>1. ASSUME Start(t)
      PROVE  StepOK
  <2>1. UNCHANGED <<issued, expired, behind, faults, quiet>> /\ Mirrored
        BY <1>1 DEF Start, steady, Mirrored
  <2>2. Pages'
        BY <1>1, StartPages DEF Types
  <2>3. ClockTypes'
        BY <2>1 DEF Types, ClockTypes
  <2> QED BY <2>1, <2>2, <2>3 DEF StepOK, Steps
<1>2. ASSUME Redirect(t)
      PROVE  StepOK
      BY <1>0, <1>2 DEF Redirect, storage, steady, Emptied
<1>3. ASSUME AddAccount(t)
      PROVE  StepOK
      BY <1>0, <1>3 DEF AddAccount, storage, steady, Emptied
<1>4. ASSUME Logout(t)
      PROVE  StepOK
  <2>1. UNCHANGED <<issued, expired, faults, quiet>> /\ (Emptied \/ Moved) /\ \E p \in PathName : Leave(t, p)
        BY <1>4 DEF Logout, steady, Emptied, Moved
  <2> QED BY <1>0, <2>1
<1>5. ASSUME UserReloads(t)
      PROVE  StepOK
  <2>1. tab[t].path \in PathName
        BY DEF Types, Pages, PageTypes, TabRecord
  <2> QED BY <1>0, <1>5, <2>1 DEF UserReloads, storage, steady, Emptied
<1>6. ASSUME NEW u \in User, Login(t, u)
      PROVE  StepOK
  <2>1. UNCHANGED <<expired, faults, quiet>> /\ Leave(t, "app")
        BY <1>6 DEF Login
  <2>2. faults' \in 0..MaxFaults
        BY <2>1 DEF Types, ClockTypes
  <2>3. Pages' /\ ClockTypes'
        BY <2>1, <2>2, LeaveClocks
  <2> QED BY <1>6, <2>3 DEF StepOK, Steps
<1>7. ASSUME NEW u \in User, switchAccount(t, u)
      PROVE  StepOK
  <2>1. UNCHANGED <<issued, expired, faults, quiet>> /\ Leave(t, "app") /\ Moved
        BY <1>7 DEF switchAccount, steady, Moved
  <2> QED BY <1>0, <2>1
<1> QED BY <1>1, <1>2, <1>3, <1>4, <1>5, <1>6, <1>7

LEMMA StepsOfRequests ==
    ASSUME Types, NEW r \in Req
    PROVE  /\ Ask(r) => StepOK
           /\ Served(r) => StepOK
           /\ Unauthorized(r) => StepOK
           /\ RefreshFails(r) => StepOK
           /\ NetworkFails(r) => StepOK
<1>1. ASSUME Ask(r)
      PROVE  StepOK
  <2>1. UNCHANGED <<issued, expired, behind, faults, quiet>> /\ Emptied
        BY <1>1 DEF Ask, storage, steady, Emptied
  <2>2. Pages'
        BY <1>1, AskPages DEF Types
  <2>3. ClockTypes'
        BY <2>1 DEF Types, ClockTypes
  <2> QED BY <2>1, <2>2, <2>3 DEF StepOK, Steps
<1>2. ASSUME Served(r)
      PROVE  StepOK
  <2>1. UNCHANGED <<issued, expired, behind, faults, quiet>> /\ Emptied
        BY <1>2 DEF Served, storage, steady, Emptied
  <2>2. Pages'
        BY <1>2, ServedEnds, EndsPages DEF Types
  <2>3. ClockTypes'
        BY <2>1 DEF Types, ClockTypes
  <2> QED BY <2>1, <2>2, <2>3 DEF StepOK, Steps
<1>3. ASSUME Unauthorized(r)
      PROVE  StepOK
  <2>1. CASE token = None \/ refresh = None
        BY <1>3, <2>1, SignOutStep DEF Unauthorized
  <2>2. CASE ~(token = None \/ refresh = None)
    <3>1. UNCHANGED <<issued, expired, behind, faults, quiet>> /\ Emptied /\ Goes(r)
          BY <1>3, <2>2 DEF Unauthorized, storage, steady, Emptied, Goes
    <3>2. Pages'
          BY <3>1, GoesPages DEF Types
    <3>3. ClockTypes'
          BY <3>1 DEF Types, ClockTypes
    <3> QED BY <3>1, <3>2, <3>3 DEF StepOK, Steps
  <2> QED BY <2>1, <2>2
<1>4. ASSUME RefreshFails(r)
      PROVE  StepOK
      BY <1>4, SignOutStep DEF RefreshFails
<1>5. ASSUME NetworkFails(r)
      PROVE  StepOK
  <2>1. UNCHANGED <<issued, expired, behind, quiet>> /\ Emptied /\ Reject(r)
        BY <1>5 DEF NetworkFails, Emptied
  <2>2. Pages'
        BY <2>1, RejectEnds, EndsPages DEF Types
  <2>3. faults' \in 0..MaxFaults
        BY <1>5, SessionAssumption DEF NetworkFails, Types, ClockTypes
  <2>4. ClockTypes'
        BY <2>1, <2>3 DEF Types, ClockTypes
  <2> QED BY <2>1, <2>2, <2>4 DEF StepOK, Steps
<1> QED BY <1>1, <1>2, <1>3, <1>4, <1>5

(* A step that leaves pages, requests and storage alone.                   *)
Rests == UNCHANGED <<token, refresh, active, accounts, tab, req, issued, behind>>

LEMMA OtherSteps ==
    ASSUME Types, (\E g \in Grant : Expire(g)) \/ Rest \/ UNCHANGED vars
    PROVE  Rests /\ ClockTypes'
<1>1. ASSUME NEW g \in Grant, Expire(g)
      PROVE  Rests /\ ClockTypes'
      BY <1>1 DEF Expire, storage, Rests, Types, ClockTypes
<1>2. CASE Rest
      BY <1>2 DEF Rest, storage, Rests, Types, ClockTypes
<1>3. CASE UNCHANGED vars
      BY <1>3 DEF vars, Rests, Types, ClockTypes
<1> QED BY <1>1, <1>2, <1>3

LEMMA StepsAre ==
    ASSUME Types, [Next]_vars
    PROVE  StepOK
<1>1. ASSUME (\E g \in Grant : Expire(g)) \/ Rest \/ UNCHANGED vars
      PROVE  StepOK
  <2>1. Rests /\ ClockTypes'
        BY <1>1, OtherSteps
  <2>2. Pages'
        BY <2>1 DEF Rests, Types, Pages, PageTypes, Undisturbed, OfTab
  <2> QED BY <2>1, <2>2 DEF Rests, StepOK, Steps, Emptied
<1> QED BY <1>1, StepsOfPages, StepsOfRequests DEF Next, Progress

LEMMA StorageStep ==
    ASSUME Types, Listed, Steps
    PROVE  StorageTypes' /\ Listed' /\ CountTypes'
<1> USE DEF Types
<1>0. /\ \A i \in DOMAIN accounts : accounts[i].id \in User /\ accounts[i].grant \in Grant
      /\ \A g \in Grant : g \in Pair /\ g.user \in User
      /\ None \in Pair /\ active \in User \cup {None}
      BY AccountsShape, GrantShape DEF Pair, StorageTypes
<1>1. ASSUME Emptied
      PROVE  StorageTypes' /\ Listed'
      BY <1>0, <1>1 DEF Emptied, StorageTypes, Listed, ActiveAccount
<1>2. ASSUME Mirrored
      PROVE  StorageTypes' /\ Listed'
      BY <1>2, MirroredType DEF Mirrored, StorageTypes, Listed, ActiveAccount
<1>3. ASSUME Moved
      PROVE  StorageTypes' /\ Listed'
  <2>1. /\ accounts' \in Seq(Account)
        /\ \A k \in DOMAIN accounts' : accounts'[k].id \in User /\ accounts'[k].grant \in Grant
        /\ \A i, j \in DOMAIN accounts' : accounts'[i].id = accounts'[j].id => i = j
        BY <1>0, <1>3, MovedAccounts
  <2>2. CASE active' = None /\ token' = None /\ refresh' = None
        BY <2>1, <2>2, <1>0 DEF StorageTypes, Listed
  <2>3. CASE \E k \in DOMAIN accounts' :
               /\ active' = accounts'[k].id
               /\ token' = accounts'[k].grant /\ refresh' = accounts'[k].grant
        BY <2>1, <2>3, <1>0 DEF StorageTypes, Listed, ActiveAccount
  <2> QED BY <2>2, <2>3, <1>3, MovedAccounts
<1>4. UNCHANGED issued => CountTypes'
      BY DEF CountTypes
<1>5. ASSUME NEW t \in Tab, NEW u \in User, Login(t, u)
      PROVE  StorageTypes' /\ Listed' /\ CountTypes'
  <2> DEFINE g == NewGrant(u)
  <2>1. g \in Grant /\ addOrUpdateAccount(g) /\ issued' = [issued EXCEPT ![u] = issued[u] + 1]
        BY <1>5 DEF Login
  <2>2. CountTypes'
        BY <2>1, NewGrantIssued DEF CountTypes
  <2> HIDE DEF g
  <2>3. /\ accounts' \in Seq(Account)
        /\ \E k \in DOMAIN accounts' : accounts'[k].id = g.user
        /\ \A i, j \in DOMAIN accounts' : accounts'[i].id = accounts'[j].id => i = j
        /\ token' = g /\ refresh' = g /\ active' = g.user
        BY <2>1, AddedAccounts
  <2> QED BY <2>1, <2>2, <2>3, <1>0 DEF StorageTypes, Listed, ActiveAccount
<1> QED BY <1>1, <1>2, <1>3, <1>4, <1>5 DEF Steps

LEMMA SessionInit == Init => Types /\ Listed
<1> SUFFICES ASSUME Init PROVE Types /\ Listed
    OBVIOUS
<1> USE SessionAssumption DEF Init
<1>1. StorageTypes
      BY EmptySeq DEF StorageTypes, Pair
<1>2. PageTypes
      BY IdleRecord DEF PageTypes, TabRecord, PathName, TabStage, Loaded
<1>3. CountTypes /\ ClockTypes
  <2>1. issued \in [User -> Nat] /\ \A u \in User : issued[u] <= MaxGrant[u]
        OBVIOUS
  <2>2. faults = 0 /\ MaxFaults \in Nat /\ quiet \in BOOLEAN
        OBVIOUS
  <2>3. expired \subseteq Grant /\ behind \subseteq Tab
        OBVIOUS
  <2> QED BY <2>1, <2>2, <2>3 DEF CountTypes, ClockTypes
<1>4. Undisturbed
      BY IdleRecord DEF Undisturbed, OfTab, Loaded
<1>5. Listed
  <2>1. DOMAIN accounts = {}
        OBVIOUS
  <2> QED BY <2>1 DEF Listed
<1> QED BY <1>1, <1>2, <1>3, <1>4, <1>5 DEF Types, Pages

LEMMA SessionStep == SessionInv /\ [Next]_vars => SessionInv'
BY StepsAre, StorageStep DEF SessionInv, StepOK, Types

LEMMA SessionOK == Spec => []SessionInv
BY SessionInit, SessionStep, PTL DEF Spec, SessionInv

(* The state has its types, and a page that is loading its profile has one *)
(* request for it under way.                                               *)
THEOREM SessionTypes == Spec => []TypeOK
<1>1. SessionInv => TypeOK
      BY DEF SessionInv, Types, StorageTypes, Pages, PageTypes, CountTypes, ClockTypes, Undisturbed,
             TypeOK, TabRecord, ReqRecord, PathName, TabStage, ReqStage
<1> QED BY <1>1, SessionOK, PTL

----------------------------------------------------------------------------
(* Tokens of one's own.                                                    *)

LEMMA OwnStep ==
    ASSUME OwnInv, Steps
    PROVE  OwnTokens'
<1> USE DEF OwnInv, SessionInv, Types
<1>1. CASE Emptied
      BY <1>1 DEF Emptied, OwnTokens, OwnGrants, Mirrors, ActiveAccount
<1>2. CASE Mirrored
  <2>1. OwnGrants' /\ ActiveAccount' = ActiveAccount /\ accounts' = accounts
        BY <1>2 DEF Mirrored, OwnTokens, OwnGrants, ActiveAccount
  <2>2. CASE ActiveAccount = {}
    <3>1. token' = token /\ refresh' = refresh
          BY <2>2, <1>2, MirroredFrom DEF Mirrored
    <3> QED BY <3>1, <2>1 DEF OwnTokens, Mirrors
  <2>3. CASE ActiveAccount # {}
    <3>1. PICK i \in ActiveAccount : token' = accounts[i].grant /\ refresh' = accounts[i].grant
          BY <2>3, <1>2, MirroredFrom DEF Mirrored
    <3> QED BY <3>1, <2>1 DEF OwnTokens, Mirrors
  <2> QED BY <2>2, <2>3
<1>3. CASE Moved
  <2>1. OwnGrants'
        BY <1>3, MovedAccounts DEF OwnTokens, OwnGrants
  <2>2. CASE token' = None /\ refresh' = None
        BY <2>1, <2>2 DEF OwnTokens, Mirrors
  <2>3. CASE \E k \in DOMAIN accounts' :
               /\ active' = accounts'[k].id
               /\ token' = accounts'[k].grant /\ refresh' = accounts'[k].grant
        BY <2>1, <2>3 DEF OwnTokens, Mirrors, ActiveAccount
  <2> QED BY <2>2, <2>3, <1>3, MovedAccounts
<1>4. ASSUME NEW t \in Tab, NEW u \in User, Login(t, u)
      PROVE  OwnTokens'
  <2> DEFINE g == NewGrant(u)
             a == [id |-> g.user, grant |-> g]
  <2>1. g \in Grant /\ addOrUpdateAccount(g)
        BY <1>4 DEF Login
  <2> HIDE DEF g
  <2>2. /\ \A k \in DOMAIN accounts' :
            \/ accounts'[k] = a
            \/ \E i \in DOMAIN accounts : accounts'[k] = accounts[i] /\ accounts[i].id # g.user
        /\ \E k \in DOMAIN accounts' : accounts'[k].id = g.user
        /\ token' = g /\ refresh' = g /\ active' = g.user
        BY <2>1, AddedAccounts
  <2>3. a.id = g.user /\ a.grant = g
        OBVIOUS
  <2> HIDE DEF a
  <2>4. PICK k \in DOMAIN accounts' : accounts'[k].id = g.user
        BY <2>2
  <2>5. accounts'[k].grant = g /\ k \in ActiveAccount'
        BY <2>2, <2>3, <2>4 DEF ActiveAccount
  <2>6. OwnGrants'
        BY <2>2, <2>3 DEF OwnTokens, OwnGrants
  <2> QED BY <2>2, <2>5, <2>6 DEF OwnTokens, Mirrors
<1> QED BY <1>1, <1>2, <1>3, <1>4 DEF Steps

LEMMA OwnInit == Init => OwnTokens
BY DEF Init, OwnTokens, OwnGrants, Mirrors

LEMMA OwnInvStep == OwnInv /\ [Next]_vars => OwnInv'
BY SessionStep, StepsAre, OwnStep DEF OwnInv, SessionInv, StepOK

(* However often pages log in, switch, add, log out, reload and sign out   *)
(* beside each other: the list has each user once with tokens of his own,  *)
(* and the pair that requests go by is the active account's or gone.       *)
THEOREM AccountsKeepTheirTokens == Spec => []OwnAccounts
<1>1. Init => OwnInv
      BY SessionInit, OwnInit DEF OwnInv, SessionInv
<1>2. OwnInv => OwnAccounts
      BY DEF OwnInv, SessionInv, Listed, OwnTokens, OwnGrants, Mirrors, OwnAccounts, IsInjective
<1> QED BY <1>1, <1>2, OwnInvStep, PTL DEF Spec

----------------------------------------------------------------------------
(* The user a page shows.                                                  *)

(* The tokens that requests go by are the active user's.                   *)
LEMMA TokenOfActive ==
    ASSUME OwnInv
    PROVE  /\ token # None => token.user = active
           /\ \A i \in ActiveAccount : accounts[i].grant.user = active
BY DEF OwnInv, OwnTokens, OwnGrants, Mirrors, ActiveAccount

(* A page that goes elsewhere is the only one that may change the account. *)
LEMMA LeaveVoice ==
    ASSUME Types, Voice, NEW t \in Tab, NEW p \in PathName, Leave(t, p)
    PROVE  Voice'
<1>1. /\ \A s \in Tab : tab'[s] = IF s = t THEN Loaded(p) ELSE tab[s]
      /\ \A r \in Req : TabOf[r] \in Tab
      /\ \A r \in Req : req'[r] = IF TabOf[r] = t THEN Idle ELSE req[r]
      /\ \A s \in Tab \ behind' : s # t => s \notin behind /\ active' = active
      BY SessionAssumption DEF Leave, OfTab, Types, Pages, PageTypes
<1>2. Loaded(p).who = None /\ Idle.acc = None /\ Idle.stage = "idle"
      BY DEF Loaded, Idle
<1> QED BY <1>1, <1>2 DEF Voice

(* A request that ends leaves the page to nobody but its user.             *)
LEMMA EndsVoice ==
    ASSUME Types, Voice, NEW r \in Req, UNCHANGED <<active, behind>>,
           req' = [req EXCEPT ![r] = Idle],
           \A s \in Tab : \/ tab'[s].who = tab[s].who
                          \/ s = TabOf[r] /\ tab'[s].who # None /\ tab'[s].who = req[r].acc.user
                               /\ req[r].acc # None
    PROVE  Voice'
<1>1. /\ \A q \in Req : TabOf[q] \in Tab
      /\ \A q \in Req : req'[q] = IF q = r THEN Idle ELSE req[q]
      BY SessionAssumption DEF Types, Pages, PageTypes
<1>2. Idle.acc = None /\ Idle.stage = "idle"
      BY DEF Idle
<1> QED BY <1>1, <1>2 DEF Voice

LEMMA RejectVoice ==
    ASSUME Types, Voice, NEW r \in Req, Reject(r), UNCHANGED <<active, behind>>
    PROVE  Voice'
<1>1. \A s \in Tab : tab'[s].who = tab[s].who
  <2>1. tab \in [Tab -> TabRecord]
        BY DEF Types, Pages, PageTypes
  <2>2. tab' = tab \/ tab' = [tab EXCEPT ![TabOf[r]].stage = "ready"]
        BY DEF Reject, StopLoading
  <2> QED BY <2>1, <2>2 DEF TabRecord
<1> QED BY <1>1, EndsVoice DEF Reject

LEMMA ServedVoice ==
    ASSUME Types, Voice, NEW r \in Req, Served(r)
    PROVE  Voice'
<1>1. /\ req' = [req EXCEPT ![r] = Idle] /\ UNCHANGED <<active, behind>>
      /\ req[r].acc # None /\ req[r].acc \in Grant
      BY DEF Served, Accepted, storage, Types, Pages, PageTypes, ReqRecord, Pair
<1>2. req[r].acc.user # None
      BY <1>1, GrantShape, SessionAssumption
<1>3. \A s \in Tab : \/ tab'[s].who = tab[s].who
                     \/ s = TabOf[r] /\ tab'[s].who = req[r].acc.user
  <2>1. CASE ~req[r].profile
        BY <2>1 DEF Served
  <2>2. CASE req[r].profile
    <3> DEFINE u == req[r].acc.user
               t == TabOf[r]
    <3>1. /\ tab \in [Tab -> TabRecord] /\ t \in Tab
          /\ tab' = [tab EXCEPT ![t].stage = "ready", ![t].who = u]
          BY <2>2, SessionAssumption DEF Served, Types, Pages, PageTypes
    <3> HIDE DEF u, t
    <3>2. /\ \A s \in Tab : s # t => tab'[s] = tab[s]
          /\ tab'[t].who = u
          BY <3>1 DEF TabRecord
    <3> QED BY <3>2 DEF u, t
  <2> QED BY <2>1, <2>2
<1> QED BY <1>1, <1>2, <1>3, EndsVoice

LEMMA SignOutVoice ==
    ASSUME Types, Voice, NEW r \in Req, SignOut(r)
    PROVE  Voice'
<1>1. UNCHANGED active
      BY DEF SignOut
<1>2. CASE OnLogin(TabOf[r])
      BY <1>1, <1>2, RejectVoice DEF SignOut
<1>3. CASE ~OnLogin(TabOf[r])
      BY <1>3, LeaveVoice, SessionAssumption DEF SignOut, PathName
<1> QED BY <1>2, <1>3

LEMMA RequestVoice ==
    ASSUME VoiceInv, NEW r \in Req, Ask(r) \/ Progress(r) \/ NetworkFails(r)
    PROVE  Voice'
<1> USE DEF VoiceInv, OwnInv, SessionInv
<1>0. req \in [Req -> ReqRecord] /\ req[r] \in ReqRecord
      BY DEF Types, Pages, PageTypes
<1>1. CASE Ask(r)
  <2> DEFINE x == [Idle EXCEPT !.stage = "sent", !.acc = token]
  <2>1. /\ req' = [req EXCEPT ![r] = x] /\ UNCHANGED <<tab, active, behind>>
        /\ tab[TabOf[r]].who # None
        BY <1>1 DEF Ask, storage
  <2>2. x.stage = "sent" /\ x.acc = token
        BY DEF Idle
  <2> HIDE DEF x
  <2>3. \A q \in Req : req'[q] = IF q = r THEN x ELSE req[q]
        BY <2>1, <1>0
  <2> QED BY <2>1, <2>2, <2>3, TokenOfActive DEF Voice
<1>2. CASE Served(r)
      BY <1>2, ServedVoice
<1>3. CASE Unauthorized(r)
  <2>1. CASE token = None \/ refresh = None
        BY <1>3, <2>1, SignOutVoice DEF Unauthorized
  <2>2. CASE ~(token = None \/ refresh = None)
    <3>1. UNCHANGED <<tab, active, behind>> /\ Goes(r)
          BY <1>3, <2>2 DEF Unauthorized, storage, Goes
    <3>2. /\ \A q \in Req : q # r => req'[q] = req[q]
          /\ req'[r].stage = "refresh" /\ req[r].stage = "sent"
          /\ req'[r].profile = req[r].profile /\ req'[r].acc = req[r].acc
          BY <3>1, GoesRequest DEF Types, Pages
    <3> QED BY <3>1, <3>2 DEF Voice
  <2> QED BY <2>1, <2>2
<1>4. CASE RefreshFails(r)
      BY <1>4, SignOutVoice DEF RefreshFails
<1>5. CASE NetworkFails(r)
      BY <1>5, RejectVoice DEF NetworkFails
<1> QED BY <1>1, <1>2, <1>3, <1>4, <1>5 DEF Progress

LEMMA StartVoice ==
    ASSUME VoiceInv, NEW t \in Tab, Start(t)
    PROVE  Voice'
<1> USE DEF VoiceInv, OwnInv, SessionInv
<1> DEFINE tk == MirroredActive(token)
           x  == [Idle EXCEPT !.stage = "sent", !.profile = TRUE, !.acc = tk]
<1>1. /\ tab \in [Tab -> TabRecord] /\ req \in [Req -> ReqRecord]
      /\ UNCHANGED <<active, behind>>
      BY DEF Types, Pages, PageTypes, Start
<1>2. PICK r \in OfTab(t) :
        IF tk = None
        THEN tab' = [tab EXCEPT ![t].stage = "ready"] /\ UNCHANGED req
        ELSE /\ tab' = [tab EXCEPT ![t].stage = "profile"]
             /\ req' = [req EXCEPT ![r] = x]
      BY DEF Start
<1>3. tk # None => tk.user = active
      BY TokenOfActive, MirroredFrom
<1>4. x.stage = "sent" /\ x.profile /\ x.acc = tk
      BY DEF Idle
<1> HIDE DEF tk, x
<1>5. \A s \in Tab : tab'[s].who = tab[s].who
      BY <1>1, <1>2 DEF TabRecord
<1>6. \A q \in Req : req'[q] = req[q] \/ (q = r /\ req'[q] = x /\ tk # None)
      BY <1>1, <1>2
<1>7. \A q \in Req : TabOf[q] \in Tab
      BY SessionAssumption
<1> QED BY <1>1, <1>3, <1>4, <1>5, <1>6, <1>7 DEF Voice

LEMMA PageVoice ==
    ASSUME VoiceInv, NEW t \in Tab
    PROVE  /\ Start(t) \/ Redirect(t) \/ AddAccount(t) \/ Logout(t) \/ UserReloads(t) => Voice'
           /\ \A u \in User : Login(t, u) \/ switchAccount(t, u) => Voice'
<1> USE DEF VoiceInv, OwnInv, SessionInv, PathName
<1>1. tab[t].path \in PathName
      BY DEF Types, Pages, PageTypes, TabRecord
<1>2. Redirect(t) \/ AddAccount(t) \/ Logout(t) \/ UserReloads(t) => \E p \in PathName : Leave(t, p)
      BY <1>1 DEF Redirect, AddAccount, Logout, UserReloads
<1>3. \A u \in User : Login(t, u) \/ switchAccount(t, u) => \E p \in PathName : Leave(t, p)
      BY DEF Login, switchAccount
<1> QED BY <1>2, <1>3, LeaveVoice, StartVoice

LEMMA VoiceStep == VoiceInv /\ [Next]_vars => Voice'
<1> SUFFICES ASSUME VoiceInv, [Next]_vars PROVE Voice'
    OBVIOUS
<1>1. ASSUME (\E g \in Grant : Expire(g)) \/ Rest \/ UNCHANGED vars
      PROVE  Voice'
      BY <1>1, OtherSteps DEF VoiceInv, OwnInv, SessionInv, Rests, Voice
<1> QED BY <1>1, RequestVoice, PageVoice DEF Next

(* What a page asks goes with a token of the user it shows, unless another *)
(* page has changed the account since it was loaded.                       *)
THEOREM PagesSpeakAsShown == Spec => []SpeaksAsShown
<1>1. Init => VoiceInv
  <2>1. Init => Voice
        BY SessionAssumption DEF Init, Voice, Idle, Loaded
  <2> QED BY <2>1, SessionInit, OwnInit DEF VoiceInv, OwnInv, SessionInv
<1>2. VoiceInv /\ [Next]_vars => VoiceInv'
      BY OwnInvStep, VoiceStep DEF VoiceInv
<1>3. VoiceInv => SpeaksAsShown
      BY SessionAssumption DEF VoiceInv, Voice, SpeaksAsShown
<1> QED BY <1>1, <1>2, <1>3, PTL DEF Spec
=============================================================================

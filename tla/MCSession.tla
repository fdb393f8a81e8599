------------------------------ MODULE MCSession ------------------------------
(* Instances of Session for TLC: two users, two pages, and one request at  *)
(* a time in each page.                                                    *)
EXTENDS Session, TLC

CONSTANTS ann, bea, p1, p2, x1, y1

MCTabOf == (x1 :> p1) @@ (y1 :> p2)

MCMaxGrant == (ann :> 2) @@ (bea :> 1)

(* Grants that nothing names any more make no difference.                  *)
Known ==
    {token, refresh} \cup {accounts[i].grant : i \in DOMAIN accounts} \cup {req[r].acc : r \in Req}

MCView == <<token, refresh, active, accounts, tab, req, issued, behind, faults, quiet,
            expired \cap Known>>
=============================================================================

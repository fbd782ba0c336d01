-------------------------- MODULE MC_TankLifecycle --------------------------
(***************************************************************************)
(* One account A1 pays for up to two tanks of asset X.                     *)
(*                                                                         *)
(* Tank A: emergency tap 0 to A1; tap 1 (review, reconnectable) through    *)
(* meter 0 to A1.  Tank B: emergency tap 0; tap 1 (cumulative, fixed)     *)
(* into tank 1.  A third create has no tap at all.  The updates of tank  *)
(* 1 replace, add and remove taps and attachments; one replaces tap 2     *)
(* before tap 2 exists.  tap_connect                                       *)
(* moves tap 1, disconnects it, or fixes the emergency tap; queries       *)
(* create review requests.  Deposits: 1 per tank, per attachment type and *)
(* per requirement type, plus 1 for state; reviews cost 1 flat.            *)
(***************************************************************************)
EXTENDS TankLifecycle

X == "X"

ETap == [conn |-> AccountConn("A1"), openAuth |-> TRUE, connectAuth |-> TRUE, reqs |-> <<>>,
         destructor |-> TRUE]

Tap(conn, reqs, connectAuth) ==
    [conn |-> conn, openAuth |-> TRUE, connectAuth |-> connectAuth, reqs |-> reqs, destructor |-> FALSE]

Review(reviewer) == [type |-> "review", limit |-> 1, reviewer |-> reviewer]
Cumulative == [type |-> "cumulative", limit |-> 2]
Meter(dest) == [type |-> "meter", asset |-> X, dest |-> dest, sources |-> AllSources, resetAuth |-> TRUE]

Create(asset, taps, atts) ==
    LET c == [payer |-> "A1", asset |-> asset, sources |-> AllSources, taps |-> taps, atts |-> atts]
    IN  [deposit |-> CalculateDeposit(FromCreateOperation(c))] @@ c

Update(t, tr, tadd, trep, ar, aadd) ==
    [tank |-> t, payer |-> "A1", tapsRemove |-> tr, tapsAdd |-> tadd, tapsReplace |-> trep,
     attsRemove |-> ar, attsAdd |-> aadd, attsReplace |-> <<>>, sources |-> NoSources]

MCCreateOps ==
    {Create(X, <<ETap, Tap(AttConn(NoTank, 0), <<Review("K1")>>, TRUE)>>, <<Meter(AccountConn("A1"))>>),
     Create(X, <<ETap, Tap(TankConn(1), <<Cumulative>>, FALSE)>>, <<>>),
     Create(X, <<>>, <<>>)}

MCUpdateOps ==
    {Update(1, {}, <<>>, 1 :> Tap(AccountConn("A1"), <<Cumulative>>, TRUE), {}, <<>>),
     Update(1, {}, <<Tap(AttConn(NoTank, 0), <<>>, TRUE)>>, <<>>, {}, <<>>),
     Update(1, {1}, <<>>, <<>>, {}, <<>>),
     Update(1, {}, <<>>, 2 :> Tap(AccountConn("A1"), <<Review("K2")>>, TRUE), {}, <<>>),
     Update(1, {}, <<>>, <<>>, {0}, <<>>)}

MCDeleteOps == {[tank |-> t, payer |-> "A1"] : t \in Tanks}

MCConnectOps ==
    {[tank |-> 1, tap |-> 1, conn |-> AccountConn("A1"), clear |-> FALSE],
     [tank |-> 1, tap |-> 1, conn |-> NoConn, clear |-> FALSE],
     [tank |-> 1, tap |-> 1, conn |-> NoConn, clear |-> TRUE],
     [tank |-> 1, tap |-> 0, conn |-> AccountConn("A1"), clear |-> TRUE]}

MCQueryOps ==
    {[tank |-> 1, queries |-> <<[kind |-> "create_review", addr |-> ReqAddr(k, 1), amount |-> 1]>>] :
        k \in {1, 2}}

MCInitCore == [a \in Accounts |-> 8]

MCOverrides == [review |-> 1]

====

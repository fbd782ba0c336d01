------------------------------ MODULE MC_Faults ------------------------------
(***************************************************************************)
(* Small tank configurations, one per requirement or connection feature,  *)
(* each with the operations that exercise it.  Every configuration is one *)
(* a user can create: tap 0 is an emergency tap without requirements, and *)
(* every schematic passes the validator's checks.  The tanks store CORE,   *)
(* the only asset a tap flow can carry, except in the last scenario.      *)
(***************************************************************************)
EXTENDS TapFlow

X == "X"

Core == CoreAsset

Emergency(acct) == [conn |-> AccountConn(acct), openAuth |-> TRUE, reqs |-> <<>>, destructor |-> TRUE]

Tap(conn, reqs) == [conn |-> conn, openAuth |-> TRUE, reqs |-> reqs, destructor |-> FALSE]

Tank(balance, sources, taps, atts) ==
    [schematic |-> [asset |-> Core, sources |-> sources, taps |-> taps, atts |-> atts],
     balance |-> balance, deposit |-> 1, states |-> <<>>]

OneTank(tank) == [t \in Tanks |-> tank]

Open(t, tap, amount, count, queries) ==
    [tank |-> t, tap |-> tap, amount |-> amount, count |-> count, queries |-> queries,
     claim |-> NoClaim, payer |-> CHOOSE a \in Accounts : TRUE]

Query(t, queries) == [tank |-> t, queries |-> queries]

OneEach == [a \in Accounts |-> 1]

NoOps == {}

(***************************************************************************)
(* Time lock: T1's tap 1 is locked until time 1 (start_locked, one switch *)
(* time at 1), as in the spec's HTLC scenario.                             *)
(***************************************************************************)
TLTanks ==
    OneTank(Tank(2, AllSources,
                 (0 :> Emergency("A1")) @@
                 (1 :> Tap(AccountConn("A2"),
                           <<[type |-> "time_lock", startLocked |-> TRUE, times |-> <<1>>]>>)),
                 <<>>))
TLOpen == {Open("T1", 1, 1, 1, <<>>)}

(***************************************************************************)
(* Delay: T1's tap 1 needs a matured delay request (delay 1, vetoable).   *)
(***************************************************************************)
DLTanks ==
    OneTank(Tank(2, AllSources,
                 (0 :> Emergency("A1")) @@
                 (1 :> Tap(AccountConn("A2"),
                           <<[type |-> "delay", limit |-> 1, delay |-> 1, veto |-> TRUE]>>)),
                 <<>>))
DLQuery == {Query("T1", <<[kind |-> "create_delay", addr |-> ReqAddr(1, 1), amount |-> 1]>>)}
DLOpen  == {Open("T1", 1, Unlimited, 1,
                 <<[kind |-> "consume_delay", addr |-> ReqAddr(1, 1), id |-> 0]>>)}

(***************************************************************************)
(* Review: T1's tap 1 needs reviewed requests, at most RVLimit pending.   *)
(***************************************************************************)
RVTanks(limit) ==
    OneTank(Tank(3, AllSources,
                 (0 :> Emergency("A1")) @@
                 (1 :> Tap(AccountConn("A2"), <<[type |-> "review", limit |-> limit, reviewer |-> "K1"]>>)),
                 <<>>))
CreateReview(amount) == [kind |-> "create_review", addr |-> ReqAddr(1, 1), amount |-> amount]
Approve(id) == [kind |-> "review", addr |-> ReqAddr(1, 1), id |-> id, approved |-> TRUE]
Consume(id) == [kind |-> "consume_review", addr |-> ReqAddr(1, 1), id |-> id]

(* Two requests created by one tank_query.                                 *)
RLTanks == RVTanks(1)
RLQuery == {Query("T1", <<CreateReview(1), CreateReview(1)>>)}

(* One request of 1, consumed twice by one tap_open.                       *)
DCTanks == RVTanks(2)
DCQuery == {Query("T1", <<CreateReview(1)>>), Query("T1", <<Approve(0)>>)}
DCOpen  == {Open("T1", 1, Unlimited, 1, <<Consume(0), Consume(0)>>)}

(***************************************************************************)
(* Negative request: T1's reviewed tap 1 flows into T2.                    *)
(***************************************************************************)
NRTanks ==
    [t \in Tanks |->
        IF t = "T1"
        THEN Tank(1, AllSources,
                  (0 :> Emergency("A1")) @@
                  (1 :> Tap(TankConn("T2"), <<[type |-> "review", limit |-> 1, reviewer |-> "K1"]>>)),
                  <<>>)
        ELSE Tank(1, AllSources, (0 :> Emergency("A2")), <<>>)]
NRQuery == {Query("T1", <<CreateReview(-2)>>), Query("T1", <<Approve(0)>>)}
NROpen  == {Open("T1", 1, Unlimited, 1, <<Consume(0)>>)}

(***************************************************************************)
(* Hash: T1's tap 1 (hash K1) flows into an opener on T2 that opens T2's  *)
(* tap 1, gated by a different hash K2.                                    *)
(***************************************************************************)
HXTanks ==
    [t \in Tanks |->
        IF t = "T1"
        THEN Tank(2, AllSources,
                  (0 :> Emergency("A1")) @@
                  (1 :> Tap(AttConn("T2", 1), <<[type |-> "hash", key |-> "K1"]>>)),
                  <<>>)
        ELSE Tank(2, AllSources,
                  (0 :> Emergency("A2")) @@
                  (1 :> Tap(AccountConn("A2"), <<[type |-> "hash", key |-> "K2"]>>)),
                  (1 :> [type |-> "opener", asset |-> Core, tap |-> 1, release |-> 1,
                         dest |-> AccountConn("A1"), sources |-> AllSources]))]
HXOpen == {Open("T1", 1, 1, 2, <<[kind |-> "reveal", addr |-> ReqAddr(1, 1), key |-> "K1"]>>)}

(***************************************************************************)
(* Exchange: T1's tap 1 releases 1 per unit metered by T1's meter 1, which *)
(* accounts fund; the meter can be reset.                                  *)
(***************************************************************************)
EXTanks ==
    OneTank(Tank(3, AllSources,
                 (0 :> Emergency("A1")) @@
                 (1 :> Tap(AccountConn("A2"),
                           <<[type |-> "exchange", meter |-> [tank |-> NoTank, idx |-> 1],
                              perTick |-> 1, tick |-> 1, resetAuth |-> TRUE]>>)),
                 (1 :> [type |-> "meter", asset |-> Core, dest |-> AccountConn("A1"),
                        sources |-> AllSources, resetAuth |-> TRUE])))
EXFund  == {[account |-> "A1", conn |-> AttConn("T1", 1), amount |-> 1, asset |-> Core]}
EXOpen  == {Open("T1", 1, Unlimited, 1, <<>>)}
EXQuery == {Query("T1", <<[kind |-> "reset_meter", addr |-> AttAddr(1)]>>)}

(***************************************************************************)
(* Source restriction: T2's tap 1 flows through T2's meter 1 (open to all) *)
(* into T1's meter 1, which accepts deposits from account A1 only.        *)
(***************************************************************************)
SRTanks ==
    [t \in Tanks |->
        IF t = "T1"
        THEN Tank(0, AllSources, (0 :> Emergency("A1")),
                  (1 :> [type |-> "meter", asset |-> Core, dest |-> AccountConn("A1"),
                         sources |-> {AccountConn("A1")}, resetAuth |-> TRUE]))
        ELSE Tank(2, AllSources,
                  (0 :> Emergency("A2")) @@ (1 :> Tap(AttConn("T2", 1), <<>>)),
                  (1 :> [type |-> "meter", asset |-> Core, dest |-> AttConn("T1", 1),
                         sources |-> AllSources, resetAuth |-> TRUE]))]
SROpen == {Open("T2", 1, 1, 1, <<>>)}

(***************************************************************************)
(* Core payout: T1 stores asset X and its tap 1 pays A2, as the HTLC tank *)
(* of the spec's scenario 1 pays its recipient.                            *)
(***************************************************************************)
CPTanks ==
    OneTank([Tank(2, AllSources, (0 :> Emergency("A1")) @@ (1 :> Tap(AccountConn("A2"), <<>>)), <<>>)
                EXCEPT !.schematic.asset = X])
CPOpen == {Open("T1", 1, 1, 1, <<>>)}

=============================================================================

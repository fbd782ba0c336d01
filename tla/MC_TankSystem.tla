---------------------------- MODULE MC_TankSystem ----------------------------
(***************************************************************************)
(* Account A1 holds 9 CORE; A2 receives.   Up to two tanks of CORE, the   *)
(* asset every tap flow carries, are created, both with a destructor      *)
(* emergency tap 0 paying A2.                                              *)
(*   tank 1: tap 1, review-gated (reviewer K1) and reconnectable, through *)
(*           meter 0 to A2; attachment 1 may reconnect meter 0;            *)
(*   tank 2: tap 1, cumulative limit 2, into tank 1.                      *)
(* The update replaces tank 1's tap 1 by a tap into tank 2 reviewed by K2: *)
(* same accessory kinds, so the same deposit, and a cycle 1 -> 2 -> 1.    *)
(* tap_connect sends tank 1's tap 1 to A2.  Either tank may be deleted    *)
(* while the other's tap still names it, or destroyed by its destructor   *)
(* tap, empty or not; one destruction claims a wrong deposit.  A1 funds  *)
(* either tank; queries create and approve a review request, and point    *)
(* meter 0 at tank 2 or at itself, a loop no validator sees.              *)
(* Updates that change a deposit are left to MC_TankLifecycle, since      *)
(* tank_update moves such a deposit twice (Fault_DepositUpdate.cfg).      *)
(***************************************************************************)
EXTENDS TankSystem, TLC

Core == CoreAsset

Types == INSTANCE TankTypes

AccountConn(a) == Types!AccountConn(a)
TankConn(t)    == Types!TankConn(t)
AttConn(t, i)  == Types!AttConn(t, i)

ETap == [conn |-> AccountConn("A2"), openAuth |-> TRUE, connectAuth |-> TRUE, reqs |-> <<>>,
         destructor |-> TRUE]

Tap(conn, reqs, connectAuth) ==
    [conn |-> conn, openAuth |-> TRUE, connectAuth |-> connectAuth, reqs |-> reqs, destructor |-> FALSE]

Review(reviewer) == [type |-> "review", limit |-> 1, reviewer |-> reviewer]
Cumulative == [type |-> "cumulative", limit |-> 2]
Meter(dest) == [type |-> "meter", asset |-> Core, dest |-> dest, sources |-> AllSources, resetAuth |-> TRUE]

(* The deposits are calculate_deposit's: tank 1 pays 1 for the tank, 2   *)
(* for its meter (stateful), 1 for the connect authority and 1 for review *)
(* (overridden); tank 2 pays 1 for the tank and 2 for its cumulative      *)
(* limit (stateful).                                                       *)
Create(deposit, taps, atts) ==
    [deposit |-> deposit, payer |-> "A1", asset |-> Core, sources |-> AllSources, taps |-> taps, atts |-> atts]

Create1 == Create(5, <<ETap, Tap(AttConn(NoTank, 0), <<Review("K1")>>, TRUE)>>,
                    <<Meter(AccountConn("A2")), [type |-> "connect_auth", target |-> 0]>>)
Create2 == Create(3, <<ETap, Tap(TankConn(1), <<Cumulative>>, FALSE)>>, <<>>)

MCCreateOps == {Create1, Create2}

MCUpdateOps ==
    {[tank |-> 1, payer |-> "A1", tapsRemove |-> {}, tapsAdd |-> <<>>,
      tapsReplace |-> 1 :> Tap(TankConn(2), <<Review("K2")>>, TRUE),
      attsRemove |-> {}, attsAdd |-> <<>>, attsReplace |-> <<>>, sources |-> NoSources]}

MCDeleteOps == {[tank |-> t, payer |-> "A1"] : t \in 1..MaxTanks}

MCConnectOps == {[tank |-> 1, tap |-> 1, conn |-> AccountConn("A2"), clear |-> FALSE]}

Open(t, tap, amount, queries) ==
    [tank |-> t, tap |-> tap, amount |-> amount, count |-> 1, queries |-> queries,
     claim |-> NoClaim, payer |-> "A1"]

Destroy(t, amount, claim) ==
    [tank |-> t, tap |-> 0, amount |-> amount, count |-> 1, queries |-> <<>>,
     claim |-> claim, payer |-> "A1"]

MCOpenOps ==
    {Open(1, 1, Unlimited, <<[kind |-> "consume_review", addr |-> Types!ReqAddr(1, 1), id |-> 0]>>),
     Open(2, 1, Unlimited, <<>>),
     Open(1, 0, 1, <<>>),
     Destroy(1, 0, Create1.deposit),
     Destroy(2, Unlimited, Create2.deposit),
     Destroy(2, Unlimited, 1)}

MCFundOps ==
    {[account |-> "A1", conn |-> TankConn(t), amount |-> 1, asset |-> Core] : t \in 1..MaxTanks}

MCQueryOps ==
    {[tank |-> 1, queries |-> <<[kind |-> "create_review", addr |-> Types!ReqAddr(1, 1), amount |-> 1]>>],
     [tank |-> 1, queries |-> <<[kind |-> "review", addr |-> Types!ReqAddr(1, 1), id |-> 0, approved |-> TRUE]>>],
     [tank |-> 1, queries |-> <<[kind |-> "reconnect", addr |-> Types!AttAddr(1), conn |-> AttConn(NoTank, 0)]>>],
     [tank |-> 1, queries |-> <<[kind |-> "reconnect", addr |-> Types!AttAddr(1), conn |-> TankConn(2)]>>]}

MCInitCore == [a \in Accounts |-> IF a = "A1" THEN 9 ELSE 0]

MCInitAccounts == [a \in Accounts |-> 0]

MCOverrides == [review |-> 1]

=============================================================================

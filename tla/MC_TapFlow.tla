----------------------------- MODULE MC_TapFlow -----------------------------
(***************************************************************************)
(* Two tanks of CORE, the asset every tap flow carries, and two accounts,  *)
(* each holding 1 CORE and 1 of an asset X.                                *)
(*                                                                         *)
(* T1 holds 3.  Tap 1 (cumulative limit 2) releases into meter 1, whose    *)
(* destination is opener 2 (implicit tank id); the opener opens T1's tap 2 *)
(* for 1 and passes the flow on to A2.  Tap 2 (periodic limit 1 per 2     *)
(* time units) releases into T2, which accepts deposits from T1 only.     *)
(* Tap 3 releases into meter 3, which feeds meter 1: a chain of three     *)
(* hops, one more than max_connection_chain_length allows.                *)
(* T2 holds 1.  Tap 1 needs a reviewed request (request limit 1) and      *)
(* releases back into T1.  T1's emergency tap pays A1; T2's flows back    *)
(* into T2 itself.                                                         *)
(***************************************************************************)
EXTENDS TapFlow

X == "X"

Core == CoreAsset

Emergency(acct) == [conn |-> AccountConn(acct), openAuth |-> TRUE, reqs |-> <<>>, destructor |-> TRUE]

MCInitTanks ==
    [t \in Tanks |->
        IF t = "T1"
        THEN [schematic |->
                [asset   |-> Core,
                 sources |-> AllSources,
                 taps    |-> (0 :> Emergency("A1")) @@
                             (1 :> [conn |-> AttConn(NoTank, 1), openAuth |-> TRUE, destructor |-> FALSE,
                                    reqs |-> <<[type |-> "cumulative", limit |-> 2]>>]) @@
                             (2 :> [conn |-> TankConn("T2"), openAuth |-> FALSE, destructor |-> FALSE,
                                    reqs |-> <<[type |-> "periodic", limit |-> 1, period |-> 2]>>]) @@
                             (3 :> [conn |-> AttConn(NoTank, 3), openAuth |-> TRUE, destructor |-> FALSE,
                                    reqs |-> <<>>]),
                 atts    |-> (1 :> [type |-> "meter", asset |-> Core, dest |-> AttConn(NoTank, 2),
                                    sources |-> AllSources, resetAuth |-> TRUE]) @@
                             (2 :> [type |-> "opener", asset |-> Core, tap |-> 2, release |-> 1,
                                    dest |-> AccountConn("A2"), sources |-> AllSources]) @@
                             (3 :> [type |-> "meter", asset |-> Core, dest |-> AttConn("T1", 1),
                                    sources |-> AllSources, resetAuth |-> TRUE])],
              balance |-> 3, deposit |-> 1, states |-> <<>>]
        ELSE [schematic |->
                [asset   |-> Core,
                 sources |-> {TankConn("T1")},
                 taps    |-> (0 :> [Emergency("A2") EXCEPT !.conn = SameTank]) @@
                             (1 :> [conn |-> TankConn("T1"), openAuth |-> TRUE, destructor |-> FALSE,
                                    reqs |-> <<[type |-> "review", limit |-> 1, reviewer |-> "K1"]>>]),
                 atts    |-> <<>>],
              balance |-> 1, deposit |-> 1, states |-> <<>>]]

MCInitAccounts == [a \in Accounts |-> 1]

MCInitCore == [a \in Accounts |-> 1]

Open(t, tap, amount, count, queries) ==
    [tank |-> t, tap |-> tap, amount |-> amount, count |-> count, queries |-> queries,
     claim |-> NoClaim, payer |-> "A1"]

Destroy(t, tap, amount) ==
    [tank |-> t, tap |-> tap, amount |-> amount, count |-> 1, queries |-> <<>>,
     claim |-> 1, payer |-> "A2"]

MCOpenOps ==
    {Open("T1", 1, Unlimited, 2, <<>>),
     Open("T1", 1, 1, 2, <<>>),
     Open("T1", 2, 1, 1, <<>>),
     Open("T2", 1, Unlimited, 1, <<[kind |-> "consume_review", addr |-> ReqAddr(1, 1), id |-> 0]>>),
     Open("T1", 3, 1, 2, <<>>),
     Open("T2", 0, 1, 1, <<>>),
     Destroy("T1", 0, Unlimited),
     Destroy("T1", 0, 1),
     Destroy("T2", 0, 0)}

MCFundOps ==
    {[account |-> "A1", conn |-> TankConn("T2"), amount |-> 1, asset |-> Core],
     [account |-> "A2", conn |-> AttConn("T1", 1), amount |-> 1, asset |-> Core],
     [account |-> "A1", conn |-> TankConn("T1"), amount |-> 1, asset |-> Core],
     [account |-> "A2", conn |-> TankConn("T1"), amount |-> 1, asset |-> X]}

MCQueryOps ==
    {[tank |-> "T2", queries |-> <<[kind |-> "create_review", addr |-> ReqAddr(1, 1), amount |-> 2]>>],
     [tank |-> "T2", queries |-> <<[kind |-> "review", addr |-> ReqAddr(1, 1), id |-> 0, approved |-> TRUE]>>],
     [tank |-> "T1", queries |-> <<[kind |-> "reset_meter", addr |-> AttAddr(1)]>>]}

=============================================================================

------------------------- MODULE MC_LifecycleFaults -------------------------
(***************************************************************************)
(* Small tank lifecycles, one per rule of the spec that tank_create,       *)
(* tank_update or tap_connect is to keep, each with the operations that    *)
(* exercise it.  Every created schematic passes the chain's validator.     *)
(***************************************************************************)
EXTENDS MC_TankLifecycle

Y == "Y"

NoOps == {}

MeterTo(asset, dest) ==
    [type |-> "meter", asset |-> asset, dest |-> dest, sources |-> AllSources, resetAuth |-> TRUE]

(* Deposit update: tank 1's tap 1 is removed, which lowers its deposit.    *)
DUCreate == {Create(X, <<ETap, Tap(AccountConn("A1"), <<Cumulative>>, TRUE)>>, <<>>)}
DUUpdate == {Update(1, {1}, <<>>, <<>>, {}, <<>>)}

(* Deposit kinds: two taps with a cumulative limit, through two meters.    *)
DKCreate ==
    {Create(X, <<ETap, Tap(AttConn(NoTank, 0), <<Cumulative>>, TRUE),
                       Tap(AttConn(NoTank, 1), <<Cumulative>>, TRUE)>>,
               <<MeterTo(X, AccountConn("A1")), MeterTo(X, AccountConn("A1"))>>)}

(* Chain context: tank 1's meter 0 forwards to its meter 1 by an id      *)
(* without a tank; tank 2 adds a tap into tank 1's meter 0.                *)
CTCreate ==
    {Create(X, <<ETap>>, <<MeterTo(X, AttConn(NoTank, 1)), MeterTo(X, AccountConn("A1"))>>),
     Create(X, <<ETap>>, <<>>)}
CTUpdate == {Update(2, {}, <<Tap(AttConn(1, 0), <<>>, FALSE)>>, <<>>, {}, <<>>)}

(* Unchecked connect: tank 1's meters 0 -> 1 -> 2 -> A1; tap 1 starts at   *)
(* meter 1 (two hops) and is reconnected to meter 0 (three).               *)
UCCreate ==
    {Create(X, <<ETap, Tap(AttConn(NoTank, 1), <<>>, TRUE)>>,
               <<MeterTo(X, AttConn(NoTank, 1)), MeterTo(X, AttConn(NoTank, 2)),
                 MeterTo(X, AccountConn("A1"))>>)}
UCConnect == {[tank |-> 1, tap |-> 1, conn |-> AttConn(NoTank, 0), clear |-> FALSE]}

(* Emergency connect: the emergency tap's connect authority is cleared.    *)
ECCreate  == {Create(X, <<ETap>>, <<>>)}
ECConnect == {[tank |-> 1, tap |-> 0, conn |-> AccountConn("A1"), clear |-> TRUE]}

(* Stale state: tap 2 is put in place by a replacement before the tap      *)
(* counter reaches it, gets a review request, then an added tap lands on   *)
(* index 2.                                                                *)
SSCreate == {Create(X, <<ETap, Tap(AccountConn("A1"), <<>>, TRUE)>>, <<>>)}
SSUpdate ==
    {Update(1, {}, <<>>, 2 :> Tap(AccountConn("A1"), <<Review("K2")>>, TRUE), {}, <<>>),
     Update(1, {}, <<Tap(AccountConn("A1"), <<Cumulative>>, TRUE)>>, <<>>, {}, <<>>)}
SSQuery == {[tank |-> 1, queries |-> <<[kind |-> "create_review", addr |-> ReqAddr(2, 1), amount |-> 1]>>]}

(* Reconnect: tank 1's tap 1 flows through meter 0 to A1, and attachment *)
(* 1 may reconnect meter 0; a reconnect_attachment query points meter 0  *)
(* at itself.                                                              *)
RCCreate ==
    {Create(X, <<ETap, Tap(AttConn(NoTank, 0), <<>>, TRUE)>>,
               <<MeterTo(X, AccountConn("A1")), [type |-> "connect_auth", target |-> 0]>>)}
RCQuery ==
    {[tank |-> 1, queries |-> <<[kind |-> "reconnect", addr |-> AttAddr(1), conn |-> AttConn(NoTank, 0)]>>]}

(* Self reference: tank 1 gains a tap into its own meter 0 named by its   *)
(* explicit id, then an update removes meter 0.                            *)
SRCreate == {Create(X, <<ETap>>, <<MeterTo(X, AccountConn("A1"))>>)}
SRUpdate ==
    {Update(1, {}, <<Tap(AttConn(1, 0), <<>>, FALSE)>>, <<>>, {}, <<>>),
     Update(1, {}, <<>>, <<>>, {0}, <<>>)}

(* Remote attachment: tank 2's tap 1 releases into meter 0 of tank 1.      *)
RACreate ==
    {Create(X, <<ETap>>, <<MeterTo(X, AccountConn("A1"))>>),
     Create(X, <<ETap, Tap(AttConn(1, 0), <<>>, FALSE)>>, <<>>)}

====

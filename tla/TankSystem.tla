----------------------------- MODULE TankSystem -----------------------------
(***************************************************************************)
(* The Tanks and Taps operations on one database: the evaluators of        *)
(* chain/tnt/evaluators.hpp, tank_create, tank_update, tank_delete and     *)
(* tap_connect (TankLifecycle) with tap_open, account_fund_connection and  *)
(* tank_query (TapFlow).  Both modules work on the same tank objects, the *)
(* same set of existing tanks and the same CORE balances, which pay and   *)
(* refund deposits.                                                        *)
(*                                                                         *)
(* The chain applies one operation at a time: a lifecycle operation is one *)
(* step, taken only between the steps of a tap_open or                    *)
(* account_fund_connection.  Tanks come into being with balance 0; asset  *)
(* enters them through account_fund_connection and tap flows, and leaves  *)
(* through tap flows.  A tank is removed by tank_delete or by its          *)
(* destructor tap, and other tanks' connections may still name it.         *)
(***************************************************************************)
EXTENDS Integers

CONSTANTS
    Unlimited, AllSources, NoTank, NoConn, NoSources, NoClaim,
    Accounts,            \* account ids
    InitCore,            \* [Accounts -> Nat]: CORE balances, which pay deposits
    InitAccounts,        \* [Accounts -> Int]: balances of the one asset besides CORE
    CoreAsset,           \* asset_id_type(), CORE
    MaxTanks,            \* number of tank ids handed out
    TapIds,              \* the tap ids the candidate operations create
    MaxTaps, MaxChain, MaxTime, MaxValue,
    TankDeposit, AttachmentDeposit, RequirementDeposit, StatefulPremium, OverrideDeposits,
    CreateOps, UpdateOps, DeleteOps, ConnectOps,
    OpenOps, FundOps, QueryOps

VARIABLES now, tanks, accounts, written, op, live, core, released, nextId

vars == <<now, tanks, accounts, written, op, live, core, released, nextId>>

Lifecycle == INSTANCE TankLifecycle

(* Before any tank exists: every id holds the absent object, with the tap *)
(* ids whose release history TapFlow keeps.                                *)
NoTanks == [t \in 1..MaxTanks |-> [Lifecycle!Absent EXCEPT !.schematic.taps = [k \in TapIds |-> NoConn]]]

Flow == INSTANCE TapFlow WITH Tanks <- 1..MaxTanks, InitTanks <- NoTanks

Init ==
    /\ Lifecycle!Init
    /\ now = 0
    /\ accounts = InitAccounts
    /\ written = Flow!NoWrites
    /\ op = Flow!Idle
    /\ released = [k \in Flow!TapKeys |-> [s \in 0..MaxTime |-> 0]]

(* A lifecycle evaluator runs between operations, and does not touch the  *)
(* asset balances of accounts, time or the release history.                *)
Between(A) ==
    /\ op = Flow!Idle
    /\ A
    /\ UNCHANGED <<now, accounts, written, op, released>>

(* One disjunct per evaluator of evaluators.hpp.  tank_query is TapFlow's, *)
(* which reads the block time.                                            *)
Next ==
    \/ Flow!Next /\ UNCHANGED nextId
    \/ Between(\E c \in CreateOps : Lifecycle!TankCreate(c))
    \/ Between(\E u \in UpdateOps : Lifecycle!TankUpdate(u))
    \/ Between(\E d \in DeleteOps : Lifecycle!TankDelete(d))
    \/ Between(\E c \in ConnectOps : Lifecycle!TapConnect(c))

Spec == Init /\ [][Next]_vars

(* The steps inside a tap_open or account_fund_connection are weakly fair, *)
(* as in TapFlow: do_evaluate runs its loops to the end or throws.         *)
(* Submitting any operation, lifecycle ones included, is not.              *)
Fairness ==
    /\ WF_vars(Flow!FlowOpen /\ UNCHANGED nextId)
    /\ WF_vars(Flow!FlowHop /\ UNCHANGED nextId)
    /\ WF_vars(Flow!FlowDeposit /\ UNCHANGED nextId)
    /\ WF_vars(Flow!TapOpenCommit /\ UNCHANGED nextId)
    /\ WF_vars(Flow!FundCommit /\ UNCHANGED nextId)

FairSpec == Spec /\ Fairness

-----------------------------------------------------------------------------
(* CORE moves as the abstract ledger allows over the whole life of the    *)
(* tanks, deposits included: tank_create and tank_delete only move a      *)
(* deposit between the payer and the tank and touch no balance, so only  *)
(* an empty tank is deleted; a deposit is refunded whole, once, whichever *)
(* of tank_delete and a destructor tap (tap_open_evaluator::do_apply,     *)
(* which pays the claimed deposit) removes the tank; and a flow whose     *)
(* connection still names a removed tank (tank_delete and the destructor  *)
(* tap leave such connections in place) fails instead of crediting it.   *)
LedgerRefinement == Flow!LedgerRefinement

(* Every started tap_open and account_fund_connection ends, committed or  *)
(* rejected, also once tank_delete, a destructor tap or tank_update has   *)
(* removed what a connection names, and once reconnect_attachment has     *)
(* turned a meter into a loop that no validator saw: the hop loop of      *)
(* release_to_connection ends at max_connection_chain_length, and a flow  *)
(* into a removed tank throws.                                             *)
OperationCompletes == Flow!OperationCompletes

(* A review approval outlives no change of reviewer: every approved       *)
(* request is the current reviewer's, across tank_update replacing the    *)
(* review-gated tap and tap_open consuming approvals                      *)
(* (tank_update_evaluator::do_apply clear_tap_state).                     *)
ApprovalsByCurrentReviewer == Lifecycle!ApprovalsByCurrentReviewer

=============================================================================

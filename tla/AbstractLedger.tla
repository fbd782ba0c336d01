--------------------------- MODULE AbstractLedger ---------------------------
(***************************************************************************)
(* What the TNT operations promise about one asset, with the cascade of   *)
(* tap flows, the copy-on-write buffer and the callbacks abstracted away:  *)
(* an operation is one atomic move of the asset between tanks, accounts   *)
(* and the deposits tanks hold.                                            *)
(*   - the asset is neither created nor destroyed;                         *)
(*   - a tank never goes negative;                                         *)
(*   - asset leaves a tank only through its own taps, and every release   *)
(*     is recorded against the tap at the current block time;             *)
(*   - at most one account (the funder of account_fund_connection) loses  *)
(*     asset; every other account only receives;                          *)
(*   - a deposit is refunded only whole;                                   *)
(*   - creating, updating or deleting a tank moves the asset only between *)
(*     one account and the deposits, and touches no tank balance.          *)
(* Block time only moves forward, between operations.                     *)
(***************************************************************************)
EXTENDS Integers, FiniteSets, Functions

CONSTANTS
    Tanks,       \* tank ids
    Accounts,    \* account ids
    TapKeys,     \* <<tank, tap>> pairs
    MaxTime,     \* bound on block time
    InitBal,     \* [Tanks -> Int]
    InitAcc,     \* [Accounts -> Int]
    InitDep      \* [Tanks -> Int]

VARIABLES
    bal,    \* tank balances
    acc,    \* account balances
    dep,    \* the deposits the tanks hold
    rel,    \* [TapKeys -> [0..MaxTime -> Int]]: asset released per tap and time
    time    \* block time

vars == <<bal, acc, dep, rel, time>>

Total(b, a, d) == SumFunction(b) + SumFunction(a) + SumFunction(d)

(* What the taps of tank t released at the current time in this step.      *)
ReleasedFrom(t) ==
    SumFunction([k \in {k \in TapKeys : k[1] = t} |-> rel'[k][time] - rel[k][time]])

Init ==
    /\ bal = InitBal
    /\ acc = InitAcc
    /\ dep = InitDep
    /\ rel = [k \in TapKeys |-> [s \in 0..MaxTime |-> 0]]
    /\ time = 0

(* One operation, applied atomically.                                      *)
Move ==
    /\ Total(bal', acc', dep') = Total(bal, acc, dep)
    /\ \A t \in Tanks : dep'[t] \in {dep[t], 0}
    /\ \A t \in Tanks : bal'[t] >= 0
    /\ \A k \in TapKeys : \A s \in 0..MaxTime :
          /\ rel'[k][s] >= rel[k][s]
          /\ s # time => rel'[k][s] = rel[k][s]
    /\ \A t \in Tanks : bal[t] - bal'[t] <= ReleasedFrom(t)
    /\ \E funder \in Accounts : \A a \in Accounts \ {funder} : acc'[a] >= acc[a]
    /\ UNCHANGED time

(* A tank's deposit is paid or moved, by one account; balances stay.     *)
Escrow ==
    /\ Total(bal', acc', dep') = Total(bal, acc, dep)
    /\ \E payer \in Accounts : \A a \in Accounts \ {payer} : acc'[a] = acc[a]
    /\ UNCHANGED <<bal, rel, time>>

(* A new block.                                                            *)
Advance ==
    /\ time < MaxTime
    /\ time' = time + 1
    /\ UNCHANGED <<bal, acc, dep, rel>>

Next == Move \/ Escrow \/ Advance

Spec == Init /\ [][Next]_vars

=============================================================================

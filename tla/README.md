# TLA+ models of Tanks and Taps

This directory holds TLA+ specifications of the Tanks and Taps (TNT) asset
framework in `src/libraries/chain/tnt` and `src/libraries/protocol/tnt`,
with TLC configurations that check them. `PROJECT.json` lists the components,
the runs, the mutants, which source lines each definition models, the
findings and the hazards.

## The system

A *tank* holds a balance of one asset. It has *taps*, through which the
balance is released, and *attachments*, which are in the path of a flow:

- an `asset_flow_meter` counts what passes and forwards it;
- a `tap_opener` opens another tap of its tank and forwards the flow;
- an `attachment_connect_authority` may redirect an attachment.

A tap releases only what its *requirements* allow. The requirement types are:
immediate, cumulative and periodic flow limits; time locks; a minimum tank
level; a documentation string; review and delay requests; a hash preimage; a
ticket; and an exchange against a meter.

The state of a requirement or an attachment lives in the tank object. It is
keyed by an *accessory address*, which is `tank_accessory_address.hpp`.
Addresses are ordered by `accessory_address_lt`. That order ignores the
accessory type and compares a tap id equal to every requirement of its tap.

Each tank holds a CORE *deposit*. `calculate_deposit` computes it from the
schematic, and the validator (`protocol/tnt/validation.cpp`, with the lookups
of `lookups.cpp`) checks every schematic before it is stored.

Operations, in `chain/tnt/evaluators.cpp`:

| operation | what it does | module |
|---|---|---|
| `tap_open` | runs queries, opens a tap, follows the cascade of flows (`tap_flow_evaluator.cpp`, `connection_flow_processor.cpp`), commits the buffer and pays accounts | TapFlow, with the destructor-tap path |
| `account_fund_connection` | an account's asset flows into a connection | TapFlow |
| `tank_query` | queries change accessory state (requests, meters, tickets) | TapFlow, TankLifecycle |
| `tank_create`, `tank_update`, `tank_delete` | schematics, validation, deposits, clearing of accessory state | TankLifecycle |
| `tap_connect` | reconnect a tap, optionally dropping its connect authority | TankLifecycle |

Within one operation, every change goes to a copy-on-write buffer
(`cow_db_wrapper`). The buffer is committed by `do_apply`; any exception
discards it. Operations run one at a time, so the interleavings that matter
are those of operations from different users. They also include the steps
within one `tap_open`, whose cascade opens taps of several tanks.

A tap flow carries CORE, whatever the tank stores. `evaluate_tap_flow`
passes the released amount, a `share_type`, to `release_to_connection`,
which takes an `asset`. Graphene's implicit `asset(share_type)` conversion
gives it `asset_id_type()`, which is CORE (`tap_flow_evaluator.cpp:106-107`,
`connection_flow_processor.hpp:72`). The models keep this conversion. The
passing runs therefore use tanks of CORE, and `fault_core_payout` shows what
it does to a tank of another asset.

## Modules

- **TankTypes** covers several kinds of definition:
  - connections (`same_tank`, account, tank, attachment id);
  - the `asset_flow_limit` order, with Unlimited greatest;
  - accessory addresses with `accessory_address_lt` (`AddressLt`,
    `EqualRange`);
  - the per-tank state map (`get_state`, `get_or_create_state`);
  - the time-lock, period and exchange formulas of `types.hpp`/`types.cpp`.

  Data is abstracted: accounts, tanks and assets are model values. A
  review requirement's `reviewer` is a value (`"K1"`, `"K2"`), because an
  update may change it. Every other authority is reduced to whether it is
  set.
- **TapRequirements** models `tap_requirement_utility.cpp`:
  - `ReqMaxRelease` is `max_release_inspector`, with one arm per requirement
    type.
  - `MaxTapRelease`/`TapLimitLoop` is `max_tap_release`.
  - `ReqPrepareRelease` and `PrepareTapRelease` are
    `prepare_release_inspector` and `prepare_tap_release`.
  - `AdjustLimit` is `adjust_limit`.

  The utility's state is a record carried through the operation. It holds
  `remaining_limits`, `adjusted_states` and the most restrictive requirement.
- **QueryEvaluator** models tank queries:
  - `validate_queries` and `tank_query_operation::validate` (`operations.cpp`);
  - the `evaluate()` of each of the fourteen evaluators in
    `query_evaluator.cpp`, one operator per evaluator. `EvaluateQuery` is
    the dispatch in `evaluate_query`.
  - their `apply()` (`ApplyQuery`) and `apply_queries`.

  A request also records `approvedBy`. This field is history, not part of
  the code: it holds the reviewer whose authority the approving query
  required.
- **TapFlow** models the operations that move asset. Its variables:
  - `tanks`: the tank objects of the database;
  - `accounts`: the accounts' balances of the one asset other than CORE
    (`X`) that the scenarios use;
  - `core`: the accounts' CORE balances. Payments from flows and the deposit
    refunds of destroyed tanks go here;
  - `written`: the `cow_db_wrapper`'s written copies, one per tank an
    operation has written (`CowGet`, `CowSet`, `CowCommit`); `staged` is the
    view through the wrapper;
  - `live`: the tanks that exist (a destructor tap removes one);
  - `op`: the operation in progress, with its pending-tap queue, tap flows,
    utilities, the walk of the current connection flow and the payments queued
    for accounts;
  - `now`: the head block time;
  - `released`: a history of the amount released per tap and block time, used
    only by properties.

  Its actions, one per step of the code's loops:
  - `TapOpen`: `tap_open_operation::validate` and `do_evaluate` up to
    `evaluate_tap_flow`, with the destructor-tap checks (`DestructorOk`);
  - `TapOpenDestroyEmpty`: the fast track for destroying an empty tank, with
    no flow, straight to removal and refund;
  - `FlowOpen`: one iteration of the pending-tap loop, up to
    `release_to_connection`;
  - `FlowHop`: one iteration of `release_to_connection`'s loop over
    attachments, with `attachment_receive_inspector` (`AttachmentReceive`);
  - `FlowDeposit`: the terminal deposit;
  - `TapOpenCommit`: the count check and, for a destructor tap, the check
    that the tank is empty (`TankEmptied`), then `do_apply`: commit, account
    payments, and removal of the destroyed tank with its deposit refunded;
  - `FundConnection` and `FundCommit`;
  - `TankQuery`;
  - `Tick`: a new block.

  `Balances` holds both kinds of balance. `AdjustBalance` is
  `adjust_balance` with its check that the balance stays non-negative, and
  `PayAll` applies the queued payments in order, each in its own asset.
  `FundConnection` checks and debits the balance in the funding asset.

  Every failed check is `Fail`: the operation ends and the written copies
  are dropped, as the wrapper is when an exception unwinds `do_evaluate`.

  The cascade is bounded by the count the operation declares. That is the
  argument `tap_open_evaluator` passes as `max_taps_to_open`. The chain
  parameter `max_taps_to_open` (`MaxTaps`) is read only by `tap_open_helper`,
  when it builds an operation, and not by the evaluator (see
  `fault_max_taps`).
- **AbstractLedger** is the ledger of CORE that the asset-moving
  operations promise, with cascades, the wrapper and callbacks left out. Its
  variables are tank balances `bal`, account balances `acc`, tank deposits
  `dep`, the release history `rel` and the time. An operation is one atomic
  `Move`:
  - it conserves CORE, deposits included, and leaves no tank negative;
  - a tank loses no more than its taps recorded as released at the current
    time;
  - at most one account, the funder, loses CORE;
  - a deposit is either kept or refunded whole.

  `Escrow` is a lifecycle step: it conserves the total, changes one
  account and the deposits, and leaves the tank balances alone. `Advance`
  is a new block. TapFlow instantiates the ledger with these mappings:
  - `bal` is the balance of each live CORE tank (0 for a destroyed tank or
    a tank of another asset);
  - `dep` is each live tank's deposit;
  - `acc`, `rel` and `time` are `core`, `released` and `now`.

  `LedgerRefinement` is the abstract `Spec`. Every TapFlow step inside an
  operation changes none of the mapped variables, so it is a stuttering
  step. Only the commit steps move CORE.
- **TankLifecycle** models the life of tanks. Its variables:
  - `tanks`: schematic, balance, deposit and accessory states per tank id;
  - `live`: the ids of existing tanks;
  - `core`: the accounts' CORE balances;
  - `nextId`: the next object id.

  Each action is a whole handler: the operation's `validate()`, then
  `do_evaluate`'s checks, then `do_apply`.
  - `TankCreate` uses `from_create_operation`. It runs the validator twice:
    once without a lookup function, chain length 100, as in
    `tank_create_operation::validate`; then against the database. It then
    checks `calculate_deposit` and debits the payer.
  - `TankUpdate` uses `update_from_operation` and validates against the
    database, which still holds the old schematic. It checks the deposit
    delta, then moves it and clears state (`ClearStates`).
  - `TankDelete`: the balance is zero, and the deposit goes to the payer.
  - `TapConnect`: the tap exists and has a connect authority.
  - `TankQuery`.

  The validator is modelled in full:
  - `ValidateTank`, `ValidateAttachment`, `ValidateTap`, `CheckMeter` and
    `EmergencyTapOk`;
  - `GetConnectionChain` and the lookups, including what each returns when
    there is no lookup function;
  - `CalculateDeposit`.

  `GetConnectionChain` is written as the code is. It checks the asset of the
  stored connection `s`, not the one with its implied tank filled in.
- **MC_TapFlow** has two tanks of CORE and two accounts, each holding 1 CORE
  and 1 X. The rest is described at the top of the module:
  - T1 has a cumulative-limited tap feeding a meter, and an opener that opens
    a periodic-limited tap into T2.
  - T1 also has a tap whose chain is one hop too long.
  - T2 has a review-gated tap back into T1 and an emergency tap into itself.
  - There are candidate open, fund and query operations. One fund is in X,
    which a CORE tank must refuse.
- **MC_TankLifecycle** has two tank ids and one account with 8 CORE. The
  candidate operations are:
  - three creates: one tank with a meter and a review-gated tap, one whose
    tap goes into tank 1, and one with no tap at all, which the validator
    must refuse because tap 0 is missing;
  - five updates: a replacement, an addition, a removal, a replacement of a
    tap id not yet used, and the removal of the meter;
  - deletes;
  - four `tap_connect`s, one of them rejected by `validate()`;
  - review requests.

  The deposit parameters are all 1, with an override for review.
- **TankSystem** composes TankLifecycle and TapFlow on one database.
  - Both are instances over the same variables: the tank objects, the set
    of existing ids (`live`) and the CORE balances (`core`).
  - TapFlow's tanks start absent (`NoTanks`) and come into being through
    `tank_create`.
  - `Next` has one disjunct per evaluator of `evaluators.hpp`. A lifecycle
    operation is one step, taken only between operations (`Between`), as
    the chain applies one transaction at a time.
  - `FairSpec` adds the same weak fairness as TapFlow's on the steps inside
    an operation (see Fairness).
- **MC_TankSystem** covers the following:
  - account A1 with 9 CORE, and up to two tanks of CORE, each with a
    destructor emergency tap 0;
  - tank 1 flows through a meter to account A2, and tank 2 flows into
    tank 1;
  - a deposit-neutral update closes the cycle 1 -> 2 -> 1;
  - a `tap_connect`;
  - tank 1 has a review-gated tap with reviewer K1, and the update replaces
    it with one whose reviewer is K2;
  - tank 1 has a `connect_auth` attachment. Two `reconnect_attachment`
    queries point it back at itself or at tank 2;
  - deletes of either tank;
  - funding, review queries, and destructor opens, one of them with a
    wrong claimed deposit.

  `MaxTime = 0` and 2 tank ids keep the run near 134 000 states (about 80 s). Updates that
  change a deposit are left to MC_TankLifecycle, because
  `fault_deposit_update` already shows that they break the CORE balance.
- **MC_Faults** and **MC_LifecycleFaults** hold small scenarios, one per
  fault. Each is described in its module, and every schematic in them passes
  the validator.

## Runs

| run | checks | shows |
|---|---|---|
| `tapflow_safety` | `TypeOK`, `TapLimitsRespected`, `LedgerRefinement` | every interleaving of opens (with cascades, repeated openings and tank destruction), funding and queries over three blocks respects cumulative and periodic limits. TapFlow also implements the CORE ledger of AbstractLedger: CORE is conserved with the deposits, no tank is overdrawn, a tank loses only what its taps released, only the funder is debited, and a destroyed tank's deposit is refunded whole (about 900 000 states, about 2 min) |
| `tapflow_liveness` | `OperationCompletes` | under weak fairness of the steps inside an operation, every started `tap_open` or `account_fund_connection` ends, committed or failed. No cascade runs forever, and no state within an operation is stuck |
| `lifecycle_safety` | `TypeOK`, `LocalSchematicRules` | every sequence of creates, updates, deletes, tap connections and queries keeps each tank within the single-tank rules its validator enforces, `tap_connect` included |
| `system_safety` | `ApprovalsByCurrentReviewer`, `LedgerRefinement`, `OperationCompletes` | with the lifecycle operations interleaved with opens, funding and queries on the same tanks, CORE moves only as AbstractLedger allows, deposits included. `tank_create` pays a deposit in, and `tank_delete` or a destructor tap refunds it whole and once. Only an empty tank is deleted. This holds even though connections may keep naming removed tanks, because a flow into a removed tank throws. An approval pending on a tap is always by the reviewer the tap now names, because `tank_update` clears the states of replaced taps. Every operation still ends when a reconnect query has made an attachment loop into itself or point at a removed tank |
| `fault_*` | one property each | a disagreement between the code and the spec, listed below |

Each property of a passing run has a mutant in `PROJECT.json`: a fault
variant of a mapped definition that TLC must catch.

- `ChainLengthWithinLimitOffByOne`: an off-by-one in the chain length check.
- `TankEmptiedUnchecked`: a destructor tap that skips the check that the
  tank is empty at the end; the refinement fails because a tank with asset
  is removed.
- `FailSilently`: a failure that leaves the operation in progress instead of
  ending it; `OperationCompletes` fails in `tapflow_liveness` and in
  `system_safety`.
- `ClearStatesKeepingReplaced`: `tank_update` that clears the states of
  removed taps but keeps those of replaced ones. An approval by K1 then
  survives into a tap reviewed by K2.
- `PeriodicMaxReleaseIgnoringState`: a periodic limit that forgets what the
  period released.
- `ValidateTankWithoutEmergencyTap`: the validator without
  `validate_emergency_tap`'s check that tap 0 exists. The tapless create is
  then stored, and `TypeOK` of `lifecycle_safety` fails.
- `TankDeleteIgnoringBalance`: `tank_delete` without its check that the
  balance is 0; the refinement fails because asset disappears.
- `ConnectValidAlways`: `tap_connect_operation::validate` without its rule
  that clearing the connect authority needs a new connection.

## Findings

Each of these is a run that TLC finds violated (`expect: violation`).

| run | property | what the code does |
|---|---|---|
| `fault_max_taps` | `CascadeWithinMaxTaps` | `tap_open_evaluator::do_evaluate` passes `tap_open_count` where `evaluate_tap_flow` expects `max_taps_to_open`. The chain parameter `max_taps_to_open` limits nothing, and with it set to 1 a cascade opens two taps. The spec says the cascade stops at `max_taps_to_open` |
| `fault_double_consume` | `ConsumedRequestsBoundRelease` | a request named by two consume queries counts twice toward the release |
| `fault_negative_request` | `TankBalanceNonNegative` | a negative request amount passes validation and reverses a flow, overdrawing the destination tank |
| `fault_cross_tank_hash` | `HashRevealedForFlow` | queries are matched by address without a tank, so a preimage revealed for one tank unlocks a tap of another tank in the cascade |
| `fault_source_restriction` | `SourceRestrictionRespected` | the source of a deposit is read after the path already holds the receiver, so source restrictions are not applied after the first hop |
| `fault_deposit_update` | `CoreConserved` | `tank_update` adds `deposit_delta = old - new` to the payer and also to the tank's deposit, so the deposit becomes `2 old - new` |
| `fault_connect_unchecked` | `ConnectedChainsValid` | `tap_connect` installs a connection no validator checks, here a chain longer than `max_connection_chain_length` |
| `fault_core_payout` | `AssetsConserved` | `evaluate_tap_flow` passes the released `share_type` where `release_to_connection` takes an `asset`, and the implicit conversion makes it CORE. A tank of asset X that opens a tap into an account loses 1 X, and the account gains 1 CORE. Every flow of such a tank into a meter, an opener or a tank fails the asset check. The spec (section 8, scenario 1) says the recipient is paid in the tank's asset |

Eleven more faults have scenarios and cfgs that reproduce them, but they are
not among the runs. The run list keeps one violation per distinct fault of
higher severity. These eleven are recorded as hazards.

| cfg (module) | property | what the code does |
|---|---|---|
| `Fault_TimeLock.cfg` (MC_Faults) | `TimeLockRespected` | `time_lock::unlocked_at_time` inverts the parity of passed switch times; a start-locked tap opens before its first unlock time |
| `Fault_DelayMatured.cfg` (MC_Faults) | `ConsumedDelaysMatured` | the consume and veto checks of delay requests compare `delay_period_end` the wrong way round; a request is consumed before it matures |
| `Fault_ExchangeReset.cfg` (MC_Faults) | `ReleasesPositive` | resetting the meter before the exchange gives a negative release |
| `Fault_DepositKinds.cfg` (MC_LifecycleFaults) | `DepositPerAccessory` | `calculate_deposit` charges once per accessory type, not per accessory |
| `Fault_ChainContext.cfg` (MC_LifecycleFaults) | `ValidChainsAccepted` | `get_connection_chain` checks a tank-less attachment id on the tank being validated, not on the tank the walk has reached, and refuses a valid chain |
| `Fault_EmergencyConnect.cfg` (MC_LifecycleFaults) | `EmergencyTapIntact` | `tap_connect` can clear the emergency tap's connect authority |
| `Fault_RequestLimit.cfg` (MC_Faults) | `RequestLimitRespected` | request creation checks the limit on the tank before the operation, so two creations in one query list both pass |
| `Fault_SelfReference.cfg` (MC_LifecycleFaults) | `ConnectedChainsValid` | `tank_update` validates the new schematic with a lookup on the database, which still holds the old one. A tap into the tank's own meter, named by its explicit id, survives an update that removes the meter |
| `Fault_RemoteAttachment.cfg` (MC_LifecycleFaults) | `StatelessValidationAccepts` | without a lookup function a tap into another tank's attachment fails with "LOGIC ERROR", so `tank_create` rejects it; the spec says the reference is skipped |
| `Fault_StaleTapState.cfg` (MC_LifecycleFaults) | `StateTypesMatch` | a replacement may use a tap id the counter has not reached; a later addition overwrites that tap and inherits its state, of the wrong type, which makes `get_state` throw |
| `Fault_Reconnect.cfg` (MC_LifecycleFaults) | `ConnectedChainsValid` | `reconnect_attachment` checks only the destination's asset, so a `connect_auth` attachment can be pointed at itself and every tap into it then fails |

Deleting a tank that other tanks' taps connect to also breaks
`ConnectedChainsValid` on MC_TankLifecycle. The spec does not forbid it, so it
is a hazard, not a finding.

Three defects sit outside what the model represents, because they only
affect reports and an unused conversion:
- `tap_flow_evaluator.cpp:109` records `tap_to_open` instead of
  `current_tap` as the source of each tap flow in the report.
- `connection_flow_processor.cpp:191-194` sizes `fullPath` as
  `connection_path.size()+1` and then appends. The reported path starts with
  that many default-constructed entries.
- `cow_db_wrapper.hpp:160-164`: `operator const T&() const` returns the
  database object when the field was written. When it was not written, it
  reads a copy that does not exist. That is the wrong way round, but nothing
  calls it.

## Bounds

- TapFlow:
  - `MaxTime = 2`, so there are three block times, and period 2 spans a
    period change.
  - `MaxChain = 2`, so T1's tap 3 exceeds it.
  - `MaxTaps = 3` allows a cascade and a repeated opening. It is an input
    bound on the declared count; `Fault_MaxTaps.cfg` sets it to 1.
  - The candidate opens include three destructor opens of tap 0:
    - T1 with no limit, which takes the flow path and must empty T1;
    - T1 with amount 1, which fails the emptiness check while T1 holds more;
    - T2 with amount 0, which takes the fast track once T2 is empty.
  - `tapflow_liveness` uses `MaxTime = 1` to keep the fairness check short.
    Time only bounds new operations, so a stuck operation would show up in
    the first block.
  - `MaxValue = 3` bounds balances, accessory counters and recorded releases
    before an operation may start. It only stops new operations; a step
    inside an operation is never cut.
- TankLifecycle:
  - `MaxTanks = 2` lets one tank refer to another.
  - `MaxChain = 2`.
  - `MaxValue = 8` bounds CORE, deposits, counters and request counters before
    an operation starts.
  - With 8 CORE the account can hold both tanks and pay for the updates that
    raise a deposit.
- TankSystem: `MaxValue = 9`, with 9 CORE for A1. That pays both deposits
  and still funds the tanks. `MaxTime = 0`, because the periodic and time
  behaviour is already covered by `tapflow_safety`.

## Fairness

Submitting an operation is never assumed. Every operation is a transaction
that a user may or may not submit, and the chain promises nothing about
whether it is submitted.

Once an operation has started, its evaluation is one synchronous call: the
evaluator's loops run to the end or throw. Nothing suspends them, and nothing
else runs in between. `FairSpec` therefore puts weak fairness on the steps
inside an operation: `FlowOpen`, `FlowHop`, `FlowDeposit`, `TapOpenCommit`
and `FundCommit`. `OperationCompletes` is checked under it, in TapFlow
alone and in TankSystem, where the lifecycle operations and reconnect
queries change the schematics between operations. There is no
fairness on `TapOpen`, `FundConnection`, `TankQuery` or `Tick`.

- **TapFlow:** deadlock is checked; `Done` is the only stuttering step, at the
  last block time.
- **TankLifecycle runs:** these say `CHECK_DEADLOCK FALSE`. Every operation is
  optional, and the system really can stop. Once both tank ids are used and
  deleted, or the account cannot pay for any deposit, no operation the chain
  would accept remains.

## Not modelled

- The authority comparisons of `tank_update` and `tank_delete` against tap
  0's open authority, the tap open and connect authorities, and
  `auth_usage_checker`. Each operation is taken to declare exactly the
  authorities required. A wrong signer is a guard a unit test reaches, and
  it changes no state the properties compare. Only the reviewer is a value,
  because an approval must stay tied to it.
- The field-level reflection of `cow_db_wrapper`. A written copy is kept per
  object, and any write clones the whole object, as `cow_field_reflection`
  does. The routing of each field through `make_getter` is not modelled.
- Within TankLifecycle alone, tanks hold no balance. The destructor-tap
  path and flows over changing schematics are checked in TankSystem.
- Balances of more than one asset besides CORE. `accounts` holds one
  asset `X`, which is enough to tell a payment in the tank's asset from one
  in CORE.
- Fees, serialization, APIs and plugins.

---------------------------- MODULE TankLifecycle ----------------------------
(***************************************************************************)
(* The operations that create, change and destroy tanks                    *)
(* (chain/tnt/evaluators.cpp): tank_create, tank_update, tank_delete,      *)
(* tap_connect, and tank_query, which writes accessory state; with the     *)
(* schematic validator and the deposit calculation they rely on           *)
(* (protocol/tnt/validation.cpp, lookups.cpp) and the stateless validate() *)
(* of each operation (protocol/tnt/operations.cpp).                        *)
(*                                                                         *)
(* Tank ids are 1..MaxTanks, handed out in order as the database does.     *)
(* Deposits are in the CORE asset, held in core.  Authorities are          *)
(* abstracted as in QueryEvaluator: an operation declares the authority    *)
(* the tank requires, and an authority field is TRUE when it is set.      *)
(* Tap and attachment indices start at 0, as in the code; requirement     *)
(* indices at 1.                                                           *)
(***************************************************************************)
EXTENDS QueryEvaluator, Functions, FiniteSetsExt

CONSTANTS
    Accounts,            \* payers of deposits
    InitCore,            \* [Accounts -> Nat]: CORE balances
    MaxTanks,            \* number of tank ids the model hands out
    MaxChain,            \* max_connection_chain_length of the TNT parameters
    MaxValue,            \* bound on counters, deposits and balances before an operation
    TankDeposit,         \* tank_deposit
    AttachmentDeposit,   \* default_tank_attachment_deposit
    RequirementDeposit,  \* default_tap_requirement_deposit
    StatefulPremium,     \* stateful_accessory_deposit_premium
    OverrideDeposits,    \* override_deposits: [kinds -> amount]
    NoSources,           \* an unset new_authorized_sources
    CreateOps, UpdateOps, DeleteOps, ConnectOps, QueryOps

VARIABLES
    tanks,    \* tank objects by id; meaningful for live ids only
    live,     \* the ids of the tanks in the database
    core,     \* CORE balances of the accounts
    nextId    \* the id the next tank_create receives

vars == <<tanks, live, core, nextId>>

Tanks == 1..MaxTanks

(* tank_create_operation::validate checks with a chain length of 100.      *)
OperationChainLength == 100

(* Time is not modelled here; queries run at one block time.               *)
HeadBlockTime == 0

-----------------------------------------------------------------------------
(* lookup_utilities (lookups.cpp).  A lookup context is the schematic being *)
(* examined, the schematics of the database, and whether a                *)
(* tank_lookup_function was supplied at all.                               *)
Lookup(sch, has) == [cur |-> sch, db |-> [t \in live |-> tanks[t].schematic], has |-> has]

LookupTank(lk, id) ==
    IF id = NoTank THEN [r |-> "ok", v |-> lk.cur]
    ELSE IF ~lk.has THEN [r |-> "need"]
    ELSE IF id \in DOMAIN lk.db THEN [r |-> "ok", v |-> lk.db[id]]
    ELSE [r |-> "none"]

LookupAttachment(lk, tank, idx) ==
    LET tr == LookupTank(lk, tank)
    IN  IF tr.r # "ok" THEN tr
        ELSE IF idx \in DOMAIN tr.v.atts THEN [r |-> "ok", v |-> tr.v.atts[idx]]
        ELSE [r |-> "none"]

(* can_receive_asset of an attachment type                                 *)
Receives(att) == att.type \in {"meter", "opener"}

(* get_connection_asset: an asset, "any", or the failure: "noasset",       *)
(* "none" (nonexistent object) or "need" (no lookup function).             *)
GetConnectionAsset(lk, s) ==
    CASE s.type = "same"    -> lk.cur.asset
      [] s.type = "account" -> "any"
      [] s.type = "tank"    -> LET tr == LookupTank(lk, s.id)
                               IN  IF tr.r = "ok" THEN tr.v.asset ELSE tr.r
      [] s.type = "att"     -> LET ar == LookupAttachment(lk, s.tank, s.idx)
                               IN  IF ar.r # "ok" THEN ar.r
                                   ELSE IF Receives(ar.v) THEN ar.v.asset ELSE "noasset"

(* get_attachment_connection: the attachment's output connection.          *)
AttachmentConnection(lk, tank, idx) ==
    LET ar == LookupAttachment(lk, tank, idx)
    IN  IF ar.r # "ok" THEN ar
        ELSE IF Receives(ar.v) THEN [r |-> "ok", v |-> ar.v.dest] ELSE [r |-> "noasset"]

(* The check_asset lambda of get_connection_chain: "ok" or the failure.    *)
CheckAsset(lk, s, asset) ==
    LET a == GetConnectionAsset(lk, s)
    IN  CASE a \in {"any", "need"}     -> "ok"
          [] a \in {"noasset", "none"} -> a
          [] OTHER                     -> IF a = asset THEN "ok" ELSE "wrong"

(* get_connection_chain, as written: back is the chain's last connection,  *)
(* size its length, final the final_connection_tank, and s the variable   *)
(* s, which the asset checks read: the attachment just left, as stored,   *)
(* without the implied tank filled in.                                     *)
GetConnectionChain(lk, s0, max, asset) ==
    LET RECURSIVE Walk(_, _, _, _)
        Walk(back, size, final, s) ==
            IF IsTerminal(back) THEN CheckAsset(lk, s, asset)
            ELSE IF size > max THEN "exceeded"
            ELSE LET tk == IF back.tank # NoTank THEN back.tank ELSE final
                     cr == AttachmentConnection(lk, tk, back.idx)
                 IN  IF cr.r # "ok" THEN cr.r
                     ELSE IF CheckAsset(lk, back, asset) # "ok" THEN CheckAsset(lk, back, asset)
                     ELSE Walk(cr.v, size + 1, tk, back)
    IN  IF CheckAsset(lk, s0, asset) # "ok" THEN CheckAsset(lk, s0, asset)
        ELSE Walk(s0, 1, NoTank, s0)

-----------------------------------------------------------------------------
(* The schematic validator (validation.cpp).                               *)

(* internal_attachment_checker, default-constructed as every caller does:  *)
(* my_id is unset, so the remote_sources check returns at once.            *)
InternalAttachmentOk(att) ==
    att.type = "opener" /\ att.release # Unlimited => att.release > 0

(* internal_requirement_checker; authorities, hashes and ticket keys are   *)
(* abstracted and pass.                                                    *)
InternalRequirementOk(req) ==
    CASE req.type \in {"immediate", "cumulative"} -> req.limit > 0
      [] req.type = "periodic"  -> req.limit > 0 /\ req.period > 0
      [] req.type = "time_lock" -> /\ req.times # <<>>
                                   /\ \A i \in 2..Len(req.times) : req.times[i - 1] < req.times[i]
      [] req.type = "min_level" -> req.level > 0
      [] req.type = "delay"     -> req.delay > 0
      [] req.type = "exchange"  -> req.tick > 0 /\ req.perTick > 0
      [] OTHER                  -> TRUE

(* Requirement types whose unique flag is set (types.hpp).                 *)
UniqueRequirements == {"immediate", "cumulative", "time_lock", "min_level", "review",
                       "documentation", "delay"}

(* uniqueness_checker<tap_requirement> over a tap's requirements           *)
RequirementsUnique(reqs) ==
    \A i, j \in DOMAIN reqs : i < j /\ reqs[i].type = reqs[j].type => reqs[i].type \notin UniqueRequirements

(* check_connection_asset of the attachment validators                     *)
ConnectionAssetOk(lk, s, a) ==
    LET r == GetConnectionAsset(lk, s)
    IN  /\ r \notin {"noasset", "none"}
        /\ r \notin {"any", "need"} => r = a

(* validate_attachment(attachment_id)                                      *)
ValidateAttachment(lk, idx) ==
    LET att == lk.cur.atts[idx]
    IN  /\ InternalAttachmentOk(att)
        /\ CASE att.type = "meter"  -> ConnectionAssetOk(lk, att.dest, att.asset)
             [] att.type = "opener" -> /\ att.tap \in DOMAIN lk.cur.taps
                                       /\ ConnectionAssetOk(lk, att.dest, att.asset)
             [] OTHER               -> /\ att.target \in DOMAIN lk.cur.atts
                                       /\ Receives(lk.cur.atts[att.target])

(* check_meter of the exchange requirement validator: no asset check.      *)
CheckMeter(lk, m) ==
    LET ar == LookupAttachment(lk, m.tank, m.idx)
    IN  /\ ar.r # "none"
        /\ ar.r = "ok" => ar.v.type = "meter"

(* validate_tap(tap_id), with check_tap_connection: only a chain that     *)
(* comes back as a connection_chain passes.                                *)
ValidateTap(lk, k, max) ==
    LET tap == lk.cur.taps[k]
    IN  /\ tap.conn # NoConn \/ tap.connectAuth
        /\ RequirementsUnique(tap.reqs)
        /\ \A i \in DOMAIN tap.reqs :
              /\ tap.reqs[i].type = "exchange" => CheckMeter(lk, tap.reqs[i].meter)
              /\ InternalRequirementOk(tap.reqs[i])
        /\ tap.conn # NoConn => GetConnectionChain(lk, tap.conn, max, lk.cur.asset) = "ok"

(* validate_emergency_tap(const tap&)                                      *)
EmergencyTapOk(tap) ==
    /\ tap.reqs = <<>>
    /\ tap.openAuth
    /\ tap.connectAuth
    /\ tap.destructor

(* Mutant: validate_emergency_tap() without its check that tap 0 exists. *)
ValidateTankWithoutEmergencyTap(lk, max) ==
    /\ \A i \in DOMAIN lk.cur.atts : ValidateAttachment(lk, i)
    /\ 0 \in DOMAIN lk.cur.taps => EmergencyTapOk(lk.cur.taps[0])
    /\ \A k \in DOMAIN lk.cur.taps : ValidateTap(lk, k, max)

(* validate_tank: attachments, the emergency tap, every tap.  Attachment  *)
(* types are never unique, so their uniqueness check always passes.       *)
ValidateTank(lk, max) ==
    /\ \A i \in DOMAIN lk.cur.atts : ValidateAttachment(lk, i)
    /\ 0 \in DOMAIN lk.cur.taps
    /\ EmergencyTapOk(lk.cur.taps[0])
    /\ \A k \in DOMAIN lk.cur.taps : ValidateTap(lk, k, max)

(* The static validate_tap(const tap&): no connection check.               *)
TapStatelessOk(tap) ==
    /\ tap.conn # NoConn \/ tap.connectAuth
    /\ RequirementsUnique(tap.reqs)
    /\ \A i \in DOMAIN tap.reqs : InternalRequirementOk(tap.reqs[i])

-----------------------------------------------------------------------------
(* Deposits (tank_validator::calculate_deposit).                           *)

(* Accessory types with a state_type, which pay the stateful premium.     *)
StatefulKinds == {"meter", "cumulative", "periodic", "review", "delay", "ticket", "exchange"}

(* get_accessory_deposit: the override, or the default plus the premium.  *)
AccessoryDeposit(kind, default) ==
    IF kind \in DOMAIN OverrideDeposits THEN OverrideDeposits[kind]
    ELSE default + (IF kind \in StatefulKinds THEN StatefulPremium ELSE 0)

AttachmentKinds(sch) == {sch.atts[i].type : i \in DOMAIN sch.atts}

RequirementKinds(sch) == UNION {{r.type : r \in Range(tap.reqs)} : tap \in Range(sch.taps)}

(* calculate_deposit sums over the tallies attachment_counters and         *)
(* requirement_counters: one entry per accessory type present.             *)
CalculateDeposit(sch) ==
    TankDeposit
    + MapThenSumSet(LAMBDA k : AccessoryDeposit(k, AttachmentDeposit), AttachmentKinds(sch))
    + MapThenSumSet(LAMBDA k : AccessoryDeposit(k, RequirementDeposit), RequirementKinds(sch))

-----------------------------------------------------------------------------
(* tank_schematic::from_create_operation: taps and attachments numbered    *)
(* from 0 in order, the counters at the next free index.                   *)
FromCreateOperation(c) ==
    [asset      |-> c.asset,
     sources    |-> c.sources,
     taps       |-> [k \in 0..(Len(c.taps) - 1) |-> c.taps[k + 1]],
     tapCounter |-> Len(c.taps),
     atts       |-> [i \in 0..(Len(c.atts) - 1) |-> c.atts[i + 1]],
     attCounter |-> Len(c.atts)]

(* Added accessories at counter, counter + 1, ...                          *)
Added(counter, seq) == [k \in counter..(counter + Len(seq) - 1) |-> seq[k - counter + 1]]

(* tank_schematic::update_from_operation: removals, then replacements      *)
(* (taps[id] = tap, whether or not id exists), then additions at the       *)
(* counter (taps[tap_counter++] = tap, over whatever is there).            *)
UpdateFromOperation(sch, u) ==
    LET taps == u.tapsReplace @@ [k \in DOMAIN sch.taps \ u.tapsRemove |-> sch.taps[k]]
        atts == u.attsReplace @@ [i \in DOMAIN sch.atts \ u.attsRemove |-> sch.atts[i]]
    IN  [sch EXCEPT !.taps       = Added(sch.tapCounter, u.tapsAdd) @@ taps,
                    !.tapCounter = @ + Len(u.tapsAdd),
                    !.atts       = Added(sch.attCounter, u.attsAdd) @@ atts,
                    !.attCounter = @ + Len(u.attsAdd),
                    !.sources    = IF u.sources = NoSources THEN @ ELSE u.sources]

(* tank_update_operation::validate                                         *)
UpdateValid(u) ==
    /\ 0 \notin u.tapsRemove
    /\ DOMAIN u.tapsReplace \cap u.tapsRemove = {}
    /\ DOMAIN u.attsReplace \cap u.attsRemove = {}
    /\ 0 \in DOMAIN u.tapsReplace => EmergencyTapOk(u.tapsReplace[0])
    /\ \A tap \in Range(u.tapsReplace) \cup Range(u.tapsAdd) : TapStatelessOk(tap)
    /\ \A att \in Range(u.attsReplace) \cup Range(u.attsAdd) : InternalAttachmentOk(att)

(* Mutant: do_apply clears the state of removed accessories but not of    *)
(* replaced ones.                                                          *)
ClearStatesKeepingReplaced(obj, u) ==
    LET keys == {AttAddr(i) : i \in u.attsRemove} \cup {TapIdKey(k) : k \in u.tapsRemove}
        gone == UNION {EqualRange(DOMAIN obj.states, k) : k \in keys}
    IN  [obj EXCEPT !.states = [a \in DOMAIN @ \ gone |-> @[a]]]

(* The erasures of tank_update_evaluator::do_apply: clear_attachment_state *)
(* erases the key equal to the attachment's address, clear_tap_state the  *)
(* equal_range of the tap id, for each removed or replaced accessory.      *)
ClearStates(obj, u) ==
    LET keys == {AttAddr(i) : i \in u.attsRemove \cup DOMAIN u.attsReplace}
                \cup {TapIdKey(k) : k \in u.tapsRemove \cup DOMAIN u.tapsReplace}
        gone == UNION {EqualRange(DOMAIN obj.states, k) : k \in keys}
    IN  [obj EXCEPT !.states = [a \in DOMAIN @ \ gone |-> @[a]]]

(* Mutant: validate() lets a tap be disconnected with its connect         *)
(* authority cleared.                                                      *)
ConnectValidAlways(c) == TRUE

(* tap_connect_operation::validate                                         *)
ConnectValid(c) == c.clear => c.conn # NoConn

(* database::adjust_balance: a CORE balance may not go below zero.         *)
AdjustCore(bal, a, delta) == [ok |-> bal[a] + delta >= 0, bal |-> [bal EXCEPT ![a] = @ + delta]]

(* The bound that keeps the model finite: operations start only while     *)
(* every counter, deposit and balance is within MaxValue.                  *)
WithinBounds ==
    /\ \A a \in Accounts : core[a] \in -MaxValue..MaxValue
    /\ \A t \in live :
          /\ tanks[t].deposit \in -MaxValue..MaxValue
          /\ tanks[t].schematic.tapCounter <= MaxValue
          /\ tanks[t].schematic.attCounter <= MaxValue
          /\ \A a \in DOMAIN tanks[t].states :
                "counter" \in DOMAIN tanks[t].states[a] => tanks[t].states[a].counter <= MaxValue

Absent == [schematic |-> [asset |-> "none", sources |-> AllSources, taps |-> <<>>, tapCounter |-> 0,
                          atts |-> <<>>, attCounter |-> 0],
           balance |-> 0, deposit |-> 0, states |-> <<>>]

Init ==
    /\ tanks = [t \in Tanks |-> Absent]
    /\ live = {}
    /\ core = InitCore
    /\ nextId = 1

(* Mutant: tank_create without the check that a tank id remains.         *)
TankCreateUnbounded(c) ==
    LET sch == FromCreateOperation(c)
    IN  /\ WithinBounds
        /\ c.deposit > 0
        /\ ValidateTank(Lookup(sch, FALSE), OperationChainLength)
        /\ core[c.payer] >= c.deposit
        /\ ValidateTank(Lookup(sch, TRUE), MaxChain)
        /\ CalculateDeposit(sch) = c.deposit
        /\ core' = [core EXCEPT ![c.payer] = @ - c.deposit]
        /\ tanks' = [tanks EXCEPT ![nextId] = [schematic |-> sch, balance |-> 0,
                                               deposit |-> c.deposit, states |-> <<>>]]
        /\ live' = live \cup {nextId}
        /\ nextId' = nextId + 1

(***************************************************************************)
(* tank_create: validate() with no lookup function, then do_evaluate: the  *)
(* payer holds the deposit, the schematic validates against the database, *)
(* the declared deposit is calculate_deposit's; do_apply debits the payer *)
(* and creates the tank, empty and without state.                          *)
(***************************************************************************)
TankCreate(c) ==
    LET sch == FromCreateOperation(c)
    IN  /\ WithinBounds
        /\ nextId \in Tanks
        /\ c.deposit > 0
        /\ ValidateTank(Lookup(sch, FALSE), OperationChainLength)
        /\ core[c.payer] >= c.deposit
        /\ ValidateTank(Lookup(sch, TRUE), MaxChain)
        /\ CalculateDeposit(sch) = c.deposit
        /\ core' = [core EXCEPT ![c.payer] = @ - c.deposit]
        /\ tanks' = [tanks EXCEPT ![nextId] = [schematic |-> sch, balance |-> 0,
                                               deposit |-> c.deposit, states |-> <<>>]]
        /\ live' = live \cup {nextId}
        /\ nextId' = nextId + 1

(***************************************************************************)
(* tank_update: validate(), then do_evaluate: the updated schematic        *)
(* validates against the database (which still holds this tank's old       *)
(* schematic), the declared deposit_delta is old deposit minus new, and a *)
(* positive delta needs the payer to hold it; do_apply adds the delta to  *)
(* the payer and to the tank's deposit, installs the schematic and clears  *)
(* the state of removed and replaced accessories.  The submitter declares *)
(* the delta the evaluator expects; any other delta is rejected.           *)
(***************************************************************************)
TankUpdate(u) ==
    LET old   == tanks[u.tank]
        upd   == UpdateFromOperation(old.schematic, u)
        delta == old.deposit - CalculateDeposit(upd)
        paid  == AdjustCore(core, u.payer, delta)
    IN  /\ WithinBounds
        /\ UpdateValid(u)
        /\ u.tank \in live
        /\ ValidateTank(Lookup(upd, TRUE), MaxChain)
        /\ delta > 0 => core[u.payer] >= delta
        /\ paid.ok
        /\ core' = paid.bal
        /\ tanks' = [tanks EXCEPT ![u.tank] =
                        ClearStates([old EXCEPT !.schematic = upd, !.deposit = @ + delta], u)]
        /\ UNCHANGED <<live, nextId>>

(* Fault variant: tank_delete without the check that the balance is 0.    *)
TankDeleteIgnoringBalance(d) ==
    LET paid == AdjustCore(core, d.payer, tanks[d.tank].deposit)
    IN  /\ WithinBounds
        /\ d.tank \in live
        /\ paid.ok
        /\ core' = paid.bal
        /\ live' = live \ {d.tank}
        /\ UNCHANGED <<tanks, nextId>>

(***************************************************************************)
(* tank_delete: the tank is empty and the claimed deposit is its deposit; *)
(* the payer receives it and the tank is removed.                          *)
(***************************************************************************)
TankDelete(d) ==
    LET paid == AdjustCore(core, d.payer, tanks[d.tank].deposit)
    IN  /\ WithinBounds
        /\ d.tank \in live
        /\ tanks[d.tank].balance = 0
        /\ paid.ok
        /\ core' = paid.bal
        /\ live' = live \ {d.tank}
        /\ UNCHANGED <<tanks, nextId>>

(***************************************************************************)
(* tap_connect: validate(), then the tap exists and has a connect          *)
(* authority; the tap takes the new connection (none disconnects it), and *)
(* the connect authority is cleared if asked.  Nothing validates the new  *)
(* connection.                                                             *)
(***************************************************************************)
TapConnect(c) ==
    /\ WithinBounds
    /\ ConnectValid(c)
    /\ c.tank \in live
    /\ c.tap \in DOMAIN tanks[c.tank].schematic.taps
    /\ tanks[c.tank].schematic.taps[c.tap].connectAuth
    /\ tanks' = [tanks EXCEPT ![c.tank].schematic.taps[c.tap] =
                    [@ EXCEPT !.conn = c.conn, !.connectAuth = IF c.clear THEN FALSE ELSE @]]
    /\ UNCHANGED <<live, core, nextId>>

(***************************************************************************)
(* tank_query: validate(), every query evaluates against the tank, then    *)
(* all apply to it in order.                                               *)
(***************************************************************************)
TankQuery(c) ==
    LET applied == ApplyQueries(tanks[c.tank], c.queries, HeadBlockTime)
    IN  /\ WithinBounds
        /\ TankQueryValid(c)
        /\ c.tank \in live
        /\ \A j \in DOMAIN c.queries : EvaluateQuery([x \in live |-> tanks[x]], c.tank, c.queries[j], HeadBlockTime)
        /\ applied.ok
        /\ tanks' = [tanks EXCEPT ![c.tank] = applied.obj]
        /\ UNCHANGED <<live, core, nextId>>

Next ==
    \/ \E c \in CreateOps : TankCreate(c)
    \/ \E u \in UpdateOps : TankUpdate(u)
    \/ \E d \in DeleteOps : TankDelete(d)
    \/ \E c \in ConnectOps : TapConnect(c)
    \/ \E c \in QueryOps : TankQuery(c)

Spec == Init /\ [][Next]_vars

-----------------------------------------------------------------------------
(* Every variable has the shape the code gives it, and every existing tank *)
(* has its emergency tap 0: tank_create's validator requires it, and       *)
(* tank_update may neither remove it nor replace it by a tap that is not   *)
(* an emergency tap.                                                        *)
TypeOK ==
    /\ live \subseteq Tanks
    /\ nextId \in 1..(MaxTanks + 1)
    /\ \A t \in live : t < nextId
    /\ core \in [Accounts -> Int]
    /\ \A t \in live : /\ 0 \in DOMAIN tanks[t].schematic.taps
                       /\ tanks[t].deposit \in Int

(* The accessory a state address names in a schematic, if any.            *)
Addressed(sch, a) ==
    IF a[1] = "att" THEN IF a[2] \in DOMAIN sch.atts THEN {sch.atts[a[2]]} ELSE {}
    ELSE IF a[2] \in DOMAIN sch.taps /\ a[3] \in DOMAIN sch.taps[a[2]].reqs
         THEN {sch.taps[a[2]].reqs[a[3]]} ELSE {}

(* The fields of each state_type (types.hpp).                              *)
StateFields(type) ==
    CASE type = "meter"                -> {"metered"}
      [] type \in {"cumulative", "exchange"} -> {"released"}
      [] type = "periodic"             -> {"period", "released"}
      [] type \in {"review", "delay"}  -> {"counter", "pending"}
      [] type = "ticket"               -> {"consumed"}
      [] OTHER                         -> {}

(* The rules of spec 4.B that concern a tank alone keep holding for every  *)
(* tank, whatever sequence of tank_create, tank_update, tap_connect and    *)
(* queries built it: every tap is connected or keeps a connect authority, *)
(* no unique requirement type repeats on a tap, every bounded limit is    *)
(* positive, every tap opener names a tap of its tank and every connect   *)
(* authority an asset-receiving attachment of its tank.                    *)
LocalSchematicRules ==
    \A t \in live :
        LET sch == tanks[t].schematic
        IN  /\ \A k \in DOMAIN sch.taps :
                 LET tap == sch.taps[k]
                 IN  /\ tap.conn # NoConn \/ tap.connectAuth
                     /\ \A i, j \in DOMAIN tap.reqs :
                           i # j /\ tap.reqs[i].type = tap.reqs[j].type =>
                              tap.reqs[i].type \in {"periodic", "hash", "ticket", "exchange"}
                     /\ \A i \in DOMAIN tap.reqs :
                           tap.reqs[i].type \in {"immediate", "cumulative", "periodic"} =>
                              tap.reqs[i].limit > 0
            /\ \A i \in DOMAIN sch.atts :
                 /\ sch.atts[i].type = "opener" => sch.atts[i].tap \in DOMAIN sch.taps
                 /\ sch.atts[i].type = "connect_auth" =>
                       /\ sch.atts[i].target \in DOMAIN sch.atts
                       /\ sch.atts[sch.atts[i].target].type \in {"meter", "opener"}

(* CORE asset is conserved: the accounts' balances and the deposits the   *)
(* live tanks hold add up to what the accounts held at the start (spec 8: *)
(* after an update with deposit_delta d the deposit moves by d and the     *)
(* payer by -d).  tank_update_evaluator::do_apply moves both.              *)
CoreConserved ==
    SumFunction(core) + SumFunction([t \in live |-> tanks[t].deposit]) = SumFunction(InitCore)

(* The deposit the spec gives a schematic: tank_deposit plus the deposit   *)
(* of every attachment and every requirement (spec 4.B).                   *)
SpecDeposit(sch) ==
    TankDeposit
    + SumFunction([i \in DOMAIN sch.atts |-> AccessoryDeposit(sch.atts[i].type, AttachmentDeposit)])
    + SumFunction([k \in DOMAIN sch.taps |->
          SumFunction([i \in DOMAIN sch.taps[k].reqs |->
                         AccessoryDeposit(sch.taps[k].reqs[i].type, RequirementDeposit)])])

(* Every tank holds the deposit the spec charges for its schematic: one    *)
(* accessory deposit per accessory; tank_create_evaluator takes what       *)
(* calculate_deposit computes.                                             *)
DepositPerAccessory == \A t \in live : tanks[t].deposit = SpecDeposit(tanks[t].schematic)

(* Where the flow of a connection from tank t goes (spec 4.B.4 and 4.G):   *)
(* through at most MaxChain attachments, each existing, receiving asset    *)
(* and taking the tank's asset, to an account or to a live tank of the    *)
(* tank's asset.                                                           *)
SpecChainIn(db, t, c0) ==
    LET asset == db[t].asset
        RECURSIVE Walk(_, _, _)
        Walk(c, cur, n) ==
            CASE c.type = "account" -> TRUE
              [] c.type = "same"    -> db[cur].asset = asset
              [] c.type = "tank"    -> c.id \in DOMAIN db /\ db[c.id].asset = asset
              [] OTHER ->
                    LET tk == IF c.tank # NoTank THEN c.tank ELSE cur
                    IN  /\ n < MaxChain
                        /\ tk \in DOMAIN db
                        /\ c.idx \in DOMAIN db[tk].atts
                        /\ Receives(db[tk].atts[c.idx])
                        /\ db[tk].atts[c.idx].asset = asset
                        /\ Walk(db[tk].atts[c.idx].dest, tk, n + 1)
    IN  Walk(c0, t, 0)

LiveSchematics == [t \in live |-> tanks[t].schematic]

SpecChainOk(t, c0) == SpecChainIn(LiveSchematics, t, c0)

(* Every connected tap of every tank has a connection chain that is no     *)
(* longer than max_connection_chain_length and ends where the tank's      *)
(* asset can go (spec 8 "connection traversal", spec 4.B.4); the           *)
(* validator's get_connection_chain is the code that is to ensure it.      *)
ConnectedChainsValid ==
    \A t \in live : \A k \in DOMAIN tanks[t].schematic.taps :
        tanks[t].schematic.taps[k].conn # NoConn => SpecChainOk(t, tanks[t].schematic.taps[k].conn)

(* Every tank keeps an emergency tap as validate_emergency_tap requires    *)
(* it: no requirements, an open and a connect authority, a destructor tap *)
(* (types.hpp: "emergency tap must specify a connect_authority").          *)
EmergencyTapIntact == \A t \in live : EmergencyTapOk(tanks[t].schematic.taps[0])

(* Every accessory state of a tank belongs to an accessory the tank has,  *)
(* and is of that accessory's state type (spec 9: removing or replacing  *)
(* an accessory erases its state).  tank_object::get_state asserts the    *)
(* type and throws otherwise; a state left without its accessory passes   *)
(* to whatever accessory later takes its index.                           *)
StateTypesMatch ==
    \A t \in live : \A a \in DOMAIN tanks[t].states :
        /\ Addressed(tanks[t].schematic, a) # {}
        /\ \A acc \in Addressed(tanks[t].schematic, a) :
              DOMAIN tanks[t].states[a] = StateFields(acc.type)

(* An approved request a review requirement holds was approved by the     *)
(* reviewer that requirement names now (spec 4.D: review_request_to_open  *)
(* needs the reviewer's authority).  A tank_update that replaces the tap, *)
(* and with it the reviewer, must take the old reviewer's approvals away:  *)
(* tank_update_evaluator::do_apply clears the replaced tap's state, and a *)
(* later consume_approved_request_to_open in tap_open would otherwise     *)
(* release on an approval the new reviewer never gave.                     *)
ApprovalsByCurrentReviewer ==
    \A t \in live : \A a \in DOMAIN tanks[t].states :
        "pending" \in DOMAIN tanks[t].states[a] =>
            \A id \in DOMAIN tanks[t].states[a].pending :
                LET r == tanks[t].states[a].pending[id]
                IN  r.approved =>
                       \E acc \in Addressed(tanks[t].schematic, a) :
                           acc.type = "review" /\ r.approvedBy = {acc.reviewer}

(* A schematic that validates against the database also passes the        *)
(* operation's own validate(), which has no lookup function: per spec 4.C *)
(* cross-tank references it cannot resolve are skipped, not rejected.      *)
StatelessValidationAccepts ==
    \A c \in CreateOps :
        LET sch == FromCreateOperation(c)
        IN  ValidateTank(Lookup(sch, TRUE), MaxChain) =>
               ValidateTank(Lookup(sch, FALSE), OperationChainLength)

(* A tap connection that tank_update is asked to install and that the     *)
(* spec's chain rules accept, with the implied tank of an attachment id   *)
(* carried along the walk (spec 4.C get_connection_chain), is accepted by *)
(* the evaluator's get_connection_chain.                                   *)
ValidChainsAccepted ==
    \A u \in UpdateOps : u.tank \in live =>
        LET upd == UpdateFromOperation(tanks[u.tank].schematic, u)
            db  == [x \in live |-> IF x = u.tank THEN upd ELSE tanks[x].schematic]
        IN  \A k \in DOMAIN upd.taps :
                upd.taps[k].conn # NoConn /\ SpecChainIn(db, u.tank, upd.taps[k].conn) =>
                    GetConnectionChain(Lookup(upd, TRUE), upd.taps[k].conn, MaxChain, upd.asset) = "ok"

====

------------------------------ MODULE TapFlow ------------------------------
(***************************************************************************)
(* The operations of Tanks and Taps that move asset, as the chain         *)
(* evaluates them (chain/tnt/evaluators.cpp, tap_flow_evaluator.cpp,       *)
(* connection_flow_processor.cpp):                                         *)
(*   tap_open                  queries, then a cascade of tap flows        *)
(*   account_fund_connection   one connection flow from an account         *)
(*   tank_query                queries only                                *)
(* and the passing of time between blocks.                                 *)
(*                                                                         *)
(* An operation is evaluated on its own, but in several steps, one per    *)
(* iteration of the code's loops: the queue loop of evaluate_tap_flow and *)
(* the hop loop of release_to_connection.  Every mutation goes to the     *)
(* copy-on-write buffer written; do_apply commits it.  Any failed check   *)
(* discards the buffer and leaves the database as it was.                  *)
(***************************************************************************)
EXTENDS QueryEvaluator, Functions

CONSTANTS
    Tanks,          \* tank ids
    Accounts,       \* account ids
    InitTanks,      \* [Tanks -> tank object]: the tanks as created
    InitAccounts,   \* [Accounts -> Int]: balances of the one asset besides CORE
    InitCore,       \* [Accounts -> Int]: CORE balances
    CoreAsset,      \* asset_id_type(), the CORE asset 1.3.0
    NoClaim,        \* an unset deposit_claimed
    MaxTaps,        \* max_taps_to_open of the TNT parameters (the evaluator
                    \* hands evaluate_tap_flow tap_open_count instead)
    MaxChain,       \* max_connection_chain_length of the TNT parameters
    MaxTime,        \* bound on head_block_time
    MaxValue,       \* bound on any balance or accessory counter before an operation
    OpenOps,        \* candidate tap_open operations
    FundOps,        \* candidate account_fund_connection operations
    QueryOps        \* candidate tank_query operations

VARIABLES
    now,       \* head_block_time
    tanks,     \* the tank objects in the database
    accounts,  \* account balances of the asset other than CORE
    written,   \* the cow_db_wrapper's written copies: [tank ids written -> tank object]
    op,        \* the operation being evaluated, or Idle
    live,      \* the ids of the tanks that exist
    core,      \* CORE balances of the accounts
    released   \* history: amount released per tap and block time

vars == <<now, tanks, accounts, written, op, live, core, released>>

(***************************************************************************)
(* cow_db_wrapper: an object is read from the database until a field of it *)
(* is set, which clones the whole object into written; later reads and     *)
(* writes go to the copy.  commit replaces each written object in the     *)
(* database and resets the copy; a wrapper that is dropped writes nothing. *)
(***************************************************************************)
NoWrites == [t \in {} |-> NoTank]

(* cow_field_reflection::get: the written copy if there is one.            *)
CowGet(db, w, id) == IF id \in DOMAIN w THEN w[id] ELSE db[id]

(* cow_field_reflection::set and cow_object's conversion to T&: clone the *)
(* object on the first write, then modify the copy.                        *)
CowSet(w, id, obj) == (id :> obj) @@ w

(* cow_db_wrapper::commit: every written object replaces the database's.  *)
CowCommit(db, w) == [id \in DOMAIN db |-> CowGet(db, w, id)]

(* The tanks as the operation in progress sees them through the wrapper.  *)
staged == CowCommit(tanks, written)

TapKeys == UNION {{<<t, k>> : k \in DOMAIN InitTanks[t].schematic.taps} : t \in Tanks}

Idle == [kind |-> "idle"]

NoWalk == [active |-> FALSE, conn |-> SameTank, last |-> SameTank, from |-> SameTank,
           len |-> 0, cur |-> NoTank, amount |-> 0, asset |-> "none"]

(* The source tank of a tap flow is the origin of its connection flow.     *)
(* last is what the code hands on as the source of the next deposit (the   *)
(* path's last entry); from is where the asset really comes from: the      *)
(* origin, then the attachment it last passed.                             *)
StartWalk(origin, conn, cur, amount, asset) ==
    [active |-> TRUE, conn |-> conn, last |-> origin, from |-> origin, len |-> 0,
     cur |-> cur, amount |-> amount, asset |-> asset]

UtilOf(o, key) == IF key \in DOMAIN o.utils THEN o.utils[key] ELSE NewUtility

(* The bound that keeps the model finite: operations start only while     *)
(* every balance, accessory counter and recorded release is within       *)
(* MaxValue.                                                               *)
WithinBounds ==
    /\ \A t \in Tanks :
          /\ tanks[t].balance \in -MaxValue..MaxValue
          /\ \A a \in DOMAIN tanks[t].states :
                \A f \in DOMAIN tanks[t].states[a] \ {"pending"} :
                   tanks[t].states[a][f] \in -MaxValue..MaxValue
    /\ \A a \in Accounts : accounts[a] \in -MaxValue..MaxValue /\ core[a] \in -MaxValue..MaxValue
    /\ \A k \in TapKeys : \A s \in 0..MaxTime : released[k][s] <= MaxValue

Init ==
    /\ now = 0
    /\ tanks = InitTanks
    /\ accounts = InitAccounts
    /\ written = NoWrites
    /\ op = Idle
    /\ live = Tanks
    /\ core = InitCore
    /\ released = [k \in TapKeys |-> [s \in 0..MaxTime |-> 0]]

(***************************************************************************)
(* tap_open_evaluator::do_evaluate up to evaluate_tap_flow: the tap        *)
(* exists and is connected, every query evaluates against the database    *)
(* tank, all queries are applied to the staged tank, and the requested    *)
(* tap is queued.  A rejected operation changes nothing.                   *)
(* tap_open_operation::validate: the queries are valid for a tap_open, a  *)
(* bounded release is not negative, and 0 only when destroying the tank,  *)
(* and at least one tap is to be opened.                                   *)
TapOpenValid(c) ==
    /\ ValidateQueries(c.queries, c.tank, TRUE)
    /\ c.amount # Unlimited => c.amount >= 0 /\ (c.amount > 0 \/ c.claim # NoClaim)
    /\ c.count >= 1

(* The destructor-tap checks of do_evaluate: the claim is the tank's      *)
(* deposit and the tap is a destructor tap.                                *)
DestructorOk(c, obj) ==
    c.claim # NoClaim => c.claim = obj.deposit /\ obj.schematic.taps[c.tap].destructor

(***************************************************************************)
TapOpen(c) ==
    LET obj     == tanks[c.tank]
        applied == ApplyQueries(obj, c.queries, now)
    IN  /\ op = Idle
        /\ WithinBounds
        /\ TapOpenValid(c)
        /\ c.tank \in live
        /\ c.tap \in DOMAIN obj.schematic.taps
        /\ DestructorOk(c, obj)
        /\ ~(c.claim # NoClaim /\ obj.balance = 0)
        /\ obj.schematic.taps[c.tap].conn # NoConn
        /\ \A j \in DOMAIN c.queries : EvaluateQuery([x \in live |-> tanks[x]], c.tank, c.queries[j], now)
        /\ applied.ok
        /\ written' = CowSet(NoWrites, c.tank, applied.obj)
        /\ op' = [kind |-> "open", queries |-> c.queries, count |-> c.count,
                  queue |-> <<[tank |-> c.tank, tap |-> c.tap, amount |-> c.amount]>>,
                  flows |-> 0, utils |-> <<>>, walk |-> NoWalk, pay |-> <<>>,
                  rels |-> <<>>, funder |-> NoTank, amount |-> c.amount, tank |-> c.tank,
                  claim |-> c.claim, payer |-> c.payer]
        /\ UNCHANGED <<now, tanks, accounts, live, core, released>>

(* The fast track of do_evaluate for an empty tank being destroyed: no    *)
(* queries, a count of 1, a release of 0 or unlimited; no tap flows.       *)
(* do_apply removes the tank and pays its deposit to the payer.            *)
TapOpenDestroyEmpty(c) ==
    LET obj == tanks[c.tank]
    IN  /\ op = Idle
        /\ WithinBounds
        /\ TapOpenValid(c)
        /\ c.tank \in live
        /\ c.tap \in DOMAIN obj.schematic.taps
        /\ c.claim # NoClaim
        /\ DestructorOk(c, obj)
        /\ obj.balance = 0
        /\ c.queries = <<>>
        /\ c.count = 1
        /\ c.amount \in {0, Unlimited}
        /\ live' = live \ {c.tank}
        /\ core' = [core EXCEPT ![c.payer] = @ + c.claim]
        /\ UNCHANGED <<now, tanks, accounts, written, op, released>>

(* Fault variant: a failed check returns without throwing, and the loop   *)
(* that made it runs again on the same state.                              *)
FailSilently ==
    /\ op' = op
    /\ written' = written

(* Any failed check: the operation throws, the wrapper is dropped.         *)
Fail ==
    /\ op' = Idle
    /\ written' = NoWrites

(***************************************************************************)
(* One iteration of evaluate_tap_flow up to release_to_connection, for    *)
(* the tap at the head of the queue: the tap must exist and be connected, *)
(* a bounded request must not exceed the balance, the utility bounds the  *)
(* release (0 is "tap locked" or "tank empty"), the requirements record   *)
(* it, the tank balance drops and the connection flow starts.  The tap    *)
(* stays at the head of the queue until its flow ends.  The release is a *)
(* share_type, and release_to_connection takes an asset: the implicit      *)
(* conversion asset(release_limit) gives it asset_id_type(), CORE, whatever *)
(* the tank stores.                                                        *)
(***************************************************************************)
FlowOpen ==
    /\ op.kind = "open"
    /\ ~op.walk.active
    /\ op.queue # <<>>
    /\ LET cur == Head(op.queue)
           obj == staged[cur.tank]
           tap == obj.schematic.taps[cur.tap]
       IN  IF /\ cur.tap \in DOMAIN obj.schematic.taps
              /\ tap.conn # NoConn
              /\ cur.amount # Unlimited => obj.balance >= cur.amount
           THEN \E mx \in {MaxTapRelease(staged, cur.tank, cur.tap,
                                          UtilOf(op, <<cur.tank, cur.tap>>), op.queries, now)} :
                LET rel == IF cur.amount = Unlimited THEN mx.limit ELSE cur.amount
                IN  IF /\ mx.ok
                       /\ mx.limit # 0
                       /\ cur.amount # Unlimited => cur.amount <= mx.limit
                    THEN \E pre \in {PrepareTapRelease(obj, cur.tap, mx.util, op.queries, now, rel)} :
                         IF pre.ok
                         THEN /\ written' = CowSet(written, cur.tank,
                                                  [pre.obj EXCEPT !.balance = @ - rel])
                              /\ op' = [op EXCEPT
                                          !.utils = (<<cur.tank, cur.tap>> :> pre.util) @@ @,
                                          !.walk  = StartWalk(TankConn(cur.tank), tap.conn,
                                                              cur.tank, rel, CoreAsset),
                                          !.rels  = Append(@, [tank |-> cur.tank, tap |-> cur.tap,
                                                               amount |-> rel])]
                         ELSE Fail
                    ELSE Fail
           ELSE Fail
    /\ UNCHANGED <<now, tanks, accounts, live, core, released>>

(* attachment_receive_inspector::check_source_restriction, and the same    *)
(* test for a terminal tank: the source names the destination's tank, or   *)
(* is one of the authorized remote connections.                            *)
SourceAllowed(allowed, src, tk) ==
    \/ allowed = AllSources
    \/ ConnTank(src) # NoTank /\ ConnTank(src) = tk
    \/ src \in allowed

(* Fault variant: the chain length check is off by one.                   *)
ChainLengthWithinLimitOffByOne(len) == len <= MaxChain

(* The path so far is shorter than max_connection_chain_length.            *)
ChainLengthOk(len) == len < MaxChain

(***************************************************************************)
(* One iteration of release_to_connection's loop: the attachment the       *)
(* connection names receives the flow.  A meter counts it, an opener      *)
(* queues its tap (through the callback of the operation: tap_open's      *)
(* enqueueTap, bounded by the max_taps_to_open argument, which            *)
(* tap_open_evaluator fills with the declared tap_open_count; or          *)
(* account_fund_connection's callback, which throws), and                 *)
(* the flow moves to the attachment's destination.  The source handed to  *)
(* the restriction check is the connection last appended to the path.     *)
(* attachment_receive_inspector on a receiving attachment of tank tk: a   *)
(* meter adds the amount to its state, an opener calls cbOpenTap, which   *)
(* queues its tap with its release amount; both return their destination. *)
AttachmentReceive(obj, tk, idx, amount) ==
    LET att  == obj.schematic.atts[idx]
        addr == AttAddr(idx)
    IN  [obj  |-> IF att.type = "meter"
                  THEN PutState(obj, addr, [metered |-> StateOr(obj, addr, DefaultMeter).metered + amount])
                  ELSE obj,
         open |-> IF att.type = "opener"
                  THEN <<[tank |-> tk, tap |-> att.tap, amount |-> att.release]>> ELSE <<>>,
         dest |-> att.dest]

(***************************************************************************)
FlowHop ==
    /\ op.kind \in {"open", "fund"}
    /\ op.walk.active
    /\ ~IsTerminal(op.walk.conn)
    /\ LET w   == op.walk
           c   == w.conn
           tk  == IF c.tank # NoTank THEN c.tank ELSE w.cur
           obj == staged[tk]
           att == obj.schematic.atts[c.idx]
           addr == AttAddr(c.idx)
       IN  IF /\ ChainLengthOk(w.len)
              /\ tk # NoTank
              /\ tk \in live
              /\ c.idx \in DOMAIN obj.schematic.atts
              /\ att.type \in {"meter", "opener"}
              /\ SourceAllowed(att.sources, w.last, tk)
              /\ att.asset = w.asset
              /\ att.type = "opener" => /\ op.kind = "open"
                                        /\ Len(op.queue) + op.flows < op.count
           THEN LET rcv == AttachmentReceive(obj, tk, c.idx, w.amount)
                IN  /\ written' = CowSet(written, tk, rcv.obj)
                    /\ op' = [op EXCEPT
                                !.walk  = [w EXCEPT !.conn = rcv.dest, !.last = rcv.dest,
                                                    !.from = AttConn(tk, c.idx),
                                                    !.len = @ + 1, !.cur = tk],
                                !.queue = @ \o rcv.open]
           ELSE Fail
    /\ UNCHANGED <<now, tanks, accounts, live, core, released>>

(* The deposit to a terminal tank, through the buffer.                     *)
DepositToTank(stg, t, amount) == [stg EXCEPT ![t].balance = @ + amount]

(***************************************************************************)
(* The end of release_to_connection: same_tank resolves to the current     *)
(* tank; the penultimate connection (the path's last entry) must convert   *)
(* to a remote_connection; a terminal tank checks asset and sources and    *)
(* is credited in the buffer, a terminal account is paid through the      *)
(* callback at commit.  For tap_open the flow is recorded and the tap     *)
(* leaves the queue.                                                       *)
(***************************************************************************)
(* The terminal connection, same_tank resolved against the current tank.   *)
Terminal(w) == IF w.conn.type = "same" THEN TankConn(w.cur) ELSE w.conn

FlowDeposit ==
    /\ op.kind \in {"open", "fund"}
    /\ op.walk.active
    /\ IsTerminal(op.walk.conn)
    /\ LET w    == op.walk
           term == Terminal(w)
           dest == staged[term.id]
       IN  IF /\ w.conn.type = "same" => w.cur # NoTank
              /\ IsRemote(w.last)
              /\ term.type = "tank" => term.id \in live
              /\ term.type = "tank" =>
                    /\ dest.schematic.asset = w.asset
                    /\ ~(ConnTank(w.last) # NoTank /\ ConnTank(w.last) = term.id) =>
                          SourceAllowed(dest.schematic.sources, w.last, term.id)
           THEN /\ written' = IF term.type = "tank"
                              THEN CowSet(written, term.id, DepositToTank(staged, term.id, w.amount)[term.id])
                              ELSE written
                /\ op' = [op EXCEPT
                            !.walk  = NoWalk,
                            !.pay   = IF term.type = "account"
                                      THEN Append(@, [account |-> term.id, amount |-> w.amount, asset |-> w.asset])
                                      ELSE @,
                            !.flows = IF op.kind = "open" THEN @ + 1 ELSE @,
                            !.queue = IF op.kind = "open" THEN Tail(@) ELSE @]
           ELSE Fail
    /\ UNCHANGED <<now, tanks, accounts, live, core, released>>

(* The balances of the accounts: CORE, and the other asset.               *)
Balances == [core |-> core, acc |-> accounts]

(* database::get_balance of account a in asset s.                          *)
BalanceOf(b, a, s) == IF s = CoreAsset THEN b.core[a] ELSE b.acc[a]

(* database::adjust_balance: the balance of a in s moves by delta; a result *)
(* below zero throws.                                                      *)
AdjustBalance(b, a, s, delta) ==
    [ok  |-> BalanceOf(b, a, s) + delta >= 0,
     bal |-> IF s = CoreAsset THEN [b EXCEPT !.core[a] = @ + delta]
                              ELSE [b EXCEPT !.acc[a] = @ + delta]]

(* adjust_balance for each payment in order, each in its own asset.        *)
RECURSIVE PayAll(_, _)
PayAll(b, pays) ==
    IF pays = <<>> THEN [ok |-> TRUE, bal |-> b]
    ELSE LET adj == AdjustBalance(b, Head(pays).account, Head(pays).asset, Head(pays).amount)
         IN  IF adj.ok THEN PayAll(adj.bal, Tail(pays)) ELSE [ok |-> FALSE, bal |-> b]

(* The history of releases gains the committed tap flows.                  *)
Record(hist, rels) ==
    [k \in DOMAIN hist |->
        [s \in DOMAIN hist[k] |->
            hist[k][s] + IF s = now
                         THEN SumFunction([j \in {j \in DOMAIN rels :
                                                  <<rels[j].tank, rels[j].tap>> = k} |->
                                              rels[j].amount])
                         ELSE 0]]

(* Fault variant: the tank being destroyed is not required to be empty.    *)
TankEmptiedUnchecked(stg, t) == TRUE

(* A tank destroyed by its destructor tap must have been emptied by the    *)
(* tap flows of the operation.                                             *)
TankEmptied(stg, t) == stg[t].balance = 0

(***************************************************************************)
(* The end of tap_open_evaluator::do_evaluate and do_apply: the count of  *)
(* flows must equal the declared count and a tank being destroyed must be *)
(* empty; the buffer is committed, each paid account is credited, and a   *)
(* destroyed tank is removed and its deposit paid to the payer.           *)
(***************************************************************************)
TapOpenCommit ==
    /\ op.kind = "open"
    /\ ~op.walk.active
    /\ op.queue = <<>>
    /\ LET paid    == PayAll(Balances, op.pay)
           destroy == op.claim # NoClaim
       IN  IF /\ op.flows = op.count
              /\ destroy => TankEmptied(staged, op.tank)
              /\ paid.ok
           THEN /\ tanks' = CowCommit(tanks, written)
                /\ written' = NoWrites
                /\ accounts' = paid.bal.acc
                /\ released' = Record(released, op.rels)
                /\ op' = Idle
                /\ live' = IF destroy THEN live \ {op.tank} ELSE live
                /\ core' = IF destroy THEN [paid.bal.core EXCEPT ![op.payer] = @ + op.claim]
                                     ELSE paid.bal.core
           ELSE /\ Fail
                /\ UNCHANGED <<tanks, accounts, released, live, core>>
    /\ UNCHANGED now

(***************************************************************************)
(* account_fund_connection_evaluator::do_evaluate: the account holds the   *)
(* amount, and the flow starts from the account with no current tank.     *)
(***************************************************************************)
FundConnection(c) ==
    /\ op = Idle
    /\ WithinBounds
    /\ c.amount > 0
    /\ BalanceOf(Balances, c.account, c.asset) >= c.amount
    /\ op' = [kind |-> "fund", queries |-> <<>>, count |-> 0, queue |-> <<>>, flows |-> 0,
              utils |-> <<>>, walk |-> StartWalk(AccountConn(c.account), c.conn, NoTank,
                                                 c.amount, c.asset),
              pay |-> <<>>, rels |-> <<>>, funder |-> c.account, amount |-> c.amount,
              tank |-> NoTank, claim |-> NoClaim, payer |-> c.account, asset |-> c.asset]
    /\ UNCHANGED <<now, tanks, accounts, written, live, core, released>>

(* account_fund_connection_evaluator::do_apply: commit, debit the funder   *)
(* in the funding asset, credit the paid accounts.                         *)
FundCommit ==
    /\ op.kind = "fund"
    /\ ~op.walk.active
    /\ LET debited == AdjustBalance(Balances, op.funder, op.asset, -op.amount)
           paid    == PayAll(debited.bal, op.pay)
       IN  IF debited.ok /\ paid.ok
           THEN /\ tanks' = CowCommit(tanks, written)
                /\ written' = NoWrites
                /\ accounts' = paid.bal.acc
                /\ core' = paid.bal.core
                /\ op' = Idle
           ELSE /\ Fail
                /\ UNCHANGED <<tanks, accounts, core>>
    /\ UNCHANGED <<now, live, released>>

(***************************************************************************)
(* tank_query_evaluator: every query evaluates against the tank, then all *)
(* apply to it in order, in one step.                                      *)
(***************************************************************************)
TankQuery(c) ==
    LET applied == ApplyQueries(tanks[c.tank], c.queries, now)
    IN  /\ op = Idle
        /\ WithinBounds
        /\ TankQueryValid(c)
        /\ c.tank \in live
        /\ \A j \in DOMAIN c.queries : EvaluateQuery([x \in live |-> tanks[x]], c.tank, c.queries[j], now)
        /\ applied.ok
        /\ tanks' = [tanks EXCEPT ![c.tank] = applied.obj]
        /\ UNCHANGED <<now, accounts, written, op, live, core, released>>

(* A new block: head_block_time advances between operations.              *)
Tick ==
    /\ op = Idle
    /\ now < MaxTime
    /\ now' = now + 1
    /\ UNCHANGED <<tanks, accounts, written, op, live, core, released>>

(* The time bound of the model is reached.                                 *)
Done ==
    /\ op = Idle
    /\ now = MaxTime
    /\ UNCHANGED vars

Next ==
    \/ \E c \in OpenOps : TapOpen(c)
    \/ \E c \in OpenOps : TapOpenDestroyEmpty(c)
    \/ FlowOpen
    \/ FlowHop
    \/ FlowDeposit
    \/ TapOpenCommit
    \/ \E c \in FundOps : FundConnection(c)
    \/ FundCommit
    \/ \E c \in QueryOps : TankQuery(c)
    \/ Tick
    \/ Done

Spec == Init /\ [][Next]_vars

(* An operation is evaluated by one call of do_evaluate and do_apply that  *)
(* has no suspension point: once started, its loops keep running until    *)
(* they return or throw.  So each internal step is weakly fair; starting  *)
(* an operation and the passing of time are not.                           *)
Fairness ==
    /\ WF_vars(FlowOpen)
    /\ WF_vars(FlowHop)
    /\ WF_vars(FlowDeposit)
    /\ WF_vars(TapOpenCommit)
    /\ WF_vars(FundCommit)

FairSpec == Spec /\ Fairness

-----------------------------------------------------------------------------
(* Every variable has the shape the code gives it.                         *)
TypeOK ==
    /\ now \in 0..MaxTime
    /\ DOMAIN tanks = Tanks /\ DOMAIN written \subseteq Tanks
    /\ \A t \in Tanks : tanks[t].balance \in Int /\ staged[t].balance \in Int
    /\ op = Idle => written = NoWrites
    /\ accounts \in [Accounts -> Int]
    /\ live \subseteq Tanks
    /\ core \in [Accounts -> Int]
    /\ op.kind \in {"idle", "open", "fund"}
    /\ op.kind # "idle" =>
          /\ op.flows \in 0..op.count
          /\ \A j \in DOMAIN op.queue : op.queue[j].tank \in Tanks
          /\ op.walk.len \in 0..MaxChain
    /\ released \in [TapKeys -> [0..MaxTime -> Int]]

(* No tank balance is ever negative after a committed operation (spec,   *)
(* section 8): evaluate_tap_flow never releases more than the tank holds. *)
TankBalanceNonNegative == \A t \in Tanks : tanks[t].balance >= 0

(* Over the whole history, the releases through a tap never exceed the    *)
(* limit of any of its cumulative_flow_limit requirements, nor, within    *)
(* any one period, the limit of its periodic_flow_limit requirements,     *)
(* although max_tap_release and prepare_tap_release only see the          *)
(* accessory state that earlier operations left in the tank.               *)
TapLimitsRespected ==
    \A k \in TapKeys :
        LET reqs == tanks[k[1]].schematic.taps[k[2]].reqs
            RelIn(S) == SumFunction([s \in S |-> released[k][s]])
        IN  \A i \in DOMAIN reqs :
               /\ reqs[i].type = "cumulative" => RelIn(0..MaxTime) <= reqs[i].limit
               /\ reqs[i].type = "periodic" =>
                     \A p \in 0..(MaxTime \div reqs[i].period) :
                        RelIn({s \in 0..MaxTime : PeriodNumAtTime(reqs[i], 0, s) = p})
                           <= reqs[i].limit

-----------------------------------------------------------------------------
(* Properties that state what the spec says of particular requirements.   *)

(* The lock state the spec gives a time_lock (section 4.F): start_locked,  *)
(* flipped once for each lock_unlock_time already passed.                  *)
SpecTimeLocked(req, s) ==
    LET passed == Cardinality({i \in DOMAIN req.times : req.times[i] < s})
    IN  IF passed % 2 = 0 THEN req.startLocked ELSE ~req.startLocked

(* No tap releases asset at a block time at which one of its time locks   *)
(* is locked (spec 4.F, and scenario 1 of section 9: a tap with           *)
(* time_lock(start_locked = true, [T]) cannot be opened before T).        *)
(* max_release_inspector reads time_lock::unlocked_at_time.                *)
TimeLockRespected ==
    \A k \in TapKeys, s \in 0..MaxTime :
        released[k][s] # 0 =>
            LET reqs == tanks[k[1]].schematic.taps[k[2]].reqs
            IN  \A i \in DOMAIN reqs : reqs[i].type = "time_lock" => ~SpecTimeLocked(reqs[i], s)

(* A delay request is consumed only once matured: while a tap_open runs,  *)
(* every request its consume_matured_request_to_open queries name has a    *)
(* delay_period_end at or before the block time (spec 4.D, "matured (now   *)
(* >= delay_period_end)"); consume_matured_request_evaluator::evaluate.   *)
ConsumedDelaysMatured ==
    op.kind = "open" =>
        \A j \in DOMAIN op.queries :
            op.queries[j].kind = "consume_delay" => Request(tanks[op.tank], op.queries[j]).end <= now

(* No review or delay requirement ever holds more pending requests than    *)
(* its request_limit (spec 4.D: a request is created only while            *)
(* pending_requests.size < request_limit), whatever queries one operation *)
(* combines; create_*_request_evaluator::evaluate reads the tank before   *)
(* any query of the operation applies.                                    *)
RequestLimitRespected ==
    \A t \in Tanks : \A tap \in DOMAIN tanks[t].schematic.taps :
        LET reqs == tanks[t].schematic.taps[tap].reqs
        IN  \A i \in DOMAIN reqs :
                reqs[i].type \in {"review", "delay"} /\ HasState(tanks[t], ReqAddr(tap, i)) =>
                    Cardinality(DOMAIN tanks[t].states[ReqAddr(tap, i)].pending) <= reqs[i].limit

(* Within one tap_open, a tap of the queried tank gated by a review or     *)
(* delay requirement releases in total no more than the amounts of the    *)
(* distinct requests the operation consumes: each request is consumed     *)
(* once and erased (spec 4.F).  max_release_inspector sums the consume     *)
(* queries it finds under the requirement's address.                      *)
ConsumedRequestsBoundRelease ==
    op.kind = "open" =>
        LET obj == tanks[op.tank]
        IN  \A tap \in DOMAIN obj.schematic.taps :
              LET reqs   == obj.schematic.taps[tap].reqs
                  mine   == {j \in DOMAIN op.rels : op.rels[j].tank = op.tank /\ op.rels[j].tap = tap}
                  flowed == SumFunction([j \in mine |-> op.rels[j].amount])
              IN  \A i \in DOMAIN reqs :
                    reqs[i].type \in {"review", "delay"} =>
                      LET ids == {op.queries[j].id :
                                     j \in {j \in DOMAIN op.queries :
                                              /\ op.queries[j].kind = ConsumeKind(reqs[i])
                                              /\ op.queries[j].addr = ReqAddr(tap, i)}}
                          amounts == [id \in ids |-> obj.states[ReqAddr(tap, i)].pending[id].amount]
                      IN  (\A id \in ids : amounts[id] # Unlimited) => flowed <= SumFunction(amounts)

(* A tap gated by a hash_preimage_requirement releases only if the        *)
(* operation reveals the preimage of that requirement's hash (spec 4.F).  *)
(* Queries are evaluated against the queried tank only, so a flow through *)
(* a hash-gated tap of any other tank reached by the cascade has no       *)
(* reveal of its own.                                                      *)
HashRevealedForFlow ==
    op.kind = "open" =>
        \A j \in DOMAIN op.rels :
            LET r    == op.rels[j]
                reqs == tanks[r.tank].schematic.taps[r.tap].reqs
            IN  \A i \in DOMAIN reqs :
                    reqs[i].type = "hash" =>
                        /\ r.tank = op.tank
                        /\ \E q \in Range(op.queries) :
                              q.kind = "reveal" /\ q.addr = ReqAddr(r.tap, i) /\ q.key = reqs[i].key

(* No asset is created or destroyed (spec 8: what a tap_open releases     *)
(* equals the decrease of the source tanks plus the credits of terminal   *)
(* tanks and accounts; scenario 1: a tank of asset A pays its recipient   *)
(* in A).  For every asset, what the live tanks storing it and the        *)
(* accounts hold (and, for CORE, the deposits) stays what it was.          *)
(* evaluate_tap_flow hands release_to_connection a bare share_type, which *)
(* converts to an amount of CORE whatever the tank stores.                 *)
Supply(tks, lv, acc, cr, s) ==
    SumFunction([t \in {t \in lv : tks[t].schematic.asset = s} |-> tks[t].balance])
      + IF s = CoreAsset THEN SumFunction(cr) + SumFunction([t \in lv |-> tks[t].deposit])
                         ELSE SumFunction(acc)

AssetsConserved ==
    \A s \in {CoreAsset} \cup {InitTanks[t].schematic.asset : t \in Tanks} :
        Supply(tanks, live, accounts, core, s) = Supply(InitTanks, Tanks, InitAccounts, InitCore, s)

(* Asset only flows forward: every tap flow of a tap_open releases a      *)
(* positive amount (evaluate_tap_flow rejects a limit of 0, subtracts     *)
(* the release from the tank and adds it to the destination).             *)
ReleasesPositive ==
    op.kind = "open" => \A j \in DOMAIN op.rels : op.rels[j].amount > 0

(* Every attachment and every tank with restricted sources receives asset *)
(* only from an authorized remote connection or from a connection on its  *)
(* own tank: "deposits coming immediately from a remote source (not the   *)
(* same tank) not specified in the set will be rejected" (types.hpp,       *)
(* authorized_connections_type).  The real source of a deposit is the      *)
(* origin or the attachment the flow last passed.                          *)
SourceRestrictionRespected ==
    [][op.kind \in {"open", "fund"} /\ op.walk.active /\ op'.kind = op.kind =>
         LET w == op.walk
         IN  /\ op'.walk.active /\ op'.walk.len = w.len + 1 =>
                   SourceAllowed(staged[op'.walk.cur].schematic.atts[w.conn.idx].sources,
                                 w.from, op'.walk.cur)
             /\ ~op'.walk.active /\ Terminal(w).type = "tank" =>
                   SourceAllowed(staged[Terminal(w).id].schematic.sources, w.from, Terminal(w).id)
    ]_vars

(* The committed state seen as the ledger of CORE: the balances of the     *)
(* tanks that store CORE, the accounts' CORE, the deposits (paid in CORE),  *)
(* the release history and block time; a destroyed tank holds nothing.    *)
(* The wrapper's written copies and the operation in progress have no     *)
(* abstract counterpart, so every step of a cascade before do_apply is a  *)
(* stuttering step of the ledger.                                          *)
CoreBalance(obj) == IF obj.schematic.asset = CoreAsset THEN obj.balance ELSE 0

Ledger == INSTANCE AbstractLedger WITH
    bal     <- [t \in Tanks |-> IF t \in live THEN CoreBalance(tanks[t]) ELSE 0],
    acc     <- core,
    dep     <- [t \in Tanks |-> IF t \in live THEN tanks[t].deposit ELSE 0],
    rel     <- released,
    time    <- now,
    InitBal <- [t \in Tanks |-> CoreBalance(InitTanks[t])],
    InitAcc <- InitCore,
    InitDep <- [t \in Tanks |-> InitTanks[t].deposit]

(* tap_open, account_fund_connection and tank_query implement the abstract *)
(* ledger: each commit (do_apply of the cow_db_wrapper and the account    *)
(* callbacks) is one atomic move that conserves asset, keeps every tank   *)
(* non-negative, takes from a tank no more than its own taps' recorded    *)
(* releases, and debits no account but the funder.                        *)
LedgerRefinement == Ledger!Spec

(* Every started tap_open and account_fund_connection ends, committed or  *)
(* rejected: the queue loop of evaluate_tap_flow and the hop loop of      *)
(* release_to_connection terminate although openers re-queue taps and     *)
(* connections may form cycles, because enqueueTap bounds the taps by the *)
(* count and the hop loop bounds the path by max_connection_chain_length. *)
OperationCompletes == op # Idle ~> op = Idle

(* A cascade never opens more taps than the chain's max_taps_to_open      *)
(* parameter allows (spec 4.G, and scenario 4 of section 9: a cascade of  *)
(* five taps fails when max_taps_to_open is 3).  enqueueTap compares the  *)
(* queued and completed taps with its max_taps_to_open argument.          *)
CascadeWithinMaxTaps ==
    op.kind = "open" => Len(op.queue) + op.flows <= MaxTaps

=============================================================================

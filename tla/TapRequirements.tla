--------------------------- MODULE TapRequirements ---------------------------
(***************************************************************************)
(* The tap requirement utility (chain/tnt/tap_requirement_utility.cpp).    *)
(*                                                                         *)
(* One utility exists per tap opened in an operation and survives repeated *)
(* openings of that tap within the operation.  Its state is a record       *)
(*   [rem |-> remaining_limits, adjusted |-> adjusted_states,              *)
(*    restrictive |-> most_restrictive_requirement]                        *)
(* where rem maps a requirement position to a flow limit, adjusted is the  *)
(* set of positions whose consumed requests were already erased, and       *)
(* restrictive is a position or 0 for "none".                             *)
(*                                                                         *)
(* view maps every tank to the tank object as read through the             *)
(* copy-on-write buffer; queries is the operation's query list.            *)
(***************************************************************************)
EXTENDS TankTypes

NewUtility == [rem |-> [i \in {} |-> 0], adjusted |-> {}, restrictive |-> 0]

(* query_evaluator::get_target_queries: the queries recorded under an      *)
(* accessory address.  Addresses compare by position only, whatever the   *)
(* tank or accessory type.                                                 *)
TargetQueries(queries, addr) ==
    SelectSeq(queries, LAMBDA q : "addr" \in DOMAIN q /\ q.addr = addr)

(* query_evaluator::get_tank_queries contains a documentation_string.      *)
HasDocumentation(queries) ==
    \E j \in DOMAIN queries : queries[j].kind = "documentation"

ConsumeKind(req) == IF req.type = "review" THEN "consume_review" ELSE "consume_delay"

(* The request-requirement branch of max_release_inspector: on the first   *)
(* opening, the sum of the amounts of the consumed requests (unlimited as  *)
(* soon as one is unlimited, and an out_of_range failure as soon as a      *)
(* consumed id is not pending); later openings return what is left.       *)
RequestMaxRelease(obj, addr, i, req, rem, queries) ==
    LET consumed == SelectSeq(TargetQueries(queries, addr),
                              LAMBDA q : q.kind = ConsumeKind(req))
        pending  == obj.states[addr].pending
        RECURSIVE Sum(_, _)
        Sum(j, acc) ==
            IF j > Len(consumed) THEN [ok |-> TRUE, limit |-> acc]
            ELSE IF consumed[j].id \notin DOMAIN pending THEN [ok |-> FALSE, limit |-> 0]
            ELSE IF pending[consumed[j].id].amount = Unlimited
                 THEN [ok |-> TRUE, limit |-> Unlimited]
            ELSE Sum(j + 1, acc + pending[consumed[j].id].amount)
    IN  IF i \in DOMAIN rem THEN [ok |-> TRUE, limit |-> rem[i], rem |-> rem]
        ELSE IF ~HasState(obj, addr) THEN [ok |-> TRUE, limit |-> 0, rem |-> (i :> 0) @@ rem]
        ELSE LET s == Sum(1, 0)
             IN  [ok |-> s.ok, limit |-> s.limit, rem |-> (i :> s.limit) @@ rem]

(* The ticket branch: the first redeemed ticket's max_withdrawal bounds    *)
(* every opening of the tap in the operation.                             *)
TicketMaxRelease(addr, i, rem, queries) ==
    LET redeemed == SelectSeq(TargetQueries(queries, addr), LAMBDA q : q.kind = "redeem")
        limit    == IF redeemed = <<>> THEN 0 ELSE redeemed[1].maxW
    IN  IF i \in DOMAIN rem THEN [ok |-> TRUE, limit |-> rem[i], rem |-> rem]
        ELSE [ok |-> TRUE, limit |-> limit, rem |-> (i :> limit) @@ rem]

(* max_release_inspector, cumulative_flow_limit: the limit less what the   *)
(* tap has released so far.                                                *)
CumulativeMaxRelease(obj, addr, req) ==
    IF HasState(obj, addr) THEN req.limit - obj.states[addr].released ELSE req.limit

(* Fault variant: the periodic limit ignores what the period released.    *)
PeriodicMaxReleaseIgnoringState(obj, addr, req, now) == req.limit

(* max_release_inspector, periodic_flow_limit: the limit less what the     *)
(* current period released; a state of an earlier period counts nothing.  *)
(* Tanks are created at time 0.                                            *)
PeriodicMaxRelease(obj, addr, req, now) ==
    IF HasState(obj, addr) /\ obj.states[addr].period = PeriodNumAtTime(req, 0, now)
    THEN req.limit - obj.states[addr].released ELSE req.limit

(* max_release_inspector: the limit one requirement puts on the tap.       *)
ReqMaxRelease(view, t, tap, i, rem, queries, now) ==
    LET obj  == view[t]
        req  == Requirement(obj, tap, i)
        addr == ReqAddr(tap, i)
        Just(l) == [ok |-> TRUE, limit |-> l, rem |-> rem]
        meterTank == IF req.type = "exchange" /\ req.meter.tank # NoTank THEN req.meter.tank ELSE t
    IN  CASE req.type = "immediate" -> Just(req.limit)
          [] req.type = "cumulative" -> Just(CumulativeMaxRelease(obj, addr, req))
          [] req.type = "periodic" -> Just(PeriodicMaxRelease(obj, addr, req, now))
          [] req.type = "time_lock" -> Just(IF UnlockedAtTime(req, now) THEN Unlimited ELSE 0)
          [] req.type = "min_level" ->
                Just(IF obj.balance <= req.level THEN 0 ELSE obj.balance - req.level)
          [] req.type = "documentation" -> Just(IF HasDocumentation(queries) THEN Unlimited ELSE 0)
          [] req.type \in {"review", "delay"} -> RequestMaxRelease(obj, addr, i, req, rem, queries)
          [] req.type = "hash" ->
                Just(IF \E j \in DOMAIN TargetQueries(queries, addr) :
                           TargetQueries(queries, addr)[j].kind = "reveal"
                     THEN Unlimited ELSE 0)
          [] req.type = "ticket" -> TicketMaxRelease(addr, i, rem, queries)
          [] req.type = "exchange" ->
                Just(IF ~HasState(view[meterTank], AttAddr(req.meter.idx)) THEN 0
                     ELSE ExchangeMaxRelease(req, StateOr(obj, addr, DefaultReleased).released,
                                             view[meterTank].states[AttAddr(req.meter.idx)].metered))

(* The loop of tap_requirement_utility::max_tap_release: lower the limit   *)
(* to each requirement's limit in order, remember the most restrictive    *)
(* requirement, stop at 0.  ok is FALSE if a lookup threw.                 *)
TapLimitLoop(view, t, tap, util, queries, now, start) ==
    LET reqs == view[t].schematic.taps[tap].reqs
        RECURSIVE Loop(_, _)
        Loop(i, acc) ==
            IF i > Len(reqs) \/ ~acc.ok THEN acc
            ELSE Bind(ReqMaxRelease(view, t, tap, i, acc.rem, queries, now),
                      LAMBDA r :
                        LET less == LimitLess(r.limit, acc.limit)
                            next == [ok          |-> r.ok,
                                     limit       |-> IF less THEN r.limit ELSE acc.limit,
                                     restrictive |-> IF less THEN i ELSE acc.restrictive,
                                     rem         |-> r.rem]
                        IN  IF next.limit = 0 THEN next ELSE Loop(i + 1, next))
        res == Loop(1, [ok |-> TRUE, limit |-> start,
                        restrictive |-> util.restrictive, rem |-> util.rem])
    IN  [ok |-> res.ok, limit |-> res.limit, restrictive |-> res.restrictive,
         util |-> [util EXCEPT !.rem = res.rem, !.restrictive = res.restrictive]]

(* tap_requirement_utility::max_tap_release: the limit starts at the      *)
(* balance of the tank as the buffer holds it.                             *)
MaxTapRelease(view, t, tap, util, queries, now) ==
    TapLimitLoop(view, t, tap, util, queries, now, view[t].balance)

(* tap_requirement_utility_impl::adjust_limit; remaining_limits[index]     *)
(* default-constructs an unlimited entry when none exists.                 *)
AdjustLimit(rem, i, amount) ==
    LET lim == IF i \in DOMAIN rem THEN rem[i] ELSE Unlimited
    IN  [ok  |-> lim = Unlimited \/ lim >= amount,
         rem |-> (i :> IF lim = Unlimited THEN Unlimited ELSE lim - amount) @@ rem]

(* prepare_release_inspector: one requirement's update for a release.      *)
(* acc is [ok, obj, util]; obj is the tap's tank object.                   *)
ReqPrepareRelease(acc, tap, i, queries, now, amount) ==
    LET obj  == acc.obj
        util == acc.util
        req  == Requirement(obj, tap, i)
        addr == ReqAddr(tap, i)
        mine == TargetQueries(queries, addr)
        adj  == AdjustLimit(util.rem, i, amount)
        Put(st) == [acc EXCEPT !.obj = PutState(obj, addr, st)]
        periodic == StateOr(obj, addr, DefaultPeriodic)
        pnum     == PeriodNumAtTime(req, 0, now)
        requests == StateOr(obj, addr, DefaultRequests)
        erased   == {mine[j].id : j \in {j \in DOMAIN mine : mine[j].kind = ConsumeKind(req)}}
        redeemed == SelectSeq(mine, LAMBDA q : q.kind = "redeem")
        ticket   == StateOr(obj, addr, DefaultTicket)
    IN  CASE req.type \in {"cumulative", "exchange"} ->
                Put([released |-> StateOr(obj, addr, DefaultReleased).released + amount])
          [] req.type = "periodic" ->
                Put(IF periodic.period # pnum THEN [period |-> pnum, released |-> amount]
                    ELSE [periodic EXCEPT !.released = @ + amount])
          [] req.type \in {"review", "delay"} ->
                IF i \in util.adjusted
                THEN [acc EXCEPT !.ok = adj.ok, !.util.rem = adj.rem]
                ELSE [ok   |-> adj.ok,
                      obj  |-> PutState(obj, addr,
                                 [requests EXCEPT !.pending =
                                    [id \in DOMAIN @ \ erased |-> @[id]]]),
                      util |-> [util EXCEPT !.rem = adj.rem, !.adjusted = @ \cup {i}]]
          [] req.type = "ticket" ->
                [ok   |-> adj.ok,
                 obj  |-> PutState(obj, addr,
                            IF redeemed = <<>> THEN ticket
                            ELSE [consumed |-> redeemed[Len(redeemed)].number + 1]),
                 util |-> [util EXCEPT !.rem = adj.rem]]
          [] OTHER -> acc

(* tap_requirement_utility::prepare_tap_release: every requirement of the  *)
(* tap, in order, sees the released amount; a failed adjust_limit throws. *)
PrepareTapRelease(obj, tap, util, queries, now, amount) ==
    LET reqs == obj.schematic.taps[tap].reqs
        RECURSIVE Loop(_, _)
        Loop(i, acc) ==
            IF i > Len(reqs) \/ ~acc.ok THEN acc
            ELSE Bind(ReqPrepareRelease(acc, tap, i, queries, now, amount),
                      LAMBDA next : Loop(i + 1, next))
    IN  Loop(1, [ok |-> TRUE, obj |-> obj, util |-> util])

=============================================================================

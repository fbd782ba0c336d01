--------------------------- MODULE QueryEvaluator ---------------------------
(***************************************************************************)
(* Tank queries: their stateless validation (protocol/tnt/operations.cpp   *)
(* validate_queries) and the evaluate/apply pair of each of the fourteen   *)
(* query evaluators of chain/tnt/query_evaluator.cpp.                      *)
(*                                                                         *)
(* A query is a record with a kind, the accessory address it targets (no   *)
(* address for a documentation string) and the fields its evaluator       *)
(* reads.  Authorities are abstracted: the operation declares exactly the *)
(* authorities its queries require, so auth_usage_checker always passes;  *)
(* what remains are the checks that an authority is set at all.  A review *)
(* requirement's reviewer is a value, since an approval is signed by the  *)
(* reviewer of its time.  A hash preimage is the key it must equal; a     *)
(* ticket signature is its signer.                                         *)
(***************************************************************************)
EXTENDS TapRequirements

(* The accessory type each query kind targets (query_api.hpp target_type). *)
TargetType(kind) ==
    CASE kind = "reset_meter"                                        -> "meter"
      [] kind = "reconnect"                                          -> "connect_auth"
      [] kind \in {"create_review", "review", "cancel_review", "consume_review"} -> "review"
      [] kind \in {"create_delay", "veto", "cancel_delay", "consume_delay"}      -> "delay"
      [] kind = "reveal"                                             -> "hash"
      [] kind = "redeem"                                             -> "ticket"
      [] kind = "reset_exchange"                                     -> "exchange"
      [] OTHER                                                       -> "tank"

(* Query flags of query_api.hpp                                            *)
TapOpenOnly == {"consume_review", "consume_delay", "reveal", "redeem"}
UniqueKinds == {"reset_meter", "reconnect", "reveal", "redeem", "reset_exchange"}

(* tank_accessory_address::get: the address names an accessory of the     *)
(* query's target type.                                                    *)
TargetOk(obj, q) ==
    LET a == q.addr
    IN  IF a[1] = "att"
        THEN /\ a[2] \in DOMAIN obj.schematic.atts
             /\ obj.schematic.atts[a[2]].type = TargetType(q.kind)
        ELSE /\ a[2] \in DOMAIN obj.schematic.taps
             /\ a[3] \in DOMAIN obj.schematic.taps[a[2]].reqs
             /\ obj.schematic.taps[a[2]].reqs[a[3]].type = TargetType(q.kind)

Target(obj, q) ==
    IF q.addr[1] = "att" THEN obj.schematic.atts[q.addr[2]]
    ELSE obj.schematic.taps[q.addr[2]].reqs[q.addr[3]]

(* The validate() of the query contents (query_api.hpp): a request amount *)
(* is not zero, a ticket's maximum withdrawal is positive.                 *)
(* validate_queries: content validation, the tap-open-only flag, the       *)
(* per-kind uniqueness of targets, and a ticket naming the queried tank   *)
(* and the query's own address.                                            *)
ContentValid(q) ==
    /\ q.kind \in {"create_review", "create_delay"} /\ q.amount # Unlimited => q.amount # 0
    /\ q.kind = "redeem" /\ q.maxW # Unlimited => q.maxW > 0

ValidateQueries(queries, t, tapOpen) ==
    \A j \in DOMAIN queries :
        LET q == queries[j]
        IN  /\ ContentValid(q)
            /\ q.kind \in TapOpenOnly => tapOpen
            /\ q.kind \in UniqueKinds =>
                  \A k \in 1..(j - 1) : ~(queries[k].kind = q.kind /\ queries[k].addr = q.addr)
            /\ q.kind = "redeem" => q.tank = t /\ q.addr = ReqAddr(q.tap, q.ri)

(* tank_query_operation::validate: a non-empty list of valid queries.     *)
TankQueryValid(c) == c.queries # <<>> /\ ValidateQueries(c.queries, c.tank, FALSE)

(* The requested id is pending at the targeted requirement.                *)
Pending(obj, q) == HasState(obj, q.addr) /\ q.id \in DOMAIN obj.states[q.addr].pending

Request(obj, q) == obj.states[q.addr].pending[q.id]

OpenAuthoritySet(obj, q) == obj.schematic.taps[q.addr[2]].openAuth

(* lookup_utilities::get_connection_asset, as seen from tank t; db holds  *)
(* the existing tanks, and the lookup of any other tank is an error.       *)
ConnectionAsset(db, t, c) ==
    LET tk == IF c.type = "att" /\ c.tank # NoTank THEN c.tank ELSE t
    IN  CASE c.type = "same"    -> db[t].schematic.asset
          [] c.type = "account" -> "any"
          [] c.type = "tank"    -> IF c.id \in DOMAIN db THEN db[c.id].schematic.asset ELSE "none"
          [] c.type = "att"     ->
                IF tk \in DOMAIN db /\ c.idx \in DOMAIN db[tk].schematic.atts
                   /\ db[tk].schematic.atts[c.idx].type \in {"meter", "opener"}
                THEN db[tk].schematic.atts[c.idx].asset ELSE "none"

(***************************************************************************)
(* The evaluate() of each evaluator, on the tank as it is in the database. *)
(***************************************************************************)
(* reset_meter_evaluator: the meter has metered something.                 *)
ResetMeterEvaluate(obj, q) == HasState(obj, q.addr) /\ obj.states[q.addr].metered > 0

(* reconnect_attachment_evaluator: the target receives asset and the new   *)
(* connection receives its asset, or any.                                  *)
ReconnectAttachmentEvaluate(db, t, obj, q) ==
    LET tgt == Target(obj, q)
    IN  /\ tgt.target \in DOMAIN obj.schematic.atts
        /\ obj.schematic.atts[tgt.target].type \in {"meter", "opener"}
        /\ ConnectionAsset(db, t, q.conn) \in {"any", obj.schematic.atts[tgt.target].asset}

(* create_review_request_evaluator and create_delay_request_evaluator: the *)
(* open authority is set, and the pending requests are below the limit.   *)
CreateRequestEvaluate(obj, q) ==
    /\ OpenAuthoritySet(obj, q)
    /\ HasState(obj, q.addr) => Cardinality(DOMAIN obj.states[q.addr].pending) < Target(obj, q).limit

(* review_request_evaluator: the request is pending and not yet approved.  *)
ReviewRequestEvaluate(obj, q) == Pending(obj, q) /\ ~Request(obj, q).approved

(* cancel_review_request_evaluator and cancel_delay_request_evaluator      *)
CancelRequestEvaluate(obj, q) == HasState(obj, q.addr) /\ OpenAuthoritySet(obj, q) /\ Pending(obj, q)

(* consume_reviewed_request_evaluator: the request is pending and approved *)
ConsumeReviewedEvaluate(obj, q) ==
    HasState(obj, q.addr) /\ OpenAuthoritySet(obj, q) /\ Pending(obj, q) /\ Request(obj, q).approved

(* veto_request_evaluator: vetoing is allowed and the request has not      *)
(* matured.                                                                *)
VetoRequestEvaluate(obj, q, now) ==
    HasState(obj, q.addr) /\ Target(obj, q).veto /\ Pending(obj, q) /\ Request(obj, q).end < now

(* consume_matured_request_evaluator                                       *)
ConsumeMaturedEvaluate(obj, q, now) ==
    HasState(obj, q.addr) /\ OpenAuthoritySet(obj, q) /\ Pending(obj, q) /\ Request(obj, q).end >= now

(* reveal_preimage_evaluator: the preimage hashes to the requirement's hash *)
RevealPreimageEvaluate(obj, q) == q.key = Target(obj, q).key

(* redeem_ticket_evaluator: the ticket number is the next one and the      *)
(* signature is the requirement's signer's.                                *)
RedeemTicketEvaluate(obj, q) ==
    /\ q.number = StateOr(obj, q.addr, DefaultTicket).consumed
    /\ q.signer = Target(obj, q).signer

(* reset_exchange_evaluator: the exchange has released something and its   *)
(* meter, if it has state, is at zero; the meter's tank must exist.       *)
ResetExchangeEvaluate(db, t, obj, q) ==
    LET tgt == Target(obj, q)
        mt  == IF tgt.meter.tank # NoTank THEN tgt.meter.tank ELSE t
    IN  /\ HasState(obj, q.addr) /\ obj.states[q.addr].released > 0
        /\ mt \in DOMAIN db
        /\ HasState(db[mt], AttAddr(tgt.meter.idx)) =>
              db[mt].states[AttAddr(tgt.meter.idx)].metered = 0

(* query_evaluator::evaluate_query: the target lookup, then the evaluate() *)
(* of the query's evaluator; db is the existing tanks.                     *)
EvaluateQuery(db, t, q, now) ==
    LET obj == db[t]
    IN  CASE q.kind = "documentation" -> TRUE
          [] OTHER -> TargetOk(obj, q) /\
             CASE q.kind = "reset_meter"                         -> ResetMeterEvaluate(obj, q)
               [] q.kind = "reconnect"                           -> ReconnectAttachmentEvaluate(db, t, obj, q)
               [] q.kind \in {"create_review", "create_delay"}   -> CreateRequestEvaluate(obj, q)
               [] q.kind = "review"                              -> ReviewRequestEvaluate(obj, q)
               [] q.kind \in {"cancel_review", "cancel_delay"}   -> CancelRequestEvaluate(obj, q)
               [] q.kind = "consume_review"                      -> ConsumeReviewedEvaluate(obj, q)
               [] q.kind = "veto"                                -> VetoRequestEvaluate(obj, q, now)
               [] q.kind = "consume_delay"                       -> ConsumeMaturedEvaluate(obj, q, now)
               [] q.kind = "reveal"                              -> RevealPreimageEvaluate(obj, q)
               [] q.kind = "redeem"                              -> RedeemTicketEvaluate(obj, q)
               [] q.kind = "reset_exchange"                      -> ResetExchangeEvaluate(db, t, obj, q)

(* A new request; approvedBy is history, not a field of the code: the     *)
(* reviewer whose authority the approving query required.                  *)
NewRequest(q, tgt, now) ==
    [amount     |-> q.amount,
     approved   |-> FALSE,
     end        |-> IF q.kind = "create_delay" THEN now + tgt.delay ELSE 0,
     approvedBy |-> {}]

(* The apply() of the query's evaluator on the (staged) tank object; ok is *)
(* FALSE where the apply throws.                                           *)
ApplyQuery(obj, q, now) ==
    LET Done(o) == [ok |-> TRUE, obj |-> o]
        st   == IF "addr" \in DOMAIN q THEN StateOr(obj, q.addr, DefaultRequests) ELSE DefaultRequests
        Erase(o) == PutState(o, q.addr, [st EXCEPT !.pending = [id \in DOMAIN @ \ {q.id} |-> @[id]]])
    IN  CASE q.kind = "reset_meter" -> Done(PutState(obj, q.addr, [metered |-> 0]))
          [] q.kind = "reconnect" ->
                Done([obj EXCEPT !.schematic.atts[Target(obj, q).target].dest = q.conn])
          [] q.kind \in {"create_review", "create_delay"} ->
                Done(PutState(obj, q.addr,
                        [counter |-> st.counter + 1,
                         pending |-> (st.counter :> NewRequest(q, Target(obj, q), now)) @@ st.pending]))
          [] q.kind = "review" ->
                IF ~q.approved THEN Done(Erase(obj))
                ELSE IF q.id \notin DOMAIN st.pending THEN [ok |-> FALSE, obj |-> obj]
                ELSE Done(PutState(obj, q.addr, [st EXCEPT !.pending[q.id].approved   = TRUE,
                                                             !.pending[q.id].approvedBy = {Target(obj, q).reviewer}]))
          [] q.kind \in {"cancel_review", "veto", "cancel_delay"} -> Done(Erase(obj))
          [] q.kind = "redeem" ->
                Done(PutState(obj, q.addr,
                        [consumed |-> StateOr(obj, q.addr, DefaultTicket).consumed + 1]))
          [] q.kind = "reset_exchange" -> Done(PutState(obj, q.addr, [released |-> 0]))
          [] OTHER -> Done(obj)

(* query_evaluator::apply_queries: every evaluated query, in order.        *)
ApplyQueries(obj, queries, now) ==
    LET RECURSIVE Loop(_, _)
        Loop(j, acc) ==
            IF j > Len(queries) \/ ~acc.ok THEN acc
            ELSE Bind(ApplyQuery(acc.obj, queries[j], now), LAMBDA next : Loop(j + 1, next))
    IN  Loop(1, [ok |-> TRUE, obj |-> obj])

=============================================================================

----------------------------- MODULE TankTypes -----------------------------
(***************************************************************************)
(* The accessory model of Tanks and Taps (protocol/tnt/types.hpp,          *)
(* tank_accessory_address.hpp, chain/tnt/object.hpp): connections, flow    *)
(* limits, accessory addresses and the per-tank accessory state map.       *)
(*                                                                         *)
(* Data is abstracted to what the properties tell apart: an account, tank  *)
(* or asset is a model value, an authority is reduced to "is it set", a    *)
(* hash is reduced to the one preimage that matches it and a signature to  *)
(* the key that made it.                                                   *)
(***************************************************************************)
EXTENDS Integers, Sequences, FiniteSets, TLC

CONSTANTS
    Unlimited,   \* unlimited_flow, the unbounded asset_flow_limit
    AllSources,  \* all_sources, an unrestricted authorized_connections_type
    NoTank,      \* an unset optional<tank_id_type>
    NoConn       \* an unset optional<connection>

(* connection = static_variant<same_tank, account_id_type, tank_id_type,   *)
(* attachment_id_type>; an attachment id whose tank is NoTank refers to    *)
(* "the current tank".                                                     *)
SameTank        == [type |-> "same"]
AccountConn(a)  == [type |-> "account", id |-> a]
TankConn(t)     == [type |-> "tank", id |-> t]
AttConn(t, i)   == [type |-> "att", tank |-> t, idx |-> i]

IsTerminal(c) == c.type # "att"

(* remote_connection omits same_tank; import_from a same_tank connection   *)
(* fails.                                                                  *)
IsRemote(c) == c.type # "same"

(* get_connection_tank: the tank a remote connection is on, if known.      *)
ConnTank(c) ==
    CASE c.type = "tank" -> c.id
      [] c.type = "att"  -> c.tank
      [] OTHER           -> NoTank

(* asset_flow_limit ordering: unlimited is the greatest value.             *)
LimitLess(a, b) ==
    /\ a # Unlimited
    /\ b = Unlimited \/ a < b

LimitLeq(a, b) ==
    \/ b = Unlimited
    \/ a # Unlimited /\ a <= b

(* time_lock::unlocked_at_time, exactly as written: the number of switch   *)
(* times strictly before now decides between start_locked and its         *)
(* negation.                                                               *)
UnlockedAtTime(req, now) ==
    LET switches == Cardinality({i \in DOMAIN req.times : req.times[i] < now})
    IN  IF switches % 2 = 1 THEN ~req.startLocked ELSE req.startLocked

(* periodic_flow_limit::period_num_at_time                                 *)
PeriodNumAtTime(req, creation, now) == (now - creation) \div req.period

(* exchange_requirement::max_release_amount                                *)
ExchangeMaxRelease(req, released, metered) ==
    (metered \div req.tick) * req.perTick - released

(* Accessory addresses carry no tank id: an attachment is addressed by its *)
(* index, a requirement by (tap index, requirement index).                 *)
AttAddr(i)       == <<"att", i>>
ReqAddr(tap, ri) == <<"req", tap, ri>>

(* A tap_id_type used as a search key among addresses.                     *)
TapIdKey(tap) == <<"tap", tap>>

(* accessory_address_lt: attachments by index, all below requirements and  *)
(* tap ids; requirements by (tap, index); a tap id compares with a         *)
(* requirement by tap alone, so it matches all requirements of its tap.   *)
(* The accessory type takes no part.                                       *)
AddressLt(a, b) ==
    CASE a[1] = "att" /\ b[1] = "att" -> a[2] < b[2]
      [] a[1] = "att"                 -> TRUE
      [] b[1] = "att"                 -> FALSE
      [] a[1] = "req" /\ b[1] = "req" -> a[2] < b[2] \/ (a[2] = b[2] /\ a[3] < b[3])
      [] OTHER                        -> a[2] < b[2]

(* The keys a flat_map ordered by accessory_address_lt finds equal to k.   *)
EqualRange(keys, k) == {a \in keys : ~AddressLt(a, k) /\ ~AddressLt(k, a)}

(* tank_object::get_state: the state at an address, if any                *)
HasState(obj, addr) == addr \in DOMAIN obj.states

(* tank_object::get_or_create_state, followed by a write of the new state. *)
(* A missing state starts from the default of its type.                    *)
PutState(obj, addr, st) ==
    [obj EXCEPT !.states = (addr :> st) @@ obj.states]

StateOr(obj, addr, default) ==
    IF HasState(obj, addr) THEN obj.states[addr] ELSE default

(* Default-constructed accessory states (types.hpp state_type structs).    *)
NoRequests        == [id \in {} |-> 0]
DefaultMeter      == [metered |-> 0]
DefaultReleased   == [released |-> 0]
DefaultPeriodic   == [period |-> 0, released |-> 0]
DefaultRequests   == [counter |-> 0, pending |-> NoRequests]
DefaultTicket     == [consumed |-> 0]

(* The value of F at v, with v computed once and passed on as a value.     *)
Bind(v, F(_)) == CHOOSE r \in {F(x) : x \in {v}} : TRUE

(* A requirement of a tap, at 1-based position ri of its requirement list. *)
Requirement(obj, tap, ri) == obj.schematic.taps[tap].reqs[ri]

=============================================================================

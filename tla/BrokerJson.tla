----------------------------- MODULE BrokerJson -----------------------------
(* The conversions between the broker's JSON and the structs of                *)
(* alpaca_trade_client (json_utils.cpp, enum_serialization.hpp).               *)
(*                                                                             *)
(* A JSON value is a record of its kind and its content; an object's content   *)
(* is a function on its keys.  A struct is a function on the members that have *)
(* a value, each called by its JSON key; an optional member without a value is *)
(* not in the domain.  Each conversion is given by its table, the fields it    *)
(* reads or writes.  The legs of an order are kept as one value: each of them  *)
(* is an order again.                                                          *)
EXTENDS Sequences

Json(kind, x) == [is |-> kind, val |-> x]
Null == Json("null", "")

(* enum_mapping: the word each enumerator is written as. *)
SameWords(words) == [w \in words |-> w]

Mappings ==
    [account_status |-> SameWords(
        {"ACCOUNT_CLOSED", "ACCOUNT_UPDATED", "ACTION_REQUIRED", "ACTIVE", "AML_REVIEW",
         "APPROVAL_PENDING", "APPROVED", "DISABLED", "DISABLE_PENDING", "EDITED", "INACTIVE",
         "KYC_SUBMITTED", "LIMITED", "ONBOARDING", "PAPER_ONLY", "REAPPROVAL_PENDING",
         "REJECTED", "RESUBMITTED", "SIGNED_UP", "SUBMISSION_FAILED", "SUBMITTED"}),
     asset_exchange |->
        [w \in {"AMEX", "ARCA", "BATS", "NYSE", "NASDAQ", "NYSEARCA", "OTC", "FTXU", "CBSE",
                "GNSS", "ERSX", "CRYPTO", "EMPTY"} |-> IF w = "EMPTY" THEN "" ELSE w],
     asset_class |->
        [US_EQUITY |-> "us_equity", US_OPTION |-> "us_option", CRYPTO |-> "crypto"],
     position_side |-> [LONG |-> "long", SHORT |-> "short"],
     order_side |-> [BUY |-> "buy", SELL |-> "sell"],
     order_class |-> [SIMPLE |-> "simple", BRACKET |-> "bracket", OCO |-> "oco",
                      OTO |-> "oto", MLEG |-> "mleg"],
     order_type |-> [MARKET |-> "market", LIMIT |-> "limit", STOP |-> "stop",
                     STOP_LIMIT |-> "stop_limit", TRAILING_STOP |-> "trailing_stop"],
     time_in_force |-> [DAY |-> "day", GTC |-> "gtc", OPG |-> "opg", CLS |-> "cls",
                        IOC |-> "ioc", FOK |-> "fok"],
     order_status |->
        [NEW |-> "new", PARTIALLY_FILLED |-> "partially_filled", FILLED |-> "filled",
         DONE_FOR_DAY |-> "done_for_day", CANCELED |-> "canceled", EXPIRED |-> "expired",
         REPLACED |-> "replaced", PENDING_CANCEL |-> "pending_cancel",
         PENDING_REPLACE |-> "pending_replace", ACCEPTED |-> "accepted",
         PENDING_NEW |-> "pending_new", ACCEPTED_FOR_BIDDING |-> "accepted_for_bidding",
         STOPPED |-> "stopped", REJECTED |-> "rejected", SUSPENDED |-> "suspended",
         CALCULATED |-> "calculated"],
     position_intent |-> [BUY_TO_OPEN |-> "buy_to_open", BUY_TO_CLOSE |-> "buy_to_close",
                          SELL_TO_OPEN |-> "sell_to_open", SELL_TO_CLOSE |-> "sell_to_close"]]

Enums == DOMAIN Mappings

(* enum_value_from_tag(), enum_value_to_tag(): both throw on what they do not  *)
(* find, but that an order class may be empty (.._with_fallback()).            *)
WordOf(enum, e) == Mappings[enum][e]

IsWord(enum, w) ==
    \/ \E e \in DOMAIN Mappings[enum] : WordOf(enum, e) = w
    \/ enum = "order_class" /\ w = ""

EnumeratorOf(enum, w) ==
    IF enum = "order_class" /\ w = "" THEN "SIMPLE"
    ELSE CHOOSE e \in DOMAIN Mappings[enum] : WordOf(enum, e) = w

-----------------------------------------------------------------------------
(* Tables.  A field is "required" (obj.at()), "optional" (read unless absent  *)
(* or null) or read "if_given" (unless absent).                               *)

f ++ g ==
    [k \in DOMAIN f \cup DOMAIN g |-> IF k \in DOMAIN f THEN f[k] ELSE g[k]]

Fields(need, kind, keys) == [k \in keys |-> [kind |-> kind, need |-> need]]

AccountReads ==
    Fields("required", "text", {"id", "currency"})
      ++ Fields("required", "account_status", {"status"})
      ++ Fields("optional", "text",
             {"account_number", "cash", "portfolio_value", "non_marginable_buying_power",
              "accrued_fees", "pending_transfer_in", "pending_transfer_out", "created_at",
              "long_market_value", "short_market_value", "equity", "last_equity", "multiplier",
              "buying_power", "initial_margin", "maintenance_margin", "sma", "balance_asof",
              "last_maintenance_margin", "daytrading_buying_power", "regt_buying_power",
              "options_buying_power", "intraday_adjustments", "pending_reg_taf_fees"})
      ++ Fields("optional", "int",
             {"daytrade_count", "options_approved_level", "options_trading_level"})
      ++ Fields("optional", "bool",
             {"pattern_day_trader", "trade_suspended_by_user", "trading_blocked",
              "transfers_blocked", "account_blocked", "shorting_enabled"})

PositionReads ==
    Fields("required", "text",
           {"asset_id", "symbol", "avg_entry_price", "qty", "market_value", "cost_basis",
            "unrealized_pl", "unrealized_plpc", "unrealized_intraday_pl",
            "unrealized_intraday_plpc", "current_price", "lastday_price", "change_today"})
      ++ Fields("required", "asset_exchange", {"exchange"})
      ++ Fields("required", "asset_class", {"asset_class"})
      ++ Fields("required", "position_side", {"side"})
      ++ Fields("required", "bool", {"asset_marginable"})
      ++ Fields("optional", "text", {"qty_available"})

OrderReads ==
    Fields("required", "text", {"id", "client_order_id", "created_at", "asset_id", "symbol",
                                "filled_qty"})
      ++ [k \in {"asset_class", "order_class", "order_type", "time_in_force"} |->
                 [kind |-> k, need |-> "required"]]
      ++ Fields("required", "order_side", {"side"})
      ++ Fields("required", "order_status", {"status"})
      ++ Fields("required", "bool", {"extended_hours"})
      ++ Fields("optional", "text",
             {"updated_at", "submitted_at", "filled_at", "expired_at", "canceled_at",
              "failed_at", "replaced_at", "replaced_by", "replaces", "notional", "qty",
              "filled_avg_price", "limit_price", "stop_price", "trail_percent",
              "trail_price", "hwm"})
      ++ Fields("optional", "position_intent", {"position_intent"})
      ++ Fields("optional", "list", {"legs"})

PositionClosedReads ==
    Fields("required", "text", {"symbol"}) ++ Fields("required", "int", {"status"})
      ++ Fields("required", "object", {"body"})

OrderDeletedReads ==
    Fields("required", "text", {"id"}) ++ Fields("required", "int", {"status"})

(* The type and the time in force are constants that nothing reads back.      *)
NotionalReads ==
    Fields("required", "text", {"symbol", "notional"})
      ++ Fields("required", "order_side", {"side"})
      ++ Fields("required", "bool", {"extended_hours"})
      ++ Fields("if_given", "text", {"client_order_id"})

(* Mutant: the key of an order's type is written as the client writes it in a *)
(* request.                                                                   *)
OrderWritesType ==
    Fields("required", "order_type", {"type"})
      ++ [k \in DOMAIN OrderReads \ {"order_type"} |-> OrderReads[k]]

(* value_from() writes every member that has a value under the key it is read *)
(* from.                                                                      *)
AccountWrites == AccountReads
PositionWrites == PositionReads
OrderWrites == OrderReads

-----------------------------------------------------------------------------
(* json::value_to() and json::value_from() of a struct *)

Kept(table, k, obj) ==
    k \in DOMAIN obj /\ (table[k].need = "optional" => obj[k].is # "null")

Fits(kind, v) == IF kind \in Enums THEN v.is = "text" /\ IsWord(kind, v.val) ELSE v.is = kind

(* The conversion does not throw. *)
Readable(table, obj) ==
    \A k \in DOMAIN table :
        IF Kept(table, k, obj) THEN Fits(table[k].kind, obj[k]) ELSE table[k].need # "required"

Decode(table, obj) ==
    [k \in {key \in DOMAIN table : Kept(table, key, obj)} |->
        IF table[k].kind \in Enums THEN EnumeratorOf(table[k].kind, obj[k].val) ELSE obj[k].val]

Encode(table, struct) ==
    [k \in DOMAIN table \cap DOMAIN struct |->
        IF table[k].kind \in Enums THEN Json("text", WordOf(table[k].kind, struct[k]))
        ELSE Json(table[k].kind, struct[k])]

(* A position_closed is readable when its body is an order, too. *)
ReadableClosed(obj) ==
    Readable(PositionClosedReads, obj) /\ Readable(OrderReads, obj["body"].val)

(* The request for a notional order: a client_order_id only when it is not    *)
(* empty.                                                                     *)
EncodeNotional(no) ==
    LET fixed == [k \in {"type", "time_in_force"} |->
                     Json("text", IF k = "type" THEN "market" ELSE "day")]
        read  == Encode(NotionalReads, no)
        keys  == {k \in DOMAIN read : k = "client_order_id" => no[k] # ""}
    IN  [k \in DOMAIN fixed \cup keys |-> IF k \in DOMAIN fixed THEN fixed[k] ELSE read[k]]
=============================================================================

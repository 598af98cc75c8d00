---------------------------- MODULE MCTradeClient ----------------------------
(* A small instance of TradeClient: orders of one symbol, with and without a  *)
(* client_order_id, from a broker that states an optional key of every kind.  *)
EXTENDS TradeClient, TLC

CONSTANTS r1, r2

TwoCallers == {r1, r2}

BuyOrder(client) ==
    [op |-> "create_order",
     arg |-> [symbol |-> "PLTR", notional |-> "100", side |-> "BUY", extended_hours |-> "false",
              client_order_id |-> client]]

Plain(ops) == {[op |-> op, arg |-> NoNotional] : op \in ops}

SomeKeys == {"cash", "daytrade_count", "trading_blocked", "qty_available", "qty",
             "position_intent"}

(* One buys and looks, the other cleans up. *)
BuyerAndSeller ==
    (r1 :> {BuyOrder("")} \cup Plain({"get_all_orders", "all_open_positions"}))
    @@ (r2 :> {BuyOrder("mine")} \cup Plain({"account", "delete_all_orders",
                                            "close_all_positions", "close_all_and_cancel"}))

ThreeAndOne == (r1 :> 3) @@ (r2 :> 1)
=============================================================================

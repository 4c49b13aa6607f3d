------------------------------- MODULE Protocol --------------------------------
(***************************************************************************)
(* Validation of requests (src/src/protocol.py) and what handle_command    *)
(* makes of an exception (src/src/proxy.py).                               *)
(*                                                                         *)
(* A request is its action and the set of its faults, pairs of a field and *)
(* what is wrong with it; a field without fault is acceptable.  An order   *)
(* query with local_only is an action of its own here.                     *)
(***************************************************************************)
EXTENDS Naturals, Sequences, FiniteSets
LOCAL INSTANCE FiniteSetsExt

\* client_id and strategy_id, and client_order_id of an order: checked as one.
Id == {"identity"}
OrderFields == {"symbol", "direction", "price", "volume"}
QueryFields == {"force_refresh", "max_age_ms"}

FieldsOf ==
    [ping |-> {}, status |-> {},
     subscribe_market_data |-> Id \cup {"symbols"},
     unsubscribe_market_data |-> Id \cup {"symbols"},
     get_account |-> QueryFields, get_positions |-> QueryFields,
     get_orders |-> QueryFields \cup {"local_only"},
     get_local_orders |-> Id \cup QueryFields \cup {"local_only"},
     get_trades |-> Id \cup {"after_id", "limit"}, get_trade_cursor |-> Id,
     place_order |-> Id \cup OrderFields, cancel_order |-> Id]

Actions == DOMAIN FieldsOf

\* What may be wrong with a field the service looks at or converts.  A text
\* counts as the number the conversion makes of it, if it makes one.  A number
\* that is infinite is one JSON readers of Python accept; one that is huge is an
\* integer too large for a float, or for a column of the store; of a fraction
\* the integer part would do.
FaultsOf ==
    [identity |-> {"missing", "nontext", "blank"},
     symbols |-> {"missing", "no_list", "malformed", "empty"},
     symbol |-> {"missing", "malformed"},
     direction |-> {"missing", "unknown"},
     price |-> {"missing", "boolean", "no_number", "infinite", "not_positive", "huge"},
     volume |-> {"missing", "boolean", "no_number", "infinite", "fraction", "not_positive",
                 "huge"},
     after_id |-> {"boolean", "no_number", "infinite", "fraction", "negative", "huge"},
     limit |-> {"boolean", "no_number", "infinite", "fraction", "not_positive", "excessive"},
     local_only |-> {"no_boolean"},
     force_refresh |-> {"no_boolean"},
     max_age_ms |-> {"boolean", "no_number", "infinite", "fraction", "negative", "huge"}]

\* The ways to get at most n of the fields of an action wrong; n is 1 or 2.
FaultSets(a, n) ==
    LET pairs == UNION {{f} \X FaultsOf[f] : f \in FieldsOf[a]}
        twos  == {{z[1], z[2]} : z \in {y \in pairs \X pairs : y[1][1] # y[2][1]}}
    IN  {{}} \cup {{x} : x \in pairs} \cup (IF n = 2 THEN twos ELSE {})

-------------------------------------------------------------------------------
(* validate_request: the checks of an action, in their order.  A check     *)
(* fails for certain faults, and then raises.                              *)

Raises(exc, fields, faults) == [on |-> fields \X faults, raises |-> exc]

Refuses(fields, faults) == Raises("ProtocolError", fields, faults)

\* normalize_identity
IdentityChecks == <<Refuses(Id, {"missing"}), Refuses(Id, {"nontext", "blank"})>>

SymbolsChecks ==
    IdentityChecks \o <<Refuses({"symbols"}, {"missing", "no_list", "malformed", "empty"})>>

\* Mutant: a volume is only rounded.
PlaceOrderRounds ==
    IdentityChecks \o
    <<Refuses(OrderFields, {"missing"}),
      Raises("ValueError", {"symbol"}, {"malformed"}),
      Refuses({"price", "direction"}, {"boolean", "unknown", "no_number"}),
      Raises("OverflowError", {"price"}, {"huge"}),
      Refuses({"volume"}, {"boolean", "no_number", "infinite"}),
      Refuses({"price", "volume"}, {"infinite", "not_positive"})>>

\* The symbol is parsed, and a price no float can hold converted, where what
\* they raise does not become a ProtocolError.
PlaceOrderChecks ==
    IdentityChecks \o
    <<Refuses(OrderFields, {"missing"}),
      Raises("ValueError", {"symbol"}, {"malformed"}),
      Refuses({"price", "direction"}, {"boolean", "unknown", "no_number"}),
      Raises("OverflowError", {"price"}, {"huge"}),
      Refuses({"volume"}, {"boolean", "no_number", "infinite", "fraction"}),
      Refuses({"price", "volume"}, {"infinite", "not_positive"})>>

\* int() of an infinite number raises what nobody converts either; of a
\* fraction it takes the integer part.
NumberChecks(field) ==
    <<Refuses({field}, {"boolean", "no_number"}), Raises("OverflowError", {field}, {"infinite"})>>

TradesChecks ==
    IdentityChecks \o NumberChecks("after_id") \o NumberChecks("limit") \o
    <<Refuses({"after_id", "limit"}, {"negative", "not_positive", "excessive"})>>

QueryChecks ==
    <<Refuses({"force_refresh"}, {"no_boolean"})>> \o NumberChecks("max_age_ms") \o
    <<Refuses({"max_age_ms"}, {"negative"})>>

Checks(a) ==
    CASE a \in {"subscribe_market_data", "unsubscribe_market_data"} -> SymbolsChecks
      [] a = "place_order" -> PlaceOrderChecks
      [] a \in {"cancel_order", "get_trade_cursor"} -> IdentityChecks
      [] a = "get_trades" -> TradesChecks
      [] a = "get_local_orders" -> IdentityChecks \o QueryChecks
      [] a \in {"get_account", "get_positions", "get_orders"} -> QueryChecks
      [] OTHER -> <<>>

\* What validate_request raises, or "none".
Validation(a, faults) ==
    LET failed == {i \in DOMAIN Checks(a) : Checks(a)[i].on \cap faults # {}}
    IN  IF failed = {} THEN "none" ELSE Checks(a)[Min(failed)].raises

-------------------------------------------------------------------------------
(* The except clauses of handle_command *)

Answer(code, retryable) == [code |-> code, retryable |-> retryable]

\* An exception and the classes it belongs to.
ClassesOf ==
    [ProtocolError |-> {"ValueError"}, UnsupportedAction |-> {"ProtocolError", "ValueError"},
     NotImplementedError |-> {"RuntimeError"}, TapNotReadyError |-> {"RuntimeError"},
     TimeoutError |-> {}, RuntimeError |-> {}, ValueError |-> {}, OverflowError |-> {},
     OtherError |-> {}]

\* The first that names one of the classes answers.
Clauses ==
    <<[of |-> "ProtocolError", code |-> "invalid_request", retryable |-> FALSE],
      [of |-> "NotImplementedError", code |-> "not_implemented", retryable |-> FALSE],
      [of |-> "TapNotReadyError", code |-> "not_ready", retryable |-> TRUE],
      [of |-> "TimeoutError", code |-> "timeout", retryable |-> TRUE],
      [of |-> "RuntimeError", code |-> "internal_error", retryable |-> FALSE]>>

Caught(exc) ==
    LET classes == {exc} \cup ClassesOf[exc]
        fitting == {i \in DOMAIN Clauses : Clauses[i].of \in classes}
        clause == Clauses[Min(fitting)]
    IN  IF fitting = {} THEN Answer("internal_error", TRUE)
        ELSE IF exc = "UnsupportedAction" THEN Answer("unsupported_action", FALSE)
        ELSE Answer(clause.code, clause.retryable)
===============================================================================

------------------------------ MODULE OrderStore ------------------------------
(***************************************************************************)
(* The two tables of the order store (src/src/order_store.py) and the      *)
(* statements the proxy runs on them.  Every statement is one transaction, *)
(* so each operator is a function from a table to a table or to a row.     *)
(* The model follows PostgresOrderStore; MemoryOrderStore runs the same    *)
(* statements under one lock.                                              *)
(***************************************************************************)
EXTENDS Naturals, Sequences, FiniteSets

CONSTANTS
    Keys,     \* order identities <<client_id, strategy_id, client_order_id>>
    Natives,  \* TAP ClientOrderNo values, the id insertOrder returns
    OrderNos, \* TAP OrderNo values
    Flags,    \* TAP ServerFlag values
    None      \* SQL NULL and the empty string, which the code treats alike

ASSUME StoreAssumption ==
    None \notin Keys \cup Natives \cup OrderNos \cup Flags

OrderKeys == [no: OrderNos, flag: Flags]
NoOrderKey == [no |-> None, flag |-> None]

ExchangeStatuses == {"SUBMITTED", "TRADED", "CANCELLED", "REJECTED"}

\* status "ABSENT" stands for a row that has not been inserted.
Statuses ==
    {"ABSENT", "PENDING_SUBMIT", "ACCEPTED", "SUBMIT_FAILED"} \cup ExchangeStatuses

Row == [status: Statuses,
        native: Natives \cup {None},
        key: OrderKeys \cup {NoOrderKey}]

NoRow == [status |-> "ABSENT", native |-> None, key |-> NoOrderKey]

Trade == [match: Natives, owner: Keys \cup {None}]

\* Mutant: a reservation counts only once the native id is known.
RowHasNative(table, k) == table[k].native # None

RowExists(table, k) == table[k].status # "ABSENT"

\* INSERT ... ON CONFLICT (client_id, strategy_id, client_order_id) DO NOTHING.
Reserve(table, k) ==
    IF RowExists(table, k)
    THEN table
    ELSE [table EXCEPT ![k] = [NoRow EXCEPT !.status = "PENDING_SUBMIT"]]

SetNative(table, k, n) ==
    [table EXCEPT ![k].native = n, ![k].status = "ACCEPTED"]

\* Mutant: a failed submission frees its identity for a retry.
FreeReservation(table, k) == [table EXCEPT ![k] = NoRow]

MarkFailed(table, k) == [table EXCEPT ![k].status = "SUBMIT_FAILED"]

\* Mutant: rows are matched by OrderNo as well.
UpdateTapByNumber(table, n, key, status) ==
    [k \in Keys |->
        IF table[k].native = n \/ (key.no # None /\ table[k].key.no = key.no)
        THEN [table[k] EXCEPT !.status = status, !.key = key]
        ELSE table[k]]

\* UPDATE ... WHERE tap_client_order_no = n; COALESCE keeps a known order key
\* when the message carries none.
UpdateTap(table, n, key, status) ==
    [k \in Keys |->
        IF table[k].native = n
        THEN [table[k] EXCEPT !.status = status,
                              !.key = IF key = NoOrderKey THEN @ ELSE key]
        ELSE table[k]]

\* Mutants: the SELECT forgets one of its conditions.
FindAnyNative(table, n) == {k \in Keys : table[k].native # None}

FindByFlag(table, no, flag) ==
    {k \in Keys : RowExists(table, k) /\ (flag = None \/ table[k].key.flag = flag)}

\* The rows a SELECT may return; the caller takes one of them (LIMIT 1).
FindByNative(table, n) == {k \in Keys : table[k].native = n}

FindByOrderNo(table, no, flag) ==
    {k \in Keys : /\ table[k].key.no = no
                  /\ flag = None \/ table[k].key.flag = flag}

\* Mutant: the uniqueness of a trade depends on its owner.
OwnedTradeRecorded(trades, m) ==
    \E t \in trades : t.match = m /\ t.owner # None

\* event_id is UNIQUE: a trade of a known match is dropped.
TradeRecorded(trades, m) == \E t \in trades : t.match = m

RecordTrade(trades, m, owner) ==
    IF TradeRecorded(trades, m)
    THEN trades
    ELSE trades \cup {[match |-> m, owner |-> owner]}
===============================================================================

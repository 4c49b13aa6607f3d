------------------------------- MODULE TradeLog --------------------------------
(***************************************************************************)
(* What the trade history promises one client: a trade is stored for good  *)
(* before anyone learns of it, and the client learns of its own trades     *)
(* only (docs/protocol-v1.md 165-166).                                     *)
(***************************************************************************)
CONSTANTS
    Trades,  \* trades that may be stored
    Own      \* those of the client

VARIABLES stored, learnt

vars == <<stored, learnt>>

Init == stored = {} /\ learnt = {}

Store == /\ \E t \in Trades \ stored : stored' = stored \cup {t}
         /\ UNCHANGED learnt

\* By an event, or by a page with any number of trades.
Learn == /\ \E T \in SUBSET (stored \cap Own) : learnt' = learnt \cup T
         /\ UNCHANGED stored

Next == Store \/ Learn

Spec == Init /\ [][Next]_vars
===============================================================================

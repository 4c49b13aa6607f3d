----------------------------- MODULE MC_OrderPath -----------------------------
(* OrderPath on model values.  Identities, ids, numbers and flags are only   *)
(* compared for equality, so each set is interchangeable.                    *)
EXTENDS OrderPath

Interchangeable ==
    Permutations(Keys) \cup Permutations(Natives)
        \cup Permutations(OrderNos) \cup Permutations(Flags)

Ordering == {k \in Keys : k = cmd.key \/ RowExists(orders, k)}
Fills    == {msg \in ToSet(inbox) \cup {td.msg} : msg.kind = "fill"}

\* Two owners: a crash or a repeated fill; every fill carries its flag.
TwoOrders ==
    /\ spent.crash + spent.resend <= 1 /\ spent.drop = 0 /\ spent.fault = 0
    /\ \A fill \in Fills : fill.key.flag # None

\* One owner: every disturbance the constants allow, fills with or without flag.
OneOrder == Cardinality(Ordering) <= 1

\* All disturbances at once for two owners are too many: a behaviour of the run
\* stays within one of the two profiles.
Profile == TwoOrders \/ OneOrder

ProfileSpec == Init /\ [][Next /\ Profile']_vars
===============================================================================

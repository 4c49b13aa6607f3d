\* One order, no disturbance: a fill may overtake the binding of its order.
CONSTANTS
    None = None
    Keys = {a}
    Natives = {x}
    OrderNos = {o1}
    Flags = {s}
    FillsCarryFlag = TRUE
    MaxCrashes = 0
    MaxDrops = 0
    MaxFaults = 0
    MaxResends = 0
SPECIFICATION Spec
INVARIANT TradeReachesOwner

\* One order, no disturbance: a parked cancel may miss the order's number.
CONSTANTS
    None = None
    Keys = {a}
    Natives = {x}
    OrderNos = {o1}
    Flags = {s}
    FillsCarryFlag = TRUE
    MaxCrashes = 0
    MaxDrops = 0
    MaxFaults = 0
    MaxResends = 0
SPECIFICATION FairSpec
PROPERTY AcceptedCancelSent

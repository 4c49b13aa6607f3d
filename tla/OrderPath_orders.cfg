\* Orders of two owners with a crash or a repeated fill, and of one owner with every disturbance.
CONSTANTS
    None = None
    Keys = {a, b}
    Natives = {x, y}
    OrderNos = {o1}
    Flags = {s, t}
    FillsCarryFlag = FALSE
    MaxCrashes = 2
    MaxDrops = 1
    MaxFaults = 2
    MaxResends = 1
SYMMETRY Interchangeable
SPECIFICATION ProfileSpec
INVARIANTS TypeOK EventOwnerTrue TradeOwnerTrue CancelOnlyAsked StoredNumberLoaded NumberKnownOrQueued NoDoubleSubmit AnnouncedOnce
PROPERTIES BindingsPermanent InDoubtStays SubmitsOnce

\* Every row is stored: a reply may be partial because a query was cut short.
CONSTANTS
    Kinds = {"account", "positions"}
    Rows = {r1, r2}
    NoRow = NoRow
    MaxQueries = 2
    MaxErrors = 1
    MaxTimeouts = 1
    MaxDrops = 1
    MaxFaults = 0
SPECIFICATION Spec
INVARIANT SnapshotComplete

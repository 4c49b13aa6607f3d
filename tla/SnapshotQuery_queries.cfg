\* Two queries and two synchronisations, an error, a late answer, a lost link,
\* a row a callback fails on.  Orders do all that positions do, and more.
CONSTANTS
    Kinds = {"account", "orders"}
    Rows = {r1, r2}
    NoRow = NoRow
    MaxQueries = 2
    MaxErrors = 1
    MaxTimeouts = 1
    MaxDrops = 1
    MaxFaults = 1
SPECIFICATION Spec
INVARIANTS TypeOK CompleteUnlessSuspect ErrorIsOwn

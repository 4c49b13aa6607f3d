\* Two fills of the client, one without MatchNo; pages of one trade.
CONSTANTS
    Fills = {f1, f2}
    Mine = {f1, f2}
    Unnumbered = {f2}
    QueueSize = 1
    Limit = 1
    MaxId = 2
    MaxRestarts = 1
    MaxFaults = 1
SPECIFICATION FairSpec
INVARIANTS TypeOK StoredOnce PagedComplete LiveComplete DrainedAtStop
PROPERTIES FeedsLog TradesReachOwner
\* A proxy stopped for good does nothing more.
CHECK_DEADLOCK FALSE

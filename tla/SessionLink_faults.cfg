\* Links lost, answers failing and waits expiring at any moment; three attempts.
CONSTANTS
    EnableMd = TRUE
    RetryForever = FALSE
    MaxAttempts = 3
    DelayLimit = 1024
    MaxDrops = 2
    MaxFailures = 1
    MaxSlow = 1
CHECK_DEADLOCK FALSE
SPECIFICATION FairSpec
INVARIANTS TypeOK ReadyIsReal ConnectOwnsApi
PROPERTIES RecoversUnlessOverlapped CloseEndsReconnect

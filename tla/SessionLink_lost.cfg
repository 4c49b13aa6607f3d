\* A second link is lost while the reconnect thread is at work.
CONSTANTS
    EnableMd = TRUE
    RetryForever = TRUE
    MaxAttempts = 1
    DelayLimit = 1024
    MaxDrops = 2
    MaxFailures = 0
    MaxSlow = 0
CHECK_DEADLOCK FALSE
SPECIFICATION FairSpec
PROPERTY RecoversFromDrop

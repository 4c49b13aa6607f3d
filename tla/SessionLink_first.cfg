\* One refused login or failed query, no link lost.
CONSTANTS
    EnableMd = TRUE
    RetryForever = TRUE
    MaxAttempts = 1
    DelayLimit = 1024
    MaxDrops = 0
    MaxFailures = 1
    MaxSlow = 0
CHECK_DEADLOCK FALSE
SPECIFICATION FairSpec
PROPERTY FirstConnectContinues

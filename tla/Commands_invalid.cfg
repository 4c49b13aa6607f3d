\* One request of the tool with one field wrong, and no streaming process.
CONSTANTS
    Procs = {}
    Twins = {}
    Tool = tool
    MaxFaulty = 1
    MaxTools = 1
    MaxTimeouts = 0
    MaxRestarts = 0
SPECIFICATION Spec
INVARIANT FaultyIsRefused
\* A proxy nobody asks any more waits.
CHECK_DEADLOCK FALSE

\* Two processes under the default identity; a tool of its own identity that
\* gets one field wrong at most.
CONSTANTS
    Procs = {p1, p2}
    Twins = {p1, p2}
    Tool = tool
    MaxFaulty = 1
    MaxTools = 1
    MaxTimeouts = 1
    MaxRestarts = 1
SPECIFICATION FairSpec
INVARIANTS TypeOK AnswerIsOwn InvalidIsTold NothingLeftBehind StreamerOwns
PROPERTY EveryoneAnswered
\* The clients of a run are numbered; a proxy nobody asks any more waits.
CHECK_DEADLOCK FALSE

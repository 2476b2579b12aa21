\* The reaper empties the queue while clients wait, or meets a connection nobody has used yet
SPECIFICATION LiveSpec
CONSTANTS
    c1 = c1
    c2 = c2
    c3 = c3
    c4 = c4
    Client = {c1, c2}
    InitSize = 1
    MaxSize = 2
    Standalone = FALSE
    MaxFails = 0
PROPERTIES ReapsOnlyIdle ExpandsOnDemand
CHECK_DEADLOCK FALSE

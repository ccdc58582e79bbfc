SPECIFICATION FairSpec
CONSTANTS
    Wrap = 6
    Interval = 2
    Dests = {0, 1, 2}
    MaxMsgs = 2
    MaxPost = 2
    MaxJobs = 1
INVARIANTS Conservation InOrder NoDangling
PROPERTIES EveryMessageServed
CONSTRAINT Unraced
CHECK_DEADLOCK FALSE

SPECIFICATION FairSpec
CONSTANTS
    Home = 2
    Empty = 2
    SearchGap = 1
    StepsPerUnit = 1
    Commands <- ImpatientCommands
    MaxEvents = 2
    HostWaits = FALSE
INVARIANTS ClearedStaysClear
PROPERTIES MotionEnds
CHECK_DEADLOCK FALSE

SPECIFICATION FairSpec
CONSTANTS
    Home = 3
    Empty = 3
    SearchGap = 1
    StepsPerUnit = 1
    Commands <- PatientCommands
    MaxEvents = 2
    HostWaits = TRUE
INVARIANTS TypeOK ExactStop InsideMap
PROPERTIES GotoArrives
CHECK_DEADLOCK FALSE

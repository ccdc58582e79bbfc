SPECIFICATION Spec
CONSTANTS
    Home = 2
    Empty = 2
    SearchGap = 1
    StepsPerUnit = 1
    Commands <- ScanCommands
    MaxEvents = 2
    HostWaits = FALSE
INVARIANTS PosTracksPtr FrontHeld TickToken
CHECK_DEADLOCK FALSE

SPECIFICATION FairSpec
CONSTANTS
    Home = 2
    Empty = 2
    SearchGap = 1
    StepsPerUnit = 1
    Commands <- SearchCommands
    MaxEvents = 2
    HostWaits = FALSE

PROPERTY SearchGoesOn
CHECK_DEADLOCK FALSE

SPECIFICATION FairSpec
CONSTANTS
    Width = 7
    Cap = 4
    Full = 6
    Period = 1
    Slots = 2
    Gaps = {0, 1, 6}
    Outputs <- MCOutputs
    Commands <- MCCommands
    Bad = Bad
    MaxEvents = 1
INVARIANTS TypeOK DutyCapped RequestHolds DisableHolds
PROPERTY RequestApplied

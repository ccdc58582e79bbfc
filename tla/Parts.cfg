SPECIFICATION PartsSpec
CONSTANTS
    Slots = 2
    Flags = 2
    Width = 3
    MainValues = {0, 5}
    PitValues <- MCPitValues
    PitItems <- MCPitItems
    LogSize = 5
    Lengths = {1, 2}
    MaxLines = 4
    EvTypes = {"a", "b"}
    Payloads = {1, 2}
    DequeSlots = 4
    ByteWidth = 8
    FullDuty = 5
    MonCommands <- MCMonCommands
    Unread = Unread
    MaxMon = 1
INVARIANTS StreamShows ReportWhole LogWhole OutputsAsReported
PROPERTIES EveryLineShown ImplementsRaceQueue
CHECK_DEADLOCK FALSE

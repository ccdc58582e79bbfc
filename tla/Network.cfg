SPECIFICATION EthSpec
CONSTANTS
    Wnd = 3
    SndBuf = 2
    ClockRuns = TRUE
    Chunks = 4
    MaxLost = 1
    MaxFail = 2
    Requests <- MCRequests
    FileLen = 3
    HTTPD_MAX_RETRIES = 2
    REQ_QUEUELEN = 1
    RxBds = 3
    PoolSize = 2
    MaxFrames = 5
INVARIANTS FramesAccounted OrderedUntilDiscard EchoInOrder BuffersHeld CommandsExecuted OrderlyClose HttpWhole
CHECK_DEADLOCK FALSE

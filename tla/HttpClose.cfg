SPECIFICATION NetSpec
CONSTANTS
    Wnd = 2
    SndBuf = 2
    ClockRuns = FALSE
    Chunks = 3
    MaxLost = 1
    MaxFail = 1
    Requests <- MCRequests
    FileLen = 3
    HTTPD_MAX_RETRIES = 2
    REQ_QUEUELEN = 1
INVARIANT PcbStays
CHECK_DEADLOCK FALSE

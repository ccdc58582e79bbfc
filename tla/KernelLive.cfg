SPECIFICATION FairSpec
CONSTANTS
    Wrap = 6
    Interval = 2
    Dests = {1}
    MaxMsgs = 1
    MaxPost = 2
    MaxJobs = 1
INVARIANTS OneConversion AlarmNear
PROPERTIES SamplingGoesOn ArmedAlarmFires
CHECK_DEADLOCK FALSE

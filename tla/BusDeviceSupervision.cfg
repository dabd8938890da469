\* All faults at once, activity expected at all times or during a part of the cycle.
CONSTANTS
    Timeout = 2
    ResetTimeout = 3
    ErrorLimit = 2
    Retries = 2
    Day = 3
    Readonly = FALSE
    Activities = {{0, 1}, {0, 1, 2}}
    Faults = {"open fails", "link modes fail", "protocol errors", "user stops"}
SPECIFICATION FairSpec
INVARIANTS
    ListensOrStops
PROPERTIES
    ExpiresOnlyInSilence
    FailedResetIsRetried
    SilenceIsReported

\* Two command threads, with a dongle that answers in time or not at all, and
\* with one whose answers may be late.
CONSTANTS
    Threads = {main, timer}
    Ids = {1, 2}
    MaxRequests = 3
    Environments = {"timely", "late"}
    NoThread = NoThread
SPECIFICATION FairSpec
CHECK_DEADLOCK FALSE
INVARIANTS
    TimelyIsServed
PROPERTIES
    ImplementsService

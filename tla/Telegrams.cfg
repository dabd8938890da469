\* A gateway that hears seven link addresses, or serves two clients and hears a device.
\* It may stop: a client can end it.
SPECIFICATION ServiceSpec
CHECK_DEADLOCK FALSE
CONSTANTS
    Meters <- MCMeters
    Air <- MCAir
    Drivers <- MCDrivers
    MaxWarned = 2
    Clients = {"c1", "c2"}
    Lines <- MCLines
    Heard <- MCHeard
    MaxLines = 2
    MaxUnread = 1
INVARIANTS
    ShowsTheContent
    
    OneAnswerEach
PROPERTIES
    KeysOnlyPromoted
    ReadableIsTaken
    WarnedOnce
    CompactWaitEnds
    
    ClientsServed

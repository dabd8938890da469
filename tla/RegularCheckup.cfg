\* Meters polled by the timer thread while the event loop handles their answers,
\* and contents of the command line sent by two threads.
CONSTANTS
    Setups <- AllSetups
    Slaves = {"water", "gas", "heat"}
    Parts <- ReadingParts
    RepollLimit = 2
    LineLength = 1
    Aliases = {"MAIN"}
    Senders = {"main", "timer"}
    NoSender = "none"
SPECIFICATION FairSpec
INVARIANTS
    PollIsBounded
    SentInOrder
PROPERTIES
    DueIsPolled
    QueueIsFlushed

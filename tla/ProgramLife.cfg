\* One device of any kind, everything that can fail, and everything that can make
\* the program stop.
CONSTANTS
    Devices = {d1}
    TTYs = {usb0}
    Commands = {rtl}
    Files = {stdin}
    NoPath = NoPath
    NoDevice = NoDevice
    Faults = {"unplug", "replug", "open fails", "signal", "exit after"}
SPECIFICATION FairProgram
INVARIANTS
    CallbackHasOwner
PROPERTIES
    StopEndsLife
    ExitsWithoutDevices
    LastSignalDecides

\* Several ids in one meter file.
CONSTANTS
    Digits = {1, 2}
    Mfcts = {1, 2, 255}
    Versions = {1, 2, 255}
    Types = {1, 255}
    AnyMfct = 255
    AnyVersion = 255
    AnyType = 255
    Templates <- SeveralIds
    Fixed <- NoMeters
    Telegrams <- PlainTelegrams
    Oneshot = FALSE
    MaxMeters = 3
SPECIFICATION Spec
INVARIANT
    MetersSeparated

\* Overlapping templates, and meters that share an id.
CONSTANTS
    Digits = {1, 2}
    Mfcts = {1, 2, 255}
    Versions = {1, 2, 255}
    Types = {1, 255}
    AnyMfct = 255
    AnyVersion = 255
    AnyType = 255
    Templates <- OverlappingTemplates
    Fixed <- NoMeters
    Telegrams <- SingleTelegrams
    Oneshot = FALSE
    MaxMeters = 5
SPECIFICATION Spec
INVARIANTS
    MetersSeparated
    NoDuplicateMeters

    

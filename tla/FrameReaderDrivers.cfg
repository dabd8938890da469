SPECIFICATION Spec
CONSTANTS
    Wires <- AllWires
    SeenLimit = 2
    Whole = 3
INVARIANTS
    PromptDelivery
    BackInStep
    DuplicateFilter
PROPERTIES
    LoopShrinks
CHECK_DEADLOCK FALSE

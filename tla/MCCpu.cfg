CONSTANTS
    Rest <- RestOfMemory
    Programs <- MCPrograms
    Loaded <- MCLoaded
SPECIFICATION Spec
INVARIANT EnginesAgree
INVARIANT DecimalSums
INVARIANT InterruptsAreInvisible
CHECK_DEADLOCK FALSE

\* Two structs with every kind of field type and all four traits; three structs
\* that may depend on each other in cycles.
CONSTANTS
    A = A
    B = B
    C = C
    Struct = {A, B, C}
    Items <- AllItems
    Programs <- AllPrograms
SPECIFICATION FairSpec
INVARIANTS
    NoPanic
    ReportedOnce
    ReasonsHold
    TrustedDerivesHold
    GreatestAtEnd
PROPERTIES
    ComputesFixpoint
    Terminates
CHECK_DEADLOCK FALSE

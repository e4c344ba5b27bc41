\* Two updates over four versions, three layouts, and one fault.
SPECIFICATION Spec
CONSTANTS
    Newest = 4
    LayoutOf <- MCLayoutOf
    Referring = {3}
    MaxUpdates = 2
    MaxWrites = 2
    MaxFaults = 1
CHECK_DEADLOCK FALSE
INVARIANTS
    TypeOK
    BootStarts
PROPERTIES
    EndsWhole
    LosesNothing

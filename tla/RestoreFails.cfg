\* One update to a layout that refers to an older table; no fault.
SPECIFICATION Spec
CONSTANTS
    Newest = 4
    LayoutOf <- MCLayoutOf
    Referring = {3}
    MaxUpdates = 1
    MaxWrites = 0
    MaxFaults = 0
CHECK_DEADLOCK FALSE
INVARIANTS
    RestoreWorks

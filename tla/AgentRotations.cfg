\* Two rotations of each secret, with up to two failing commands and a power loss.
SPECIFICATION SecretSpec
CONSTANTS
    MaxRotations = 2
    MaxFaults = 2
    Missing = Missing
CHECK_DEADLOCK FALSE
INVARIANTS
    SecretTypeOK
    EndsWhole
    BootsWhole
PROPERTIES
    SuccessIsKept

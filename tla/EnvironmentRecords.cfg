\* Two environments over two hosts that share VM names, one move and workers that die.
SPECIFICATION Spec
CONSTANTS
    Envs = {lab, shop}
    Hosts = {h1, h2}
    Home = h1
    VmNames = {web, db}
    Addresses = {a1, a2, a3}
    None = None
    MaxJobs = 3
    MaxMoves = 1
CHECK_DEADLOCK FALSE
SYMMETRY Interchangeable
INVARIANTS
    TypeOK
    DestroyedIsGone
    AddressesAreHeld
PROPERTIES
    OwnVmsOnly

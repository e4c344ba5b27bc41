\* Two hosts' libraries over a change of month, an environment spread over both.
SPECIFICATION Spec
CONSTANTS
    filer = filer
    kvm = kvm
    Hosts = {filer, kvm}
    Primary = filer
    Envs = {e1}
    Specs <- SomeSpecs
    Keep = 1
    LastMonth = 2
    MaxEvents = 2
    Sync = Sync
    None = None
INVARIANTS
    TypeOK
PROPERTIES
    ImageStays
    RetentionLeavesOne

\* Nobody asks for anything and nothing fails: the monthly refreshes alone.
SPECIFICATION Spec
CONSTANTS
    filer = filer
    kvm = kvm
    Hosts = {filer, kvm}
    Primary = filer
    Envs = {e1}
    Specs <- SomeSpecs
    Keep = 1
    LastMonth = 2
    MaxEvents = 0
    Sync = Sync
    None = None
PROPERTY NeverOverwritten

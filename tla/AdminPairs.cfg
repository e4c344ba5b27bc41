CONSTANTS
    Members = {m1, m2}
    Domain = dc
    MaxFaults = 2
    MaxRotations = 3
SPECIFICATION FairSpec
INVARIANTS
    TypeOK
    OneFaultIsSurvived
PROPERTIES
    OnlyWhatItHas
    PairRecovers

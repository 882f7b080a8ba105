SPECIFICATION Spec
CONSTANTS
    Written <- MCWritten
    Edits <- MCEdits
    MaxEdits = 3
    IDPlace <- MCIDPlace
    TargetPlace <- MCTargetPlace
    GroupPlace <- MCGroupPlace
    WellFormed <- MCWellFormed
    KvmNvhe = "kvm_nvhe.o"
    HypLds = 3
INVARIANTS
    AcceptedIsSound
    
CHECK_DEADLOCK FALSE

\* Safety and liveness of the Main and Recovery loops, fast recovery path.
SPECIFICATION FairSpec
CONSTANTS
    NChecks = 2
    OperatorFields <- FastFields
    OperatorTargets <- FastTargets
INVARIANTS
    TypeOK
    WorkIsGated
    SuccessIsEarned
    EvidenceKeepsUp
PROPERTIES
    InterruptedCycleYields
    RecoveryOwnsWork
    KeepsSecurityPromise
    LockdownReleasedByHuman
    CycleEnds
    RecoveryEnds

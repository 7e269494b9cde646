\* The documents: a CRITICAL failure locks down when its recovery starts.
SPECIFICATION Spec
CONSTANTS
    NChecks = 1
    OperatorFields <- FastFields
    OperatorTargets <- FastTargets
PROPERTIES
    CriticalLocksDown

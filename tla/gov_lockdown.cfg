\* The documents: no automated actions in LOCKDOWN.
SPECIFICATION Spec
CONSTANTS
    NChecks = 1
    OperatorFields <- FastFields
    OperatorTargets <- FastTargets
PROPERTIES
    NoAutomatedActionInLockdown

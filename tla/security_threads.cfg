\* Three threads escalate, to two different states.
SPECIFICATION Spec
CONSTANTS
    Threads = {t1, t2, t3}
    EscalationTargets = {"QUARANTINED", "LOCKDOWN"}
CHECK_DEADLOCK FALSE
PROPERTIES
    KeepsSecurityPromise

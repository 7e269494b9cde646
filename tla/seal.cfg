\* Three requests share the ledgers, the budget and the security state.
SPECIFICATION FairSpec
CONSTANTS
    Requests = {r1, r2, r3}
    good = good
    foreign = foreign
    Keys <- MCKeys
    OverSized = {}
    Unsupported <- MCUnsupported
    ApiLimit = 3
    MaxBuffer = 2
    KeepLast = 1
    Cooldown = 2
    Timeout = 1
    None = None
INVARIANTS
    TypeOK
    SealedLineage
    OneOrderInFlight
    OrdersWithinBudget
    PreChecksAreClosed
    OrphansAreErrors
PROPERTIES
    OrdersLeaveOneDesk
    RequestsEnd

\* Sessions that execute, roll back and qualify two symbols.
SPECIFICATION Spec
CONSTANTS
    Symbols = {btc, eth}
    Fingerprints = {f1}
    Sessions = {x, y}
    None = None
    MaxEvidence = 2
    MaxUses = 4
    MaxResults = 2
CONSTRAINT MCFewRecords
SYMMETRY MCSymmetry
INVARIANTS
    TypeOK
    DecisionsAreExplained
PROPERTIES
    EvidenceIsUsedOnce
    ReceiptsAccountForWrites

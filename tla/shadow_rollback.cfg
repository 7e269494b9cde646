\* Two rollbacks of one execution, and another execution between them.
SPECIFICATION Spec
CONSTANTS
    Symbols = {btc}
    Fingerprints = {f1, f2}
    Sessions = {x, y}
    None = None
    MaxEvidence = 2
    MaxUses = 4
    MaxResults = 2
CONSTRAINT MCFewRecords
SYMMETRY MCSymmetry
PROPERTY
    RollbackOnce

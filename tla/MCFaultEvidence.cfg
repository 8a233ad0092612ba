\* Two diagnoses compete for the records of one lamp.  One policy confirms at
\* once; the other takes three observations, and its window does expire.
CONSTANTS
    Keys = {k1, k2}
    None = None
    Policies <- MCPolicies
    MaxTick = 3
    MaxFaults = 2
    MaxCount = 3
SPECIFICATION SpecEvidence
INVARIANTS
    ActiveIndexExact
    RepairStoryTold
PROPERTIES
    ConfirmationEvidenced
    RecordsFinal
    LedgerSpec
SYMMETRY Symmetry

\* Two diagnoses, two records.
CONSTANTS
    Keys = {k1, k2}
    None = None
    Policies <- MCPolicies
    NotePolicies <- MCNotePolicies
    MaxTick = 1
    MaxFaults = 2
    MaxCount = 2
    MaxAttempts = 1
    MaxUnreported = 3
    Reportable = {1}
SPECIFICATION ReportsSpec
INVARIANTS
    EventsTellFaults
PROPERTIES
    ClosureHeard

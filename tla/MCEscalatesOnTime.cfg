\* A fault that persists is notified anew in every cycle and never escalates.
CONSTANTS
    Keys = {k1}
    None = None
    Policies <- MCPolicies
    NotePolicies <- MCNotePolicies
    MaxTick = 3
    MaxFaults = 2
    MaxCount = 2
    MaxAttempts = 2
    Reportable = {1}
SPECIFICATION NodeSpec
PROPERTIES
    EscalatesOnTime

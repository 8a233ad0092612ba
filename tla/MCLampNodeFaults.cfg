\* Two diagnoses, two records; acknowledgement required or not.  Liveness is
\* checked too, so there is no symmetry.
CONSTANTS
    Keys = {k1, k2}
    None = None
    Policies <- MCPolicies
    NotePolicies <- MCNotePolicies
    MaxTick = 2
    MaxFaults = 2
    MaxCount = 2
    MaxAttempts = 2
    Reportable = {1}
SPECIFICATION NodeSpec
INVARIANTS
    NodeTypeOK
    ConfirmedNotified
PROPERTIES
    SuspicionsSilent
    UnansweredEscalates
    OnlyUnacknowledgedRemind
    StepServesTimers

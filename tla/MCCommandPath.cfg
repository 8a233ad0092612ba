\* Two commands, over the bus and directly, retried and lost, through changes
\* of configuration, protection and restarts.
CONSTANTS
    CommandIds = {c1, c2}
    None = None
    Configs <- MCConfigs
    Levels <- MCLevels
    MaxInbox = 1
SPECIFICATION Spec
INVARIANTS
    TypeOK
    RecordTellsEffect
    OverrideIsLatest
PROPERTIES
    CommandSpec
    CycleObeysPriority
    DeadBandSeparates
SYMMETRY Symmetry

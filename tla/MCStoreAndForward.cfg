\* Three records through a store of two places, over a link that may fail at
\* any point of an upload; deletion is held back for one tick.
CONSTANTS
    Capacity = 2
    MinRetention = 1
    None = None
    MaxRecords = 3
    MaxTick = 2
    Outcomes <- AnyOutcome
SPECIFICATION Spec
INVARIANTS
    TypeOK
    NoSilentLoss
    QueueMatchesStates
PROPERTIES
    ValidRecordsSurvive
    NoUploadOnceConfirmed
    DeliverySpec
    EveryRecordForwarded

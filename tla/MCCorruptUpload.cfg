\* A damaged record that is still queued is uploaded.
CONSTANTS
    Capacity = 2
    MinRetention = 1
    None = None
    MaxRecords = 3
    MaxTick = 1
    Outcomes <- AnyOutcome
SPECIFICATION Spec
PROPERTIES
    CorruptNotUploaded

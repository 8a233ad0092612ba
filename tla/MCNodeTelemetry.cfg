\* A device with and without drift, uncertain at once or after two ticks.
CONSTANTS
    None = None
    Evidence <- MCEvidence
    LightLevels <- MCLightLevels
    Configurations <- MCConfigurations
    Statuses = {"RETRY", "COMM_FAULT"}
    Drifts = {0, 1}
    UncertaintyThresholds = {0, 2}
    MaxTick = 3
SPECIFICATION Spec
INVARIANTS
    TelemetryTypeOK
PROPERTIES
    StampsHonest
    MeasurementsInOrder
    UncertaintyLasts
    SensorBlamesNoLamp
    SignatureDiagnosed
    NormalMeansActual

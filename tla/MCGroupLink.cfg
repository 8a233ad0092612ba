\* Two nodes share the bus: what befalls the one must not touch the other.
CONSTANTS
    Addresses = {1, 2}
    None = None
    Modulus = 4
    Window = 1
    RetryLimit = 0
    MaxLives = 1
    MaxInbox = 1
    MaxHeld = 1
    MaxCorrupt = 1
SPECIFICATION Spec
INVARIANTS
    TypeOK
PROPERTIES
    HealthFollowsTraffic

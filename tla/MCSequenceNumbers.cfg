\* One address, all the numbers a small space has, two answers under way, and
\* a second node built for the address.
CONSTANTS
    Addresses = {1}
    None = None
    Modulus = 6
    Window = 1
    RetryLimit = 2
    MaxLives = 2
    MaxInbox = 1
    MaxHeld = 2
    MaxCorrupt = 0
SPECIFICATION Spec
INVARIANTS
    AcceptedOnce
    AcceptedForward
    HealthMatchesFailures
PROPERTIES
    NothingNewDropped

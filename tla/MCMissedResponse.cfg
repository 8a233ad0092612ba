\* A node that takes requests and never answers stays healthy.
CONSTANTS
    Addresses = {1, 2}
    None = None
    Modulus = 4
    Window = 1
    RetryLimit = 1
    MaxLives = 1
    MaxInbox = 1
    MaxHeld = 1
    MaxCorrupt = 1
SPECIFICATION Spec
PROPERTIES
    MissedResponseCounted

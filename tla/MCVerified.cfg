\* What the controller calls verified, the node may have rejected or missed.
CONSTANTS
    CommandIds = {c1, c2}
    None = None
    Configs <- OneConfig
    Levels <- MCLevels
    MaxInbox = 1
SPECIFICATION Spec
INVARIANTS
    VerifiedAtNode

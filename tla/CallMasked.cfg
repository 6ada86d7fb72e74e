\* A target that is gone while the heartbeat fails, too.
CONSTANTS
    Turns = 1
    Heartbeats = TRUE
    None = None
SPECIFICATION Spec
INVARIANTS TargetHeldToAccount

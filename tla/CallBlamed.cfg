\* An endpoint behind the example adapter, with nothing else failing.
CONSTANTS
    Turns = 1
    Heartbeats = FALSE
    None = None
SPECIFICATION Spec
INVARIANTS NeverBlamesTheTarget

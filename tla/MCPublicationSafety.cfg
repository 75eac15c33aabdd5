SPECIFICATION Spec
CONSTANTS
    None = None
    Media = {"m1"}
    Torrents = {"t1"}
    Existing = {"m1"}
    Sources = {}
    Modes = {"full", "targeted"}
    MaxClock = 2
    MaxGeneration = 5
    MaxFaults = 0
    MaxRestarts = 1
CHECK_DEADLOCK FALSE
INVARIANT ReliableIsCurrent
PROPERTY TopologyNeverGoesBack

SPECIFICATION Spec
CONSTANTS
    None = None
    Media = {"m1"}
    Torrents = {}
    Existing = {}
    Sources = {"tmdb"}
    Modes = {"full"}
    MaxClock = 2
    MaxGeneration = 5
    MaxFaults = 1
    MaxRestarts = 0
CHECK_DEADLOCK FALSE
INVARIANT ValuationAwaitsSources
INVARIANT PublicationTypeOK
PROPERTY MediaConverge

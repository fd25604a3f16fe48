\* The idle timer and an endpoint, nothing failing.
SPECIFICATION BackupsSpec
CONSTANTS
    Server = server
    Workers = {w1}
    Sandboxes = {x1}
    NoBox = nobox
    MaxVersion = 1
    BackupFaults = {}
INVARIANT LatestIsLatest
CHECK_DEADLOCK FALSE

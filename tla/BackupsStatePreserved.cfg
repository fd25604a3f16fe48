\* A sandbox that E2B drops while it is idle.
SPECIFICATION BackupsSpec
CONSTANTS
    Server = server
    Workers = {w1}
    Sandboxes = {x1}
    NoBox = nobox
    MaxVersion = 1
    BackupFaults = {"lose"}
INVARIANT StatePreserved
CHECK_DEADLOCK FALSE

\* Tools, the dashboard and timers at once, and every call may fail; and
\* backups and restores of a thread beside those of the loop.
SPECIFICATION MachineSpec
CONSTANTS
    Threads = {t1}
    LoopThread = loop
    Timers = {k1, k2}
    VMs = {v1, v2}
    None = none
    R2 = TRUE
    Resumes = TRUE
    Serial = FALSE
    Faults = {"gateway", "transient", "create", "pause", "crash"}
    Server = server
    Workers = {w1}
    Sandboxes = {x1, x2}
    NoBox = nobox
    MaxVersion = 1
    BackupFaults = {"put", "get", "lose", "api", "gateway", "crash"}
CONSTRAINT HarmedOnce
SYMMETRY Symmetry
INVARIANTS SandboxTypeOK GuardsRelease BackupsTypeOK BackupKept AckedRestored

\* The resume endpoint and idle time, nothing at the same time.
SPECIFICATION SandboxSpec
CONSTANTS
    Threads = {t1}
    LoopThread = loop
    Timers = {k1, k2}
    VMs = {v1, v2}
    None = none
    R2 = FALSE
    Resumes = TRUE
    Serial = TRUE
    Faults = {"create"}
INVARIANT WillPause

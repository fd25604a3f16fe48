\* Jobs: calls on the loop only, none failing; schedules to change between.
\* Sandbox: one call at a time; sandboxes expire, creations fail; graceful
\* shutdowns.
SPECIFICATION TimersSpec
CONSTANTS
    Jobs = {j1}
    Loop = loop
    Workers = {}
    Recurring = {r1, r2}
    Dates = {d1}
    Naive = {}
    Malformed = malformed
    DbFails = FALSE
    Keep = keep
    NoRow = norow
    NoSched = nosched
    Threads = {t1}
    LoopThread = loop
    Timers = {k1, k2}
    VMs = {v1, v2}
    None = none
    R2 = TRUE
    Resumes = FALSE
    Serial = TRUE
    Faults = {"expire", "create"}
    agent1 = agent1
    proactive = proactive
    plain = plain
    key1 = key1
    nokey = nokey
    request = request
    deletion = deletion
INVARIANTS Coherent Metered Resumable
PROPERTIES KeepsRunning Continuity ZeroCompute HeartsStop

\* A tool thread beside the loop, one job, failing database, restarts.
SPECIFICATION Spec
CONSTANTS
    Jobs = {j1}
    Loop = loop
    Workers = {w1}
    Recurring = {r1}
    Dates = {d1}
    Naive = {}
    Malformed = malformed
    DbFails = TRUE
    Keep = keep
    NoRow = norow
    NoSched = nosched
INVARIANT TypeOK
PROPERTIES JobLedger RestartRepairs NoLostPause

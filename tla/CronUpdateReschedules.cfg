\* Two tool calls on one job in parallel threads.
SPECIFICATION Spec
CONSTANTS
    Jobs = {j1}
    Loop = loop
    Workers = {w1, w2}
    Recurring = {r1}
    Dates = {}
    Naive = {}
    Malformed = malformed
    DbFails = FALSE
    Keep = keep
    NoRow = norow
    NoSched = nosched
SYMMETRY Symmetry
INVARIANT UpdateReschedules

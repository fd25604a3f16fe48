\* A date without an offset in another timezone.
SPECIFICATION Spec
CONSTANTS
    Jobs = {j1}
    Loop = loop
    Workers = {}
    Recurring = {r1}
    Dates = {d1}
    Naive = {d1}
    Malformed = malformed
    DbFails = FALSE
    Keep = keep
    NoRow = norow
    NoSched = nosched
PROPERTY OnceIsAhead

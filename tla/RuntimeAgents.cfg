\* Two agents, two coroutines and a delete's thread; heartbeats beside
\* one of them.
SPECIFICATION Spec
CONSTANTS
    Agents = {a1, a2}
    Configs = {c1, c2}
    Proactive = {c1}
    OwnKey = {c2}
    Keys = {k1}
    NoKey = nokey
    Tasks = {t1, t2}
    Threads = {d1}
    None = none
    Keep = keep
    MaxFailures = 1
    Faults = {"build"}
CONSTRAINT BeatsBesideOne
SYMMETRY Symmetry
INVARIANTS TypeOK Fresh
PROPERTY NoUndelete

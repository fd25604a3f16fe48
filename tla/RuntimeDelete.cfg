\* A delete against the heartbeat and the other requests of one agent.
SPECIFICATION Spec
CONSTANTS
    Agents = {a1}
    Configs = {c1, c2}
    Proactive = {c1}
    OwnKey = {}
    Keys = {k1}
    NoKey = nokey
    Tasks = {t1}
    Threads = {d1}
    None = none
    Keep = keep
    MaxFailures = 3
    Faults = {"build", "init"}
PROPERTY DeletedStops

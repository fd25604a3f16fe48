\* A /new of a chat that is not in the map, when the map is full.
SPECIFICATION BotsSpec
CONSTANTS
    Events = {e1}
    TgChats = {g1, g2}
    MaxThreads = 1
INVARIANT MapBound
CHECK_DEADLOCK FALSE

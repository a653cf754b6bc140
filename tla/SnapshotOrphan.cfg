SPECIFICATION Spec
CONSTANTS
    Writers = {w1, w2}
    Intervals = {1, 2}
    PollTicks = 2
    MaxTicks = 3
    MaxBoots = 2
    NoFile = NoFile
    Torn = Torn
INVARIANT OrphanMeansKill
CHECK_DEADLOCK FALSE

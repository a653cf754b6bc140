SPECIFICATION FairSpec
CONSTANTS
    Writers = {w1, w2}
    Intervals = {1, 2}
    PollTicks = 2
    MaxTicks = 3
    MaxBoots = 2
    NoFile = NoFile
    Torn = Torn
INVARIANTS TypeOK PathNeverTorn OneWriter SavedMeansDurable OnePlace
PROPERTIES FileNeverGoesBack NoReportDropped DurableSpec SavingEnds
CHECK_DEADLOCK FALSE

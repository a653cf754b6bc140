SPECIFICATION FairSpec
CONSTANTS
    Fields <- MCFields
    Defaults <- MCDefaults
    Floor <- MCFloor
    Docs <- MCDocsAll
    MaxClock = 3
    NoFile = NoFile
    NoEdit = NoEdit
INVARIANTS TypeOK LiveIsValid UpToDate FailuresPerEdit
PROPERTIES LiveChangesWhole EditTakesEffect
CHECK_DEADLOCK FALSE

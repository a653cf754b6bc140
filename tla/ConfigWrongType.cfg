SPECIFICATION Spec
CONSTANTS
    Fields <- MCFields
    Defaults <- MCDefaults
    Floor <- MCFloor
    Docs <- MCDocsTyped
    MaxClock = 3
    NoFile = NoFile
    NoEdit = NoEdit
INVARIANT WrongTypeIsAnOutcome
CHECK_DEADLOCK FALSE

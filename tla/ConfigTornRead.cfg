SPECIFICATION Spec
CONSTANTS
    Fields <- MCFields
    Defaults <- MCDefaults
    Floor <- MCFloor
    Docs <- MCDocs
    MaxClock = 2
    NoFile = NoFile
    NoEdit = NoEdit
INVARIANT TornReadHeals
CHECK_DEADLOCK FALSE

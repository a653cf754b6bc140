SPECIFICATION ResourcesSpec
CONSTANT MaxActivities = 2
INVARIANTS ResourcesTypeOK HandoffReached LeavesNoHalf OneMechanism RolesResolve MemfdReleased TableNeverEmpty
CHECK_DEADLOCK FALSE

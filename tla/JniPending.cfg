SPECIFICATION Spec
INVARIANT NoCallWhilePending
CHECK_DEADLOCK FALSE

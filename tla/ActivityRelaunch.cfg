SPECIFICATION Spec
CONSTANTS
    Activities = {a1, a2}
    NoOwner = NoOwner
INVARIANT HostFollowsActivity

SPECIFICATION AwaiterSpec
CONSTANTS
    Producers = {p1}
    MaxPosts = 1
INVARIANT ConnectedWhileAlive

SPECIFICATION KoReloadFairSpec
CONSTANTS
    Width = 1
    Touches = {0}
    Centres = {1}
    None = None
    MaxGen = 2
    PollInterval = 3
INVARIANTS KoReloadTypeOK ReloadKeepsState PathOpenedOnce
PROPERTIES FollowsWithModules CatchesUp

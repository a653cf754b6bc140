SPECIFICATION AppSpec
CONSTANTS
    Activities = {a1}
    NoOwner = NoOwner
    Width = 1
    Touches = {0, 1}
    Centres = {1}
    None = None
    Fingers = {f1, f2}
    MaxTouches = 2
INVARIANTS AppTypeOK OneTickPerFrame FollowsAlone TouchesTakeEffect DotStaysOnCourse
PROPERTIES DotSpec DotFollowsFinger

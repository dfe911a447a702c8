\* One channel, a feed of two entries, failing steps, crashes and operators.
SPECIFICATION FairSpec
CONSTANTS
    m1 = m1  m2 = m2
    NoMonitor = NoMonitor
    Monitor = {m1}
    MaxVideo = 4
    MaxRemoved = 1
    MaxFaults = 2
    Window = 2
    Reload = 1
    Interval = 2
    SlowestLoop = 2
INVARIANTS NoSkippedVideo OnlyNewer
PROPERTIES CursorAdvances NewVideosDispatched

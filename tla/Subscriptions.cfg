\* Two sessions that subscribe, with and without a limit on the log.
SPECIFICATION Spec
CONSTANTS
    Sessions = {s1, s2}
    EventTypes = {t}
    Readable = {t}
    Filters = {{t}}
    EventlogSizes = {0, 1}
    Bursts = {2}
    Windows <- SmallWindows
    MaxTime = 2
    MaxEvents = 3
    None = None
    replayComplete = replayComplete
    notificationComplete = notificationComplete
CHECK_DEADLOCK TRUE
PROPERTY CatchesUp
INVARIANT TypeOK
INVARIANT PointersLive
INVARIANT InOrder
INVARIANT Gapless
PROPERTY ReplayWhole

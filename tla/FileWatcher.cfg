\* Two polling threads overlap after a quick restart; the file changes, fails to
\* parse and disappears at any time.
\* The system may stop: after the last shutdown nothing is left to do.
SPECIFICATION FairSpec
CONSTANTS
    Pollers = {p1, p2}
    Main = Main
    MaxInits = 2
    MaxVersion = 2
INVARIANTS
    TypeOK
    ReadyMeansLoaded
    StampCovered
PROPERTIES
    DetectsChanges
    RecoversFromError
    PollersStop
CHECK_DEADLOCK FALSE

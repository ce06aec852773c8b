CONSTANTS
    MoveModes = {"servoj", "speedl"}
    Lengths = {0, 2}
    MaxCommands = 3
    MaxStarts = 2
    MaxInFlight = 1
SPECIFICATION FairSpec
CHECK_DEADLOCK FALSE
INVARIANTS
    OneMotionSource
    ResultsExplained
PROPERTIES
    FeedbackInOrder
    ScriptEnds
    TrajectoryEndsAnswered

SPECIFICATION FairSpec
CONSTANTS
    Threads = {t1, t2}
    States = {on, off}
    Goals = {on}
    NoGoal = NoGoal
    None = None
    MaxCalls = 3
    MaxPolls = 2
    MaxMoves = 1
    MaxLosses = 1
INVARIANTS NullUseExplained
PROPERTIES OwnReply AnswersAreCurrent CallsReturn
CHECK_DEADLOCK FALSE

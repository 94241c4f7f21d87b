CONSTANTS
    MaxRounds = 2
    MaxAttempts = 2
    MaxAnswer = 3
    FirstId = 1
    FirstContext <- MCFirstContext
SPECIFICATION PartsSpec
INVARIANTS
    ReplayIsContext
    SavedBeforeActs
    CallsAnswered
    ResultsTruthful
    SerialAlone
    ReplyTrue
    FramesTrue
    BodiesTrue
PROPERTIES
    CancelEnds

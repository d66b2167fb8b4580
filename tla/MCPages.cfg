SPECIFICATION MCSpec
CONSTANTS
    Wallets = {p1, p2}
    Battles = {b1, b2}
    MaxRounds = 2
    MaxCalls = 3
    MaxInFlight = 2
    MaxLost = 1
    MaxSignIns = 1
    Null = Null
    Sectors = {1}
    Fingers = {f1, f2}
    SPATIAL = 2
    CINEMATIC = 1
    Flicks = {0, 8}
    MaxTime = 3
    MaxInputs = 4
    MaxCinematics = 1
    Owners = {w1, w2}
    Cards = {"RARE", "SECRET"}
    MaxTokens = 2
    MaxReads = 2
    MaxFailures = 1
    MaxMoves = 2
    MaxPoints = 1
INVARIANTS ProposalIsNotRefused BackingWasStored CameraGoesWhereSent ShownIsRecorded
PROPERTIES CardIsRevealed
CHECK_DEADLOCK FALSE

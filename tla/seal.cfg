SPECIFICATION SealSpec
CONSTANTS
    f1 = f1
    f2 = f2
    doing = doing
    review = review
    None = None
    Frames <- MCFrames
    Serves <- MCServes
    Labels <- MCLabels
    MaxAttempts = 2
    MaxFailures = 2
    MaxWakes = 1
    MaxRevisits = 2
    Watched = TRUE
    Quota = 1
CHECK_DEADLOCK FALSE
INVARIANTS SealHolds

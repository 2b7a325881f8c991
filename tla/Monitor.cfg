\* Two clips, threshold 2, window 2, 8-value ints.
SPECIFICATION Spec
CONSTANTS
    Stored <- TwoClips
    None = None
    DetectionThreshold = 2
    BlackThreshold = 2
    FrameRates <- Rates
    Window = 2
    IntMax = 7
    MaxTime = 4
    MaxStep = 2
    MaxBlack = 5
INVARIANTS TypeOK StraightPlayIsFound
PROPERTIES FoundAfterThreshold NoReportWhilePlaying
CHECK_DEADLOCK FALSE

\* One clip, threshold 2: frames shown out of order.
SPECIFICATION Spec
CONSTANTS
    Stored <- OneClip
    None = None
    DetectionThreshold = 2
    BlackThreshold = 2
    FrameRates <- Rates
    Window = 2
    IntMax = 7
    MaxTime = 4
    MaxStep = 2
    MaxBlack = 5

PROPERTY SequentialBeforeFound
CHECK_DEADLOCK FALSE

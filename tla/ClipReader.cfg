\* Videos of up to three frames, decoders on time or one packet late.
SPECIFICATION Spec
CONSTANTS
    FirstStep = 4
    MaxTotal = 3
    MaxDelay = 1
INVARIANTS TypeOK RangeInClip SaveIsExact ShownIsCurrent ScreenShowsMarks
CHECK_DEADLOCK FALSE

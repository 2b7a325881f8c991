\* Two replies, cut into any pieces; a stack of three tasks; a buffer cut early.
SPECIFICATION Spec
CONSTANTS
    Sent <- TwoReplies
    WireOf <- Wire
    PlaceOf <- Place
    MaxTasks = 3
    DiscardAt = 4
INVARIANTS TypeOK RepliesInOrder ErrorIsDue
PROPERTIES NoReplyHeldBack
CHECK_DEADLOCK FALSE

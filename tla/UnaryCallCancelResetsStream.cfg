CONSTANTS
    Cancellers = {ctx}
    MaxData = 1
SPECIFICATION Safety
INVARIANT CancelResetsStream
CHECK_DEADLOCK FALSE

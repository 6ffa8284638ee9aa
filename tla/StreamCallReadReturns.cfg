CONSTANTS
    OneThread = FALSE
    MaxMsgs = 1
SPECIFICATION Spec
PROPERTY ReadReturns
CHECK_DEADLOCK FALSE

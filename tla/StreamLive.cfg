\* One thread, as the message queue requires.  The peer may stay silent, or
\* stop after a message.
CONSTANTS
    OneThread = TRUE
    MaxMsgs = 1
SPECIFICATION Spec
PROPERTIES EndReported ReadReturns
CHECK_DEADLOCK FALSE

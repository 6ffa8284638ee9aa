\* Calls with a message queue and calls with one response; several threads
\* run the io_context.
CONSTANTS
    OneThread = FALSE
    MaxMsgs = 2
SPECIFICATION Safety
INVARIANTS TypeOK InOrder HonestEnd
CHECK_DEADLOCK FALSE

\* Expected to fail: the trailers do not close the gate, so a deadline or a
\* cancellation behind them writes a second status.
CONSTANTS
    OneThread = TRUE
    MaxMsgs = 1
SPECIFICATION Safety
PROPERTY StatusOnce
CHECK_DEADLOCK FALSE

\* A unary call, a streaming call and a Connect, with GOAWAYs that split
\* the streams.
CONSTANTS
    Unary = {u1}
    Streaming = {s1}
    Waiters = {w1}
    MaxId = 1
SPECIFICATION Spec
INVARIANTS TypeOK NeverForgotten SettledIsDrained GoawayHolds
PROPERTIES AttemptSettles ShutdownAnswers
CHECK_DEADLOCK FALSE

\* Two calls and two workers, so that a call slips in between Shutdown's
\* steps and a handler may join another worker.
CONSTANTS
    Calls = {c1, c2}
    Workers = {t1, t2}
SPECIFICATION Spec
INVARIANTS TypeOK StopOnce NoCallForgotten FailedStartIsClean
PROPERTIES ShutdownStops ApplicationReturns
CHECK_DEADLOCK FALSE

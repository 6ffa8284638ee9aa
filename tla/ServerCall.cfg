\* All four kinds of call; two chunks or messages each way.
CONSTANTS
    MaxIn = 2
    MaxOut = 2
SPECIFICATION Spec
INVARIANTS TypeOK OneResponse HonestEnd RequestInOrder
PROPERTIES CancelEnds DeadlineEnds ReadReleased
CHECK_DEADLOCK FALSE

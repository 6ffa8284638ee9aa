\* One call; nothing but the connection has to fail.
CONSTANTS
    Unary = {u1}
    Streaming = {}
    Waiters = {}
    MaxId = 1
SPECIFICATION Spec
PROPERTY LossAnswers
CHECK_DEADLOCK FALSE

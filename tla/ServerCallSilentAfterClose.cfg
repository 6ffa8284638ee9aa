CONSTANTS
    MaxIn = 1
    MaxOut = 0
SPECIFICATION Spec
PROPERTY SilentAfterClose
CHECK_DEADLOCK FALSE

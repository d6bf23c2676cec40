SPECIFICATION Spec
CONSTANTS
    Sessions = {n1, n2}
    Slots = 1
PROPERTY DisconnectedIsFinalized
CHECK_DEADLOCK FALSE

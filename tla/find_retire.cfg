SPECIFICATION JobsSpec
CONSTANTS
    Environments <- OffOnOff
PROPERTIES
    Retires
CHECK_DEADLOCK FALSE

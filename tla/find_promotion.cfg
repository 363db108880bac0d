SPECIFICATION Spec
CONSTANTS
    Tree <- Chain
    Environments <- OneCrash
PROPERTIES
    Replaces
CHECK_DEADLOCK FALSE

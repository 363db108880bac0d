SPECIFICATION Spec
CONSTANTS
    Tree <- Chain
    Environments <- RootTaken
PROPERTIES
    ReceivesOwn
CHECK_DEADLOCK FALSE

SPECIFICATION AnsweredSpec
CONSTANTS
    Punctual = TRUE
    RandomFails = FALSE
PROPERTIES AwaitServed
CHECK_DEADLOCK FALSE

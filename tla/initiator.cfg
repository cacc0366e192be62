SPECIFICATION FairSpec
CONSTANTS
    Punctual = FALSE
    RandomFails = TRUE
INVARIANTS TypeOK InitiationsSpaced AwaitWatched
PROPERTIES InitiatorProceeds

SPECIFICATION Spec
CONSTANTS
    Index = {1, 2, 3}
    MessageInitiationSize = 173
    InitiationWireSize = 176
    RandomFails = FALSE
    MaxInitiations = 2
    MaxAnswers = 2
    MaxPeerInitiations = 0
INVARIANTS KeyPairOfOneHandshake
CHECK_DEADLOCK FALSE

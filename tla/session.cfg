SPECIFICATION Spec
CONSTANTS
    Index = {1, 2, 3}
    MessageInitiationSize = 176
    InitiationWireSize = 176
    RandomFails = TRUE
    MaxInitiations = 2
    MaxAnswers = 2
    MaxPeerInitiations = 1
INVARIANTS TypeOK IndexTableSound NoIndexLeak OneKeyPairPerHandshake UnracedKeysAgree CurrentIsNewest
PROPERTIES CurrentAdvances

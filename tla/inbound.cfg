SPECIFICATION Spec
CONSTANTS
    Conns = {old, new}
    QueueInboundSize = 1
    QueueHandshakeSize = 1
    Counters = {0, 1}
    RejectAfterMessages = 2
    CounterWindowSize = 1
    OpenPanics = TRUE
    MaxElements = 3
SYMMETRY ConnSymmetry
INVARIANTS TypeOK DeliveredOnce OnlyAuthenticRemembered UnlockOnce ReceiverServed BuffersExclusive

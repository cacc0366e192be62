SPECIFICATION Spec
CONSTANTS
    KeepaliveInterval = 3
    KeepaliveTimeout = 2
    NewHandshakeTime = 3
    RekeyAfterTimeChange = 6
    RekeyAfterTime = 11
    RekeyAfterTimeReceiving = 9
    RejectAfterTime = 13
    RekeyAttemptTime = 3
    IntervalTime = 10
INVARIANTS TypeOK NeverQuiet
PROPERTIES SilenceNoticed

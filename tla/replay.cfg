SPECIFICATION Spec
CONSTANTS
    WordBits = 2
    BacktrackWords = 3
    CounterWindowSize = 4
    RejectAfterMessages = 13
    MaxCounter = 14
INVARIANTS TypeOK RingExact NoReplay
PROPERTIES IdealWindow

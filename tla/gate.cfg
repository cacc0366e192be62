SPECIFICATION Spec
CONSTANTS
    PacketCost = 2
    MaxTokens = 4
    GarbageCollectTime = 6
    QueueHandshakeSize = 2
    UnderLoadQueueSize = 1
    UnderLoadTime = 1
    CookieRefreshTime = 2
    MaxMessages = 2
    MaxSecrets = 2
INVARIANTS TypeOK RateBounded CookieInForceUsed
PROPERTIES AdmittedProven

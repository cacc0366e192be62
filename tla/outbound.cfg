SPECIFICATION FairSpec
CONSTANTS
    Workers = {w1, w2}
    KeepAliveCallers = {timer}
    QueueOutboundSize = 2
    RejectAfterMessages = 2
    MaxElements = 3
    MaxKeyPairs = 2
INVARIANTS TypeOK SentSealed NoncesIncrease UnlockOnce SenderServed
PROPERTIES OrderMaintained SenderProceeds

SPECIFICATION Spec
CONSTANTS
    Servers = {s1, s2, s3}
    MsgChanSize = 2
    Conns = {c1, c2, c3}
    Main = main
    Initiator = initiator
    Sender = sender
    Handshake = handshake
    Routines <- AllRoutines
    NoConn = none
    Nobody = nobody
SYMMETRY Symmetry
INVARIANTS TypeOK LookupKept LookupsEnd ConnectionServed NoCrash
CHECK_DEADLOCK FALSE

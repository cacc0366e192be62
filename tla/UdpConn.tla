------------------------------- MODULE UdpConn -------------------------------
(***************************************************************************)
(* The UDP connection of the device: createUDPConn (conn.go), the          *)
(* "endpoint" case of SetOperation (uapi.go), through which changeNetwork  *)
(* (init.go) replaces the connection after a failed send, and              *)
(* RoutineReceiveIncomming with its handleUDP goroutines (receive.go).     *)
(*                                                                         *)
(* SetOperation is called once by the app (Main) and then by the three     *)
(* routines that send: the initiator, the sequential sender and            *)
(* RoutineHandshake.  After createUDPConn has released net.mutex it writes *)
(* net.conn once more without the lock, as a read and a write.             *)
(*                                                                         *)
(* monitorWifi, which calls changeNetwork as well, returns at once unless  *)
(* the app sets the run-time flag IsiOS; here it is not set.               *)
(***************************************************************************)
EXTENDS Integers

CONSTANTS
    Conns,      \* sockets; a bound on how many DialUDP creates
    Main,       \* the app's goroutine in Init
    Routines,   \* the routines that send
    NoConn,
    Nobody

ASSUME UdpConnAssumption ==
    /\ NoConn \notin Conns
    /\ Main \notin Routines
    /\ Nobody \notin Routines \cup {Main}

VARIABLES
    peers,      \* device.peers: the blank peer of NewDevice, none, or made by NewPeer
    conn,       \* net.conn
    holder,     \* who holds net.mutex for writing
    status,     \* of each socket
    caller,     \* where each goroutine is in SetOperation
    read,       \* what it read of net.conn for the unlocked assignment
    newUDPConn, \* signal.newUDPConn holds a signal
    receiver,   \* RoutineReceiveIncomming
    readers,    \* how many handleUDP goroutines read each socket
    stale,      \* an unlocked assignment changed net.conn since the last Dial
    refused     \* a reader ended on a socket that is open since the last Dial

connVars == <<peers, conn, holder, status, caller, read, newUDPConn, receiver, readers,
              stale, refused>>

Callers == Routines \cup {Main}

ConnTypeOK ==
    /\ peers \in {"blank", "none", "made"}
    /\ conn \in Conns \cup {NoConn}
    /\ holder \in Callers \cup {Nobody}
    /\ status \in [Conns -> {"unused", "open", "closing", "closed"}]
    /\ caller \in [Callers -> {"off", "run", "change", "lock", "dial", "read", "write",
                               "error", "ended"}]
    /\ read \in [Callers -> Conns \cup {NoConn}]
    /\ newUDPConn \in BOOLEAN
    /\ receiver \in {"off", "wait", "fetch"}
    /\ readers \in [Conns -> Nat]
    /\ stale \in BOOLEAN
    /\ refused \in BOOLEAN

ConnInit ==
    /\ peers = "blank"
    /\ conn = NoConn
    /\ holder = Nobody
    /\ status = [c \in Conns |-> "unused"]
    /\ caller = [g \in Callers |-> "off"]
    /\ read = [g \in Callers |-> NoConn]
    /\ newUDPConn = FALSE
    /\ receiver = "off"
    /\ readers = [c \in Conns |-> 0]
    /\ stale = FALSE
    /\ refused = FALSE

Goto(g, l) == caller' = [caller EXCEPT ![g] = l]

-----------------------------------------------------------------------------
(* A routine that sends *)

\* SendBuffer reads net.conn under the read lock and fails on a missing or
\* broken socket; the routine sleeps 2 s and calls changeNetwork.
SendFails(g) ==
    /\ g \in Routines
    /\ caller[g] = "run"
    /\ holder = Nobody
    /\ Goto(g, "change")
    /\ UNCHANGED <<peers, conn, holder, status, read, newUDPConn, receiver, readers, stale,
                   refused>>

\* A panic ends a routine (each recovers once, around its loop); see Host for Main.
Panics(g) == Goto(g, "ended")

\* SetOperation: Endpoint was parsed in Init already; peer is device.peers.
SetEndpoint(g) ==
    /\ caller[g] = "change"
    /\ IF peers = "none" THEN Panics(g) ELSE Goto(g, "lock")
    /\ UNCHANGED <<peers, conn, holder, status, read, newUDPConn, receiver, readers, stale,
                   refused>>

-----------------------------------------------------------------------------
(* createUDPConn *)

\* Faulty: the field keeps the connection that is being closed.
CloseKeepingConn(g) ==
    /\ caller[g] = "lock"
    /\ holder = Nobody
    /\ holder' = g
    /\ status' = IF conn = NoConn THEN status ELSE [status EXCEPT ![conn] = "closing"]
    /\ Goto(g, "dial")
    /\ UNCHANGED <<peers, conn, read, newUDPConn, receiver, readers, stale, refused>>

CloseOldConn(g) ==
    /\ caller[g] = "lock"
    /\ holder = Nobody
    /\ holder' = g
    /\ status' = IF conn = NoConn THEN status ELSE [status EXCEPT ![conn] = "closing"]
    /\ conn' = NoConn
    /\ Goto(g, "dial")
    /\ UNCHANGED <<peers, read, newUDPConn, receiver, readers, stale, refused>>

\* signalSend leaves a signal that is there already.
DialUDP(g) ==
    /\ caller[g] = "dial"
    /\ \E c \in Conns :
          /\ status[c] = "unused"
          /\ status' = [status EXCEPT ![c] = "open"]
          /\ conn' = c
    /\ newUDPConn' = TRUE
    /\ holder' = Nobody
    /\ stale' = FALSE
    /\ refused' = FALSE
    /\ Goto(g, "read")
    /\ UNCHANGED <<peers, read, receiver, readers>>

\* changeNetwork logs the error and its caller goes on; Init returns it.
DialFails(g) ==
    /\ caller[g] = "dial"
    /\ holder' = Nobody
    /\ Goto(g, IF g = Main THEN "error" ELSE "run")
    /\ UNCHANGED <<peers, conn, status, read, newUDPConn, receiver, readers, stale, refused>>

-----------------------------------------------------------------------------
(* peer.device.net.conn = device.net.conn, without the lock *)

ReadConn(g) ==
    /\ caller[g] = "read"
    /\ read' = [read EXCEPT ![g] = conn]
    /\ Goto(g, "write")
    /\ UNCHANGED <<peers, conn, holder, status, newUDPConn, receiver, readers, stale, refused>>

\* The blank peer has no device.
WriteConn(g) ==
    /\ caller[g] = "write"
    /\ IF peers = "blank"
       THEN /\ Panics(g)
            /\ UNCHANGED <<conn, stale>>
       ELSE /\ Goto(g, "run")
            /\ conn' = read[g]
            /\ stale' = (stale \/ conn # read[g])
    /\ read' = [read EXCEPT ![g] = NoConn]
    /\ UNCHANGED <<peers, holder, status, newUDPConn, receiver, readers, refused>>

-----------------------------------------------------------------------------
(* The socket and its readers *)

\* go netc.conn.Close()
CloseDone(c) ==
    /\ status[c] = "closing"
    /\ status' = [status EXCEPT ![c] = "closed"]
    /\ UNCHANGED <<peers, conn, holder, caller, read, newUDPConn, receiver, readers, stale,
                   refused>>

TakeSignal ==
    /\ receiver = "wait"
    /\ newUDPConn
    /\ newUDPConn' = FALSE
    /\ receiver' = "fetch"
    /\ UNCHANGED <<peers, conn, holder, status, caller, read, readers, stale, refused>>

\* net.conn is read under the read lock; nil is skipped.
FetchConn ==
    /\ receiver = "fetch"
    /\ holder = Nobody
    /\ readers' = IF conn = NoConn THEN readers ELSE [readers EXCEPT ![conn] = @ + 1]
    /\ receiver' = "wait"
    /\ UNCHANGED <<peers, conn, holder, status, caller, read, newUDPConn, stale, refused>>

\* handleUDP returns on every error of a read but "message too long": the
\* socket was closed, or the network reports that the server is unreachable.
ReaderEnds(c) ==
    /\ readers[c] > 0
    /\ status[c] \in {"open", "closed"}
    /\ readers' = [readers EXCEPT ![c] = @ - 1]
    /\ refused' = (refused \/ status[c] = "open")
    /\ UNCHANGED <<peers, conn, holder, status, caller, read, newUDPConn, receiver, stale>>

ConnNext ==
    \/ \E g \in Callers :
          \/ SendFails(g) \/ SetEndpoint(g)
          \/ CloseOldConn(g) \/ DialUDP(g) \/ DialFails(g)
          \/ ReadConn(g) \/ WriteConn(g)
    \/ \E c \in Conns : CloseDone(c) \/ ReaderEnds(c)
    \/ TakeSignal \/ FetchConn

-----------------------------------------------------------------------------
(* Properties *)

Count(b) == IF b THEN 1 ELSE 0

\* However the three routines replace the connection while the receiver
\* starts readers (conn.go, receive.go), the connection in net.conn is open
\* and someone reads it or is about to, at most two goroutines in all.  The
\* two ways out are in the code: the unlocked assignment of uapi.go:76 may
\* bring back an older connection, and a read error that is not "closed"
\* ends the only reader.  Both last until the next send fails.
ConnectionServed ==
    conn # NoConn /\ ~stale =>
        /\ status[conn] = "open"
        /\ readers[conn] + Count(newUDPConn) + Count(receiver = "fetch") <= 2
        /\ refused \/ readers[conn] + Count(newUDPConn) + Count(receiver = "fetch") >= 1

=============================================================================

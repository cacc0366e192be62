--------------------------------- MODULE Host ---------------------------------
(***************************************************************************)
(* The library as the app uses it (main.go): GetDomain, then Init, which   *)
(* builds the device and configures it through SetOperation, then Start,   *)
(* which runs StartConnection in a goroutine of its own and closes the     *)
(* device when the app's pipe wakes it.  The lookup is module GetDomain,   *)
(* the connection and the routines that replace it module UdpConn; this    *)
(* module adds the calls of the app, NewDevice, SetPublicKey, NewPeer,     *)
(* StartConnection and Close.  One lookup and one session are modelled.    *)
(*                                                                         *)
(* A panic in a goroutine that does not recover ends the process.  Close   *)
(* always panics, at the timer handshakeDeadline that nothing creates;     *)
(* Start recovers, and neither stop channel is ever closed.                *)
(***************************************************************************)
EXTENDS GetDomain, UdpConn

CONSTANTS Initiator, Sender, Handshake     \* the members of Routines

ASSUME HostAssumption == Routines = {Initiator, Sender, Handshake}

VARIABLES
    app,        \* the app's goroutine: the call it is in
    privateKey, \* device.privateKey
    routed,     \* the routing table leads to the peer
    starting,   \* StartConnection
    closedEarly \* Close came before StartConnection had used device.peers

hostVars == <<app, privateKey, routed, starting, closedEarly>>
vars == <<lookupVars, connVars, hostVars>>

\* What the app passes for a key: FromBase64 may refuse it.
KeyArguments == {"invalid", "zero", "good"}

TypeOK ==
    /\ LookupTypeOK
    /\ ConnTypeOK
    /\ app \in {"lookup", "init", "own_private", "own_public", "their_public", "endpoint",
                "allowed_ip", "keepalive", "ready", "started", "returned", "refused", "crashed"}
    /\ privateKey \in {"zero", "good"}
    /\ routed \in BOOLEAN
    /\ starting \in {"off", "initiator", "sender", "sleep", "workers", "receive", "up", "crashed"}
    /\ closedEarly \in BOOLEAN

Init ==
    /\ LookupInit
    /\ ConnInit
    /\ app = "lookup"
    /\ privateKey = "zero"
    /\ routed = FALSE
    /\ starting = "off"
    /\ closedEarly = FALSE

Crashed == lookup = "crashed" \/ app = "crashed" \/ starting = "crashed"

AppStep(from, to) == app = from /\ app' = to

-----------------------------------------------------------------------------
(* Init *)

\* GetDomain has returned and its goroutines have ended: they touch nothing
\* but its variables, which go out of scope, so that their remaining steps
\* commute with all that follows.
CallInit ==
    /\ lookup = "done"
    /\ \A s \in Servers : request[s] = "done"
    /\ ForgetLookup
    /\ AppStep("lookup", "init")
    /\ UNCHANGED <<connVars, privateKey, routed, starting, closedEarly>>

\* The descriptor, the JSON text, the log file or CreateTUN is refused.
InitRefused ==
    /\ AppStep("init", "refused")
    /\ UNCHANGED <<lookupVars, connVars, privateKey, routed, starting, closedEarly>>

\* device.peers is the empty Peer, which has neither device nor channels.
NewDevice ==
    /\ AppStep("init", "own_private")
    /\ peers' = "blank"
    /\ UNCHANGED <<lookupVars, conn, holder, status, caller, read, newUDPConn, receiver,
                   readers, stale, refused, privateKey, routed, starting, closedEarly>>

SetPrivateKey ==
    /\ \E k \in KeyArguments :
          /\ AppStep("own_private", IF k = "invalid" THEN "refused" ELSE "own_public")
          /\ privateKey' = IF k = "invalid" THEN privateKey ELSE k
    /\ UNCHANGED <<lookupVars, connVars, routed, starting, closedEarly>>

\* Faulty: the empty peer stays although the shared secret is zero.
SetPublicKeyKeepingPeer ==
    /\ \E k \in KeyArguments :
          AppStep("own_public", IF k = "invalid" THEN "refused" ELSE "their_public")
    /\ UNCHANGED <<lookupVars, connVars, privateKey, routed, starting, closedEarly>>

\* The empty peer has a zero public key, so the secret shared with it is zero
\* and SetPublicKey removes the peer, unless there is no private key.
SetPublicKey ==
    /\ \E k \in KeyArguments :
          /\ AppStep("own_public", IF k = "invalid" THEN "refused" ELSE "their_public")
          /\ peers' = IF k = "invalid" \/ privateKey = "zero" THEN peers ELSE "none"
    /\ UNCHANGED <<lookupVars, conn, holder, status, caller, read, newUDPConn, receiver,
                   readers, stale, refused, privateKey, routed, starting, closedEarly>>

\* NewPeer is called only when the device has no peer.
SetTheirPublic ==
    /\ \E k \in KeyArguments :
          /\ AppStep("their_public", IF k = "invalid" THEN "refused" ELSE "endpoint")
          /\ peers' = IF k # "invalid" /\ peers = "none" THEN "made" ELSE peers
    /\ UNCHANGED <<lookupVars, conn, holder, status, caller, read, newUDPConn, receiver,
                   readers, stale, refused, privateKey, routed, starting, closedEarly>>

\* The endpoint case runs in UdpConn, unless parseEndpoint refuses the value.
CallEndpoint ==
    /\ app = "endpoint"
    /\ caller[Main] = "off"
    /\ \/ Goto(Main, "change") /\ app' = app
       \/ app' = "refused" /\ UNCHANGED caller
    /\ UNCHANGED <<lookupVars, peers, conn, holder, status, read, newUDPConn, receiver, readers,
                   stale, refused, privateKey, routed, starting, closedEarly>>

\* It returned, with or without an error, or panicked: Init does not recover.
EndpointReturns ==
    /\ caller[Main] \in {"run", "error", "ended"}
    /\ AppStep("endpoint", CASE caller[Main] = "run"   -> "allowed_ip"
                             [] caller[Main] = "error" -> "refused"
                             [] caller[Main] = "ended" -> "crashed")
    /\ UNCHANGED <<lookupVars, connVars, privateKey, routed, starting, closedEarly>>

\* The prefix 0.0.0.0/0 is the only one: the table is empty or this leaf.
SetAllowedIp ==
    /\ AppStep("allowed_ip", "keepalive")
    /\ routed' = TRUE
    /\ UNCHANGED <<lookupVars, connVars, privateKey, starting, closedEarly>>

\* SendKeepAlive puts one element into the queue of the peer.
SetKeepaliveInterval ==
    /\ AppStep("keepalive", "ready")
    /\ UNCHANGED <<lookupVars, connVars, privateKey, routed, starting, closedEarly>>

-----------------------------------------------------------------------------
(* Start and StartConnection *)

\* rfd < 0 is refused.
Start ==
    /\ \/ AppStep("ready", "started") /\ starting' = "initiator"
       \/ AppStep("ready", "refused") /\ UNCHANGED starting
    /\ UNCHANGED <<lookupVars, connVars, privateKey, routed, closedEarly>>

\* go d.peers.Routine...(): without a peer the routine panics and recovers.
Spawn(g, from, to) ==
    /\ starting = from
    /\ Goto(g, IF peers = "none" THEN "ended" ELSE "run")
    /\ starting' = to
    /\ UNCHANGED <<lookupVars, peers, conn, holder, status, read, newUDPConn, receiver, readers,
                   stale, refused, app, privateKey, routed, closedEarly>>

\* After half a second: signalSend(d.peers.signal.handshakeReset).
WakeInitiator ==
    /\ starting = "sleep"
    /\ starting' = IF peers = "none" THEN "crashed" ELSE "workers"
    /\ UNCHANGED <<lookupVars, connVars, app, privateKey, routed, closedEarly>>

\* RoutineHandshake is a routine of the device and needs no peer to start.
SpawnWorkers ==
    /\ starting = "workers"
    /\ Goto(Handshake, "run")
    /\ starting' = "receive"
    /\ UNCHANGED <<lookupVars, peers, conn, holder, status, read, newUDPConn, receiver, readers,
                   stale, refused, app, privateKey, routed, closedEarly>>

SpawnReceiver ==
    /\ starting = "receive"
    /\ receiver' = "wait"
    /\ starting' = "up"
    /\ UNCHANGED <<lookupVars, peers, conn, holder, status, caller, read, newUDPConn, readers,
                   stale, refused, app, privateKey, routed, closedEarly>>

StartConnection ==
    \/ Spawn(Initiator, "initiator", "sender")
    \/ Spawn(Sender, "sender", "sleep")
    \/ WakeInitiator
    \/ SpawnWorkers
    \/ SpawnReceiver

\* RemovePeer takes the peer out of the table and of the device; then the
\* peer's Close panics, and nothing that follows in Close happens.
Close ==
    /\ AppStep("started", "returned")
    /\ routed' = FALSE
    /\ peers' = "none"
    /\ \/ starting \in {"initiator", "sender", "sleep"} /\ closedEarly' = TRUE
       \/ starting \notin {"initiator", "sender", "sleep"} /\ UNCHANGED closedEarly
    /\ UNCHANGED <<lookupVars, conn, holder, status, caller, read, newUDPConn, receiver,
                   readers, stale, refused, privateKey, starting>>

-----------------------------------------------------------------------------
AppNext ==
    \/ CallInit \/ InitRefused \/ NewDevice
    \/ SetPrivateKey \/ SetPublicKey \/ SetTheirPublic
    \/ CallEndpoint \/ EndpointReturns \/ SetAllowedIp \/ SetKeepaliveInterval
    \/ Start \/ Close

Next ==
    /\ ~Crashed
    /\ \/ AppNext
       \/ StartConnection
       \/ app = "lookup" /\ LookupNext /\ UNCHANGED <<connVars, hostVars>>
       \/ ConnNext /\ UNCHANGED <<lookupVars, hostVars>>

Spec == Init /\ [][Next]_vars

-----------------------------------------------------------------------------
(* Properties *)

\* The process dies of a panic in three cases only: a lookup in which a
\* request failed or answered something else (main.go:330), a private key of
\* zeros, which leaves the empty peer of NewDevice in place (uapi.go:76), and
\* an app that ends the session before StartConnection has used device.peers
\* a second time, half a second after Start (device.go:155).  In particular
\* no order of the configuration and no Close after that does it.
NoCrash ==
    Crashed => \/ lookup = "crashed" /\ ~Undisturbed
               \/ app = "crashed" /\ privateKey = "zero"
               \/ starting = "crashed" /\ closedEarly

=============================================================================

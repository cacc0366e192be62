------------------------------ MODULE PeerTimers ------------------------------
(***************************************************************************)
(* The timers of a peer (timers.go) and the status report of init.go,      *)
(* which together have to keep the tunnel alive: the two keep-alive timers *)
(* and newHandshake, the age tests of KeepKeyFreshSending and              *)
(* KeepKeyFreshReceiving, the attempts of RoutineHandshakeInitiator and    *)
(* checkIntervalTime.                                                      *)
(*                                                                         *)
(* Time passes in steps of RekeyTimeout, 5 s; goroutines are punctual, so  *)
(* that all that is due happens before the next step.  The pause of 2 s    *)
(* after a failed send and the jitter of an attempt count as one step.     *)
(* Within a step RoutineHandshake and the initiator interleave as in       *)
(* module Initiator, so that a retry may replace the handshake whose       *)
(* response is being worked on; the nonce queue and RoutineNonce are cut   *)
(* down to what kinds of packets wait, and their races are left to modules *)
(* Initiator and OutboundPipeline.  zeroAllKeys finds only pairs that have *)
(* been useless for minutes and changes nothing here, and crypto/rand does *)
(* not fail.                                                               *)
(***************************************************************************)
EXTENDS Integers

CONSTANTS                   \* in steps of 5 s
    KeepaliveInterval,      \* persistentKeepaliveInterval: 15 s
    KeepaliveTimeout,       \* 10 s
    NewHandshakeTime,       \* 15 s
    RekeyAfterTimeChange,   \* 30 s
    RekeyAfterTime,         \* 120 s
    RekeyAfterTimeReceiving, \* 105 s
    RejectAfterTime,        \* 180 s
    RekeyAttemptTime,       \* 90 s
    IntervalTime            \* 50 s, unless the app sets another

\* The app may choose an IntervalTime (main.go:169) for which the third
\* condition fails; what is shown is for the others, and for the default.
ASSUME DurationAssumption ==
    /\ {KeepaliveInterval, KeepaliveTimeout, NewHandshakeTime, RekeyAfterTimeChange, RekeyAfterTime,
        RekeyAfterTimeReceiving, RejectAfterTime, RekeyAttemptTime, IntervalTime} \subseteq Nat \ {0}
    /\ RekeyAfterTimeChange + KeepaliveInterval < IntervalTime
    /\ RekeyAfterTimeChange < RejectAfterTime

VARIABLES
    keepalivePersistent, keepalivePassive, newHandshake,    \* time left, or Stopped
    pendingNewHandshake, sendLastMinuteHandshake,           \* flags of peer.timer
    handshakeBegin, handshakeReset, flushNonceQueue,        \* peer.signal
    initiator,      \* RoutineHandshakeInitiator
    deadline,       \* its deadline: time left, or Stopped
    timeout,        \* the timeout of its attempt has fired
    handshakeCompleted,     \* peer.signal
    handshake,      \* of the last initiation: closed, open to a response, or consumed
    response,       \* RoutineHandshake: how far it is with a response
    keyAge,         \* age of the current pair; RejectAfterTime: none of use
    waiting,        \* the kinds of packets in the nonce queue or held by RoutineNonce
    interval,       \* time since IntervalStartTime
    quiet,          \* history: time since something was sent or accepted
    broken,         \* history: a send failed and none of that happened since
    lapsed          \* history: a handshake ended without a pair to send under,
                    \* and no other initiation was sent or pair derived since

timers  == <<keepalivePersistent, keepalivePassive, newHandshake, pendingNewHandshake,
             sendLastMinuteHandshake>>
signals == <<handshakeBegin, handshakeReset, flushNonceQueue>>
attempt == <<initiator, deadline, timeout, handshakeCompleted>>
noise   == <<handshake, response>>
history == <<quiet, broken, lapsed>>
vars    == <<timers, signals, attempt, noise, keyAge, waiting, interval, history>>

Stopped == -1
Timer(n) == {Stopped} \cup 0..n

TypeOK ==
    /\ keepalivePersistent \in Timer(KeepaliveInterval)
    /\ keepalivePassive \in Timer(KeepaliveTimeout)
    /\ newHandshake \in Timer(NewHandshakeTime)
    /\ pendingNewHandshake \in BOOLEAN
    /\ sendLastMinuteHandshake \in BOOLEAN
    /\ handshakeBegin \in BOOLEAN
    /\ handshakeReset \in BOOLEAN
    /\ flushNonceQueue \in BOOLEAN
    /\ initiator \in {"idle", "attempt", "create", "await", "completed", "reset", "sleep"}
    /\ deadline \in Timer(RekeyAttemptTime)
    /\ timeout \in BOOLEAN
    /\ handshakeCompleted \in BOOLEAN
    /\ handshake \in {"closed", "open", "consumed"}
    /\ response \in {"idle", "authenticated", "consumed", "completed"}
    /\ keyAge \in 0..RejectAfterTime
    /\ waiting \subseteq {"keepalive", "data"}
    /\ interval \in 0..IntervalTime + 1
    /\ quiet \in 0..KeepaliveInterval + 1
    /\ broken \in BOOLEAN
    /\ lapsed \in BOOLEAN

\* Init has queued a keep-alive and StartConnection has started the routines.
Init ==
    /\ keepalivePersistent = Stopped
    /\ keepalivePassive = Stopped
    /\ newHandshake = Stopped
    /\ pendingNewHandshake = FALSE
    /\ sendLastMinuteHandshake = FALSE
    /\ handshakeBegin = TRUE
    /\ handshakeReset = TRUE
    /\ flushNonceQueue = FALSE
    /\ initiator = "idle"
    /\ deadline = Stopped
    /\ timeout = FALSE
    /\ handshakeCompleted = FALSE
    /\ handshake = "closed"
    /\ response = "idle"
    /\ keyAge = RejectAfterTime
    /\ waiting = {"keepalive"}
    /\ interval = 0
    /\ quiet = 0
    /\ broken = FALSE
    /\ lapsed = FALSE

Usable == keyAge < RejectAfterTime

Traffic == quiet' = 0 /\ broken' = FALSE

-----------------------------------------------------------------------------
(* Packets for the peer *)

\* RoutineNonce takes the first packet and asks for a handshake if it has no
\* pair for it; the pair may be one that has just been derived.
AskForPair == handshakeBegin' = (handshakeBegin \/ (waiting = {} /\ ~Usable'))

\* SendKeepAlive leaves it at the packets that are queued already.  The one
\* that RoutineNonce holds is not in the queue.
SendKeepAlive ==
    /\ \/ waiting' = waiting \cup {"keepalive"}
       \/ waiting # {} /\ waiting' = waiting
    /\ AskForPair

\* RoutineReadFromTUN
ReadFromTUN ==
    /\ waiting' = waiting \cup {"data"}
    /\ handshakeReset' = TRUE
    /\ UNCHANGED <<timers, flushNonceQueue, attempt, noise, keyAge, interval, history>>
    /\ AskForPair

\* Faulty: the age that the protocol's specification has for it.
RekeyDueLate == keyAge > RekeyAfterTime

\* The pairs are ours; the limit on messages, close to 2^64, is left out.
RekeyDue == keyAge > RekeyAfterTimeChange

\* Faulty: a packet that is sent does not count as traffic.
SendPacketQuietly(p) ==
    /\ p \in waiting
    /\ Usable
    /\ waiting' = waiting \ {p}
    /\ IF p = "data"
       THEN /\ keepalivePassive' = Stopped
            /\ pendingNewHandshake' = TRUE
            /\ newHandshake' = IF pendingNewHandshake THEN newHandshake ELSE NewHandshakeTime
       ELSE UNCHANGED <<keepalivePassive, pendingNewHandshake, newHandshake>>
    /\ handshakeBegin' = (handshakeBegin \/ RekeyDue)
    /\ Traffic
    /\ UNCHANGED <<keepalivePersistent, sendLastMinuteHandshake, handshakeReset,
                   flushNonceQueue, attempt, noise, keyAge, interval, lapsed>>

\* RoutineSequentialSender: TimerAnyAuthenticatedPacketTraversal, TimerDataSent
\* (nothing resets pendingNewHandshake) and KeepKeyFreshSending.
SendPacket(p) ==
    /\ p \in waiting
    /\ Usable
    /\ waiting' = waiting \ {p}
    /\ keepalivePersistent' = KeepaliveInterval
    /\ IF p = "data"
       THEN /\ keepalivePassive' = Stopped
            /\ pendingNewHandshake' = TRUE
            /\ newHandshake' = IF pendingNewHandshake THEN newHandshake ELSE NewHandshakeTime
       ELSE UNCHANGED <<keepalivePassive, pendingNewHandshake, newHandshake>>
    /\ handshakeBegin' = (handshakeBegin \/ RekeyDue)
    /\ Traffic
    /\ UNCHANGED <<sendLastMinuteHandshake, handshakeReset, flushNonceQueue, attempt, noise,
                   keyAge, interval, lapsed>>

\* The connection is replaced and the packet is lost; no timer is set.
SendPacketFails(p) ==
    /\ p \in waiting
    /\ Usable
    /\ waiting' = waiting \ {p}
    /\ broken' = TRUE
    /\ UNCHANGED <<timers, signals, attempt, noise, keyAge, interval, quiet, lapsed>>

\* RoutineNonce finds the flush signal while it waits for a pair.
FlushNonceQueue ==
    /\ flushNonceQueue
    /\ waiting # {}
    /\ ~Usable
    /\ flushNonceQueue' = FALSE
    /\ waiting' = {}
    /\ UNCHANGED <<timers, handshakeBegin, handshakeReset, attempt, noise, keyAge, interval,
                   history>>

-----------------------------------------------------------------------------
(* Packets from the peer *)

\* handleUDP notes every datagram.
ReceiveAnything ==
    /\ interval' = 0
    /\ UNCHANGED <<timers, signals, attempt, noise, keyAge, waiting, history>>

\* KeepKeyFreshReceiving asks for one last handshake.
LastMinute == ~sendLastMinuteHandshake /\ keyAge > RekeyAfterTimeReceiving

\* RoutineSequentialReceiver: TimerAnyAuthenticatedPacketTraversal and
\* ...Received, KeepKeyFreshReceiving, and TimerDataReceived for data
\* (pendingKeepalivePassive is never set).
ReceivePacket ==
    /\ Usable
    /\ interval' = 0
    /\ keepalivePersistent' = KeepaliveInterval
    /\ newHandshake' = Stopped
    /\ handshakeBegin' = (handshakeBegin \/ LastMinute)
    /\ sendLastMinuteHandshake' = (sendLastMinuteHandshake \/ LastMinute)
    /\ keepalivePassive' \in {keepalivePassive, KeepaliveTimeout}
    /\ Traffic
    /\ UNCHANGED <<pendingNewHandshake, handshakeReset, flushNonceQueue, attempt, noise, keyAge,
                   waiting, lapsed>>

\* ConsumeMessageResponse tests a response under the read lock.  One to an
\* open handshake may come at any moment, or never; handleUDP has noted it.
AuthenticateResponse ==
    /\ response = "idle"
    /\ handshake = "open"
    /\ response' = "authenticated"
    /\ interval' = 0
    /\ UNCHANGED <<timers, signals, attempt, handshake, keyAge, waiting, history>>

\* The result is stored under the write lock, also over an initiation that
\* was created meanwhile.
ConsumeResponse ==
    /\ response = "authenticated"
    /\ response' = "consumed"
    /\ handshake' = "consumed"
    /\ UNCHANGED <<timers, signals, attempt, keyAge, waiting, interval, history>>

\* TimerAnyAuthenticatedPacketTraversal and ...Received, TimerHandshakeComplete.
CompleteHandshake ==
    /\ response = "consumed"
    /\ response' = "completed"
    /\ keepalivePersistent' = KeepaliveInterval
    /\ newHandshake' = Stopped
    /\ handshakeCompleted' = TRUE
    /\ Traffic
    /\ UNCHANGED <<keepalivePassive, pendingNewHandshake, sendLastMinuteHandshake, signals,
                   initiator, deadline, timeout, handshake, keyAge, waiting, interval, lapsed>>

\* NewKeyPair returns nil if a retry has replaced the handshake.  The
\* initiator may nevertheless take the completion for that of its retry.
NewKeyPair ==
    IF handshake = "consumed" THEN keyAge' = 0 /\ handshake' = "closed" /\ lapsed' = FALSE
                              ELSE UNCHANGED <<keyAge, handshake, lapsed>>

DeriveKeyPair ==
    /\ response = "completed"
    /\ response' = "idle"
    /\ NewKeyPair
    /\ SendKeepAlive
    /\ UNCHANGED <<timers, handshakeReset, flushNonceQueue, attempt, interval, quiet, broken>>

-----------------------------------------------------------------------------
(* RoutineTimerHandler and checkIntervalTime *)

KeepalivePersistentFires ==
    /\ keepalivePersistent = 0
    /\ keepalivePersistent' = Stopped
    /\ UNCHANGED <<keepalivePassive, newHandshake, pendingNewHandshake, sendLastMinuteHandshake,
                   handshakeReset, flushNonceQueue, attempt, noise, keyAge, interval, history>>
    /\ SendKeepAlive

KeepalivePassiveFires ==
    /\ keepalivePassive = 0
    /\ keepalivePassive' = Stopped
    /\ UNCHANGED <<keepalivePersistent, newHandshake, pendingNewHandshake,
                   sendLastMinuteHandshake, handshakeReset, flushNonceQueue, attempt, noise,
                   keyAge, interval, history>>
    /\ SendKeepAlive

NewHandshakeFires ==
    /\ newHandshake = 0
    /\ newHandshake' = Stopped
    /\ handshakeBegin' = TRUE
    /\ UNCHANGED <<keepalivePersistent, keepalivePassive, pendingNewHandshake,
                   sendLastMinuteHandshake, handshakeReset, flushNonceQueue, attempt, noise,
                   keyAge, waiting, interval, history>>

\* Faulty: the interval is taken one step too long.
SilenceDueLate == interval > IntervalTime + 1

SilenceDue == interval > IntervalTime

\* checkIntervalTime: go sendStatus(101).
ReportSilence ==
    /\ SilenceDue
    /\ interval' = 0
    /\ UNCHANGED <<timers, signals, attempt, noise, keyAge, waiting, history>>

-----------------------------------------------------------------------------
(* RoutineHandshakeInitiator *)

BeginHandshakes ==
    /\ initiator = "idle"
    /\ handshakeBegin
    /\ handshakeBegin' = FALSE
    /\ handshakeReset' = FALSE
    /\ deadline' = RekeyAttemptTime
    /\ initiator' = "attempt"
    /\ UNCHANGED <<timers, flushNonceQueue, timeout, handshakeCompleted, noise, keyAge, waiting,
                   interval, history>>

\* At the deadline the nonce queue is flushed and the timer stopped, and the
\* attempts go on.
CheckDeadline ==
    /\ initiator = "attempt"
    /\ initiator' = "create"
    /\ deadline' = IF deadline = 0 THEN Stopped ELSE deadline
    /\ flushNonceQueue' = (flushNonceQueue \/ deadline = 0)
    /\ keepalivePersistent' = IF deadline = 0 THEN Stopped ELSE keepalivePersistent
    /\ handshakeCompleted' = FALSE
    /\ UNCHANGED <<keepalivePassive, newHandshake, pendingNewHandshake, sendLastMinuteHandshake,
                   handshakeBegin, handshakeReset, timeout, noise, keyAge, waiting, interval,
                   history>>

\* CreateMessageInitiation, and SendBuffer succeeds, which counts as traffic.
SendInitiation ==
    /\ initiator = "create"
    /\ initiator' = "await"
    /\ handshake' = "open"
    /\ keepalivePersistent' = KeepaliveInterval
    /\ lapsed' = FALSE
    /\ Traffic
    /\ UNCHANGED <<keepalivePassive, newHandshake, pendingNewHandshake, sendLastMinuteHandshake,
                   signals, deadline, timeout, handshakeCompleted, response, keyAge, waiting,
                   interval>>

\* SendBuffer fails; the initiator sleeps and replaces the connection.
SendInitiationFails ==
    /\ initiator = "create"
    /\ initiator' = "sleep"
    /\ handshake' = "closed"
    /\ broken' = TRUE
    /\ UNCHANGED <<timers, signals, deadline, timeout, handshakeCompleted, response, keyAge,
                   waiting, interval, quiet, lapsed>>

TakeCompleted ==
    /\ initiator = "await"
    /\ handshakeCompleted
    /\ handshakeCompleted' = FALSE
    /\ deadline' = Stopped
    /\ initiator' = "completed"
    /\ UNCHANGED <<timers, signals, timeout, noise, keyAge, waiting, interval, history>>

TakeReset ==
    /\ initiator = "await"
    /\ handshakeReset
    /\ handshakeReset' = FALSE
    /\ deadline' = Stopped
    /\ initiator' = "reset"
    /\ UNCHANGED <<timers, handshakeBegin, flushNonceQueue, timeout, handshakeCompleted, noise,
                   keyAge, waiting, interval, history>>

\* The next attempt, after the timeout or after the pause.
Retry ==
    /\ timeout
    /\ initiator \in {"await", "sleep"}
    /\ timeout' = FALSE
    /\ initiator' = "attempt"
    /\ UNCHANGED <<timers, signals, deadline, handshakeCompleted, noise, keyAge, waiting,
                   interval, history>>

\* After a reset the attempts start over.
StartOver ==
    /\ timeout
    /\ initiator = "reset"
    /\ timeout' = FALSE
    /\ handshakeReset' = FALSE
    /\ deadline' = RekeyAttemptTime
    /\ initiator' = "attempt"
    /\ UNCHANGED <<timers, handshakeBegin, flushNonceQueue, handshakeCompleted, noise, keyAge,
                   waiting, interval, history>>

\* After a completion the initiator clears the signals set meanwhile.
Rest ==
    /\ timeout
    /\ initiator = "completed"
    /\ timeout' = FALSE
    /\ sendLastMinuteHandshake' = FALSE
    /\ handshakeBegin' = FALSE
    /\ initiator' = "idle"
    /\ lapsed' = (lapsed \/ ~Usable)
    /\ UNCHANGED <<keepalivePersistent, keepalivePassive, newHandshake, pendingNewHandshake,
                   handshakeReset, flushNonceQueue, deadline, handshakeCompleted, noise, keyAge,
                   waiting, interval, quiet, broken>>

-----------------------------------------------------------------------------
(* Time *)

Due ==
    \/ 0 \in {keepalivePersistent, keepalivePassive, newHandshake}
    \/ initiator \in {"attempt", "create"} \/ timeout
    \/ initiator = "await" /\ (handshakeCompleted \/ handshakeReset)
    \/ initiator = "idle" /\ handshakeBegin
    \/ response # "idle"
    \/ waiting # {} /\ (Usable \/ flushNonceQueue)
    \/ SilenceDue

Down(t) == IF t > 0 THEN t - 1 ELSE t
Up(t, limit) == IF t < limit THEN t + 1 ELSE t

\* Every wait of the initiator ends with the step.
Tick ==
    /\ ~Due
    /\ keepalivePersistent' = Down(keepalivePersistent)
    /\ keepalivePassive' = Down(keepalivePassive)
    /\ newHandshake' = Down(newHandshake)
    /\ deadline' = Down(deadline)
    /\ timeout' = (initiator # "idle")
    /\ keyAge' = Up(keyAge, RejectAfterTime)
    /\ interval' = interval + 1
    /\ quiet' = Up(quiet, KeepaliveInterval + 1)
    /\ UNCHANGED <<pendingNewHandshake, sendLastMinuteHandshake, signals, initiator,
                   handshakeCompleted, noise, waiting, broken, lapsed>>

Next ==
    \/ ReadFromTUN \/ \E p \in waiting : SendPacket(p) \/ SendPacketFails(p)
    \/ FlushNonceQueue
    \/ ReceiveAnything \/ ReceivePacket
    \/ AuthenticateResponse \/ ConsumeResponse \/ CompleteHandshake \/ DeriveKeyPair
    \/ KeepalivePersistentFires \/ KeepalivePassiveFires \/ NewHandshakeFires \/ ReportSilence
    \/ BeginHandshakes \/ CheckDeadline \/ SendInitiation \/ SendInitiationFails
    \/ TakeCompleted \/ TakeReset \/ Retry \/ StartOver \/ Rest
    \/ Tick

Spec == Init /\ [][Next]_vars

-----------------------------------------------------------------------------
(* Properties *)

\* The persistent keep-alive timer is set only by traffic and stopped at the
\* deadline of a handshake (timers.go:114, timers.go:266), and its keep-alive
\* may find no pair or be flushed; still the tunnel is never quiet for longer
\* than the keep-alive interval, with two exceptions, after which it may be
\* quiet forever: a send failed, or the initiator came to rest without a
\* usable pair (timers.go:328) because NewKeyPair had returned nil.
NeverQuiet == quiet > KeepaliveInterval => broken \/ lapsed

\* When checkIntervalTime tells the app that the server is silent
\* (init.go:53), the initiator is trying again or about to, but for the same
\* exceptions, although the newHandshake timer is set only once in the life
\* of a peer (timers.go:76): the keep-alives meet a pair that is due for a new
\* handshake first.
SilenceNoticed ==
    [][ReportSilence => \/ initiator \notin {"idle", "completed"}
                        \/ initiator = "idle" /\ handshakeBegin
                        \/ broken \/ lapsed]_vars

=============================================================================

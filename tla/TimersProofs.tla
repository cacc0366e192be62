------------------------------ MODULE TimersProofs ------------------------------
(***************************************************************************)
(* Proofs about module PeerTimers: as long as sends succeed and handshakes *)
(* yield pairs the tunnel is never quiet for longer than the keep-alive    *)
(* interval, and when the app is told of a silent server the initiator is  *)
(* at work, for every choice of the durations that DurationAssumption      *)
(* allows.                                                                 *)
(***************************************************************************)
EXTENDS PeerTimers, TLAPS

(***************************************************************************)
(* A tunnel on which nothing went wrong is watched: by the persistent      *)
(* timer, which runs out in time, or by something that is due before time  *)
(* goes on.  AwaitFresh and IdleAsks say why the timer's keep-alive is     *)
(* never left waiting for a pair nobody asked for.                         *)
(***************************************************************************)
WillSend ==
    \/ initiator \in {"attempt", "create"}
    \/ initiator = "idle" /\ handshakeBegin
    \/ timeout /\ ~Usable
    \/ waiting # {} /\ Usable

Watched ==
    \/ broken
    \/ lapsed
    \/ /\ keepalivePersistent # Stopped
       /\ keepalivePersistent + quiet <= KeepaliveInterval
    \/ quiet <= KeepaliveInterval /\ WillSend

AwaitFresh ==
    initiator \in {"await", "reset", "completed", "sleep"} /\ ~timeout =>
        broken \/ keepalivePersistent = KeepaliveInterval

IdleAsks == initiator = "idle" /\ waiting # {} /\ ~Usable => handshakeBegin \/ lapsed

\* A response has just been heard when it is worked on, and when the initiator
\* takes the completion for that of its own attempt.
Answered ==
    /\ response # "idle" => interval = 0
    /\ response = "completed" => quiet = 0
    /\ handshakeCompleted /\ initiator \in {"create", "await"} => interval = 0
    /\ initiator = "completed" => interval <= IF timeout THEN 1 ELSE 0

\* Silence is never longer than the age of the pair, and the last packet sent
\* with an old pair has asked for a new one.
SilenceKnown ==
    /\ interval <= keyAge \/ keyAge = RejectAfterTime
    /\ initiator = "idle" /\ ~handshakeBegin /\ ~broken /\ ~lapsed =>
          interval <= quiet + RekeyAfterTimeChange

TimersInv == TypeOK /\ Watched /\ AwaitFresh /\ IdleAsks /\ Answered /\ SilenceKnown

\* The durations are positive numbers.
LEMMA Durations ==
    /\ KeepaliveInterval \in Nat /\ KeepaliveInterval > 0
    /\ KeepaliveTimeout \in Nat
    /\ NewHandshakeTime \in Nat
    /\ RekeyAfterTimeChange \in Nat /\ RekeyAfterTimeChange > 0
    /\ RekeyAfterTimeReceiving \in Nat
    /\ RejectAfterTime \in Nat /\ RekeyAfterTimeChange < RejectAfterTime
    /\ RekeyAttemptTime \in Nat
    /\ IntervalTime \in Nat /\ RekeyAfterTimeChange + KeepaliveInterval < IntervalTime
  BY DurationAssumption

\* What StartConnection leaves behind satisfies the invariant.
LEMMA TimersInitInv == Init => TimersInv
<1>  SUFFICES ASSUME Init PROVE TimersInv
  OBVIOUS
<1>1. /\ pendingNewHandshake \in BOOLEAN /\ sendLastMinuteHandshake \in BOOLEAN
      /\ handshakeBegin \in BOOLEAN /\ handshakeReset \in BOOLEAN
      /\ flushNonceQueue \in BOOLEAN /\ handshakeCompleted \in BOOLEAN
      /\ timeout \in BOOLEAN /\ broken \in BOOLEAN /\ lapsed \in BOOLEAN
  BY DEF Init
<1>2. TypeOK
  BY <1>1, Durations DEF Init, TypeOK, Timer, Stopped
<1>  QED
  BY <1>2, Durations DEF Init, TimersInv, Watched, WillSend, AwaitFresh, IdleAsks, Answered,
                         SilenceKnown, Usable

\* Packets for the peer.
LEMMA SendingInv ==
    ASSUME TimersInv,
           \/ ReadFromTUN \/ FlushNonceQueue
           \/ \E p \in waiting : SendPacket(p) \/ SendPacketFails(p)
    PROVE  TimersInv'
<1>  USE Durations
<1>1. CASE ReadFromTUN
  <2>1. /\ UNCHANGED <<timers, flushNonceQueue, attempt, noise, keyAge, interval, history>>
        /\ waiting' = waiting \cup {"data"} /\ handshakeReset'
        /\ handshakeReset' \in BOOLEAN /\ handshakeBegin' \in BOOLEAN
        /\ handshakeBegin => handshakeBegin'
        /\ waiting = {} /\ ~Usable => handshakeBegin'
    BY <1>1 DEF ReadFromTUN, AskForPair, Usable, TimersInv, TypeOK
  <2>2. TypeOK'
    BY <2>1 DEF TimersInv, TypeOK, timers, attempt, noise, history
  <2>3. Watched' /\ AwaitFresh'
    BY <2>1 DEF TimersInv, TypeOK, timers, attempt, history, Watched, WillSend, AwaitFresh, Usable
  <2>4. IdleAsks' /\ Answered' /\ SilenceKnown'
    BY <2>1 DEF TimersInv, TypeOK, timers, attempt, noise, history, IdleAsks, Answered,
                SilenceKnown, Usable
  <2>  QED
    BY <2>2, <2>3, <2>4 DEF TimersInv
<1>2. CASE FlushNonceQueue
  <2>1. /\ flushNonceQueue' \in BOOLEAN /\ waiting' = {} /\ ~Usable
        /\ UNCHANGED <<timers, handshakeBegin, handshakeReset, attempt, noise, keyAge, interval,
                       history>>
    BY <1>2 DEF FlushNonceQueue
  <2>2. TypeOK'
    BY <2>1 DEF TimersInv, TypeOK, timers, attempt, noise, history
  <2>3. Watched' /\ AwaitFresh'
    BY <2>1 DEF TimersInv, timers, attempt, history, Watched, WillSend, AwaitFresh, Usable
  <2>4. IdleAsks' /\ Answered' /\ SilenceKnown'
    BY <2>1 DEF TimersInv, attempt, noise, history, IdleAsks, Answered, SilenceKnown
  <2>  QED
    BY <2>2, <2>3, <2>4 DEF TimersInv
<1>3. ASSUME NEW p \in waiting, SendPacket(p) PROVE TimersInv'
  <2>1. /\ quiet' = 0 /\ ~broken' /\ keepalivePersistent' = KeepaliveInterval
        /\ UNCHANGED <<initiator, deadline, timeout, handshakeCompleted, handshake, response,
                       keyAge, interval, handshakeReset, flushNonceQueue,
                       sendLastMinuteHandshake, lapsed>>
        /\ waiting' \subseteq waiting /\ Usable
    BY <1>3 DEF SendPacket, Traffic, attempt, noise
  <2>2. /\ handshakeBegin => handshakeBegin'
        /\ keyAge > RekeyAfterTimeChange => handshakeBegin'
    BY <1>3 DEF SendPacket, RekeyDue
  <2>3. /\ broken' \in BOOLEAN /\ handshakeBegin' \in BOOLEAN
        /\ pendingNewHandshake' \in BOOLEAN
    BY <1>3 DEF SendPacket, Traffic, TimersInv, TypeOK
  <2>4. keepalivePassive' \in Timer(KeepaliveTimeout) /\ newHandshake' \in Timer(NewHandshakeTime)
    BY <1>3 DEF SendPacket, TimersInv, TypeOK, Timer
  <2>5. TypeOK'
    BY <2>1, <2>3, <2>4 DEF TimersInv, TypeOK, Timer
  <2>6. Watched' /\ AwaitFresh'
    BY <2>1 DEF TimersInv, TypeOK, Watched, AwaitFresh, Stopped
  <2>7. IdleAsks' /\ Answered'
    BY <2>1, <2>2 DEF TimersInv, IdleAsks, Answered, Usable
  <2>8. SilenceKnown'
    BY <2>1, <2>2 DEF TimersInv, TypeOK, SilenceKnown
  <2>  QED
    BY <2>5, <2>6, <2>7, <2>8 DEF TimersInv
<1>4. ASSUME NEW p \in waiting, SendPacketFails(p) PROVE TimersInv'
  <2>1. TypeOK'
    BY <1>4 DEF SendPacketFails, TimersInv, TypeOK, timers, signals, attempt, noise
  <2>2. Watched' /\ AwaitFresh'
    BY <1>4 DEF SendPacketFails, TimersInv, timers, attempt, Watched, AwaitFresh
  <2>3. IdleAsks' /\ Answered' /\ SilenceKnown'
    BY <1>4 DEF SendPacketFails, TimersInv, TypeOK, timers, signals, attempt, noise, IdleAsks,
                Answered, SilenceKnown, Usable
  <2>  QED
    BY <2>1, <2>2, <2>3 DEF TimersInv
<1>  QED
  BY <1>1, <1>2, <1>3, <1>4

\* Packets from the peer.
LEMMA ReceivingInv ==
    ASSUME TimersInv, ReceiveAnything \/ ReceivePacket
    PROVE  TimersInv'
<1>  USE Durations
<1>1. CASE ReceiveAnything
  <2>1. TypeOK'
    BY <1>1 DEF ReceiveAnything, TimersInv, TypeOK, timers, signals, attempt, noise, history
  <2>2. Watched' /\ AwaitFresh'
    BY <1>1 DEF ReceiveAnything, TimersInv, timers, signals, attempt, history, Watched, WillSend,
                AwaitFresh, Usable
  <2>3. IdleAsks' /\ Answered' /\ SilenceKnown'
    BY <1>1 DEF ReceiveAnything, TimersInv, TypeOK, timers, signals, attempt, noise, history,
                IdleAsks, Answered, SilenceKnown, Usable
  <2>  QED
    BY <2>1, <2>2, <2>3 DEF TimersInv
<1>2. CASE ReceivePacket
  <2>1. /\ quiet' = 0 /\ ~broken' /\ keepalivePersistent' = KeepaliveInterval
        /\ interval' = 0
        /\ UNCHANGED <<initiator, deadline, timeout, handshakeCompleted, handshake, response,
                       keyAge, waiting, handshakeReset, flushNonceQueue, pendingNewHandshake,
                       lapsed>>
        /\ handshakeBegin => handshakeBegin'
    BY <1>2 DEF ReceivePacket, Traffic, attempt, noise
  <2>2. /\ broken' \in BOOLEAN /\ handshakeBegin' \in BOOLEAN
        /\ sendLastMinuteHandshake' \in BOOLEAN
    BY <1>2 DEF ReceivePacket, Traffic, TimersInv, TypeOK
  <2>3. keepalivePassive' \in Timer(KeepaliveTimeout) /\ newHandshake' \in Timer(NewHandshakeTime)
    BY <1>2 DEF ReceivePacket, TimersInv, TypeOK, Timer, Stopped
  <2>4. TypeOK'
    BY <2>1, <2>2, <2>3 DEF TimersInv, TypeOK, Timer
  <2>5. Watched' /\ AwaitFresh'
    BY <2>1 DEF TimersInv, TypeOK, Watched, AwaitFresh, Stopped
  <2>6. IdleAsks' /\ Answered' /\ SilenceKnown'
    BY <2>1 DEF TimersInv, TypeOK, IdleAsks, Answered, SilenceKnown, Usable
  <2>  QED
    BY <2>4, <2>5, <2>6 DEF TimersInv
<1>  QED
  BY <1>1, <1>2

\* RoutineHandshake works on a response, whose handshake may be replaced
\* before the pair is derived.
LEMMA ResponseInv ==
    ASSUME TimersInv,
           AuthenticateResponse \/ ConsumeResponse \/ CompleteHandshake \/ DeriveKeyPair
    PROVE  TimersInv'
<1>  USE Durations
<1>1. CASE AuthenticateResponse \/ ConsumeResponse
  <2>1. /\ response' \in {"authenticated", "consumed"} /\ handshake' \in {handshake, "consumed"}
        /\ interval' = 0
        /\ UNCHANGED <<timers, signals, attempt, keyAge, waiting, history>>
    BY <1>1 DEF AuthenticateResponse, ConsumeResponse, TimersInv, Answered
  <2>2. TypeOK'
    BY <2>1 DEF TimersInv, TypeOK, timers, signals, attempt, history
  <2>3. Watched' /\ AwaitFresh'
    BY <2>1 DEF TimersInv, timers, signals, attempt, history, Watched, WillSend, AwaitFresh,
                Usable
  <2>4. IdleAsks' /\ Answered' /\ SilenceKnown'
    BY <2>1 DEF TimersInv, TypeOK, timers, signals, attempt, history, IdleAsks, Answered,
                SilenceKnown, Usable
  <2>  QED
    BY <2>2, <2>3, <2>4 DEF TimersInv
<1>2. CASE CompleteHandshake
  <2>1. /\ quiet' = 0 /\ ~broken' /\ keepalivePersistent' = KeepaliveInterval
        /\ interval = 0 /\ newHandshake' = Stopped /\ response' = "completed"
        /\ UNCHANGED <<signals, initiator, deadline, timeout, handshake, keyAge, waiting,
                       interval, lapsed, keepalivePassive, pendingNewHandshake,
                       sendLastMinuteHandshake>>
    BY <1>2 DEF CompleteHandshake, Traffic, TimersInv, Answered
  <2>2. broken' \in BOOLEAN /\ handshakeCompleted' \in BOOLEAN
    BY <1>2 DEF CompleteHandshake, Traffic
  <2>3. TypeOK'
    BY <2>1, <2>2 DEF TimersInv, TypeOK, Timer, signals
  <2>4. Watched' /\ AwaitFresh'
    BY <2>1 DEF TimersInv, TypeOK, Watched, AwaitFresh, Stopped
  <2>5. IdleAsks' /\ Answered' /\ SilenceKnown'
    BY <2>1 DEF TimersInv, TypeOK, signals, IdleAsks, Answered, SilenceKnown, Usable
  <2>  QED
    BY <2>3, <2>4, <2>5 DEF TimersInv
<1>3. CASE DeriveKeyPair
  <2>1. /\ response' = "idle" /\ quiet = 0 /\ interval = 0
        /\ UNCHANGED <<timers, handshakeReset, flushNonceQueue, attempt, interval, quiet, broken>>
    BY <1>3 DEF DeriveKeyPair, TimersInv, Answered
  <2>2. /\ waiting' # {} /\ waiting' \subseteq {"keepalive", "data"} /\ waiting \subseteq waiting'
        /\ handshakeBegin' \in BOOLEAN
        /\ handshakeBegin => handshakeBegin'
        /\ waiting = {} /\ ~Usable' => handshakeBegin'
    BY <1>3 DEF DeriveKeyPair, SendKeepAlive, AskForPair, TimersInv, TypeOK
  <2>3. \/ keyAge' = 0 /\ handshake' = "closed" /\ ~lapsed' /\ lapsed' \in BOOLEAN
        \/ UNCHANGED <<keyAge, handshake, lapsed>>
    BY <1>3 DEF DeriveKeyPair, NewKeyPair
  <2>4. TypeOK'
    BY <2>1, <2>2, <2>3 DEF TimersInv, TypeOK, timers, attempt
  <2>5. Watched' /\ AwaitFresh'
    <3>1. CASE keyAge' = 0 /\ handshake' = "closed" /\ ~lapsed'
      BY <2>1, <2>2, <3>1 DEF TimersInv, Watched, WillSend, AwaitFresh, Usable, timers, attempt
    <3>2. CASE UNCHANGED <<keyAge, handshake, lapsed>>
      BY <2>1, <2>2, <3>2 DEF TimersInv, Watched, WillSend, AwaitFresh, Usable, timers, attempt
    <3>  QED
      BY <2>3, <3>1, <3>2
  <2>6. IdleAsks' /\ Answered' /\ SilenceKnown'
    BY <2>1, <2>2, <2>3 DEF TimersInv, TypeOK, attempt, IdleAsks, Answered, SilenceKnown, Usable
  <2>  QED
    BY <2>4, <2>5, <2>6 DEF TimersInv
<1>  QED
  BY <1>1, <1>2, <1>3

\* The timers fire: a keep-alive without a pair asks for one.
LEMMA TimerHandlerInv ==
    ASSUME TimersInv,
           \/ KeepalivePersistentFires \/ KeepalivePassiveFires \/ NewHandshakeFires
           \/ ReportSilence
    PROVE  TimersInv'
<1>  USE Durations
<1>1. CASE KeepalivePersistentFires \/ KeepalivePassiveFires
  <2>1. /\ UNCHANGED <<newHandshake, pendingNewHandshake, sendLastMinuteHandshake, handshakeReset,
                       flushNonceQueue, initiator, deadline, timeout, handshakeCompleted,
                       handshake, response, keyAge, interval, quiet, broken, lapsed>>
        /\ keepalivePersistent' \in {Stopped, keepalivePersistent}
        /\ keepalivePassive' \in {Stopped, keepalivePassive}
        /\ keepalivePersistent' # keepalivePersistent => keepalivePersistent = 0
    BY <1>1 DEF KeepalivePersistentFires, KeepalivePassiveFires, attempt, noise, history
  <2>2. /\ waiting' # {} /\ waiting' \subseteq {"keepalive", "data"}
        /\ handshakeBegin => handshakeBegin'
        /\ waiting = {} /\ ~Usable => handshakeBegin'
        /\ handshakeBegin' \in BOOLEAN
    BY <1>1, <2>1 DEF KeepalivePersistentFires, KeepalivePassiveFires, SendKeepAlive, AskForPair,
                      Usable, TimersInv, TypeOK
  <2>3. TypeOK'
    BY <2>1, <2>2 DEF TimersInv, TypeOK, Timer
  <2>4. AwaitFresh' /\ Answered' /\ SilenceKnown'
    BY <2>1, <2>2 DEF TimersInv, TypeOK, AwaitFresh, Answered, SilenceKnown
  <2>5. IdleAsks'
    BY <2>1, <2>2 DEF TimersInv, IdleAsks, Usable
  <2>6. CASE keepalivePersistent' = keepalivePersistent
    <3>1. Watched'
      BY <2>1, <2>2, <2>6 DEF TimersInv, Watched, WillSend, Usable
    <3>  QED
      BY <2>3, <2>4, <2>5, <3>1 DEF TimersInv
  <2>7. CASE keepalivePersistent = 0
    <3>1. broken \/ lapsed \/ quiet <= KeepaliveInterval
      BY <2>7 DEF TimersInv, TypeOK, Watched
    <3>2. broken \/ timeout \/ initiator \in {"idle", "attempt", "create"}
      BY <2>7 DEF TimersInv, TypeOK, AwaitFresh
    <3>3. Watched'
      BY <2>1, <2>2, <2>5, <3>1, <3>2 DEF Watched, WillSend, IdleAsks, Usable
    <3>  QED
      BY <2>3, <2>4, <2>5, <3>3 DEF TimersInv
  <2>  QED
    BY <2>1, <2>6, <2>7
<1>2. CASE NewHandshakeFires
  <2>1. /\ newHandshake' = Stopped /\ handshakeBegin' /\ handshakeBegin' \in BOOLEAN
        /\ UNCHANGED <<keepalivePersistent, keepalivePassive, pendingNewHandshake,
                       sendLastMinuteHandshake, handshakeReset, flushNonceQueue, initiator,
                       deadline, timeout, handshakeCompleted, handshake, response, keyAge,
                       waiting, interval, quiet, broken, lapsed>>
    BY <1>2 DEF NewHandshakeFires, attempt, noise, history
  <2>2. TypeOK'
    BY <2>1 DEF TimersInv, TypeOK, Timer
  <2>  QED
    BY <2>1, <2>2 DEF TimersInv, Watched, WillSend, AwaitFresh, IdleAsks, Answered, SilenceKnown,
                      Usable
<1>3. CASE ReportSilence
  <2>1. TypeOK'
    BY <1>3 DEF ReportSilence, TimersInv, TypeOK, timers, signals, attempt, noise, history
  <2>2. Watched' /\ AwaitFresh'
    BY <1>3 DEF ReportSilence, TimersInv, timers, signals, attempt, history, Watched, WillSend,
                AwaitFresh, Usable
  <2>3. IdleAsks' /\ Answered' /\ SilenceKnown'
    BY <1>3 DEF ReportSilence, TimersInv, TypeOK, timers, signals, attempt, noise, history,
                IdleAsks, Answered, SilenceKnown, Usable
  <2>  QED
    BY <2>1, <2>2, <2>3 DEF TimersInv
<1>  QED
  BY <1>1, <1>2, <1>3

\* The initiator begins and attempts.
LEMMA AttemptInv ==
    ASSUME TimersInv,
           BeginHandshakes \/ CheckDeadline \/ SendInitiation \/ SendInitiationFails
    PROVE  TimersInv'
<1>  USE Durations
<1>1. CASE BeginHandshakes
  <2>1. handshakeBegin' \in BOOLEAN /\ handshakeReset' \in BOOLEAN
    BY <1>1 DEF BeginHandshakes
  <2>2. TypeOK'
    BY <1>1, <2>1 DEF BeginHandshakes, TimersInv, TypeOK, Timer, timers, noise, history
  <2>3. Watched' /\ AwaitFresh'
    BY <1>1 DEF BeginHandshakes, TimersInv, TypeOK, timers, history, Watched, WillSend,
                AwaitFresh, Usable
  <2>4. IdleAsks' /\ Answered' /\ SilenceKnown'
    BY <1>1 DEF BeginHandshakes, TimersInv, TypeOK, noise, history, IdleAsks, Answered,
                SilenceKnown
  <2>  QED
    BY <2>2, <2>3, <2>4 DEF TimersInv
<1>2. CASE CheckDeadline
  <2>1. /\ initiator = "attempt" /\ initiator' = "create"
        /\ deadline' \in {Stopped, deadline} /\ ~handshakeCompleted'
        /\ keepalivePersistent' \in {Stopped, keepalivePersistent}
        /\ UNCHANGED <<keepalivePassive, newHandshake, pendingNewHandshake,
                       sendLastMinuteHandshake, handshakeBegin, handshakeReset, timeout,
                       handshake, response, keyAge, waiting, interval, quiet, broken, lapsed>>
    BY <1>2 DEF CheckDeadline, noise, history
  <2>2. flushNonceQueue' \in BOOLEAN /\ handshakeCompleted' \in BOOLEAN
    BY <1>2 DEF CheckDeadline, TimersInv, TypeOK
  <2>3. TypeOK'
    BY <2>1, <2>2 DEF TimersInv, TypeOK, Timer
  <2>4. Watched' /\ AwaitFresh'
    <3>1. broken \/ lapsed \/ quiet <= KeepaliveInterval
      BY DEF TimersInv, TypeOK, Timer, Stopped, Watched
    <3>  QED
      BY <2>1, <3>1 DEF Watched, WillSend, AwaitFresh
  <2>5. IdleAsks' /\ Answered' /\ SilenceKnown'
    BY <2>1 DEF TimersInv, TypeOK, IdleAsks, Answered, SilenceKnown
  <2>  QED
    BY <2>3, <2>4, <2>5 DEF TimersInv
<1>3. CASE SendInitiation
  <2>1. /\ initiator = "create" /\ initiator' = "await" /\ handshake' = "open"
        /\ keepalivePersistent' = KeepaliveInterval /\ quiet' = 0
        /\ broken' \in BOOLEAN /\ lapsed' \in BOOLEAN
        /\ UNCHANGED <<keepalivePassive, newHandshake, pendingNewHandshake,
                       sendLastMinuteHandshake, signals, deadline, timeout, handshakeCompleted,
                       response, keyAge, waiting, interval>>
    BY <1>3 DEF SendInitiation, Traffic
  <2>2. TypeOK'
    BY <2>1 DEF TimersInv, TypeOK, Timer, signals
  <2>3. Watched' /\ AwaitFresh'
    BY <2>1 DEF TimersInv, TypeOK, Watched, AwaitFresh, Stopped
  <2>4. IdleAsks' /\ Answered' /\ SilenceKnown'
    BY <2>1 DEF TimersInv, TypeOK, IdleAsks, Answered, SilenceKnown
  <2>  QED
    BY <2>2, <2>3, <2>4 DEF TimersInv
<1>4. CASE SendInitiationFails
  <2>1. /\ initiator' = "sleep" /\ handshake' = "closed"
        /\ broken' /\ broken' \in BOOLEAN
        /\ UNCHANGED <<timers, signals, deadline, timeout, handshakeCompleted, response, keyAge,
                       waiting, interval, quiet, lapsed>>
    BY <1>4 DEF SendInitiationFails
  <2>2. TypeOK'
    BY <2>1 DEF TimersInv, TypeOK, timers, signals
  <2>3. Watched' /\ AwaitFresh' /\ IdleAsks' /\ Answered' /\ SilenceKnown'
    BY <2>1 DEF TimersInv, TypeOK, Watched, AwaitFresh, IdleAsks, Answered, SilenceKnown
  <2>  QED
    BY <2>2, <2>3 DEF TimersInv
<1>  QED
  BY <1>1, <1>2, <1>3, <1>4

\* An attempt ends: by a signal, or by its timeout.
LEMMA AttemptEndsInv ==
    ASSUME TimersInv, TakeCompleted \/ TakeReset \/ Retry \/ StartOver \/ Rest
    PROVE  TimersInv'
<1>  USE Durations
<1>1. CASE TakeCompleted \/ TakeReset
  <2>1. /\ initiator = "await" /\ initiator' \in {"completed", "reset"}
        /\ initiator' = "completed" => interval = 0
        /\ handshakeCompleted' \in BOOLEAN /\ handshakeReset' \in BOOLEAN
        /\ deadline' = Stopped
        /\ UNCHANGED <<timers, handshakeBegin, flushNonceQueue, timeout, noise, keyAge, waiting,
                       interval, history>>
    BY <1>1 DEF TakeCompleted, TakeReset, signals, TimersInv, TypeOK, Answered
  <2>2. TypeOK'
    BY <2>1 DEF TimersInv, TypeOK, Timer, timers, noise, history
  <2>3. Watched' /\ AwaitFresh'
    BY <2>1 DEF TimersInv, timers, history, Watched, WillSend, AwaitFresh, Usable
  <2>4. IdleAsks' /\ Answered' /\ SilenceKnown'
    BY <2>1 DEF TimersInv, TypeOK, noise, history, IdleAsks, Answered, SilenceKnown
  <2>  QED
    BY <2>2, <2>3, <2>4 DEF TimersInv
<1>2. CASE Retry \/ StartOver
  <2>1. /\ initiator \notin {"idle", "attempt", "create", "completed"} /\ initiator' = "attempt"
        /\ ~timeout' /\ timeout' \in BOOLEAN
        /\ handshakeReset' \in BOOLEAN /\ deadline' \in {deadline, RekeyAttemptTime}
        /\ UNCHANGED <<timers, handshakeBegin, flushNonceQueue, handshakeCompleted, noise, keyAge,
                       waiting, interval, history>>
    BY <1>2 DEF Retry, StartOver, signals, TimersInv, TypeOK
  <2>2. TypeOK'
    BY <2>1 DEF TimersInv, TypeOK, Timer, timers, noise, history
  <2>3. Watched' /\ AwaitFresh'
    BY <2>1 DEF TimersInv, TypeOK, Timer, Stopped, timers, history, Watched, WillSend, AwaitFresh
  <2>4. IdleAsks' /\ Answered' /\ SilenceKnown'
    BY <2>1 DEF TimersInv, TypeOK, noise, history, IdleAsks, Answered, SilenceKnown
  <2>  QED
    BY <2>2, <2>3, <2>4 DEF TimersInv
<1>3. CASE Rest
  <2>1. /\ initiator = "completed" /\ initiator' = "idle" /\ timeout
        /\ ~Usable => lapsed'
        /\ lapsed => lapsed'
        /\ UNCHANGED <<keepalivePersistent, keepalivePassive, newHandshake, pendingNewHandshake,
                       handshakeReset, flushNonceQueue, deadline, handshakeCompleted, noise,
                       keyAge, waiting, interval, quiet, broken>>
    BY <1>3 DEF Rest
  <2>2. /\ timeout' \in BOOLEAN /\ sendLastMinuteHandshake' \in BOOLEAN
        /\ handshakeBegin' \in BOOLEAN /\ lapsed' \in BOOLEAN
    BY <1>3 DEF Rest, TimersInv, TypeOK
  <2>3. TypeOK'
    BY <2>1, <2>2 DEF TimersInv, TypeOK, noise
  <2>4. Watched' /\ AwaitFresh' /\ IdleAsks'
    BY <2>1 DEF TimersInv, Watched, WillSend, AwaitFresh, IdleAsks, Usable
  <2>5. Answered' /\ SilenceKnown'
    BY <2>1 DEF TimersInv, TypeOK, noise, Answered, SilenceKnown
  <2>  QED
    BY <2>3, <2>4, <2>5 DEF TimersInv
<1>  QED
  BY <1>1, <1>2, <1>3

\* Time passes only when nothing is due, so that the timer still runs.
LEMMA TickInv == TimersInv /\ Tick => TimersInv'
<1>  SUFFICES ASSUME TimersInv, Tick PROVE TimersInv'
  OBVIOUS
<1>  USE Durations
<1>1. /\ keepalivePersistent # 0
      /\ initiator \notin {"attempt", "create"} /\ ~timeout
      /\ ~(initiator = "await" /\ handshakeCompleted)
      /\ ~(initiator = "idle" /\ handshakeBegin)
      /\ response = "idle"
      /\ ~(waiting # {} /\ Usable)
      /\ interval <= IntervalTime
  BY DEF Tick, Due, SilenceDue, TimersInv, TypeOK
<1>2. /\ keepalivePersistent' = Down(keepalivePersistent)
      /\ keepalivePassive' = Down(keepalivePassive)
      /\ newHandshake' = Down(newHandshake)
      /\ deadline' = Down(deadline)
      /\ timeout' = (initiator # "idle")
      /\ keyAge' = Up(keyAge, RejectAfterTime)
      /\ interval' = interval + 1
      /\ quiet' = Up(quiet, KeepaliveInterval + 1)
      /\ UNCHANGED <<pendingNewHandshake, sendLastMinuteHandshake, signals, initiator,
                     handshakeCompleted, noise, waiting, broken, lapsed>>
  BY DEF Tick
<1>3. ASSUME NEW n \in Nat, NEW t \in Timer(n) PROVE Down(t) \in Timer(n)
  BY DEF Timer, Down, Stopped
<1>4. keyAge' \in 0..RejectAfterTime /\ quiet' \in 0..KeepaliveInterval + 1
      /\ interval' \in 0..IntervalTime + 1
  BY <1>1, <1>2 DEF TimersInv, TypeOK, Up
<1>5. /\ keepalivePersistent' \in Timer(KeepaliveInterval)
      /\ keepalivePassive' \in Timer(KeepaliveTimeout)
      /\ newHandshake' \in Timer(NewHandshakeTime)
      /\ deadline' \in Timer(RekeyAttemptTime)
      /\ timeout' \in BOOLEAN
  BY <1>2, <1>3 DEF TimersInv, TypeOK
<1>6. TypeOK'
  BY <1>2, <1>4, <1>5 DEF TimersInv, TypeOK, signals, noise
<1>7. \/ broken \/ lapsed
      \/ keepalivePersistent # Stopped /\ keepalivePersistent + quiet <= KeepaliveInterval
  BY <1>1 DEF TimersInv, Watched, WillSend
<1>8. Watched'
  BY <1>1, <1>2, <1>7 DEF TimersInv, TypeOK, Watched, Timer, Stopped, Down, Up
<1>9. AwaitFresh'
  BY <1>2 DEF AwaitFresh
<1>10. IdleAsks'
  BY <1>1, <1>2 DEF TimersInv, TypeOK, signals, IdleAsks, Usable, Up
<1>11. Answered'
  <2>1. UNCHANGED <<initiator, handshakeCompleted, response>>
    BY <1>2 DEF noise
  <2>2. ASSUME initiator = "completed" PROVE interval' <= 1 /\ timeout'
    <3>1. interval \in Nat /\ interval <= 0
      BY <1>1, <2>2 DEF TimersInv, TypeOK, Answered
    <3>2. timeout'
      BY <1>2, <2>2
    <3>  QED
      BY <1>2, <3>1, <3>2
  <2>  QED
    BY <1>1, <2>1, <2>2 DEF Answered
<1>12. SilenceKnown'
  <2>1. interval' <= keyAge' \/ keyAge' = RejectAfterTime
    BY <1>2 DEF TimersInv, TypeOK, SilenceKnown, Up
  <2>2. ASSUME initiator' = "idle", ~handshakeBegin', ~broken', ~lapsed'
        PROVE  interval' <= quiet' + RekeyAfterTimeChange
    <3>1. quiet' = quiet + 1
      BY <1>1, <1>2, <1>7, <2>2 DEF TimersInv, TypeOK, Timer, Stopped, Up
    <3>  QED
      BY <1>2, <2>2, <3>1 DEF TimersInv, TypeOK, signals, SilenceKnown
  <2>  QED
    BY <2>1, <2>2 DEF SilenceKnown
<1>  QED
  BY <1>6, <1>8, <1>9, <1>10, <1>11, <1>12 DEF TimersInv

\* Every step keeps the invariant.
LEMMA TimersNextInv == TimersInv /\ [Next]_vars => TimersInv'
<1>1. ASSUME TimersInv, UNCHANGED vars PROVE TimersInv'
  <2>1. TypeOK'
    BY <1>1 DEF TimersInv, TypeOK, vars, timers, signals, attempt, noise, history
  <2>  QED
    BY <1>1, <2>1 DEF TimersInv, vars, timers, signals, attempt, noise, history, Watched,
                      WillSend, AwaitFresh, IdleAsks, Answered, SilenceKnown, Usable
<1>  QED
  BY <1>1, SendingInv, ReceivingInv, ResponseInv, TimerHandlerInv, AttemptInv, AttemptEndsInv,
     TickInv DEF Next

\* The inductive invariant holds in every state that PeerTimers reaches.
LEMMA TimersInvHolds == Spec => []TimersInv
  BY TimersInitInv, TimersNextInv, PTL DEF Spec

-----------------------------------------------------------------------------
\* Every timer and flag keeps its type: no timer runs below zero and silence
\* is reported at the latest one step after it is due (timers.go, init.go:53).
THEOREM TimersTypeOK == Spec => []TypeOK
<1>1. TimersInv => TypeOK
  BY DEF TimersInv
<1>  QED
  BY <1>1, TimersInvHolds, PTL

\* Unless a send failed or a handshake ended without a pair, the tunnel is
\* never quiet for longer than the keep-alive interval (timers.go:114,
\* timers.go:266, timers.go:328).
THEOREM TimersNeverQuiet == Spec => []NeverQuiet
<1>1. TimersInv => NeverQuiet
  BY Durations DEF TimersInv, TypeOK, Watched, NeverQuiet, Timer, Stopped
<1>  QED
  BY <1>1, TimersInvHolds, PTL

\* When the app is told that the server is silent, the initiator is at work or
\* about to be, unless a send failed or a handshake ended without a pair
\* (init.go:53, timers.go:26, timers.go:76).
THEOREM TimersSilenceNoticed == Spec => SilenceNoticed
<1>1. TimersInv /\ [Next]_vars =>
         [ReportSilence => \/ initiator \notin {"idle", "completed"}
                           \/ initiator = "idle" /\ handshakeBegin
                           \/ broken \/ lapsed]_vars
  <2>  SUFFICES ASSUME TimersInv, ReportSilence, ~broken, ~lapsed,
                       initiator \in {"idle", "completed"}
                PROVE  initiator = "idle" /\ handshakeBegin
    OBVIOUS
  <2>1. interval > IntervalTime
    BY DEF ReportSilence, SilenceDue
  <2>2. initiator = "idle"
    BY <2>1, Durations DEF TimersInv, TypeOK, Answered
  <2>3. handshakeBegin \/ quiet <= KeepaliveInterval
    BY <2>2, Durations DEF TimersInv, TypeOK, Watched, Timer, Stopped
  <2>4. handshakeBegin
    BY <2>1, <2>2, <2>3, Durations DEF TimersInv, TypeOK, SilenceKnown
  <2>  QED
    BY <2>2, <2>4
<1>  QED
  BY <1>1, TimersInvHolds, PTL DEF Spec, SilenceNoticed

=============================================================================

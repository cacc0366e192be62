------------------------------ MODULE Initiator ------------------------------
(***************************************************************************)
(* timers.go: when a handshake starts, is tried again and ends.            *)
(* RoutineHandshakeInitiator exchanges signals (channels of capacity 1)    *)
(* with RoutineNonce, which waits for a key pair, RoutineHandshake, which  *)
(* works on a response of the server, and RoutineReadFromTUN.              *)
(*                                                                         *)
(* Time is not counted: a running timer may fire at any moment.  The       *)
(* Noise state is cut down from module Session to whether the handshake    *)
(* can still be answered; all pairs are ours, since the server's           *)
(* initiations are refused by their size (Session!CurrentIsNewest).  The   *)
(* nonce queue (module OutboundPipeline) is empty or not.                  *)
(***************************************************************************)
EXTENDS Naturals

CONSTANTS
    RandomFails,  \* may CreateMessageInitiation return an error
    Punctual      \* do goroutines run soon: then nothing that takes minutes
                  \* happens in the seconds between a response and the
                  \* initiator's rest

ASSUME ChoiceAssumption == RandomFails \in BOOLEAN /\ Punctual \in BOOLEAN

VARIABLES
    initiator,     \* RoutineHandshakeInitiator: its position
    deadline, timeout,   \* its two local timers
    handshakeBegin, handshakeCompleted, handshakeReset,
    newKeyPair, flushNonceQueue,  \* peer.signal
    zeroAllKeys,   \* peer.timer.zeroAllKeys: runs, a tick is in its channel
    state,         \* Handshake.state
    transcript,    \* of the last initiation: unknown, created, or sent
    response,      \* RoutineHandshake: how far it is with a response
    current,       \* keyPairs.current: none, usable or expired
    nonce,         \* RoutineNonce: its position
    queued,        \* packets are in the nonce queue
    spaced,        \* history: RekeyTimeout has passed since the last initiation
    lapsed         \* history: a handshake ended without a pair to send under

signals == <<handshakeBegin, handshakeCompleted, handshakeReset, newKeyPair, flushNonceQueue>>
noise == <<state, transcript>>
packets == <<nonce, queued>>
timers == <<deadline, timeout>>
history == <<spaced, lapsed>>
vars == <<initiator, timers, signals, zeroAllKeys, noise, response, current, packets, history>>

-----------------------------------------------------------------------------
(* RoutineHandshakeInitiator *)

Begin ==
    /\ initiator = "wait"
    /\ handshakeBegin
    /\ handshakeBegin' = FALSE
    /\ initiator' = "begin"
    /\ UNCHANGED <<timers, handshakeCompleted, handshakeReset, newKeyPair, flushNonceQueue,
                   zeroAllKeys, noise, response, current, packets, history>>

BeginHandshakes ==
    /\ initiator = "begin"
    /\ handshakeReset' = FALSE
    /\ deadline' = "running"
    /\ initiator' = "attempt"
    /\ UNCHANGED <<timeout, handshakeBegin, handshakeCompleted, newKeyPair, flushNonceQueue,
                   zeroAllKeys, noise, response, current, packets, history>>

\* At the deadline the waiting packets are flushed; the break only leaves the
\* select, so the attempts go on.
CheckDeadline ==
    /\ initiator = "attempt"
    /\ IF deadline = "fired" THEN flushNonceQueue' = TRUE /\ deadline' = "stopped"
                             ELSE UNCHANGED <<flushNonceQueue, deadline>>
    /\ handshakeCompleted' = FALSE
    /\ initiator' = "create"
    /\ UNCHANGED <<timeout, handshakeBegin, handshakeReset, newKeyPair, zeroAllKeys, noise,
                   response, current, packets, history>>

CreateInitiation ==
    /\ initiator = "create"
    /\ \/ /\ state' = "InitiationCreated"
          /\ transcript' = "created"
          /\ initiator' = "send"
          /\ UNCHANGED <<deadline, lapsed>>
       \/ /\ RandomFails
          /\ transcript' = "unknown"
          /\ initiator' = "end"
          /\ deadline' = "stopped"
          /\ lapsed' = TRUE
          /\ UNCHANGED state
    /\ UNCHANGED <<timeout, signals, zeroAllKeys, response, current, packets, spaced>>

SendInitiation ==
    /\ initiator = "send"
    /\ transcript' = IF transcript = "created" THEN "sent" ELSE transcript
    /\ timeout' = "running"
    /\ initiator' = "select"
    /\ spaced' = FALSE
    /\ UNCHANGED <<deadline, signals, zeroAllKeys, state, response, current, packets, lapsed>>

\* SendBuffer fails: the connection is replaced and the loop continues.
SendInitiationFails ==
    /\ initiator = "send"
    /\ initiator' = "attempt"
    /\ UNCHANGED <<timers, signals, zeroAllKeys, noise, response, current, packets, history>>

\* Faulty: the timeout is stopped before its channel is read.
CompletedStopping ==
    /\ initiator = "select"
    /\ handshakeCompleted
    /\ handshakeCompleted' = FALSE
    /\ initiator' = "drainCompleted"
    /\ deadline' = "stopped"
    /\ timeout' = "stopped"
    /\ UNCHANGED <<handshakeBegin, handshakeReset, newKeyPair, flushNonceQueue, zeroAllKeys,
                   noise, response, current, packets, history>>

\* From here on nobody looks at the deadline any more.
Completed ==
    /\ initiator = "select"
    /\ handshakeCompleted
    /\ handshakeCompleted' = FALSE
    /\ initiator' = "drainCompleted"
    /\ deadline' = "stopped"
    /\ UNCHANGED <<timeout, handshakeBegin, handshakeReset, newKeyPair, flushNonceQueue,
                   zeroAllKeys, noise, response, current, packets, history>>

\* Faulty: the negotiation starts over at once.
ResetAtOnce ==
    /\ initiator = "select"
    /\ handshakeReset
    /\ handshakeReset' = FALSE
    /\ initiator' = "begin"
    /\ deadline' = "stopped"
    /\ UNCHANGED <<timeout, handshakeBegin, handshakeCompleted, newKeyPair, flushNonceQueue,
                   zeroAllKeys, noise, response, current, packets, history>>

ResetNegotiation ==
    /\ initiator = "select"
    /\ handshakeReset
    /\ handshakeReset' = FALSE
    /\ initiator' = "drainReset"
    /\ deadline' = "stopped"
    /\ UNCHANGED <<timeout, handshakeBegin, handshakeCompleted, newKeyPair, flushNonceQueue,
                   zeroAllKeys, noise, response, current, packets, history>>

\* The timeout's tick: the next attempt, the end, or a new deadline.
TakeTimeout ==
    /\ timeout = "fired"
    /\ timeout' = "stopped"
    /\ \/ initiator = "select" /\ initiator' = "attempt"
       \/ initiator = "drainCompleted" /\ initiator' = "end"
       \/ initiator = "drainReset" /\ initiator' = "begin"
    /\ UNCHANGED <<deadline, signals, zeroAllKeys, noise, response, current, packets, history>>

\* "clear signal set in the meantime"
ClearBegin ==
    /\ initiator = "end"
    /\ handshakeBegin' = FALSE
    /\ initiator' = "wait"
    /\ UNCHANGED <<timers, handshakeCompleted, handshakeReset, newKeyPair, flushNonceQueue,
                   zeroAllKeys, noise, response, current, packets, history>>

DeadlineFires ==
    /\ deadline = "running"
    /\ deadline' = "fired"
    /\ UNCHANGED <<initiator, timeout, signals, zeroAllKeys, noise, response, current, packets,
                   history>>

TimeoutFires ==
    /\ timeout = "running"
    /\ timeout' = "fired"
    /\ spaced' = TRUE
    /\ UNCHANGED <<initiator, deadline, signals, zeroAllKeys, noise, response, current, packets,
                   lapsed>>

-----------------------------------------------------------------------------
(* RoutineHandshake: a response of the server, step by step *)

\* SendKeepAlive, the keep-alive timers' and RoutineHandshake's: if nothing is
\* queued, a keep-alive is.
SendKeepAlive == queued' = TRUE

\* The response of the server arrives in time and authenticates.
Authenticate ==
    /\ response = "idle"
    /\ state = "InitiationCreated"
    /\ transcript = "sent"
    /\ response' = "authenticated"
    /\ UNCHANGED <<initiator, timers, signals, zeroAllKeys, noise, current, packets, history>>

\* The initiation or its response is lost (external).
Lost ==
    /\ transcript = "sent"
    /\ transcript' = "unknown"
    /\ UNCHANGED <<initiator, timers, signals, zeroAllKeys, state, response, current, packets,
                   history>>

\* Faulty: the state of the other role is stored.
ConsumeAsCreated ==
    /\ response = "authenticated"
    /\ state' = "ResponseCreated"
    /\ transcript' = "unknown"
    /\ response' = "consumed"
    /\ UNCHANGED <<initiator, timers, signals, zeroAllKeys, current, packets, history>>

Consume ==
    /\ response = "authenticated"
    /\ state' = "ResponseConsumed"
    /\ transcript' = "unknown"
    /\ response' = "consumed"
    /\ UNCHANGED <<initiator, timers, signals, zeroAllKeys, current, packets, history>>

\* TimerEphemeralKeyCreated, whose Reset does not drain the channel, and
\* TimerHandshakeComplete, before the key pair is derived.
Complete ==
    /\ response = "consumed"
    /\ zeroAllKeys' = [zeroAllKeys EXCEPT !.running = TRUE]
    /\ handshakeCompleted' = TRUE
    /\ response' = "completed"
    /\ UNCHANGED <<initiator, timers, handshakeBegin, handshakeReset, newKeyPair,
                   flushNonceQueue, noise, current, packets, history>>

\* NewKeyPair, which returns nil if the next attempt replaced the handshake,
\* and SendKeepAlive.
DeriveKeyPair ==
    /\ response = "completed"
    /\ IF state = "ResponseConsumed"
       THEN /\ state' = "Zeroed"
            /\ transcript' = "unknown"
            /\ current' = "usable"
            /\ newKeyPair' = TRUE
            /\ lapsed' = FALSE
       ELSE /\ lapsed' = TRUE
            /\ UNCHANGED <<state, transcript, current, newKeyPair>>
    /\ SendKeepAlive
    /\ response' = "idle"
    /\ UNCHANGED <<initiator, timers, handshakeBegin, handshakeCompleted, handshakeReset,
                   flushNonceQueue, zeroAllKeys, nonce, spaced>>

-----------------------------------------------------------------------------
(* RoutineTimerHandler, and what the age of the key pair brings about *)

\* RejectAfterTime is 180 s and zeroAllKeys takes three times that long; from
\* the response to the initiator's rest it is RekeyTimeout, 5 s.
MinutesPass ==
    Punctual => /\ response = "idle" /\ ~handshakeCompleted
                /\ initiator \notin {"drainCompleted", "end"}

ZeroAllKeysFires ==
    /\ zeroAllKeys.running
    /\ MinutesPass
    /\ zeroAllKeys' = [running |-> FALSE, tick |-> TRUE]
    /\ UNCHANGED <<initiator, timers, signals, noise, response, current, packets, history>>

\* The pair is gone while a handshake is under way or has just ended.
Lapse == lapsed' = (lapsed \/ initiator # "wait")

ZeroAllKeysTick ==
    /\ zeroAllKeys.tick
    /\ zeroAllKeys' = [zeroAllKeys EXCEPT !.tick = FALSE]
    /\ current' = "none"
    /\ transcript' = "unknown"
    /\ Lapse
    /\ UNCHANGED <<initiator, timers, signals, state, response, packets, spaced>>

\* Keep-alive timers: SendKeepAlive.
KeepAliveTick ==
    /\ SendKeepAlive
    /\ UNCHANGED <<initiator, timers, signals, zeroAllKeys, noise, response, current, nonce,
                   history>>

\* The pair in use is past RejectAfterTime or RejectAfterMessages.
KeyPairExpires ==
    /\ current = "usable"
    /\ MinutesPass
    /\ current' = "expired"
    /\ Lapse
    /\ UNCHANGED <<initiator, timers, signals, zeroAllKeys, noise, response, packets, spaced>>

\* KeepKeyFreshSending, KeepKeyFreshReceiving and the newHandshake timer ask
\* for a handshake, at any moment.
Rekey ==
    /\ handshakeBegin' = TRUE
    /\ UNCHANGED <<initiator, timers, handshakeCompleted, handshakeReset, newKeyPair,
                   flushNonceQueue, zeroAllKeys, noise, response, current, packets, history>>

-----------------------------------------------------------------------------
(* RoutineReadFromTUN, RoutineNonce *)

TunPacket ==
    /\ handshakeReset' = TRUE
    /\ queued' = TRUE
    /\ UNCHANGED <<initiator, timers, handshakeBegin, handshakeCompleted, newKeyPair,
                   flushNonceQueue, zeroAllKeys, noise, response, current, nonce, history>>

\* There may or may not be more in the queue.
TakeNonce ==
    /\ nonce = "idle"
    /\ queued
    /\ nonce' = "select"
    /\ queued' \in BOOLEAN
    /\ UNCHANGED <<initiator, timers, signals, zeroAllKeys, noise, response, current, history>>

AssignNonce ==
    /\ nonce = "select"
    /\ current = "usable"
    /\ nonce' = "idle"
    /\ UNCHANGED <<initiator, timers, signals, zeroAllKeys, noise, response, current, queued,
                   history>>

\* Faulty: the handshake is only asked for when there is no pair at all.
AwaitWithoutBegin ==
    /\ nonce = "select"
    /\ current # "usable"
    /\ handshakeBegin' = (handshakeBegin \/ current = "none")
    /\ nonce' = "await"
    /\ UNCHANGED <<initiator, timers, handshakeCompleted, handshakeReset, newKeyPair,
                   flushNonceQueue, zeroAllKeys, noise, response, current, queued, history>>

AwaitKeyPair ==
    /\ nonce = "select"
    /\ current # "usable"
    /\ handshakeBegin' = TRUE
    /\ nonce' = "await"
    /\ UNCHANGED <<initiator, timers, handshakeCompleted, handshakeReset, newKeyPair,
                   flushNonceQueue, zeroAllKeys, noise, response, current, queued, history>>

NewKeyPairSignalled ==
    /\ nonce = "await"
    /\ newKeyPair
    /\ newKeyPair' = FALSE
    /\ nonce' = "select"
    /\ UNCHANGED <<initiator, timers, handshakeBegin, handshakeCompleted, handshakeReset,
                   flushNonceQueue, zeroAllKeys, noise, response, current, queued, history>>

FlushSignalled ==
    /\ nonce = "await"
    /\ flushNonceQueue
    /\ flushNonceQueue' = FALSE
    /\ queued' = FALSE
    /\ nonce' = "idle"
    /\ UNCHANGED <<initiator, timers, handshakeBegin, handshakeCompleted, handshakeReset,
                   newKeyPair, zeroAllKeys, noise, response, current, history>>

-----------------------------------------------------------------------------
\* NewPeer; StartConnection has or has not yet sent handshakeReset.
Init ==
    /\ initiator = "wait" /\ deadline = "stopped" /\ timeout = "stopped"
    /\ handshakeBegin = FALSE /\ handshakeCompleted = FALSE /\ handshakeReset \in BOOLEAN
    /\ newKeyPair = FALSE /\ flushNonceQueue = FALSE
    /\ zeroAllKeys = [running |-> FALSE, tick |-> FALSE]
    /\ state = "Zeroed" /\ transcript = "unknown" /\ response = "idle" /\ current = "none"
    /\ nonce = "idle" /\ queued = FALSE
    /\ spaced = TRUE /\ lapsed = FALSE

RoutineHandshakeInitiator ==
    \/ Begin \/ BeginHandshakes \/ CheckDeadline \/ CreateInitiation \/ SendInitiation
    \/ SendInitiationFails \/ Completed \/ ResetNegotiation \/ TakeTimeout \/ ClearBegin
RoutineHandshake == Consume \/ Complete \/ DeriveKeyPair
RoutineNonce ==
    TakeNonce \/ AssignNonce \/ AwaitKeyPair \/ NewKeyPairSignalled \/ FlushSignalled
Environment == Lost \/ KeepAliveTick \/ KeyPairExpires \/ Rekey \/ TunPacket

Next ==
    \/ RoutineHandshakeInitiator \/ DeadlineFires \/ TimeoutFires
    \/ Authenticate \/ RoutineHandshake \/ ZeroAllKeysFires \/ ZeroAllKeysTick
    \/ RoutineNonce \/ Environment

Spec == Init /\ [][Next]_vars

\* Goroutines that can run do run, and running timers fire.
FairSpec ==
    /\ Spec
    /\ WF_vars(RoutineHandshakeInitiator)
    /\ WF_vars(DeadlineFires) /\ WF_vars(TimeoutFires)
    /\ WF_vars(ZeroAllKeysFires) /\ WF_vars(ZeroAllKeysTick)
    /\ WF_vars(RoutineHandshake)
    /\ WF_vars(RoutineNonce)

\* Moreover, of infinitely many initiations some are sent, and of infinitely
\* many that were sent the server answers some in time.
AnsweredSpec == FairSpec /\ SF_vars(SendInitiation) /\ SF_vars(Authenticate)

-----------------------------------------------------------------------------
(* Properties *)

\* Every variable has its type.
TypeOK ==
    /\ initiator \in {"wait", "begin", "attempt", "create", "send", "select",
                      "drainCompleted", "drainReset", "end"}
    /\ deadline \in {"stopped", "running", "fired"}
    /\ timeout \in {"stopped", "running", "fired"}
    /\ handshakeBegin \in BOOLEAN /\ handshakeCompleted \in BOOLEAN
    /\ handshakeReset \in BOOLEAN /\ newKeyPair \in BOOLEAN /\ flushNonceQueue \in BOOLEAN
    /\ zeroAllKeys \in [running : BOOLEAN, tick : BOOLEAN]
    /\ state \in {"Zeroed", "InitiationCreated", "ResponseConsumed"}
    /\ transcript \in {"unknown", "created", "sent"}
    /\ response \in {"idle", "authenticated", "consumed", "completed"}
    /\ current \in {"none", "usable", "expired"}
    /\ nonce \in {"idle", "select", "await"} /\ queued \in BOOLEAN
    /\ spaced \in BOOLEAN /\ lapsed \in BOOLEAN

\* Two initiations reach the server at least RekeyTimeout apart, through
\* retries, completions, resets and creations that failed.
InitiationsSpaced == initiator = "send" => spaced

\* RoutineNonce is not left waiting with nobody to wake it: a handshake is
\* asked for or under way, or a signal is on its way; unless the handshake
\* ended without a pair to send under (the initiation could not be created,
\* NewKeyPair returned nil, or the pair was lost before the initiator rested).
AwaitWatched ==
    nonce = "await" =>
        \/ handshakeBegin \/ newKeyPair \/ flushNonceQueue
        \/ initiator # "wait" \/ response = "completed"
        \/ lapsed

\* What makes AwaitWatched inductive: from the moment a completion counts until
\* the initiator rests there is a usable pair, or there is an excuse; and a
\* usable pair that RoutineNonce does not know of has been signalled.
Counts == handshakeCompleted /\ initiator \in {"create", "send", "select"}
CompletionGood ==
    Counts \/ initiator \in {"drainCompleted", "end"} =>
        current = "usable" \/ response = "completed" \/ lapsed
PairSignalled == nonce = "await" /\ current = "usable" => newKeyPair

\* The same for InitiationsSpaced: RekeyTimeout is not over only while the
\* timeout runs and the initiator waits for it.
TimeoutRuns ==
    ~spaced => timeout = "running" /\ initiator \in {"select", "drainCompleted", "drainReset"}

Inv == AwaitWatched /\ CompletionGood /\ PairSignalled /\ TimeoutRuns

\* The initiator never hangs on a channel: it comes back to rest or to the
\* next attempt again and again.
InitiatorProceeds == []<>(initiator \in {"wait", "create"})

(* What the code's comments say, and does not hold *)

\* send.go:205 "Queues packets when there is no handshake. Then assigns nonces
\* to packets": a packet does not wait for ever, if the server answers again
\* and again (AnsweredSpec).
AwaitServed == nonce = "await" ~> nonce # "await"

=============================================================================

--------------------------- MODULE InitiatorProofs ---------------------------
(***************************************************************************)
(* TypeOK, AwaitWatched and InitiationsSpaced of Initiator.  AwaitWatched  *)
(* is not inductive: when the initiator clears handshakeBegin and rests,   *)
(* it has to be known that the completion it acted on brought a pair       *)
(* (CompletionGood) and that RoutineNonce has been told of that pair       *)
(* (PairSignalled).  InitiationsSpaced follows from TimeoutRuns: every way *)
(* out of the select goes through the timeout's channel.  TypeOK is        *)
(* inductive by itself.                                                    *)
(***************************************************************************)
EXTENDS Initiator, TLAPS

USE DEF vars, signals, noise, packets, timers, history

\* The steps of RoutineHandshakeInitiator.  TakeTimeout ends the spacing, ClearBegin is where a
\* request may be lost.
LEMMA InitiatorInv ==
    ASSUME Inv, RoutineHandshakeInitiator
    PROVE  Inv'
<1>1. CASE Begin
  BY <1>1 DEF Begin,
     Inv, AwaitWatched, CompletionGood, Counts, PairSignalled, TimeoutRuns
<1>2. CASE BeginHandshakes
  BY <1>2 DEF BeginHandshakes,
     Inv, AwaitWatched, CompletionGood, Counts, PairSignalled, TimeoutRuns
<1>3. CASE CheckDeadline
  BY <1>3 DEF CheckDeadline,
     Inv, AwaitWatched, CompletionGood, Counts, PairSignalled, TimeoutRuns
<1>4. CASE CreateInitiation
  BY <1>4 DEF CreateInitiation,
     Inv, AwaitWatched, CompletionGood, Counts, PairSignalled, TimeoutRuns
<1>5. CASE SendInitiation
  BY <1>5 DEF SendInitiation,
     Inv, AwaitWatched, CompletionGood, Counts, PairSignalled, TimeoutRuns
<1>6. CASE SendInitiationFails
  BY <1>6 DEF SendInitiationFails,
     Inv, AwaitWatched, CompletionGood, Counts, PairSignalled, TimeoutRuns
<1>7. CASE Completed
  BY <1>7 DEF Completed,
     Inv, AwaitWatched, CompletionGood, Counts, PairSignalled, TimeoutRuns
<1>8. CASE ResetNegotiation
  BY <1>8 DEF ResetNegotiation,
     Inv, AwaitWatched, CompletionGood, Counts, PairSignalled, TimeoutRuns
<1>9. CASE TakeTimeout
  BY <1>9 DEF TakeTimeout,
     Inv, AwaitWatched, CompletionGood, Counts, PairSignalled, TimeoutRuns
<1>10. CASE ClearBegin
  BY <1>10 DEF ClearBegin,
     Inv, AwaitWatched, CompletionGood, Counts, PairSignalled, TimeoutRuns
<1> QED BY <1>1, <1>2, <1>3, <1>4, <1>5, <1>6, <1>7, <1>8, <1>9, <1>10 DEF RoutineHandshakeInitiator

\* The steps of RoutineHandshake: completed is signalled first and the pair derived afterwards.
LEMMA HandshakeInv ==
    ASSUME Inv, RoutineHandshake
    PROVE  Inv'
<1>1. CASE Consume
  BY <1>1 DEF Consume,
     Inv, AwaitWatched, CompletionGood, Counts, PairSignalled, TimeoutRuns
<1>2. CASE Complete
  BY <1>2 DEF Complete,
     Inv, AwaitWatched, CompletionGood, Counts, PairSignalled, TimeoutRuns
<1>3. CASE DeriveKeyPair
  BY <1>3 DEF DeriveKeyPair, SendKeepAlive,
     Inv, AwaitWatched, CompletionGood, Counts, PairSignalled, TimeoutRuns
<1> QED BY <1>1, <1>2, <1>3 DEF RoutineHandshake

\* The steps of RoutineNonce.
LEMMA NonceInv ==
    ASSUME Inv, RoutineNonce
    PROVE  Inv'
<1>1. CASE TakeNonce
  BY <1>1 DEF TakeNonce,
     Inv, AwaitWatched, CompletionGood, Counts, PairSignalled, TimeoutRuns
<1>2. CASE AssignNonce
  BY <1>2 DEF AssignNonce,
     Inv, AwaitWatched, CompletionGood, Counts, PairSignalled, TimeoutRuns
<1>3. CASE AwaitKeyPair
  BY <1>3 DEF AwaitKeyPair,
     Inv, AwaitWatched, CompletionGood, Counts, PairSignalled, TimeoutRuns
<1>4. CASE NewKeyPairSignalled
  BY <1>4 DEF NewKeyPairSignalled,
     Inv, AwaitWatched, CompletionGood, Counts, PairSignalled, TimeoutRuns
<1>5. CASE FlushSignalled
  BY <1>5 DEF FlushSignalled,
     Inv, AwaitWatched, CompletionGood, Counts, PairSignalled, TimeoutRuns
<1> QED BY <1>1, <1>2, <1>3, <1>4, <1>5 DEF RoutineNonce

\* Lost messages, keep-alives, TUN packets and the age of the pair.
LEMMA EnvironmentInv ==
    ASSUME Inv, Environment
    PROVE  Inv'
<1>1. CASE Lost
  BY <1>1 DEF Lost,
     Inv, AwaitWatched, CompletionGood, Counts, PairSignalled, TimeoutRuns
<1>2. CASE KeepAliveTick
  BY <1>2 DEF KeepAliveTick, SendKeepAlive,
     Inv, AwaitWatched, CompletionGood, Counts, PairSignalled, TimeoutRuns
<1>3. CASE KeyPairExpires
  BY <1>3 DEF KeyPairExpires, Lapse,
     Inv, AwaitWatched, CompletionGood, Counts, PairSignalled, TimeoutRuns
<1>4. CASE Rekey
  BY <1>4 DEF Rekey,
     Inv, AwaitWatched, CompletionGood, Counts, PairSignalled, TimeoutRuns
<1>5. CASE TunPacket
  BY <1>5 DEF TunPacket,
     Inv, AwaitWatched, CompletionGood, Counts, PairSignalled, TimeoutRuns
<1> QED BY <1>1, <1>2, <1>3, <1>4, <1>5 DEF Environment

\* Timers that fire, a response that authenticates, and the zeroAllKeys case.
LEMMA TimerInv ==
    ASSUME Inv, DeadlineFires \/ TimeoutFires \/ Authenticate \/ ZeroAllKeysFires \/ ZeroAllKeysTick
    PROVE  Inv'
<1>1. CASE DeadlineFires
  BY <1>1 DEF DeadlineFires,
     Inv, AwaitWatched, CompletionGood, Counts, PairSignalled, TimeoutRuns
<1>2. CASE TimeoutFires
  BY <1>2 DEF TimeoutFires,
     Inv, AwaitWatched, CompletionGood, Counts, PairSignalled, TimeoutRuns
<1>3. CASE Authenticate
  BY <1>3 DEF Authenticate,
     Inv, AwaitWatched, CompletionGood, Counts, PairSignalled, TimeoutRuns
<1>4. CASE ZeroAllKeysFires
  BY <1>4 DEF ZeroAllKeysFires,
     Inv, AwaitWatched, CompletionGood, Counts, PairSignalled, TimeoutRuns
<1>5. CASE ZeroAllKeysTick
  BY <1>5 DEF ZeroAllKeysTick, Lapse,
     Inv, AwaitWatched, CompletionGood, Counts, PairSignalled, TimeoutRuns
<1> QED BY <1>1, <1>2, <1>3, <1>4, <1>5

\* The inductive invariant of the signals between RoutineHandshakeInitiator, RoutineHandshake and
\* RoutineNonce holds at all times.
THEOREM InitiatorInvariant == Spec => []Inv
<1>1. Init => Inv
  BY DEF Init, Inv, AwaitWatched, CompletionGood, Counts, PairSignalled, TimeoutRuns
<1>2. Inv /\ [Next]_vars => Inv'
  <2> SUFFICES ASSUME Inv, [Next]_vars PROVE Inv'
    OBVIOUS
  <2>1. CASE UNCHANGED vars
    BY <2>1 DEF Inv, AwaitWatched, CompletionGood, Counts, PairSignalled, TimeoutRuns
  <2> QED BY <2>1, InitiatorInv, HandshakeInv, NonceInv, EnvironmentInv, TimerInv DEF Next
<1> QED BY <1>1, <1>2, PTL DEF Spec

\* RoutineNonce is never left waiting with nobody to wake it, unless a handshake ended without a
\* pair to send under: whatever the order of signals, timers, losses and retries.
THEOREM InitiatorAwaitWatched == Spec => []AwaitWatched
<1>1. Inv => AwaitWatched
  BY DEF Inv
<1> QED BY <1>1, InitiatorInvariant, PTL

\* RoutineHandshakeInitiator sends two initiations at least RekeyTimeout apart.
THEOREM InitiatorSpaced == Spec => []InitiationsSpaced
<1>1. Inv => InitiationsSpaced
  BY DEF Inv, TimeoutRuns, InitiationsSpaced
<1> QED BY <1>1, InitiatorInvariant, PTL

-----------------------------------------------------------------------------
\* TypeOK in two parts: the signals and other switches, and the positions.
Switches ==
    /\ handshakeBegin \in BOOLEAN /\ handshakeCompleted \in BOOLEAN
    /\ handshakeReset \in BOOLEAN /\ newKeyPair \in BOOLEAN /\ flushNonceQueue \in BOOLEAN
    /\ queued \in BOOLEAN /\ spaced \in BOOLEAN /\ lapsed \in BOOLEAN

Positions ==
    /\ initiator \in {"wait", "begin", "attempt", "create", "send", "select",
                      "drainCompleted", "drainReset", "end"}
    /\ deadline \in {"stopped", "running", "fired"}
    /\ timeout \in {"stopped", "running", "fired"}
    /\ zeroAllKeys \in [running : BOOLEAN, tick : BOOLEAN]
    /\ state \in {"Zeroed", "InitiationCreated", "ResponseConsumed"}
    /\ transcript \in {"unknown", "created", "sent"}
    /\ response \in {"idle", "authenticated", "consumed", "completed"}
    /\ current \in {"none", "usable", "expired"}
    /\ nonce \in {"idle", "select", "await"}

\* The steps of RoutineHandshakeInitiator keep every variable in its type.
LEMMA InitiatorType ==
    ASSUME TypeOK, RoutineHandshakeInitiator
    PROVE  TypeOK'
<1>1. CASE Begin
  <2>1. Switches'
    BY <1>1 DEF Begin, TypeOK, Switches
  <2>2. Positions'
    BY <1>1 DEF Begin, TypeOK, Positions
  <2> QED BY <2>1, <2>2 DEF TypeOK, Switches, Positions
<1>2. CASE BeginHandshakes
  <2>1. Switches'
    BY <1>2 DEF BeginHandshakes, TypeOK, Switches
  <2>2. Positions'
    BY <1>2 DEF BeginHandshakes, TypeOK, Positions
  <2> QED BY <2>1, <2>2 DEF TypeOK, Switches, Positions
<1>3. CASE CheckDeadline
  <2>1. Switches'
    BY <1>3 DEF CheckDeadline, TypeOK, Switches
  <2>2. Positions'
    BY <1>3 DEF CheckDeadline, TypeOK, Positions
  <2> QED BY <2>1, <2>2 DEF TypeOK, Switches, Positions
<1>4. CASE CreateInitiation
  <2>1. Switches'
    BY <1>4 DEF CreateInitiation, TypeOK, Switches
  <2>2. Positions'
    BY <1>4 DEF CreateInitiation, TypeOK, Positions
  <2> QED BY <2>1, <2>2 DEF TypeOK, Switches, Positions
<1>5. CASE SendInitiation
  <2>1. Switches'
    BY <1>5 DEF SendInitiation, TypeOK, Switches
  <2>2. Positions'
    BY <1>5 DEF SendInitiation, TypeOK, Positions
  <2> QED BY <2>1, <2>2 DEF TypeOK, Switches, Positions
<1>6. CASE SendInitiationFails
  BY <1>6 DEF SendInitiationFails, TypeOK
<1>7. CASE Completed
  <2>1. Switches'
    BY <1>7 DEF Completed, TypeOK, Switches
  <2>2. Positions'
    BY <1>7 DEF Completed, TypeOK, Positions
  <2> QED BY <2>1, <2>2 DEF TypeOK, Switches, Positions
<1>8. CASE ResetNegotiation
  <2>1. Switches'
    BY <1>8 DEF ResetNegotiation, TypeOK, Switches
  <2>2. Positions'
    BY <1>8 DEF ResetNegotiation, TypeOK, Positions
  <2> QED BY <2>1, <2>2 DEF TypeOK, Switches, Positions
<1>9. CASE TakeTimeout
  BY <1>9 DEF TakeTimeout, TypeOK
<1>10. CASE ClearBegin
  <2>1. Switches'
    BY <1>10 DEF ClearBegin, TypeOK, Switches
  <2>2. Positions'
    BY <1>10 DEF ClearBegin, TypeOK, Positions
  <2> QED BY <2>1, <2>2 DEF TypeOK, Switches, Positions
<1> QED BY <1>1, <1>2, <1>3, <1>4, <1>5, <1>6, <1>7, <1>8, <1>9, <1>10 DEF RoutineHandshakeInitiator

\* So do those of RoutineHandshake.
LEMMA HandshakeType ==
    ASSUME TypeOK, RoutineHandshake
    PROVE  TypeOK'
<1>1. CASE Consume
  BY <1>1 DEF Consume, TypeOK
<1>2. CASE Complete
  <2>1. Switches'
    BY <1>2 DEF Complete, TypeOK, Switches
  <2>2. zeroAllKeys' \in [running : BOOLEAN, tick : BOOLEAN]
    BY <1>2 DEF Complete, TypeOK
  <2>3. Positions'
    BY <1>2, <2>2 DEF Complete, TypeOK, Positions
  <2> QED BY <2>1, <2>3 DEF TypeOK, Switches, Positions
<1>3. CASE DeriveKeyPair
  <2>1. Switches'
    BY <1>3 DEF DeriveKeyPair, SendKeepAlive, TypeOK, Switches
  <2>2. Positions'
    BY <1>3 DEF DeriveKeyPair, SendKeepAlive, TypeOK, Positions
  <2> QED BY <2>1, <2>2 DEF TypeOK, Switches, Positions
<1> QED BY <1>1, <1>2, <1>3 DEF RoutineHandshake

\* So do those of RoutineNonce.
LEMMA NonceType ==
    ASSUME TypeOK, RoutineNonce
    PROVE  TypeOK'
<1>1. CASE TakeNonce
  BY <1>1 DEF TakeNonce, TypeOK
<1>2. CASE AssignNonce
  BY <1>2 DEF AssignNonce, TypeOK
<1>3. CASE AwaitKeyPair
  BY <1>3 DEF AwaitKeyPair, TypeOK
<1>4. CASE NewKeyPairSignalled
  <2>1. Switches'
    BY <1>4 DEF NewKeyPairSignalled, TypeOK, Switches
  <2>2. Positions'
    BY <1>4 DEF NewKeyPairSignalled, TypeOK, Positions
  <2> QED BY <2>1, <2>2 DEF TypeOK, Switches, Positions
<1>5. CASE FlushSignalled
  <2>1. Switches'
    BY <1>5 DEF FlushSignalled, TypeOK, Switches
  <2>2. Positions'
    BY <1>5 DEF FlushSignalled, TypeOK, Positions
  <2> QED BY <2>1, <2>2 DEF TypeOK, Switches, Positions
<1> QED BY <1>1, <1>2, <1>3, <1>4, <1>5 DEF RoutineNonce

\* So do losses, keep-alives, TUN packets and the age of the pair.
LEMMA EnvironmentType ==
    ASSUME TypeOK, Environment
    PROVE  TypeOK'
<1>1. CASE Lost
  BY <1>1 DEF Lost, TypeOK
<1>2. CASE KeepAliveTick
  BY <1>2 DEF KeepAliveTick, SendKeepAlive, TypeOK
<1>3. CASE KeyPairExpires
  BY <1>3 DEF KeyPairExpires, Lapse, TypeOK
<1>4. CASE Rekey
  BY <1>4 DEF Rekey, TypeOK
<1>5. CASE TunPacket
  BY <1>5 DEF TunPacket, TypeOK
<1> QED BY <1>1, <1>2, <1>3, <1>4, <1>5 DEF Environment

\* So do the timers, an answer of the server and the zeroAllKeys case.
LEMMA TimerType ==
    ASSUME TypeOK, DeadlineFires \/ TimeoutFires \/ Authenticate \/ ZeroAllKeysFires \/ ZeroAllKeysTick
    PROVE  TypeOK'
<1>1. CASE DeadlineFires
  BY <1>1 DEF DeadlineFires, TypeOK
<1>2. CASE TimeoutFires
  BY <1>2 DEF TimeoutFires, TypeOK
<1>3. CASE Authenticate
  BY <1>3 DEF Authenticate, TypeOK
<1>4. CASE ZeroAllKeysFires
  BY <1>4 DEF ZeroAllKeysFires, TypeOK
<1>5. CASE ZeroAllKeysTick
  <2>1. Switches'
    BY <1>5 DEF ZeroAllKeysTick, Lapse, TypeOK, Switches
  <2>2. zeroAllKeys' \in [running : BOOLEAN, tick : BOOLEAN]
    BY <1>5 DEF ZeroAllKeysTick, TypeOK
  <2>3. Positions'
    BY <1>5, <2>2 DEF ZeroAllKeysTick, TypeOK, Positions
  <2> QED BY <2>1, <2>3 DEF TypeOK, Switches, Positions
<1> QED BY <1>1, <1>2, <1>3, <1>4, <1>5

\* Every variable keeps its type: in particular RoutineHandshakeInitiator is always at one of its
\* channel operations, whatever the order of timers, signals and losses (timers.go).
THEOREM InitiatorTypeOK == Spec => []TypeOK
<1>1. Init => TypeOK
  <2>1. Init => Switches
    BY DEF Init, Switches
  <2>2. Init => Positions
    BY DEF Init, Positions
  <2> QED BY <2>1, <2>2 DEF TypeOK, Switches, Positions
<1>2. TypeOK /\ [Next]_vars => TypeOK'
  <2> SUFFICES ASSUME TypeOK, [Next]_vars PROVE TypeOK'
    OBVIOUS
  <2>1. CASE UNCHANGED vars
    <3>1. Switches'
      BY <2>1 DEF TypeOK, Switches
    <3>2. Positions'
      BY <2>1 DEF TypeOK, Positions
    <3> QED BY <3>1, <3>2 DEF TypeOK, Switches, Positions
  <2> QED BY <2>1, InitiatorType, HandshakeType, NonceType, EnvironmentType, TimerType DEF Next
<1> QED BY <1>1, <1>2, PTL DEF Spec

=============================================================================

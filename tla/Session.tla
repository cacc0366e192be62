------------------------------- MODULE Session -------------------------------
(***************************************************************************)
(* Key agreement of one peer: the Noise handshake state, the index table   *)
(* and the three key-pair slots (noise_protocol.go, index.go, keypair.go), *)
(* together with the three goroutines that write them:                     *)
(*                                                                         *)
(*   RoutineHandshakeInitiator  CreateMessageInitiation, at every attempt  *)
(*   RoutineHandshake           a message in several locked sections       *)
(*   RoutineTimerHandler        the zeroAllKeys case                       *)
(*                                                                         *)
(* plus RoutineSequentialReceiver, which promotes the "next" key pair.     *)
(* One action is one critical section of the handshake mutex (or of the    *)
(* key-pair mutex for the promotion): RoutineHandshake leaves the mutex    *)
(* between looking a message up, authenticating it, storing the result and *)
(* deriving the key pair, and the others may run in every gap.             *)
(*                                                                         *)
(* Cryptography is symbolic.  A chain key is the transcript it was mixed   *)
(* from; a response opens exactly when the handshake still holds the       *)
(* transcript of the initiation it answers.  The remote server and the     *)
(* network are external: messages may be lost, delayed, reordered and      *)
(* delivered again, so nothing that was sent is ever removed.              *)
(***************************************************************************)
EXTENDS Integers, Sequences

CONSTANTS
    Index,                  \* the non-zero values randUint32 can return
    MessageInitiationSize,  \* the size handleUDP accepts for an initiation
    InitiationWireSize,     \* the size binary.Write gives MessageInitiation
    RandomFails,            \* may crypto/rand return an error
    MaxInitiations,         \* bound: initiations this side creates
    MaxAnswers,             \* bound: responses of the server
    MaxPeerInitiations      \* bound: initiations of the server

ASSUME IndexAssumption == Index \subseteq Nat \ {0}
ASSUME SizeAssumption == MessageInitiationSize \in Nat /\ InitiationWireSize \in Nat
ASSUME RandomAssumption == RandomFails \in BOOLEAN
ASSUME BoundAssumption ==
    MaxInitiations \in Nat /\ MaxAnswers \in Nat /\ MaxPeerInitiations \in Nat

VARIABLES
    state,           \* Handshake.state
    chainKey,        \* Handshake.chainKey (with hash and localEphemeral)
    localIndex,      \* Handshake.localIndex
    remoteIndex,     \* Handshake.remoteIndex
    lastTimestamp,   \* Handshake.lastTimestamp
    table,           \* IndexTable.table
    previous, current, next,  \* KeyPairs
    pairs,           \* every KeyPair ever derived, in order
    pc, msg,         \* RoutineHandshake: where it is, the message it holds
    raced,           \* history: another goroutine wrote the handshake since
                     \* RoutineHandshake authenticated the message it holds
    armed, tick,     \* timer.zeroAllKeys: running; a tick waits in its channel
    initiations,     \* Sender index of each initiation sent
    answers,         \* initiation answered by each response of the server
    peerInitiations, \* number of initiations the server sent
    responses,       \* responses this side sent
    inbound          \* key pairs of the elements in queue.inbound

hsVars == <<state, chainKey, localIndex, remoteIndex, lastTimestamp>>
kpVars == <<previous, current, next, pairs>>
rhVars == <<pc, msg>>
timerVars == <<armed, tick>>
netVars == <<initiations, answers, peerInitiations, responses>>
vars == <<hsVars, table, kpVars, rhVars, raced, timerVars, netVars, inbound>>

-----------------------------------------------------------------------------
(* Values *)

HandshakeStates == {"Zeroed", "InitiationCreated", "InitiationConsumed",
                    "ResponseCreated", "ResponseConsumed"}

\* A chain key: who initiated, which initiation, which response (0: none yet).
Chain(by, init, resp) == [by |-> by, init |-> init, resp |-> resp]
ChainKeys == [by : {"zero", "initial", "local", "server"}, init : Nat, resp : Nat]
ZeroKey == Chain("zero", 0, 0)            \* setZero
InitialChainKey == Chain("initial", 0, 0) \* the public protocol constant

\* The transcript of a handshake that both sides took part in to the end.
Complete(c) == c.by \in {"local", "server"} /\ c.resp # 0

KeyPair == [chainKey : ChainKeys, isInitiator : BOOLEAN,
            localIndex : Index \cup {0}, remoteIndex : Nat, raced : BOOLEAN]

Nil == 0                  \* a nil *KeyPair; pair p is pairs[p], p >= 1
NoEntry == 0              \* the zero IndexTableEntry of a missing key
HandshakeEntry == -1      \* an entry with handshake set; p >= 1: keyPair set
AllIndices == Index \cup {0}

\* Server messages name their receiver by the index it advertised.
ReceiverOf(r) == initiations[answers[r]]

-----------------------------------------------------------------------------
(* IndexTable *)

Delete(t, i) == IF i = 0 THEN t ELSE [t EXCEPT ![i] = NoEntry]
Insert(t, i, entry) == [t EXCEPT ![i] = entry]

\* Faulty: index 0 is handed out; indices in use are handed out again.
FreeIndicesWithZero(t) == {i \in AllIndices : t[i] = NoEntry}
FreeIndicesUnchecked(t) == Index

FreeIndices(t) == {i \in Index : t[i] = NoEntry}

\* The goroutines that take the handshake mutex while RoutineHandshake is
\* between the authentication of a message and the use of its result.
Interferes == raced' = (raced \/ pc \in {"authenticated", "responseConsumed",
                                         "initiationConsumed", "responseCreated"})

\* RoutineHandshake goes back to its queue; its locals go out of scope.
NextMessage == pc' = "idle" /\ msg' = 0 /\ raced' = FALSE

-----------------------------------------------------------------------------
(* RoutineHandshakeInitiator *)

CreateMessageInitiation ==
    /\ Len(initiations) < MaxInitiations
    /\ LET cleared == Delete(table, localIndex) IN
       \E i \in FreeIndices(cleared) :
          /\ table' = Insert(cleared, i, HandshakeEntry)
          /\ localIndex' = i
          /\ initiations' = Append(initiations, i)
    /\ chainKey' = Chain("local", Len(initiations) + 1, 0)
    /\ state' = "InitiationCreated"
    /\ Interferes
    /\ UNCHANGED <<remoteIndex, lastTimestamp, kpVars, rhVars, timerVars, answers,
                   peerInitiations, responses, inbound>>

\* newPrivateKey fails: hash and chainKey were reset, nothing else was touched.
CreateInitiationKeyFails ==
    /\ RandomFails
    /\ chainKey' = InitialChainKey
    /\ Interferes
    /\ UNCHANGED <<state, localIndex, remoteIndex, lastTimestamp, table, kpVars, rhVars,
                   timerVars, netVars, inbound>>

\* NewIndex fails: the old entry is gone and NewIndex returned an empty buffer.
CreateInitiationIndexFails ==
    /\ RandomFails
    /\ chainKey' = InitialChainKey
    /\ table' = Delete(table, localIndex)
    /\ localIndex' = 0
    /\ Interferes
    /\ UNCHANGED <<state, remoteIndex, lastTimestamp, kpVars, rhVars, timerVars, netVars,
                   inbound>>

-----------------------------------------------------------------------------
(* RoutineHandshake: a response of the server *)

LookupResponse ==
    /\ pc = "idle"
    /\ \E r \in DOMAIN answers :
          /\ table[ReceiverOf(r)] = HandshakeEntry
          /\ msg' = r
    /\ pc' = "lookedUp"
    /\ raced' = FALSE
    /\ UNCHANGED <<hsVars, table, kpVars, timerVars, netVars, inbound>>

AuthenticateResponse ==
    /\ pc = "lookedUp"
    /\ IF state = "InitiationCreated" /\ chainKey = Chain("local", answers[msg], 0)
       THEN pc' = "authenticated" /\ UNCHANGED <<msg, raced>>
       ELSE NextMessage
    /\ UNCHANGED <<hsVars, table, kpVars, timerVars, netVars, inbound>>

\* Faulty: the server's index is not stored.
ConsumeResponseWithoutIndex ==
    /\ pc = "authenticated"
    /\ chainKey' = Chain("local", answers[msg], msg)
    /\ state' = "ResponseConsumed"
    /\ pc' = "responseConsumed"
    /\ UNCHANGED <<localIndex, remoteIndex, lastTimestamp, table, kpVars, msg, raced,
                   timerVars, netVars, inbound>>

\* The write half of ConsumeMessageResponse, which tests nothing again.
ConsumeMessageResponse ==
    /\ pc = "authenticated"
    /\ chainKey' = Chain("local", answers[msg], msg)
    /\ remoteIndex' = msg
    /\ state' = "ResponseConsumed"
    /\ pc' = "responseConsumed"
    /\ UNCHANGED <<localIndex, lastTimestamp, table, kpVars, msg, raced, timerVars, netVars,
                   inbound>>

-----------------------------------------------------------------------------
(* RoutineHandshake: an initiation of the server *)

\* Faulty: an initiation may carry the timestamp of the last one.
CheckInitiationNotBefore ==
    /\ pc = "idle"
    /\ MessageInitiationSize = InitiationWireSize
    /\ \E q \in 1..peerInitiations :
          /\ q >= lastTimestamp
          /\ msg' = q
    /\ pc' = "initiationChecked"
    /\ raced' = FALSE
    /\ UNCHANGED <<hsVars, table, kpVars, timerVars, netVars, inbound>>

\* handleUDP lets MessageInitiationSize bytes pass and binary.Read wants
\* InitiationWireSize of them; then the read-locked timestamp test.
CheckInitiation ==
    /\ pc = "idle"
    /\ MessageInitiationSize = InitiationWireSize
    /\ \E q \in 1..peerInitiations :
          /\ q > lastTimestamp
          /\ msg' = q
    /\ pc' = "initiationChecked"
    /\ raced' = FALSE
    /\ UNCHANGED <<hsVars, table, kpVars, timerVars, netVars, inbound>>

ConsumeMessageInitiation ==
    /\ pc = "initiationChecked"
    /\ chainKey' = Chain("server", msg, 0)
    /\ remoteIndex' = msg
    /\ lastTimestamp' = msg
    /\ state' = "InitiationConsumed"
    /\ pc' = "initiationConsumed"
    /\ UNCHANGED <<localIndex, table, kpVars, msg, raced, timerVars, netVars, inbound>>

CreateMessageResponse ==
    /\ pc = "initiationConsumed"
    /\ state = "InitiationConsumed"
    /\ LET cleared == Delete(table, localIndex) IN
       \E i \in FreeIndices(cleared) :
          /\ table' = Insert(cleared, i, HandshakeEntry)
          /\ localIndex' = i
          /\ \/ /\ chainKey' = [chainKey EXCEPT !.resp = 1]
                /\ state' = "ResponseCreated"
                /\ responses' = responses \cup {[init |-> msg, sender |-> i]}
                /\ pc' = "responseCreated"
                /\ UNCHANGED <<msg, raced>>
             \/ \* newPrivateKey fails
                /\ RandomFails
                /\ NextMessage
                /\ UNCHANGED <<chainKey, state, responses>>
    /\ UNCHANGED <<remoteIndex, lastTimestamp, kpVars, timerVars, initiations, answers,
                   peerInitiations, inbound>>

\* NewIndex fails.
CreateResponseIndexFails ==
    /\ RandomFails
    /\ pc = "initiationConsumed"
    /\ state = "InitiationConsumed"
    /\ table' = Delete(table, localIndex)
    /\ localIndex' = 0
    /\ NextMessage
    /\ UNCHANGED <<state, chainKey, remoteIndex, lastTimestamp, kpVars, timerVars, netVars,
                   inbound>>

\* "handshake initation must be consumed first": an initiation of our own
\* went out since.
CreateResponseRefused ==
    /\ pc = "initiationConsumed"
    /\ state # "InitiationConsumed"
    /\ NextMessage
    /\ UNCHANGED <<hsVars, table, kpVars, timerVars, netVars, inbound>>

-----------------------------------------------------------------------------
(* RoutineHandshake: the key pair *)


\* Faulty: the index of the previous pair stays in the table; the current pair
\* keeps its place; an unconfirmed next pair is overlooked.
RotateKeepingIndex(p) ==
    /\ table' = Insert(table, localIndex, p)
    /\ IF next # Nil
       THEN previous' = next /\ next' = p /\ UNCHANGED current
       ELSE previous' = current /\ current' = p /\ UNCHANGED next
RotateKeepingCurrent(p) ==
    /\ table' = LET inserted == Insert(table, localIndex, p) IN
                IF previous = Nil THEN inserted
                ELSE Delete(inserted, pairs[previous].localIndex)
    /\ IF current = Nil THEN current' = p /\ UNCHANGED <<previous, next>>
                        ELSE previous' = p /\ UNCHANGED <<current, next>>
RotateIgnoringNext(p) ==
    /\ table' = LET inserted == Insert(table, localIndex, p) IN
                IF previous = Nil THEN inserted
                ELSE Delete(inserted, pairs[previous].localIndex)
    /\ previous' = current /\ current' = p /\ UNCHANGED next

RotateAsInitiator(p) ==
    /\ table' = LET inserted == Insert(table, localIndex, p) IN
                IF previous = Nil THEN inserted
                ELSE Delete(inserted, pairs[previous].localIndex)
    /\ IF next # Nil
       THEN previous' = next /\ next' = p /\ UNCHANGED current
       ELSE previous' = current /\ current' = p /\ UNCHANGED next

\* Neither the old next nor the old previous leaves the index table.
RotateAsResponder(p) ==
    /\ table' = Insert(table, localIndex, p)
    /\ next' = p
    /\ previous' = Nil
    /\ UNCHANGED current

\* TimerEphemeralKeyCreated, which does not drain a pending tick, and then
\* NewKeyPair, whose two derivations read the state and not the message.
NewKeyPair ==
    /\ pc \in {"responseConsumed", "responseCreated"}
    /\ armed' = TRUE
    /\ NextMessage
    /\ state \in {"ResponseConsumed", "ResponseCreated"}
    /\ pairs' = Append(pairs, [chainKey |-> chainKey,
                               isInitiator |-> state = "ResponseConsumed",
                               localIndex |-> localIndex,
                               remoteIndex |-> remoteIndex,
                               raced |-> raced])
    /\ IF state = "ResponseConsumed" THEN RotateAsInitiator(Len(pairs) + 1)
                                     ELSE RotateAsResponder(Len(pairs) + 1)
    /\ chainKey' = ZeroKey
    /\ state' = "Zeroed"
    /\ localIndex' = 0
    /\ UNCHANGED <<remoteIndex, lastTimestamp, tick, netVars, inbound>>

\* NewKeyPair returns nil: an initiation replaced what was consumed.
NewKeyPairRefused ==
    /\ pc \in {"responseConsumed", "responseCreated"}
    /\ state \notin {"ResponseConsumed", "ResponseCreated"}
    /\ armed' = TRUE
    /\ NextMessage
    /\ UNCHANGED <<hsVars, table, kpVars, tick, netVars, inbound>>

\* A cookie reply to an initiation whose index is no longer in the table:
\* RoutineHandshake returns.  (A reply that finds its peer goes to
\* ConsumeReply, which touches nothing of this module.)
CookieReplyUnknown ==
    /\ pc = "idle"
    /\ \E n \in DOMAIN initiations : table[initiations[n]] = NoEntry
    /\ pc' = "returned"
    /\ UNCHANGED <<hsVars, table, kpVars, msg, raced, timerVars, netVars, inbound>>

-----------------------------------------------------------------------------
(* RoutineTimerHandler, case zeroAllKeys *)

ZeroAllKeysExpires ==
    /\ armed
    /\ armed' = FALSE
    /\ tick' = TRUE
    /\ UNCHANGED <<hsVars, table, kpVars, rhVars, raced, netVars, inbound>>

DeleteKeyPair(t, p) == IF p = Nil THEN t ELSE Delete(t, pairs[p].localIndex)

\* Handshake.state keeps its value.
ZeroAllKeys ==
    /\ tick
    /\ tick' = FALSE
    /\ table' = LET dropped == DeleteKeyPair(DeleteKeyPair(DeleteKeyPair(table, previous),
                                                           current), next)
                IN  Delete(dropped, localIndex)
    /\ previous' = Nil /\ current' = Nil /\ next' = Nil
    /\ localIndex' = 0
    /\ chainKey' = ZeroKey
    /\ Interferes
    /\ UNCHANGED <<state, remoteIndex, lastTimestamp, pairs, rhVars, armed, netVars, inbound>>

-----------------------------------------------------------------------------
(* handleUDP and RoutineSequentialReceiver: transport messages *)

\* The sessions the server can send under: the receiver index it was told
\* and the transcript it derived its keys from.
ServerSessions ==
    {[index |-> ReceiverOf(r), chainKey |-> Chain("local", answers[r], r)] : r \in DOMAIN answers}
    \cup {[index |-> e.sender, chainKey |-> Chain("server", e.init, 1)] : e \in responses}

\* RoutineDecryption: the message opens under the keys it was sealed with;
\* otherwise the element is dropped.
Opens(p, s) == pairs[p].chainKey = s.chainKey

\* handleUDP finds the pair by its index.
ReceiveTransport ==
    /\ \E s \in ServerSessions :
          LET p == table[s.index] IN
          /\ p \notin {NoEntry, HandshakeEntry}
          /\ Opens(p, s)
          /\ inbound' = inbound \cup {p}
    /\ UNCHANGED <<hsVars, table, kpVars, rhVars, raced, timerVars, netVars>>

\* The first transport message under "next" confirms it.
ConfirmNext(p) ==
    IF next = p
    THEN /\ table' = DeleteKeyPair(table, previous)
         /\ previous' = current
         /\ current' = next
         /\ next' = Nil
    ELSE UNCHANGED <<table, previous, current, next>>

SequentialReceive ==
    /\ \E p \in inbound :
          /\ inbound' = inbound \ {p}
          /\ ConfirmNext(p)
    /\ UNCHANGED <<hsVars, pairs, rhVars, raced, timerVars, netVars>>

-----------------------------------------------------------------------------
(* The remote server (external) *)

ServerAnswers ==
    /\ Len(answers) < MaxAnswers
    /\ \E n \in DOMAIN initiations : answers' = Append(answers, n)
    /\ UNCHANGED <<hsVars, table, kpVars, rhVars, raced, timerVars, initiations,
                   peerInitiations, responses, inbound>>

ServerInitiates ==
    /\ peerInitiations < MaxPeerInitiations
    /\ peerInitiations' = peerInitiations + 1
    /\ UNCHANGED <<hsVars, table, kpVars, rhVars, raced, timerVars, initiations, answers,
                   responses, inbound>>

-----------------------------------------------------------------------------
(* NewDevice and NewPeer *)
Init ==
    /\ state = "Zeroed" /\ chainKey = ZeroKey
    /\ localIndex = 0 /\ remoteIndex = 0 /\ lastTimestamp = 0
    /\ table = [i \in AllIndices |-> NoEntry]
    /\ previous = Nil /\ current = Nil /\ next = Nil /\ pairs = <<>>
    /\ pc = "idle" /\ msg = 0 /\ raced = FALSE
    /\ armed = FALSE /\ tick = FALSE
    /\ initiations = <<>> /\ answers = <<>> /\ peerInitiations = 0 /\ responses = {}
    /\ inbound = {}

InitiatorStep ==
    CreateMessageInitiation \/ CreateInitiationKeyFails \/ CreateInitiationIndexFails

HandshakeStep ==
    \/ LookupResponse \/ AuthenticateResponse \/ ConsumeMessageResponse
    \/ CheckInitiation \/ ConsumeMessageInitiation
    \/ CreateMessageResponse \/ CreateResponseIndexFails \/ CreateResponseRefused
    \/ NewKeyPair \/ NewKeyPairRefused
    \/ CookieReplyUnknown

TimerStep == ZeroAllKeysExpires \/ ZeroAllKeys
TransportStep == ReceiveTransport \/ SequentialReceive
ServerStep == ServerAnswers \/ ServerInitiates

Next == InitiatorStep \/ HandshakeStep \/ TimerStep \/ TransportStep \/ ServerStep

Spec == Init /\ [][Next]_vars

-----------------------------------------------------------------------------
(* Properties *)

Slots == {previous, current, next}
LivePairs == Slots \ {Nil}

\* Every variable has its type; what is looked up exists.
TypeOK ==
    /\ state \in HandshakeStates
    /\ chainKey \in ChainKeys
    /\ localIndex \in AllIndices /\ remoteIndex \in Nat /\ lastTimestamp \in Nat
    /\ pairs \in Seq(KeyPair)
    /\ table \in [AllIndices -> {HandshakeEntry, NoEntry} \cup (1..Len(pairs))]
    /\ Slots \subseteq 0..Len(pairs)
    /\ pc \in {"idle", "lookedUp", "authenticated", "responseConsumed", "initiationChecked",
               "initiationConsumed", "responseCreated", "returned"}
    /\ msg \in Nat /\ raced \in BOOLEAN
    /\ pc \in {"lookedUp", "authenticated", "responseConsumed"} => msg \in DOMAIN answers
    /\ armed \in BOOLEAN /\ tick \in BOOLEAN
    /\ initiations \in Seq(Index)
    /\ answers \in Seq(1..Len(initiations))
    /\ peerInitiations \in Nat
    /\ responses \subseteq [init : Nat, sender : Index]
    /\ inbound \subseteq 1..Len(pairs)

\* The index table agrees with the objects it names, however the three
\* writers interleave: exactly the handshake's own index maps to the handshake
\* (NewIndex, Delete, NewKeyPair's remap), each key pair in use is found under
\* its index (handleUDP's Lookup), and no two slots of KeyPairs share a pair.
IndexTableSound ==
    /\ \A i \in Index : table[i] = HandshakeEntry <=> i = localIndex
    /\ table[0] # HandshakeEntry
    /\ \A p \in LivePairs :
          pairs[p].localIndex # 0 => table[pairs[p].localIndex] = p
    /\ previous # Nil => previous \notin {current, next}
    /\ current # Nil => current # next

\* No index outlives its key pair: a key-pair entry of the table is one of the
\* slots (the DeleteKeyPair calls of NewKeyPair, zeroAllKeys and the promotion),
\* or older than a pair derived as responder, whose rotation forgets the old
\* next and previous pairs without DeleteKeyPair.  Index 0 is excepted, because
\* Delete(0) returns at once.
NoIndexLeak ==
    \A i \in Index :
        table[i] \notin {NoEntry, HandshakeEntry} =>
            \/ table[i] \in LivePairs
            \/ \E q \in DOMAIN pairs : q > table[i] /\ ~pairs[q].isInitiator

\* A handshake yields at most one key pair: a response or initiation delivered
\* again, or late, never makes NewKeyPair reuse keys (and so nonces).
OneKeyPairPerHandshake ==
    \A p, q \in DOMAIN pairs :
        /\ Complete(pairs[p].chainKey)
        /\ pairs[p].chainKey.by = pairs[q].chainKey.by
        /\ pairs[p].chainKey.init = pairs[q].chainKey.init
        => p = q

\* What this side advertised in the handshake that a pair's keys come from.
AgreedIndices(k) ==
    IF k.chainKey.by = "local"
    THEN k.localIndex = initiations[k.chainKey.init]
    ELSE [init |-> k.chainKey.init, sender |-> k.localIndex] \in responses

\* A pair's remote index belongs to its keys; and unless another goroutine
\* wrote the handshake between authentication and NewKeyPair, the keys come
\* from a completed handshake and the pair is filed under the index the server
\* was given in that handshake.
UnracedKeysAgree ==
    \A p \in DOMAIN pairs :
        LET k == pairs[p] IN
        /\ Complete(k.chainKey) =>
              k.remoteIndex = IF k.chainKey.by = "local" THEN k.chainKey.resp
                                                         ELSE k.chainKey.init
        /\ ~k.raced => Complete(k.chainKey) /\ AgreedIndices(k)

\* As long as no initiation of the server was answered, packets are sent under
\* the newest pair ever derived, or none (NewKeyPair's rotation against
\* zeroAllKeys).
CurrentIsNewest ==
    responses = {} =>
        /\ next = Nil
        /\ current \in {Nil, Len(pairs)}
        /\ previous < Len(pairs) \/ pairs = <<>>

\* The pair to send under is only ever replaced by a newer one or removed, and
\* a slot is filled from a pair still in use or from the pair just derived: what
\* zeroAllKeys removed never comes back.
CurrentAdvances ==
    [][ /\ current' \in {current, Nil} \/ current' > current
        /\ {previous', current', next'} \subseteq Slots \cup {Nil, Len(pairs) + 1} ]_vars

(* What the code's comments say, and does not hold *)

\* index.go:9 "Index=0 is reserved for unset indecies": nothing is filed under it.
IndexZeroReserved == table[0] = NoEntry

\* noise_protocol.go:480 "Derives a new key-pair from the current handshake
\* state": the keys and the local index of a pair belong to one handshake.
KeyPairOfOneHandshake ==
    \A p \in DOMAIN pairs :
        Complete(pairs[p].chainKey) => AgreedIndices(pairs[p])

\* receive.go:275 RoutineHandshake "Handles incomming packets related to
\* handshake", until the stop signal, which "halts all go routines"
\* (device.go:39): it does not end by itself.
RoutineHandshakeRuns == pc # "returned"

=============================================================================

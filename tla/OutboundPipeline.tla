-------------------------- MODULE OutboundPipeline --------------------------
(***************************************************************************)
(* send.go: a packet read from the TUN device goes through the nonce queue *)
(* to RoutineNonce, which gives it a key pair and a nonce, locks it and    *)
(* puts it into two queues, first device.queue.encryption for the          *)
(* RoutineEncryption workers and then peer.queue.outbound for              *)
(* RoutineSequentialSender.  The sender waits for an element by locking    *)
(* its mutex, which the worker that sealed it unlocks.  A full queue loses *)
(* its oldest element: the adders loop over "send or else take one out".   *)
(*                                                                         *)
(* A non-blocking channel operation or a mutex operation is one step.      *)
(* Elements are numbered in the order they enter the nonce queue.          *)
(***************************************************************************)
EXTENDS Integers, Sequences

CONSTANTS
    Workers,              \* the RoutineEncryption goroutines
    KeepAliveCallers,     \* the goroutines that call SendKeepAlive
    QueueOutboundSize,    \* capacity of the three queues
    RejectAfterMessages,  \* nonces a key pair may use
    MaxElements,          \* bound: elements entering the nonce queue
    MaxKeyPairs           \* bound: key pairs derived

ASSUME SizeAssumption ==
    /\ QueueOutboundSize \in Nat \ {0} /\ RejectAfterMessages \in Nat
    /\ MaxElements \in Nat /\ MaxKeyPairs \in Nat

VARIABLES
    count,      \* elements that entered the nonce queue
    elem,       \* QueueOutboundElement, by number
    nonceQ, encryptionQ, outboundQ,
    reading,    \* RoutineReadFromTUN holds a packet to enqueue
    checked,    \* SendKeepAlive callers that found the nonce queue empty
    nonce,      \* RoutineNonce: its position, element and locals
    working,    \* RoutineEncryption: the element each worker seals, 0: none
    sender,     \* RoutineSequentialSender: its position and element
    keys, current, fresh,  \* pairs derived; keyPairs.current; it has not expired
    sendNonce,  \* KeyPair.sendNonce, by pair
    newKeyPair, flushNonceQueue, handshakeBegin,  \* peer.signal, capacity 1
    sent        \* history: the elements handed to SendBuffer with success

qVars == <<nonceQ, encryptionQ, outboundQ>>
keyVars == <<keys, current, fresh, sendNonce>>
signals == <<newKeyPair, flushNonceQueue, handshakeBegin>>
vars == <<count, elem, qVars, reading, checked, nonce, working, sender, keyVars, signals, sent>>

Elements == 1..MaxElements
KeyPairs == 1..MaxKeyPairs
None == 0

NewOutboundElement ==
    [dropped |-> FALSE, locked |-> FALSE, sealed |-> FALSE, keyPair |-> None, nonce |-> 0]

\* Faulty: the queue takes one element too many.
FullLate(q) == Len(q) > QueueOutboundSize

Full(q) == Len(q) = QueueOutboundSize
Drop(e) == [elem EXCEPT ![e].dropped = TRUE]
NonceAt(pc, e) == [nonce EXCEPT !.pc = pc, !.elem = e]

-----------------------------------------------------------------------------
(* RoutineReadFromTUN and SendKeepAlive *)

ReadFromTUN ==
    /\ ~reading
    /\ count < MaxElements
    /\ reading' = TRUE
    /\ UNCHANGED <<count, elem, qVars, checked, nonce, working, sender, keyVars, signals, sent>>

EnterNonceQueue ==
    /\ count < MaxElements
    /\ ~Full(nonceQ)
    /\ count' = count + 1
    /\ nonceQ' = Append(nonceQ, count + 1)

\* addToOutboundQueue(peer.queue.nonce, elem)
AddToNonceQueue ==
    /\ reading
    /\ \/ /\ EnterNonceQueue
          /\ reading' = FALSE
          /\ UNCHANGED elem
       \/ /\ Full(nonceQ)
          /\ elem' = Drop(Head(nonceQ))
          /\ nonceQ' = Tail(nonceQ)
          /\ UNCHANGED <<count, reading>>
    /\ UNCHANGED <<encryptionQ, outboundQ, checked, nonce, working, sender, keyVars, signals, sent>>

KeepAliveCheck(g) ==
    /\ g \notin checked
    /\ nonceQ = <<>>
    /\ checked' = checked \cup {g}
    /\ UNCHANGED <<count, elem, qVars, reading, nonce, working, sender, keyVars, signals, sent>>

\* The queue may have filled since; then the keep-alive is given up.
KeepAliveSend(g) ==
    /\ g \in checked
    /\ checked' = checked \ {g}
    /\ EnterNonceQueue \/ (Full(nonceQ) /\ UNCHANGED <<count, nonceQ>>)
    /\ UNCHANGED <<elem, encryptionQ, outboundQ, reading, nonce, working, sender, keyVars,
                   signals, sent>>

-----------------------------------------------------------------------------
(* RoutineNonce *)

TakeNonce ==
    /\ nonce.pc = "idle"
    /\ nonceQ # <<>>
    /\ nonce' = NonceAt("select", Head(nonceQ))
    /\ nonceQ' = Tail(nonceQ)
    /\ UNCHANGED <<count, elem, encryptionQ, outboundQ, reading, checked, working, sender,
                   keyVars, signals, sent>>

\* Faulty: the last nonce but one too many.
UsableAtLimit == current # None /\ sendNonce[current] <= RejectAfterMessages /\ fresh

Usable == current # None /\ sendNonce[current] < RejectAfterMessages /\ fresh

\* Only this goroutine adds to sendNonce.
AssignNonce ==
    /\ nonce.pc = "select"
    /\ Usable
    /\ elem' = [elem EXCEPT ![nonce.elem] =
                   [dropped |-> FALSE, locked |-> TRUE, sealed |-> FALSE,
                    keyPair |-> current, nonce |-> sendNonce[current]]]
    /\ sendNonce' = [sendNonce EXCEPT ![current] = @ + 1]
    /\ nonce' = NonceAt("encryption", nonce.elem)
    /\ UNCHANGED <<count, qVars, reading, checked, working, sender, keys, current, fresh,
                   signals, sent>>

AwaitKeyPair ==
    /\ nonce.pc = "select"
    /\ ~Usable
    /\ handshakeBegin' = TRUE
    /\ nonce' = NonceAt("await", nonce.elem)
    /\ UNCHANGED <<count, elem, qVars, reading, checked, working, sender, keyVars, newKeyPair,
                   flushNonceQueue, sent>>

NewKeyPairSignalled ==
    /\ nonce.pc = "await"
    /\ newKeyPair
    /\ newKeyPair' = FALSE
    /\ nonce' = NonceAt("select", nonce.elem)
    /\ UNCHANGED <<count, elem, qVars, reading, checked, working, sender, keyVars,
                   flushNonceQueue, handshakeBegin, sent>>

\* The element in hand is abandoned with the queue.
FlushSignalled ==
    /\ nonce.pc = "await"
    /\ flushNonceQueue
    /\ flushNonceQueue' = FALSE
    /\ nonce' = [nonce EXCEPT !.pc = "flush", !.elem = None, !.left = Len(nonceQ)]
    /\ UNCHANGED <<count, elem, qVars, reading, checked, working, sender, keyVars, newKeyPair,
                   handshakeBegin, sent>>

FlushNonceQueue ==
    /\ nonce.pc = "flush"
    /\ IF nonce.left > 0 /\ nonceQ # <<>>
       THEN /\ nonceQ' = Tail(nonceQ)
            /\ nonce' = [nonce EXCEPT !.left = @ - 1]
       ELSE /\ nonce' = [nonce EXCEPT !.pc = "idle", !.left = 0]
            /\ UNCHANGED nonceQ
    /\ UNCHANGED <<count, elem, encryptionQ, outboundQ, reading, checked, working, sender,
                   keyVars, signals, sent>>

AddToEncryptionQueue ==
    /\ nonce.pc = "encryption"
    /\ ~Full(encryptionQ)
    /\ encryptionQ' = Append(encryptionQ, nonce.elem)
    /\ nonce' = NonceAt("outbound", nonce.elem)
    /\ UNCHANGED <<count, elem, nonceQ, outboundQ, reading, checked, working, sender, keyVars,
                   signals, sent>>

\* Faulty: the evicted element is dropped and never unlocked.
EvictWithoutRelease ==
    /\ nonce.pc = "encryption"
    /\ Full(encryptionQ)
    /\ elem' = Drop(Head(encryptionQ))
    /\ encryptionQ' = Tail(encryptionQ)
    /\ UNCHANGED <<count, nonceQ, outboundQ, reading, checked, nonce, working, sender, keyVars,
                   signals, sent>>

\* "drop & release to potential consumer": Drop here, Unlock in the next step.
EvictFromEncryptionQueue ==
    /\ nonce.pc = "encryption"
    /\ Full(encryptionQ)
    /\ elem' = Drop(Head(encryptionQ))
    /\ encryptionQ' = Tail(encryptionQ)
    /\ nonce' = [nonce EXCEPT !.pc = "release", !.old = Head(encryptionQ)]
    /\ UNCHANGED <<count, nonceQ, outboundQ, reading, checked, working, sender, keyVars,
                   signals, sent>>

ReleaseEvicted ==
    /\ nonce.pc = "release"
    /\ elem' = [elem EXCEPT ![nonce.old].locked = FALSE]
    /\ nonce' = [nonce EXCEPT !.pc = "encryption", !.old = None]
    /\ UNCHANGED <<count, qVars, reading, checked, working, sender, keyVars, signals, sent>>

\* Faulty: the element evicted here is unlocked too, as in the other queue.
AddToOutboundUnlocking ==
    /\ nonce.pc = "outbound"
    /\ \/ /\ ~Full(outboundQ)
          /\ outboundQ' = Append(outboundQ, nonce.elem)
          /\ nonce' = NonceAt("idle", None)
          /\ UNCHANGED elem
       \/ /\ Full(outboundQ)
          /\ elem' = [elem EXCEPT ![Head(outboundQ)].dropped = TRUE,
                                  ![Head(outboundQ)].locked = FALSE]
          /\ outboundQ' = Tail(outboundQ)
          /\ UNCHANGED nonce
    /\ UNCHANGED <<count, nonceQ, encryptionQ, reading, checked, working, sender, keyVars,
                   signals, sent>>

AddToOutboundQueue ==
    /\ nonce.pc = "outbound"
    /\ \/ /\ ~Full(outboundQ)
          /\ outboundQ' = Append(outboundQ, nonce.elem)
          /\ nonce' = NonceAt("idle", None)
          /\ UNCHANGED elem
       \/ /\ Full(outboundQ)
          /\ elem' = Drop(Head(outboundQ))
          /\ outboundQ' = Tail(outboundQ)
          /\ UNCHANGED nonce
    /\ UNCHANGED <<count, nonceQ, encryptionQ, reading, checked, working, sender, keyVars,
                   signals, sent>>

-----------------------------------------------------------------------------
(* RoutineEncryption *)

\* An element dropped from the outbound queue is skipped, its mutex locked.
TakeEncryption(w) ==
    /\ working[w] = None
    /\ encryptionQ # <<>>
    /\ encryptionQ' = Tail(encryptionQ)
    /\ working' = IF elem[Head(encryptionQ)].dropped THEN working
                  ELSE [working EXCEPT ![w] = Head(encryptionQ)]
    /\ UNCHANGED <<count, elem, nonceQ, outboundQ, reading, checked, nonce, sender, keyVars,
                   signals, sent>>

Seal(w) ==
    /\ working[w] # None
    /\ elem' = [elem EXCEPT ![working[w]].sealed = TRUE, ![working[w]].locked = FALSE]
    /\ working' = [working EXCEPT ![w] = None]
    /\ UNCHANGED <<count, qVars, reading, checked, nonce, sender, keyVars, signals, sent>>

-----------------------------------------------------------------------------
(* RoutineSequentialSender *)

TakeOutbound ==
    /\ sender.pc = "idle"
    /\ outboundQ # <<>>
    /\ sender' = [pc |-> "lock", elem |-> Head(outboundQ)]
    /\ outboundQ' = Tail(outboundQ)
    /\ UNCHANGED <<count, elem, nonceQ, encryptionQ, reading, checked, nonce, working, keyVars,
                   signals, sent>>

\* Faulty: the drop is not looked at once the lock is taken.
LockElementOnly ==
    /\ sender.pc = "lock"
    /\ ~elem[sender.elem].locked
    /\ elem' = [elem EXCEPT ![sender.elem].locked = TRUE]
    /\ sender' = [sender EXCEPT !.pc = "send"]
    /\ UNCHANGED <<count, qVars, reading, checked, nonce, working, keyVars, signals, sent>>

LockElement ==
    /\ sender.pc = "lock"
    /\ ~elem[sender.elem].locked
    /\ elem' = [elem EXCEPT ![sender.elem].locked = TRUE]
    /\ sender' = IF elem[sender.elem].dropped THEN [pc |-> "idle", elem |-> None]
                 ELSE [sender EXCEPT !.pc = "send"]
    /\ UNCHANGED <<count, qVars, reading, checked, nonce, working, keyVars, signals, sent>>

\* Faulty: a packet that could not be sent is queued again.
TransmitAgain ==
    /\ sender.pc = "send"
    /\ sender' = [pc |-> "idle", elem |-> None]
    /\ \/ sent' = Append(sent, sender.elem) /\ UNCHANGED <<elem, outboundQ>>
       \/ /\ ~Full(outboundQ)
          /\ outboundQ' = Append(outboundQ, sender.elem)
          /\ elem' = [elem EXCEPT ![sender.elem].locked = FALSE]
          /\ UNCHANGED sent
    /\ UNCHANGED <<count, nonceQ, encryptionQ, reading, checked, nonce, working, keyVars,
                   signals>>

\* SendBuffer may fail; the packet is lost and the routine goes on.
Transmit ==
    /\ sender.pc = "send"
    /\ sender' = [pc |-> "idle", elem |-> None]
    /\ sent' = Append(sent, sender.elem) \/ UNCHANGED sent
    /\ UNCHANGED <<count, elem, qVars, reading, checked, nonce, working, keyVars, signals>>

-----------------------------------------------------------------------------
(* The handshake (module Session) as seen from here *)

KeyPairDerived ==
    /\ keys < MaxKeyPairs
    /\ keys' = keys + 1
    /\ current' = keys + 1
    /\ fresh' = TRUE
    /\ newKeyPair' = TRUE
    /\ UNCHANGED <<count, elem, qVars, reading, checked, nonce, working, sender, sendNonce,
                   flushNonceQueue, handshakeBegin, sent>>

\* RejectAfterTime passed, or zeroAllKeys.
KeyPairLost ==
    /\ current # None
    /\ fresh' = FALSE
    /\ current' \in {current, None}
    /\ UNCHANGED <<count, elem, qVars, reading, checked, nonce, working, sender, keys,
                   sendNonce, signals, sent>>

\* RoutineHandshakeInitiator takes the begin signal; at its deadline it flushes.
InitiatorSignals ==
    /\ \/ handshakeBegin /\ handshakeBegin' = FALSE /\ UNCHANGED flushNonceQueue
       \/ flushNonceQueue' = TRUE /\ UNCHANGED handshakeBegin
    /\ UNCHANGED <<count, elem, qVars, reading, checked, nonce, working, sender, keyVars,
                   newKeyPair, sent>>

-----------------------------------------------------------------------------
Init ==
    /\ count = 0
    /\ elem = [e \in Elements |-> NewOutboundElement]
    /\ nonceQ = <<>> /\ encryptionQ = <<>> /\ outboundQ = <<>>
    /\ reading = FALSE /\ checked = {}
    /\ nonce = [pc |-> "idle", elem |-> None, old |-> None, left |-> 0]
    /\ working = [w \in Workers |-> None]
    /\ sender = [pc |-> "idle", elem |-> None]
    /\ keys = 0 /\ current = None /\ fresh = FALSE /\ sendNonce = [k \in KeyPairs |-> 0]
    /\ newKeyPair = FALSE /\ flushNonceQueue = FALSE /\ handshakeBegin = FALSE
    /\ sent = <<>>

RoutineReadFromTUN == ReadFromTUN \/ AddToNonceQueue
SendKeepAlive == \E g \in KeepAliveCallers : KeepAliveCheck(g) \/ KeepAliveSend(g)
RoutineNonce ==
    \/ TakeNonce \/ AssignNonce \/ AwaitKeyPair \/ NewKeyPairSignalled \/ FlushSignalled
    \/ FlushNonceQueue \/ AddToEncryptionQueue \/ EvictFromEncryptionQueue \/ ReleaseEvicted
    \/ AddToOutboundQueue
RoutineEncryption(w) == TakeEncryption(w) \/ Seal(w)
RoutineSequentialSender == TakeOutbound \/ LockElement \/ Transmit
Handshake == KeyPairDerived \/ KeyPairLost \/ InitiatorSignals

Next ==
    \/ RoutineReadFromTUN \/ SendKeepAlive \/ RoutineNonce
    \/ \E w \in Workers : RoutineEncryption(w)
    \/ RoutineSequentialSender \/ Handshake

Spec == Init /\ [][Next]_vars

\* The scheduler runs every goroutine that can run.
FairSpec ==
    /\ Spec
    /\ WF_vars(RoutineNonce)
    /\ \A w \in Workers : WF_vars(RoutineEncryption(w))
    /\ WF_vars(RoutineSequentialSender)

-----------------------------------------------------------------------------
(* Properties *)

Positions(q) == {q[i] : i \in DOMAIN q}

\* Every variable has its type; no queue is longer than its channel.
TypeOK ==
    /\ count \in 0..MaxElements
    /\ elem \in [Elements -> [dropped : BOOLEAN, locked : BOOLEAN, sealed : BOOLEAN,
                              keyPair : KeyPairs \cup {None}, nonce : Nat]]
    /\ \A q \in {nonceQ, encryptionQ, outboundQ} :
          q \in Seq(1..count) /\ Len(q) <= QueueOutboundSize
    /\ reading \in BOOLEAN /\ checked \subseteq KeepAliveCallers
    /\ nonce \in [pc : {"idle", "select", "await", "flush", "encryption", "release", "outbound"},
                  elem : 0..count, old : 0..count, left : 0..QueueOutboundSize]
    /\ working \in [Workers -> 0..count]
    /\ sender \in [pc : {"idle", "lock", "send"}, elem : 0..count]
    /\ keys \in 0..MaxKeyPairs /\ current \in 0..keys /\ fresh \in BOOLEAN
    /\ sendNonce \in [KeyPairs -> 0..RejectAfterMessages]
    /\ newKeyPair \in BOOLEAN /\ flushNonceQueue \in BOOLEAN /\ handshakeBegin \in BOOLEAN
    /\ sent \in Seq(1..count)

\* What is transmitted was sealed: an element evicted from the encryption queue
\* reaches the sender as dropped, because Drop comes before Unlock.
SentSealed == \A i \in DOMAIN sent : elem[sent[i]].sealed

\* The nonces under one key pair strictly increase on the wire, stay below
\* RejectAfterMessages, and an older pair is not used after a newer one.
NoncesIncrease ==
    /\ \A i, j \in DOMAIN sent : i < j =>
          LET a == elem[sent[i]]  b == elem[sent[j]] IN
          a.keyPair < b.keyPair \/ (a.keyPair = b.keyPair /\ a.nonce < b.nonce)
    /\ \A i \in DOMAIN sent : elem[sent[i]].nonce < RejectAfterMessages

\* A mutex is unlocked only while RoutineNonce's lock is held on it (unlocking
\* an unlocked sync.Mutex ends the program): the element a worker seals and the
\* element RoutineNonce is about to release are locked and not the same.
UnlockOnce ==
    /\ \A w \in Workers : working[w] # None => elem[working[w]].locked
    /\ nonce.pc = "release" => elem[nonce.old].locked
    /\ \A w \in Workers : working[w] # None =>
          /\ working[w] # nonce.old
          /\ \A v \in Workers \ {w} : working[v] # working[w]

\* A sender that waits for an element is served by somebody: the element is
\* still queued for encryption and not skipped, is being sealed, or is about to
\* be released.
SenderServed ==
    sender.pc = "lock" /\ elem[sender.elem].locked =>
        \/ sender.elem \in Positions(encryptionQ) /\ ~elem[sender.elem].dropped
        \/ \E w \in Workers : working[w] = sender.elem
        \/ nonce.pc = "release" /\ nonce.old = sender.elem

\* The sender never waits for an element forever.
SenderProceeds == sender.pc = "lock" ~> sender.pc # "lock"

\* send.go:28 "The order of packets (per peer) is maintained": the pipeline
\* with its three dropping queues is a lossy FIFO.
Fifo == INSTANCE LossyFifo WITH Bound <- MaxElements, offered <- count, delivered <- sent

OrderMaintained == Fifo!Spec

=============================================================================

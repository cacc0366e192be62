--------------------------- MODULE InboundPipeline ---------------------------
(***************************************************************************)
(* receive.go: a transport message read by handleUDP is locked and put     *)
(* into two queues, device.queue.decryption for RoutineDecryption and then *)
(* peer.queue.inbound for RoutineSequentialReceiver, which waits for its   *)
(* mutex, asks the replay filter, checks its source and writes it to the   *)
(* TUN device.  Handshake messages go to device.queue.handshake.  A full   *)
(* queue loses its oldest element.  When the connection is replaced a      *)
(* second handleUDP runs, for a while beside the first.                    *)
(*                                                                         *)
(* The buffer of a message comes from a pool and goes back to it in two    *)
(* places only.  The messages are those of one key pair; its filter is the *)
(* ideal window that module ReplayFilter implements.  What handleUDP       *)
(* ignores (too short, unknown index, expired pair, wrong size) leaves no  *)
(* trace here.                                                             *)
(***************************************************************************)
EXTENDS Integers, Sequences

CONSTANTS
    Conns,             \* UDP connections; each has its handleUDP
    QueueInboundSize,  \* capacity of the decryption and inbound queues
    QueueHandshakeSize,
    Counters, RejectAfterMessages, CounterWindowSize,  \* of the replay filter
    OpenPanics,        \* may Open panic on its overlapping arguments
    MaxElements        \* bound: messages accepted by handleUDP

ASSUME InboundAssumption ==
    /\ QueueInboundSize \in Nat \ {0} /\ QueueHandshakeSize \in Nat \ {0}
    /\ Counters \subseteq Nat /\ RejectAfterMessages \in Nat /\ CounterWindowSize \in Nat
    /\ OpenPanics \in BOOLEAN /\ MaxElements \in Nat

VARIABLES
    count,     \* messages accepted
    elem,      \* QueueInboundElement or QueueHandshakeElement, by number
    decryptionQ, inboundQ, handshakeQ,
    udp,       \* handleUDP, by connection: position, element, evicted element
    worker,    \* RoutineDecryption: position and element
    handling,  \* RoutineHandshake: the element it works on
    receiver,  \* RoutineSequentialReceiver: position and element
    passed, highest,  \* KeyPair.replayFilter
    tun        \* history: the elements written to the TUN device

qVars == <<decryptionQ, inboundQ, handshakeQ>>
filterVars == <<passed, highest>>
vars == <<count, elem, qVars, udp, worker, handling, receiver, filterVars, tun>>

Filter == INSTANCE ReplayWindow
          WITH Limit <- RejectAfterMessages, Window <- CounterWindowSize, verdict <- 0

None == 0
Elements == 1..MaxElements

\* What a message turns out to be: a packet, an empty one, one that does not
\* authenticate, or one of the handshake.
Kinds == {"packet", "keepalive", "garbled", "handshake"}

\* puts: how often the element's buffer was put back.
NoElement == [kind |-> "handshake", counter |-> 0, dropped |-> FALSE, locked |-> FALSE,
              opened |-> FALSE, puts |-> 0]

\* Faulty: the queue takes one element too many.
FullLate(q, size) == Len(q) > size

Full(q, size) == Len(q) = size
Drop(e) == [elem EXCEPT ![e].dropped = TRUE]

PutMessageBuffer(e) == elem' = [elem EXCEPT ![e].puts = @ + 1]

-----------------------------------------------------------------------------
(* RoutineReceiveIncomming and handleUDP *)

\* A new connection was signalled.
StartHandleUDP(c) ==
    /\ udp[c].pc = "closed"
    /\ udp' = [udp EXCEPT ![c].pc = "read"]
    /\ UNCHANGED <<count, elem, qVars, worker, handling, receiver, filterVars, tun>>

\* The connection is closed: ReadFromUDP returns an error.
ReturnHandleUDP(c) ==
    /\ udp[c].pc = "read"
    /\ udp' = [udp EXCEPT ![c].pc = "closed"]
    /\ UNCHANGED <<count, elem, qVars, worker, handling, receiver, filterVars, tun>>

\* A transport message of the key pair, any number of times and in any order,
\* or a handshake message of the right size.
ReadFromUDP(c) ==
    /\ udp[c].pc = "read"
    /\ count < MaxElements
    /\ count' = count + 1
    /\ \E k \in Kinds, n \in Counters :
          /\ k = "handshake" => n = 0
          /\ elem' = [elem EXCEPT ![count + 1] =
                         [NoElement EXCEPT !.kind = k, !.counter = n,
                                           !.locked = k # "handshake"]]
          /\ udp' = [udp EXCEPT ![c].pc = IF k = "handshake" THEN "handshake" ELSE "decryption",
                                ![c].elem = count + 1]
    /\ UNCHANGED <<qVars, worker, handling, receiver, filterVars, tun>>

AddToDecryptionQueue(c) ==
    /\ udp[c].pc = "decryption"
    /\ ~Full(decryptionQ, QueueInboundSize)
    /\ decryptionQ' = Append(decryptionQ, udp[c].elem)
    /\ udp' = [udp EXCEPT ![c].pc = "inbound"]
    /\ UNCHANGED <<count, elem, inboundQ, handshakeQ, worker, handling, receiver, filterVars, tun>>

\* Faulty: the evicted element is dropped and never unlocked.
EvictWithoutRelease(c) ==
    /\ udp[c].pc = "decryption"
    /\ Full(decryptionQ, QueueInboundSize)
    /\ elem' = Drop(Head(decryptionQ))
    /\ decryptionQ' = Tail(decryptionQ)
    /\ UNCHANGED <<count, inboundQ, handshakeQ, udp, worker, handling, receiver, filterVars, tun>>

\* "drop & release to potential consumer": Drop here, Unlock in the next step.
EvictFromDecryptionQueue(c) ==
    /\ udp[c].pc = "decryption"
    /\ Full(decryptionQ, QueueInboundSize)
    /\ elem' = Drop(Head(decryptionQ))
    /\ decryptionQ' = Tail(decryptionQ)
    /\ udp' = [udp EXCEPT ![c].pc = "release", ![c].old = Head(decryptionQ)]
    /\ UNCHANGED <<count, inboundQ, handshakeQ, worker, handling, receiver, filterVars, tun>>

ReleaseEvicted(c) ==
    /\ udp[c].pc = "release"
    /\ elem' = [elem EXCEPT ![udp[c].old].locked = FALSE]
    /\ udp' = [udp EXCEPT ![c].pc = "decryption", ![c].old = None]
    /\ UNCHANGED <<count, qVars, worker, handling, receiver, filterVars, tun>>

\* The message is on its way; handleUDP reads the next one into another buffer.
ReadNext(c) == udp' = [udp EXCEPT ![c].pc = "read", ![c].elem = None]

\* Faulty: the evicted element is unlocked too; its buffer goes back to the pool.
AddToInboundUnlocking(c) ==
    /\ udp[c].pc = "inbound"
    /\ \/ /\ ~Full(inboundQ, QueueInboundSize)
          /\ inboundQ' = Append(inboundQ, udp[c].elem)
          /\ ReadNext(c)
          /\ UNCHANGED elem
       \/ /\ Full(inboundQ, QueueInboundSize)
          /\ elem' = [elem EXCEPT ![Head(inboundQ)].dropped = TRUE,
                                  ![Head(inboundQ)].locked = FALSE]
          /\ inboundQ' = Tail(inboundQ)
          /\ UNCHANGED udp
    /\ UNCHANGED <<count, decryptionQ, handshakeQ, worker, handling, receiver, filterVars, tun>>
AddToInboundPutting(c) ==
    /\ udp[c].pc = "inbound"
    /\ \/ /\ ~Full(inboundQ, QueueInboundSize)
          /\ inboundQ' = Append(inboundQ, udp[c].elem)
          /\ ReadNext(c)
          /\ UNCHANGED elem
       \/ /\ Full(inboundQ, QueueInboundSize)
          /\ elem' = [elem EXCEPT ![Head(inboundQ)].dropped = TRUE,
                                  ![Head(inboundQ)].puts = @ + 1]
          /\ inboundQ' = Tail(inboundQ)
          /\ UNCHANGED udp
    /\ UNCHANGED <<count, decryptionQ, handshakeQ, worker, handling, receiver, filterVars, tun>>

AddToInboundQueue(c) ==
    /\ udp[c].pc = "inbound"
    /\ \/ /\ ~Full(inboundQ, QueueInboundSize)
          /\ inboundQ' = Append(inboundQ, udp[c].elem)
          /\ ReadNext(c)
          /\ UNCHANGED elem
       \/ /\ Full(inboundQ, QueueInboundSize)
          /\ elem' = Drop(Head(inboundQ))
          /\ inboundQ' = Tail(inboundQ)
          /\ UNCHANGED udp
    /\ UNCHANGED <<count, decryptionQ, handshakeQ, worker, handling, receiver, filterVars, tun>>

AddToHandshakeQueue(c) ==
    /\ udp[c].pc = "handshake"
    /\ \/ /\ ~Full(handshakeQ, QueueHandshakeSize)
          /\ handshakeQ' = Append(handshakeQ, udp[c].elem)
          /\ ReadNext(c)
          /\ UNCHANGED elem
       \/ /\ Full(handshakeQ, QueueHandshakeSize)
          /\ PutMessageBuffer(Head(handshakeQ))
          /\ handshakeQ' = Tail(handshakeQ)
          /\ UNCHANGED udp
    /\ UNCHANGED <<count, decryptionQ, inboundQ, worker, handling, receiver, filterVars, tun>>

-----------------------------------------------------------------------------
(* RoutineDecryption, a single goroutine, and RoutineHandshake *)

\* An element dropped from the inbound queue is skipped, its mutex locked.
TakeDecryption ==
    /\ worker.pc = "idle"
    /\ decryptionQ # <<>>
    /\ decryptionQ' = Tail(decryptionQ)
    /\ worker' = IF elem[Head(decryptionQ)].dropped THEN worker
                 ELSE [pc |-> "open", elem |-> Head(decryptionQ)]
    /\ UNCHANGED <<count, elem, inboundQ, handshakeQ, udp, handling, receiver, filterVars, tun>>

\* Faulty: an element that does not authenticate is released like any other.
OpenOnly ==
    /\ worker.pc = "open"
    /\ elem' = [elem EXCEPT ![worker.elem].opened = elem[worker.elem].kind # "garbled",
                            ![worker.elem].locked = FALSE]
    /\ worker' = [pc |-> "idle", elem |-> None]
    /\ UNCHANGED <<count, qVars, udp, handling, receiver, filterVars, tun>>

Open ==
    /\ worker.pc = "open"
    /\ LET garbled == elem[worker.elem].kind = "garbled" IN
       elem' = [elem EXCEPT ![worker.elem].opened = ~garbled,
                            ![worker.elem].dropped = @ \/ garbled,
                            ![worker.elem].locked = FALSE]
    /\ worker' = [pc |-> "idle", elem |-> None]
    /\ UNCHANGED <<count, qVars, udp, handling, receiver, filterVars, tun>>

\* The plaintext goes to the start of the buffer that holds the ciphertext; the
\* AEAD may refuse that by a panic.  recover is in the outermost function, so
\* the goroutine ends.
OpenPanicked ==
    /\ OpenPanics
    /\ worker.pc = "open"
    /\ elem[worker.elem].kind = "packet"
    /\ worker' = [worker EXCEPT !.pc = "returned"]
    /\ UNCHANGED <<count, elem, qVars, udp, handling, receiver, filterVars, tun>>

\* What RoutineHandshake does with it is module Session's; the buffer is left
\* to the garbage collector.
TakeHandshake ==
    /\ handling = None
    /\ handshakeQ # <<>>
    /\ handling' = Head(handshakeQ)
    /\ handshakeQ' = Tail(handshakeQ)
    /\ UNCHANGED <<count, elem, decryptionQ, inboundQ, udp, worker, receiver, filterVars, tun>>

FinishHandshake ==
    /\ handling # None
    /\ handling' = None
    /\ UNCHANGED <<count, elem, qVars, udp, worker, receiver, filterVars, tun>>

-----------------------------------------------------------------------------
(* RoutineSequentialReceiver *)

TakeInbound ==
    /\ receiver.pc = "idle"
    /\ inboundQ # <<>>
    /\ receiver' = [pc |-> "lock", elem |-> Head(inboundQ)]
    /\ inboundQ' = Tail(inboundQ)
    /\ UNCHANGED <<count, elem, decryptionQ, handshakeQ, udp, worker, handling, filterVars, tun>>

LockElement ==
    /\ receiver.pc = "lock"
    /\ ~elem[receiver.elem].locked
    /\ elem' = [elem EXCEPT ![receiver.elem].locked = TRUE]
    /\ receiver' = IF elem[receiver.elem].dropped THEN [pc |-> "idle", elem |-> None]
                   ELSE [receiver EXCEPT !.pc = "validate"]
    /\ UNCHANGED <<count, qVars, udp, worker, handling, filterVars, tun>>

\* ValidateCounter of the element's counter.
Remember(n) ==
    IF Filter!Passes(n)
    THEN /\ passed' = [passed EXCEPT ![n] = 1]
         /\ highest' = IF n > highest THEN n ELSE highest
    ELSE UNCHANGED <<passed, highest>>

\* Faulty: the filter is told and its answer ignored.
ValidateOnly ==
    /\ receiver.pc = "validate"
    /\ LET e == elem[receiver.elem] IN
       /\ Remember(e.counter)
       /\ \/ e.kind = "packet" /\ receiver' = [receiver EXCEPT !.pc = "write"]
          \/ receiver' = [pc |-> "idle", elem |-> None]
    /\ UNCHANGED <<count, elem, qVars, udp, worker, handling, tun>>

\* The replay filter, the timers and the promotion of the next pair (module
\* Session), the keep-alive test, and the checks of the packet's header and
\* source, which may or may not discard it.
Validate ==
    /\ receiver.pc = "validate"
    /\ LET e == elem[receiver.elem] IN
       /\ Remember(e.counter)
       /\ \/ /\ Filter!Passes(e.counter) /\ e.kind = "packet"
             /\ receiver' = [receiver EXCEPT !.pc = "write"]
          \/ receiver' = [pc |-> "idle", elem |-> None]
    /\ UNCHANGED <<count, elem, qVars, udp, worker, handling, tun>>

\* A failed Write is logged; the buffer goes back either way.
WriteTUN ==
    /\ receiver.pc = "write"
    /\ PutMessageBuffer(receiver.elem)
    /\ tun' = Append(tun, receiver.elem)
    /\ receiver' = [pc |-> "idle", elem |-> None]
    /\ UNCHANGED <<count, qVars, udp, worker, handling, filterVars>>

-----------------------------------------------------------------------------
Init ==
    /\ count = 0 /\ elem = [e \in Elements |-> NoElement]
    /\ decryptionQ = <<>> /\ inboundQ = <<>> /\ handshakeQ = <<>>
    /\ udp = [c \in Conns |-> [pc |-> "closed", elem |-> None, old |-> None]]
    /\ worker = [pc |-> "idle", elem |-> None] /\ handling = None
    /\ receiver = [pc |-> "idle", elem |-> None]
    /\ passed = [n \in Counters |-> 0] /\ highest = 0
    /\ tun = <<>>

HandleUDP(c) ==
    \/ ReadFromUDP(c) \/ AddToDecryptionQueue(c) \/ EvictFromDecryptionQueue(c)
    \/ ReleaseEvicted(c) \/ AddToInboundQueue(c) \/ AddToHandshakeQueue(c)
RoutineReceiveIncomming(c) == StartHandleUDP(c) \/ ReturnHandleUDP(c)
RoutineDecryption == TakeDecryption \/ Open \/ OpenPanicked
RoutineHandshake == TakeHandshake \/ FinishHandshake
RoutineSequentialReceiver == TakeInbound \/ LockElement \/ Validate \/ WriteTUN

Next ==
    \/ \E c \in Conns : HandleUDP(c) \/ RoutineReceiveIncomming(c)
    \/ RoutineDecryption \/ RoutineHandshake \/ RoutineSequentialReceiver

Spec == Init /\ [][Next]_vars

-----------------------------------------------------------------------------
(* Properties *)

Positions(q) == {q[i] : i \in DOMAIN q}

\* Every variable has its type; no queue is longer than its channel.
TypeOK ==
    /\ count \in 0..MaxElements
    /\ elem \in [Elements -> [kind : Kinds, counter : Nat, dropped : BOOLEAN,
                              locked : BOOLEAN, opened : BOOLEAN, puts : Nat]]
    /\ \A q \in {decryptionQ, inboundQ} : q \in Seq(1..count) /\ Len(q) <= QueueInboundSize
    /\ handshakeQ \in Seq(1..count) /\ Len(handshakeQ) <= QueueHandshakeSize
    /\ udp \in [Conns -> [pc : {"closed", "read", "decryption", "release", "inbound",
                                "handshake"},
                          elem : 0..count, old : 0..count]]
    /\ worker \in [pc : {"idle", "open", "returned"}, elem : 0..count]
    /\ handling \in 0..count
    /\ receiver \in [pc : {"idle", "lock", "validate", "write"}, elem : 0..count]
    /\ passed \in [Counters -> Nat] /\ highest \in Nat
    /\ tun \in Seq(1..count)

\* The TUN device gets authenticated packets, and none twice: an element evicted
\* from the decryption queue, or one that did not open, reaches the receiver as
\* dropped, and a message that arrives again, over either connection, is stopped
\* by the filter.
DeliveredOnce ==
    /\ \A i \in DOMAIN tun : elem[tun[i]].opened /\ elem[tun[i]].kind = "packet"
    /\ \A i, j \in DOMAIN tun : i # j => elem[tun[i]].counter # elem[tun[j]].counter

\* The filter remembers counters of authenticated messages only: one that does
\* not authenticate, or was evicted before it was opened, never makes
\* ValidateCounter refuse the genuine message with its counter.
OnlyAuthenticRemembered ==
    \A n \in Counters :
        passed[n] > 0 => \E e \in 1..count : elem[e].counter = n /\ elem[e].opened

\* A mutex is unlocked only while handleUDP's lock is held on it (unlocking an
\* unlocked sync.Mutex ends the program): the elements being opened and being
\* released are locked and all different.
UnlockOnce ==
    /\ worker.pc = "open" => elem[worker.elem].locked
    /\ \A c \in Conns : udp[c].pc = "release" =>
          /\ elem[udp[c].old].locked
          /\ udp[c].old # worker.elem
          /\ \A d \in Conns \ {c} : udp[d].old # udp[c].old

\* A receiver that waits for an element is served by somebody, unless the only
\* worker has ended: the element is queued for decryption and not skipped, is
\* being opened, or is about to be released.
ReceiverServed ==
    receiver.pc = "lock" /\ elem[receiver.elem].locked =>
        \/ receiver.elem \in Positions(decryptionQ) /\ ~elem[receiver.elem].dropped
        \/ worker.pc = "open" /\ worker.elem = receiver.elem
        \/ \E c \in Conns : udp[c].pc = "release" /\ udp[c].old = receiver.elem
        \/ worker.pc = "returned"

\* The elements some goroutine or queue still refers to.
InUse ==
    (UNION ({Positions(q) : q \in {decryptionQ, inboundQ, handshakeQ}}
            \cup {{udp[c].elem, udp[c].old} : c \in Conns}
            \cup {{worker.elem, receiver.elem, handling}})) \ {None}

\* No buffer has two owners: it is put back into the pool at most once, and only
\* when no queue and no goroutine refers to its element any more, although an
\* element can be dropped by one queue while the worker has it from the other.
BuffersExclusive ==
    \A e \in Elements :
        elem[e].puts <= 1 /\ (elem[e].puts = 1 => e \notin InUse)

=============================================================================

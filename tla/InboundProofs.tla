---------------------------- MODULE InboundProofs ----------------------------
(***************************************************************************)
(* Proofs about module InboundPipeline, for any number of connections, any *)
(* queue sizes, counters, window and number of messages, and whether or    *)
(* not Open may panic: the six invariants the run checks.                  *)
(*                                                                         *)
(* One inductive invariant, InboundInv, carries them all.  Two handleUDP   *)
(* may enqueue in any order, so nothing is said of the order of elements;  *)
(* what matters is that each is in few places at a time (Apart): with the  *)
(* handleUDP that read it or on its way to the TUN device, and beside that *)
(* with at most one holder that will unlock it.  Locking and Served say    *)
(* who unlocks an element the receiver has still to lock; Delivered ties   *)
(* what was written to the replay filter.                                  *)
(***************************************************************************)
EXTENDS InboundPipeline, TLAPS

-----------------------------------------------------------------------------
(* Queues of different elements *)

Distinct(q) == \A i, j \in DOMAIN q : i # j => q[i] # q[j]

\* A sequence over a set is one over a larger set.
LEMMA SeqMonotone ==
    ASSUME NEW S, NEW T, S \subseteq T, NEW s \in Seq(S)
    PROVE  s \in Seq(T)
  OBVIOUS

\* The members of a queue are of the queue's type.
LEMMA PositionsType ==
    ASSUME NEW S, NEW q \in Seq(S)
    PROVE  Positions(q) \subseteq S
  BY DEF Positions

\* An empty queue has no members.
LEMMA PositionsEmpty == Positions(<<>>) = {} /\ Distinct(<<>>)
  BY DEF Positions, Distinct

\* Taking the oldest element out of a queue.
LEMMA TakeHead ==
    ASSUME NEW S, NEW q \in Seq(S), q # <<>>
    PROVE  /\ Head(q) \in S /\ Tail(q) \in Seq(S)
           /\ Len(q) \in Nat /\ Len(q) > 0 /\ Len(Tail(q)) = Len(q) - 1
           /\ Positions(q) = {Head(q)} \cup Positions(Tail(q))
<1>1. Len(q) \in Nat /\ Len(q) > 0 /\ DOMAIN q = 1..Len(q) /\ Head(q) = q[1]
  OBVIOUS
<1>2. /\ Tail(q) \in Seq(S) /\ Len(Tail(q)) = Len(q) - 1 /\ DOMAIN Tail(q) = 1..(Len(q) - 1)
      /\ \A i \in 1..(Len(q) - 1) : Tail(q)[i] = q[i + 1]
  OBVIOUS
<1>3. ASSUME NEW x \in Positions(q) PROVE x \in {Head(q)} \cup Positions(Tail(q))
  <2>1. PICK i \in 1..Len(q) : x = q[i]
    BY <1>1 DEF Positions
  <2>2. CASE i = 1
    BY <2>1, <2>2, <1>1
  <2>3. CASE i # 1
    <3>1. i - 1 \in 1..(Len(q) - 1) /\ Tail(q)[i - 1] = x
      BY <2>1, <2>3, <1>1, <1>2
    <3> QED BY <3>1, <1>2 DEF Positions
  <2> QED BY <2>2, <2>3
<1>4. ASSUME NEW x \in Positions(Tail(q)) PROVE x \in Positions(q)
  <2>1. PICK i \in 1..(Len(q) - 1) : x = Tail(q)[i]
    BY <1>2 DEF Positions
  <2>2. i + 1 \in DOMAIN q /\ x = q[i + 1]
    BY <2>1, <1>1, <1>2
  <2> QED BY <2>2 DEF Positions
<1>5. Head(q) \in Positions(q) /\ Head(q) \in S
  <2>1. 1 \in DOMAIN q
    BY <1>1
  <2> QED BY <2>1, <1>1 DEF Positions
<1> QED BY <1>1, <1>2, <1>3, <1>4, <1>5

\* The element taken out is not among those that stay.
LEMMA TakeHeadDistinct ==
    ASSUME NEW S, NEW q \in Seq(S), q # <<>>, Distinct(q)
    PROVE  Distinct(Tail(q)) /\ Head(q) \notin Positions(Tail(q))
<1>1. Len(q) \in Nat /\ Len(q) > 0 /\ DOMAIN q = 1..Len(q) /\ Head(q) = q[1]
  OBVIOUS
<1>2. /\ DOMAIN Tail(q) = 1..(Len(q) - 1)
      /\ \A i \in 1..(Len(q) - 1) : Tail(q)[i] = q[i + 1]
  OBVIOUS
<1>3. \A i \in 1..(Len(q) - 1) : i + 1 \in DOMAIN q /\ 1 \in DOMAIN q /\ 1 # i + 1
  BY <1>1
<1>4. Distinct(Tail(q))
  BY <1>1, <1>2, <1>3 DEF Distinct
<1>5. Head(q) \notin Positions(Tail(q))
  BY <1>1, <1>2, <1>3 DEF Distinct, Positions
<1> QED BY <1>4, <1>5

\* Adding an element to a queue.
LEMMA AddLast ==
    ASSUME NEW S, NEW q \in Seq(S), NEW x \in S
    PROVE  /\ Append(q, x) \in Seq(S)
           /\ Len(q) \in Nat /\ Len(Append(q, x)) = Len(q) + 1
           /\ Positions(Append(q, x)) = Positions(q) \cup {x}
<1>1. /\ Append(q, x) \in Seq(S) /\ Len(q) \in Nat /\ DOMAIN q = 1..Len(q)
      /\ Len(Append(q, x)) = Len(q) + 1 /\ DOMAIN Append(q, x) = 1..(Len(q) + 1)
      /\ \A i \in 1..Len(q) : Append(q, x)[i] = q[i]
      /\ Append(q, x)[Len(q) + 1] = x
  OBVIOUS
<1>2. \A i \in 1..(Len(q) + 1) : i \in 1..Len(q) \/ i = Len(q) + 1
  BY <1>1
<1>3. 1..Len(q) \subseteq 1..(Len(q) + 1) /\ Len(q) + 1 \in 1..(Len(q) + 1)
  BY <1>1
<1> QED BY <1>1, <1>2, <1>3 DEF Positions

\* A new element is not in the queue twice.
LEMMA AddLastDistinct ==
    ASSUME NEW S, NEW q \in Seq(S), NEW x \in S, Distinct(q), x \notin Positions(q)
    PROVE  Distinct(Append(q, x))
<1>1. /\ Len(q) \in Nat /\ DOMAIN q = 1..Len(q) /\ DOMAIN Append(q, x) = 1..(Len(q) + 1)
      /\ \A i \in 1..Len(q) : Append(q, x)[i] = q[i]
      /\ Append(q, x)[Len(q) + 1] = x
  OBVIOUS
<1>2. \A i \in 1..(Len(q) + 1) : i \in 1..Len(q) \/ i = Len(q) + 1
  BY <1>1
<1>3. \A i \in 1..Len(q) : q[i] # x
  BY <1>1 DEF Positions
<1> QED BY <1>1, <1>2, <1>3 DEF Distinct

-----------------------------------------------------------------------------
(* The inductive invariant *)

Element == [kind : Kinds, counter : Nat, dropped : BOOLEAN, locked : BOOLEAN,
            opened : BOOLEAN, puts : Nat]

ElemsTyped == elem \in [Elements -> Element]

QueuesTyped ==
    /\ count \in 0..MaxElements
    /\ decryptionQ \in Seq(1..count) /\ Len(decryptionQ) <= QueueInboundSize
    /\ inboundQ \in Seq(1..count) /\ Len(inboundQ) <= QueueInboundSize
    /\ handshakeQ \in Seq(1..count) /\ Len(handshakeQ) <= QueueHandshakeSize
    /\ tun \in Seq(1..count)

Udp == [pc : {"closed", "read", "decryption", "release", "inbound", "handshake"},
        elem : 0..count, old : 0..count]

\* A routine that is busy has its element.
Places ==
    /\ \A c \in Conns :
          /\ udp[c].elem # None <=> udp[c].pc \in {"decryption", "release", "inbound", "handshake"}
          /\ udp[c].old # None <=> udp[c].pc = "release"
    /\ worker.elem # None <=> worker.pc # "idle"
    /\ receiver.elem # None <=> receiver.pc # "idle"

UdpTyped == udp \in [Conns -> Udp]

RoutinesTyped ==
    /\ worker \in [pc : {"idle", "open", "returned"}, elem : 0..count]
    /\ handling \in 0..count
    /\ receiver \in [pc : {"idle", "lock", "validate", "write"}, elem : 0..count]

FilterTyped == passed \in [Counters -> Nat] /\ highest \in Nat

Typed == ElemsTyped /\ QueuesTyped /\ UdpTyped /\ RoutinesTyped /\ FilterTyped /\ Places

\* Elements whose holder unlocks them or passes them on to one who does.
Held == Positions(decryptionQ) \cup {worker.elem} \cup {udp[c].old : c \in Conns}

\* Elements on their way from the inbound queue to the TUN device, or there.
Down == Positions(inboundQ) \cup {receiver.elem} \cup Positions(tun)

\* Handshake messages on their way to RoutineHandshake, or with it.
Shaking == Positions(handshakeQ) \cup {handling}

\* The receiver has locked its element.
Checking == receiver.pc \in {"validate", "write"}

\* The receiver has still to lock the element.
ToLock(x) ==
    \/ x \in Positions(inboundQ)
    \/ receiver.pc = "lock" /\ x = receiver.elem
    \/ \E c \in Conns : udp[c].pc = "inbound" /\ x = udp[c].elem

Apart ==
    /\ Distinct(decryptionQ) /\ Distinct(inboundQ) /\ Distinct(handshakeQ) /\ Distinct(tun)
    /\ worker.elem \notin Positions(decryptionQ)
    /\ \A c \in Conns :
          /\ udp[c].old \notin Positions(decryptionQ)
          /\ udp[c].old # None =>
                /\ udp[c].old # worker.elem
                /\ \A d \in Conns \ {c} : udp[d].old # udp[c].old
    /\ receiver.elem \notin Positions(inboundQ) /\ receiver.elem \notin Positions(tun)
    /\ \A x \in Positions(inboundQ) : x \notin Positions(tun)
    /\ handling \notin Positions(handshakeQ)
    /\ \A c \in Conns : udp[c].elem # None =>
          /\ \A d \in Conns \ {c} : udp[d].elem # udp[c].elem
          /\ udp[c].elem \notin Down /\ udp[c].elem \notin Shaking
          /\ udp[c].pc # "inbound" => udp[c].elem \notin Held
    /\ \A x \in Positions(tun) : x \notin Held
    /\ Checking => receiver.elem \notin Held

KindsKnown ==
    /\ \A x \in Held \cup Down : x # None => elem[x].kind # "handshake"
    /\ \A x \in Shaking : x # None => elem[x].kind = "handshake"
    /\ \A c \in Conns : udp[c].elem # None =>
          (elem[udp[c].elem].kind = "handshake" <=> udp[c].pc = "handshake")

Locking ==
    /\ \A x \in Held : x # None => elem[x].locked
    /\ \A c \in Conns : udp[c].old # None => elem[udp[c].old].dropped
    /\ \A c \in Conns : udp[c].pc \in {"decryption", "release"} =>
          elem[udp[c].elem].locked /\ ~elem[udp[c].elem].dropped

Served ==
    /\ \A x \in Elements : ToLock(x) =>
          IF elem[x].locked
          THEN \/ x \in Positions(decryptionQ) /\ ~elem[x].dropped
               \/ worker.pc = "open" /\ worker.elem = x
               \/ \E c \in Conns : udp[c].old = x
               \/ worker.pc = "returned"
          ELSE elem[x].opened \/ elem[x].dropped
    /\ Checking => elem[receiver.elem].opened

Delivered ==
    /\ \A x \in Positions(tun) :
          elem[x].opened /\ elem[x].kind = "packet" /\ passed[elem[x].counter] > 0
    /\ \A x, y \in Positions(tun) : x # y => elem[x].counter # elem[y].counter
    /\ receiver.pc = "write" =>
          /\ elem[receiver.elem].kind = "packet" /\ passed[elem[receiver.elem].counter] > 0
          /\ \A x \in Positions(tun) : elem[x].counter # elem[receiver.elem].counter
    /\ \A x \in Elements : elem[x].opened => elem[x].kind # "garbled"
    /\ \A x \in 1..count : elem[x].counter \in Counters
    /\ OnlyAuthenticRemembered

InboundInv ==
    Typed /\ Apart /\ KindsKnown /\ Locking /\ Served /\ Delivered /\ BuffersExclusive

USE DEF vars, qVars, filterVars

-----------------------------------------------------------------------------
(* Typing *)

\* The parts imply the type invariant of the run.
LEMMA TypedIsTypeOK == Typed => TypeOK
  BY DEF Typed, ElemsTyped, Element, QueuesTyped, UdpTyped, Udp, RoutinesTyped, FilterTyped, TypeOK

\* The members of the queues are numbers of elements.
LEMMA Members ==
    ASSUME Typed
    PROVE  /\ count \in Nat /\ MaxElements \in Nat /\ count <= MaxElements
           /\ 1..count \subseteq Elements /\ None \in 0..count
           /\ \A x \in 0..count : x # None => x \in Elements /\ x \in 1..count
           /\ decryptionQ \in Seq(1..count) /\ inboundQ \in Seq(1..count)
           /\ handshakeQ \in Seq(1..count) /\ tun \in Seq(1..count)
           /\ decryptionQ \in Seq(Elements) /\ inboundQ \in Seq(Elements)
           /\ handshakeQ \in Seq(Elements) /\ tun \in Seq(Elements)
           /\ Positions(decryptionQ) \subseteq 1..count
           /\ Positions(inboundQ) \subseteq 1..count
           /\ Positions(handshakeQ) \subseteq 1..count
           /\ Positions(tun) \subseteq 1..count
           /\ \A c \in Conns : udp[c].elem \in 0..count /\ udp[c].old \in 0..count
           /\ worker.elem \in 0..count /\ receiver.elem \in 0..count /\ handling \in 0..count
<1>1. /\ decryptionQ \in Seq(1..count) /\ inboundQ \in Seq(1..count)
      /\ handshakeQ \in Seq(1..count) /\ tun \in Seq(1..count)
  BY DEF Typed, QueuesTyped
<1>2. /\ count \in Nat /\ MaxElements \in Nat /\ count <= MaxElements
      /\ 1..count \subseteq Elements /\ None \in 0..count
      /\ \A x \in 0..count : x # None => x \in Elements /\ x \in 1..count
  BY InboundAssumption DEF Typed, QueuesTyped, Elements, None
<1>3. \A c \in Conns : udp[c].elem \in 0..count /\ udp[c].old \in 0..count
  BY DEF Typed, UdpTyped, Udp
<1>4. worker.elem \in 0..count /\ receiver.elem \in 0..count /\ handling \in 0..count
  BY DEF Typed, RoutinesTyped
<1> QED BY <1>1, <1>2, <1>3, <1>4, PositionsType, SeqMonotone

\* Whatever is in a place is an element, and no queue holds nothing.
LEMMA InElements ==
    ASSUME Typed
    PROVE  /\ \A x \in Held \cup Down \cup Shaking : x # None => x \in Elements /\ x \in 1..count
           /\ \A c \in Conns : udp[c].elem # None => udp[c].elem \in Elements /\ udp[c].elem \in 1..count
           /\ \A c \in Conns : udp[c].old # None => udp[c].old \in Elements
           /\ None \notin Positions(decryptionQ) /\ None \notin Positions(inboundQ)
           /\ None \notin Positions(handshakeQ) /\ None \notin Positions(tun)
           /\ Positions(tun) \subseteq Elements
           /\ \A x \in Elements : x # None
           /\ receiver.pc # "idle" => receiver.elem # None /\ receiver.elem \in Elements
           /\ worker.pc # "idle" => worker.elem # None /\ worker.elem \in Elements
<1>1. Held \cup Down \cup Shaking \subseteq 0..count
  BY Members DEF Held, Down, Shaking
<1>2. \A x \in 1..count : x # None
  BY DEF None
<1>3. \A x \in Elements : x # None
  BY DEF None, Elements
<1>4. /\ None \notin Positions(decryptionQ) /\ None \notin Positions(inboundQ)
      /\ None \notin Positions(handshakeQ) /\ None \notin Positions(tun)
  BY <1>2, Members
<1> QED BY <1>1, <1>3, <1>4, Members DEF Typed, Places

\* What Drop changes in an element, and what it leaves alone.
LEMMA DropFacts ==
    ASSUME ElemsTyped, NEW e \in Elements
    PROVE  /\ Drop(e) \in [Elements -> Element]
           /\ \A x \in Elements \ {e} : Drop(e)[x] = elem[x]
           /\ Drop(e)[e].dropped
           /\ Drop(e)[e].kind = elem[e].kind /\ Drop(e)[e].counter = elem[e].counter
           /\ Drop(e)[e].locked = elem[e].locked /\ Drop(e)[e].opened = elem[e].opened
           /\ Drop(e)[e].puts = elem[e].puts
  BY DEF Drop, ElemsTyped, Element

\* The same for locking its mutex.
LEMMA LockFacts ==
    ASSUME ElemsTyped, NEW e \in Elements, elem' = [elem EXCEPT ![e].locked = TRUE]
    PROVE  /\ elem' \in [Elements -> Element]
           /\ \A x \in Elements \ {e} : elem'[x] = elem[x]
           /\ elem'[e].locked
           /\ elem'[e].kind = elem[e].kind /\ elem'[e].counter = elem[e].counter
           /\ elem'[e].dropped = elem[e].dropped /\ elem'[e].opened = elem[e].opened
           /\ elem'[e].puts = elem[e].puts
  BY DEF ElemsTyped, Element

\* And for unlocking it.
LEMMA UnlockFacts ==
    ASSUME ElemsTyped, NEW e \in Elements, elem' = [elem EXCEPT ![e].locked = FALSE]
    PROVE  /\ elem' \in [Elements -> Element]
           /\ \A x \in Elements \ {e} : elem'[x] = elem[x]
           /\ ~elem'[e].locked
           /\ elem'[e].kind = elem[e].kind /\ elem'[e].counter = elem[e].counter
           /\ elem'[e].dropped = elem[e].dropped /\ elem'[e].opened = elem[e].opened
           /\ elem'[e].puts = elem[e].puts
  BY DEF ElemsTyped, Element

\* Putting the buffer back.
LEMMA PutFacts ==
    ASSUME ElemsTyped, NEW e \in Elements, PutMessageBuffer(e)
    PROVE  /\ elem' \in [Elements -> Element]
           /\ \A x \in Elements \ {e} : elem'[x] = elem[x]
           /\ elem'[e].puts = elem[e].puts + 1
           /\ elem'[e].kind = elem[e].kind /\ elem'[e].counter = elem[e].counter
           /\ elem'[e].locked = elem[e].locked /\ elem'[e].opened = elem[e].opened
           /\ elem'[e].dropped = elem[e].dropped
  BY DEF ElemsTyped, Element, PutMessageBuffer

\* Opening an element: one that does not authenticate is dropped.
LEMMA OpenFacts ==
    ASSUME Typed, Open
    PROVE  /\ worker.elem \in Elements
           /\ elem' \in [Elements -> Element]
           /\ \A x \in Elements \ {worker.elem} : elem'[x] = elem[x]
           /\ ~elem'[worker.elem].locked
           /\ elem'[worker.elem].opened \/ elem'[worker.elem].dropped
           /\ elem'[worker.elem].opened <=> elem[worker.elem].kind # "garbled"
           /\ elem'[worker.elem].kind = elem[worker.elem].kind
           /\ elem'[worker.elem].counter = elem[worker.elem].counter
           /\ elem'[worker.elem].puts = elem[worker.elem].puts
<1> DEFINE e == worker.elem
           g == elem[e].kind = "garbled"
<1>1. e \in Elements
  BY InElements DEF Open
<1>2. g \in BOOLEAN /\ elem[e] \in Element
  BY <1>1 DEF Typed, ElemsTyped
<1>3. elem' = [elem EXCEPT ![e].opened = ~g, ![e].dropped = elem[e].dropped \/ g, ![e].locked = FALSE]
  BY DEF Open
<1> HIDE DEF g, e
<1>4. /\ elem' \in [Elements -> Element]
      /\ \A x \in Elements \ {e} : elem'[x] = elem[x]
      /\ elem'[e].locked = FALSE /\ elem'[e].opened = ~g /\ elem'[e].dropped = (elem[e].dropped \/ g)
      /\ elem'[e].kind = elem[e].kind /\ elem'[e].counter = elem[e].counter
      /\ elem'[e].puts = elem[e].puts
  BY <1>1, <1>2, <1>3 DEF Typed, ElemsTyped, Element
<1> QED BY <1>1, <1>4 DEF g, e

\* A handleUDP with a new position.
LEMMA UdpPc ==
    ASSUME UdpTyped, NEW c \in Conns,
           NEW p \in {"closed", "read", "decryption", "release", "inbound", "handshake"},
           udp' = [udp EXCEPT ![c].pc = p]
    PROVE  /\ udp' \in [Conns -> Udp]
           /\ udp'[c].pc = p /\ udp'[c].elem = udp[c].elem /\ udp'[c].old = udp[c].old
           /\ \A d \in Conns \ {c} : udp'[d] = udp[d]
  BY DEF UdpTyped, Udp

\* A handleUDP with a new position and element.
LEMMA UdpPcElem ==
    ASSUME UdpTyped, NEW c \in Conns, NEW e \in 0..count,
           NEW p \in {"closed", "read", "decryption", "release", "inbound", "handshake"},
           udp' = [udp EXCEPT ![c].pc = p, ![c].elem = e]
    PROVE  /\ udp' \in [Conns -> Udp]
           /\ udp'[c].pc = p /\ udp'[c].elem = e /\ udp'[c].old = udp[c].old
           /\ \A d \in Conns \ {c} : udp'[d] = udp[d]
  BY DEF UdpTyped, Udp

\* A handleUDP with a new position and evicted element.
LEMMA UdpPcOld ==
    ASSUME UdpTyped, NEW c \in Conns, NEW o \in 0..count,
           NEW p \in {"closed", "read", "decryption", "release", "inbound", "handshake"},
           udp' = [udp EXCEPT ![c].pc = p, ![c].old = o]
    PROVE  /\ udp' \in [Conns -> Udp]
           /\ udp'[c].pc = p /\ udp'[c].elem = udp[c].elem /\ udp'[c].old = o
           /\ \A d \in Conns \ {c} : udp'[d] = udp[d]
  BY DEF UdpTyped, Udp

\* A full queue holds an element.
LEMMA FullQueue ==
    ASSUME NEW q \in Seq(1..count), Full(q, QueueInboundSize) \/ Full(q, QueueHandshakeSize)
    PROVE  q # <<>>
  BY InboundAssumption DEF Full

\* Parts of the type that a step leaves alone.
LEMMA TypedKept ==
    /\ ElemsTyped /\ UNCHANGED elem => ElemsTyped'
    /\ QueuesTyped /\ UNCHANGED <<count, qVars, tun>> => QueuesTyped'
    /\ UdpTyped /\ UNCHANGED <<count, udp>> => UdpTyped'
    /\ RoutinesTyped /\ UNCHANGED <<count, worker, handling, receiver>> => RoutinesTyped'
    /\ FilterTyped /\ UNCHANGED filterVars => FilterTyped'
    /\ Places /\ UNCHANGED <<udp, worker, receiver>> => Places'
  BY DEF ElemsTyped, QueuesTyped, UdpTyped, Udp, RoutinesTyped, FilterTyped, Places

\* The type of the handleUDP routines depends on the number of elements only.
LEMMA UdpTypedKept ==
    ASSUME udp' \in [Conns -> Udp], UNCHANGED count
    PROVE  UdpTyped'
  BY DEF UdpTyped, Udp

\* A position of a handleUDP goes with its elements.
LEMMA UdpPlaces ==
    ASSUME Typed, NEW c \in Conns, \A d \in Conns \ {c} : udp'[d] = udp[d],
           udp'[c].elem # None <=> udp'[c].pc \in {"decryption", "release", "inbound", "handshake"},
           udp'[c].old # None <=> udp'[c].pc = "release",
           UNCHANGED <<worker, receiver>>
    PROVE  Places'
  BY DEF Typed, Places

-----------------------------------------------------------------------------
(* Steps that leave parts of the invariant alone *)

\* The elements in use, one place at a time.
LEMMA InUseMembers ==
    \A x : x \in InUse <=>
        /\ x # None
        /\ \/ x \in Positions(decryptionQ) \/ x \in Positions(inboundQ) \/ x \in Positions(handshakeQ)
           \/ \E c \in Conns : x = udp[c].elem \/ x = udp[c].old
           \/ x = worker.elem \/ x = receiver.elem \/ x = handling
<1>1. \A x : (\E s \in {Positions(q) : q \in {decryptionQ, inboundQ, handshakeQ}} : x \in s) <=>
         x \in Positions(decryptionQ) \/ x \in Positions(inboundQ) \/ x \in Positions(handshakeQ)
  OBVIOUS
<1>2. \A x : (\E s \in {{udp[c].elem, udp[c].old} : c \in Conns} : x \in s) <=>
         \E c \in Conns : x = udp[c].elem \/ x = udp[c].old
  <2>1. ASSUME NEW x, NEW s \in {{udp[c].elem, udp[c].old} : c \in Conns}, x \in s
        PROVE  \E c \in Conns : x = udp[c].elem \/ x = udp[c].old
    BY <2>1
  <2>2. ASSUME NEW x, NEW c \in Conns, x = udp[c].elem \/ x = udp[c].old
        PROVE  \E s \in {{udp[d].elem, udp[d].old} : d \in Conns} : x \in s
    <3>1. {udp[c].elem, udp[c].old} \in {{udp[d].elem, udp[d].old} : d \in Conns}
      OBVIOUS
    <3> QED BY <2>2, <3>1, Zenon
  <2> QED BY <2>1, <2>2
<1>3. \A x : (\E s \in {{worker.elem, receiver.elem, handling}} : x \in s) <=>
         x = worker.elem \/ x = receiver.elem \/ x = handling
  OBVIOUS
<1> DEFINE A == {Positions(q) : q \in {decryptionQ, inboundQ, handshakeQ}}
           B == {{udp[c].elem, udp[c].old} : c \in Conns}
           C == {{worker.elem, receiver.elem, handling}}
<1>4. InUse = (UNION (A \cup B \cup C)) \ {None}
  BY DEF InUse
<1> HIDE DEF A, B, C
<1>5. \A x : x \in InUse <=> x # None /\ ((\E s \in A : x \in s) \/ (\E s \in B : x \in s)
                                             \/ (\E s \in C : x \in s))
  BY <1>4
<1> QED BY <1>1, <1>2, <1>3, <1>5 DEF A, B, C

\* The same in the next state.
LEMMA InUseMembersNext ==
    \A x : x \in InUse' <=>
        /\ x # None
        /\ \/ x \in Positions(decryptionQ') \/ x \in Positions(inboundQ') \/ x \in Positions(handshakeQ')
           \/ \E c \in Conns : x = udp'[c].elem \/ x = udp'[c].old
           \/ x = worker'.elem \/ x = receiver'.elem \/ x = handling'
<1>1. \A x : (\E s \in {Positions(q) : q \in {decryptionQ', inboundQ', handshakeQ'}} : x \in s) <=>
         x \in Positions(decryptionQ') \/ x \in Positions(inboundQ') \/ x \in Positions(handshakeQ')
  OBVIOUS
<1>2. \A x : (\E s \in {{udp'[c].elem, udp'[c].old} : c \in Conns} : x \in s) <=>
         \E c \in Conns : x = udp'[c].elem \/ x = udp'[c].old
  <2>1. ASSUME NEW x, NEW s \in {{udp'[c].elem, udp'[c].old} : c \in Conns}, x \in s
        PROVE  \E c \in Conns : x = udp'[c].elem \/ x = udp'[c].old
    BY <2>1
  <2>2. ASSUME NEW x, NEW c \in Conns, x = udp'[c].elem \/ x = udp'[c].old
        PROVE  \E s \in {{udp'[d].elem, udp'[d].old} : d \in Conns} : x \in s
    <3>1. {udp'[c].elem, udp'[c].old} \in {{udp'[d].elem, udp'[d].old} : d \in Conns}
      OBVIOUS
    <3> QED BY <2>2, <3>1, Zenon
  <2> QED BY <2>1, <2>2
<1>3. \A x : (\E s \in {{worker'.elem, receiver'.elem, handling'}} : x \in s) <=>
         x = worker'.elem \/ x = receiver'.elem \/ x = handling'
  OBVIOUS
<1> DEFINE A == {Positions(q) : q \in {decryptionQ', inboundQ', handshakeQ'}}
           B == {{udp'[c].elem, udp'[c].old} : c \in Conns}
           C == {{worker'.elem, receiver'.elem, handling'}}
<1>4. InUse' = (UNION (A \cup B \cup C)) \ {None}
  BY DEF InUse
<1> HIDE DEF A, B, C
<1>5. \A x : x \in InUse' <=> x # None /\ ((\E s \in A : x \in s) \/ (\E s \in B : x \in s)
                                             \/ (\E s \in C : x \in s))
  BY <1>4
<1> QED BY <1>1, <1>2, <1>3, <1>5 DEF A, B, C

\* Whatever is in a place is in use.
LEMMA PlacesInUse ==
    ASSUME Typed
    PROVE  /\ Positions(decryptionQ) \subseteq InUse /\ Positions(inboundQ) \subseteq InUse
           /\ Positions(handshakeQ) \subseteq InUse
           /\ \A d \in Conns : udp[d].elem # None => udp[d].elem \in InUse
           /\ \A d \in Conns : udp[d].old # None => udp[d].old \in InUse
           /\ worker.elem # None => worker.elem \in InUse
           /\ receiver.elem # None => receiver.elem \in InUse
           /\ handling # None => handling \in InUse
<1>1. /\ None \notin Positions(decryptionQ) /\ None \notin Positions(inboundQ)
      /\ None \notin Positions(handshakeQ)
  BY InElements
<1>2. Positions(decryptionQ) \subseteq InUse
  BY <1>1, InUseMembers
<1>3. Positions(inboundQ) \subseteq InUse
  BY <1>1, InUseMembers
<1>4. Positions(handshakeQ) \subseteq InUse
  BY <1>1, InUseMembers
<1>5. \A d \in Conns : udp[d].elem # None => udp[d].elem \in InUse
  BY InUseMembers
<1>6. \A d \in Conns : udp[d].old # None => udp[d].old \in InUse
  BY InUseMembers
<1>7. /\ worker.elem # None => worker.elem \in InUse
      /\ receiver.elem # None => receiver.elem \in InUse
      /\ handling # None => handling \in InUse
  BY InUseMembers
<1> QED BY <1>2, <1>3, <1>4, <1>5, <1>6, <1>7

\* A step after which every place holds what was in use before.
LEMMA InUseKept ==
    ASSUME \A x \in Positions(decryptionQ') : x \in InUse,
           \A x \in Positions(inboundQ') : x \in InUse,
           \A x \in Positions(handshakeQ') : x \in InUse,
           \A d \in Conns : udp'[d].elem # None => udp'[d].elem \in InUse,
           \A d \in Conns : udp'[d].old # None => udp'[d].old \in InUse,
           worker'.elem # None => worker'.elem \in InUse,
           receiver'.elem # None => receiver'.elem \in InUse,
           handling' # None => handling' \in InUse
    PROVE  InUse' \subseteq InUse
<1> SUFFICES ASSUME NEW x \in InUse' PROVE x \in InUse
  OBVIOUS
<1> QED BY InUseMembersNext

\* The same, with an element that is in no place any more.
LEMMA InUseLess ==
    ASSUME NEW e,
           \A x \in Positions(decryptionQ') : x \in InUse /\ x # e,
           \A x \in Positions(inboundQ') : x \in InUse /\ x # e,
           \A x \in Positions(handshakeQ') : x \in InUse /\ x # e,
           \A d \in Conns : udp'[d].elem # None => udp'[d].elem \in InUse /\ udp'[d].elem # e,
           \A d \in Conns : udp'[d].old # None => udp'[d].old \in InUse /\ udp'[d].old # e,
           worker'.elem # None => worker'.elem \in InUse /\ worker'.elem # e,
           receiver'.elem # None => receiver'.elem \in InUse /\ receiver'.elem # e,
           handling' # None => handling' \in InUse /\ handling' # e
    PROVE  InUse' \subseteq InUse \ {e}
<1> SUFFICES ASSUME NEW x \in InUse' PROVE x \in InUse /\ x # e
  OBVIOUS
<1> QED BY InUseMembersNext

\* A step that puts no buffer back and starts using no element.
LEMMA BuffersKept ==
    ASSUME BuffersExclusive, InUse' \subseteq InUse,
           \A x \in Elements : elem'[x].puts = elem[x].puts
    PROVE  BuffersExclusive'
  BY DEF BuffersExclusive

\* A step that puts back the buffer of an element it stops using.
LEMMA BuffersPut ==
    ASSUME BuffersExclusive, ElemsTyped, NEW e \in Elements, e \in InUse, InUse' \subseteq InUse \ {e},
           \A x \in Elements \ {e} : elem'[x] = elem[x],
           elem'[e].puts = elem[e].puts + 1
    PROVE  BuffersExclusive'
<1>1. elem[e].puts = 0
  BY DEF BuffersExclusive, ElemsTyped, Element
<1> QED BY <1>1 DEF BuffersExclusive

\* Parts of the invariant that a step leaves alone.
LEMMA InvKept ==
    /\ Apart /\ UNCHANGED <<qVars, udp, worker, handling, receiver, tun>> => Apart'
    /\ KindsKnown /\ UNCHANGED <<elem, qVars, udp, worker, handling, receiver, tun>> => KindsKnown'
    /\ Locking /\ UNCHANGED <<elem, decryptionQ, udp, worker>> => Locking'
    /\ Served /\ UNCHANGED <<elem, decryptionQ, inboundQ, udp, worker, receiver>> => Served'
    /\ Delivered /\ UNCHANGED <<count, elem, receiver, passed, tun>> => Delivered'
    /\ BuffersExclusive /\ UNCHANGED <<elem, qVars, udp, worker, handling, receiver>>
          => BuffersExclusive'
<1>1. Apart /\ UNCHANGED <<qVars, udp, worker, handling, receiver, tun>> => Apart'
  BY DEF Apart, Held, Down, Shaking, Checking
<1>2. KindsKnown /\ UNCHANGED <<elem, qVars, udp, worker, handling, receiver, tun>> => KindsKnown'
  BY DEF KindsKnown, Held, Down, Shaking
<1>3. Locking /\ UNCHANGED <<elem, decryptionQ, udp, worker>> => Locking'
  BY DEF Locking, Held
<1>4. Served /\ UNCHANGED <<elem, decryptionQ, inboundQ, udp, worker, receiver>> => Served'
  BY DEF Served, ToLock, Checking
<1>5. Delivered /\ UNCHANGED <<count, elem, receiver, passed, tun>> => Delivered'
  BY DEF Delivered, OnlyAuthenticRemembered
<1>6. BuffersExclusive /\ UNCHANGED <<elem, qVars, udp, worker, handling, receiver>>
          => BuffersExclusive'
  BY DEF BuffersExclusive, InUse
<1> QED BY <1>1, <1>2, <1>3, <1>4, <1>5, <1>6

\* Nothing has arrived at first.
LEMMA InboundInitInv == Init => InboundInv
<1>  SUFFICES ASSUME Init PROVE InboundInv
  OBVIOUS
<1>1. Typed
  <2>1. NoElement \in Element /\ NoElement.opened = FALSE /\ NoElement.puts = 0
    BY DEF NoElement, Element, Kinds
  <2>2. ElemsTyped
    BY <2>1 DEF Init, ElemsTyped
  <2>3. QueuesTyped /\ RoutinesTyped
    BY InboundAssumption DEF Init, QueuesTyped, RoutinesTyped, None
  <2>4. UdpTyped /\ Places
    BY InboundAssumption DEF Init, UdpTyped, Udp, Places, None
  <2>5. FilterTyped
    BY DEF Init, FilterTyped
  <2> QED BY <2>2, <2>3, <2>4, <2>5 DEF Typed
<1>2. /\ \A x \in Held \cup Down \cup Shaking : x = None
      /\ \A c \in Conns : udp[c].elem = None /\ udp[c].old = None /\ udp[c].pc = "closed"
      /\ worker.elem = None /\ receiver.elem = None /\ handling = None
      /\ receiver.pc = "idle"
  BY PositionsEmpty DEF Init, Held, Down, Shaking
<1>3. /\ Positions(decryptionQ) = {} /\ Positions(inboundQ) = {} /\ Positions(handshakeQ) = {}
      /\ Positions(tun) = {}
      /\ Distinct(decryptionQ) /\ Distinct(inboundQ) /\ Distinct(handshakeQ) /\ Distinct(tun)
  BY PositionsEmpty DEF Init
<1>4. \A x \in Elements : elem[x].opened = FALSE /\ elem[x].puts = 0
  BY DEF Init, NoElement
<1>5. Apart /\ KindsKnown /\ Locking
  BY <1>2, <1>3 DEF Apart, KindsKnown, Locking, Checking
<1>6. Served
  BY <1>2, <1>3 DEF Served, ToLock, Checking
<1>7. Delivered
  <2>1. OnlyAuthenticRemembered
    BY DEF Init, OnlyAuthenticRemembered
  <2>2. \A x \in 1..count : FALSE
    BY DEF Init
  <2> QED BY <1>2, <1>3, <1>4, <2>1, <2>2 DEF Delivered
<1>8. BuffersExclusive
  <2>1. \A x \in Elements : x \notin InUse
    BY <1>2, <1>3, <1>1, InUseMembers
  <2> QED BY <1>4, <2>1 DEF BuffersExclusive
<1> QED BY <1>1, <1>5, <1>6, <1>7, <1>8 DEF InboundInv

-----------------------------------------------------------------------------
(* handleUDP *)

\* A connection begins or ends: its handleUDP has no element.
LEMMA ConnectionInv ==
    ASSUME InboundInv, NEW c \in Conns, StartHandleUDP(c) \/ ReturnHandleUDP(c)
    PROVE  InboundInv'
<1>1. UNCHANGED <<count, elem, qVars, worker, handling, receiver, filterVars, tun>>
  BY DEF StartHandleUDP, ReturnHandleUDP
<1>2. /\ udp' \in [Conns -> Udp] /\ udp[c].pc \in {"closed", "read"} /\ udp'[c].pc \in {"closed", "read"}
      /\ udp'[c].elem = udp[c].elem /\ udp'[c].old = udp[c].old
      /\ \A d \in Conns \ {c} : udp'[d] = udp[d]
  BY UdpPc DEF StartHandleUDP, ReturnHandleUDP, InboundInv, Typed
<1>3. /\ \A d \in Conns : udp'[d].elem = udp[d].elem /\ udp'[d].old = udp[d].old
      /\ \A d \in Conns : udp'[d].pc = udp[d].pc
                          \/ (udp[d].pc \in {"closed", "read"} /\ udp'[d].pc \in {"closed", "read"})
      /\ udp[c].elem = None /\ udp[c].old = None
  BY <1>2 DEF InboundInv, Typed, Places
<1>4. Typed'
  <2>1. Places'
    BY <1>1, <1>2, <1>3, UdpPlaces DEF InboundInv
  <2> QED BY <1>1, <1>2, <2>1, TypedKept, UdpTypedKept DEF InboundInv, Typed
<1>5. Held' = Held /\ Down' = Down /\ Shaking' = Shaking
  BY <1>1, <1>3 DEF Held, Down, Shaking
<1>6. Apart'
  BY <1>1, <1>3, <1>5 DEF InboundInv, Apart, Checking
<1>7. KindsKnown' /\ Locking'
  BY <1>1, <1>3, <1>5 DEF InboundInv, KindsKnown, Locking
<1>8. Served'
  BY <1>1, <1>3 DEF InboundInv, Served, ToLock, Checking
<1>9. BuffersExclusive'
  <2>1. InUse' \subseteq InUse
    BY <1>1, <1>3, InUseMembers, InUseMembersNext
  <2> QED BY <1>1, <2>1, BuffersKept DEF InboundInv
<1> QED BY <1>1, <1>4, <1>6, <1>7, <1>8, <1>9, InvKept DEF InboundInv

\* A message is accepted: its element is new to every place.
LEMMA ReadInv ==
    ASSUME InboundInv, NEW c \in Conns, ReadFromUDP(c)
    PROVE  InboundInv'
<1> DEFINE e == count + 1
<1>1. /\ UNCHANGED <<qVars, worker, handling, receiver, filterVars, tun>>
      /\ udp[c].pc = "read" /\ count' = e
  BY DEF ReadFromUDP
<1>2. PICK k \in Kinds, n \in Counters :
         /\ k = "handshake" => n = 0
         /\ elem' = [elem EXCEPT ![e] = [NoElement EXCEPT !.kind = k, !.counter = n,
                                                          !.locked = k # "handshake"]]
         /\ udp' = [udp EXCEPT ![c].pc = IF k = "handshake" THEN "handshake" ELSE "decryption",
                               ![c].elem = e]
  BY DEF ReadFromUDP
<1>3. /\ e \in Elements /\ e # None /\ count \in Nat /\ count' \in 0..MaxElements
      /\ 1..count' = 1..count \cup {e} /\ 0..count \subseteq 0..count' /\ e \in 0..count'
      /\ \A x \in 0..count : x # e
  BY Members DEF ReadFromUDP, InboundInv, Elements, None
<1>4. /\ elem'[e].kind = k /\ elem'[e].counter = n /\ (elem'[e].locked <=> k # "handshake")
      /\ ~elem'[e].dropped /\ ~elem'[e].opened /\ elem'[e].puts = 0
      /\ elem' \in [Elements -> Element] /\ \A x \in Elements \ {e} : elem'[x] = elem[x]
  <2> DEFINE b == k # "handshake"
             r == [NoElement EXCEPT !.kind = k, !.counter = n, !.locked = b]
  <2>1. n \in Nat /\ b \in BOOLEAN /\ (b <=> k # "handshake")
    BY InboundAssumption
  <2>2. elem' = [elem EXCEPT ![e] = r]
    BY <1>2
  <2> HIDE DEF b
  <2>4. r = [NoElement EXCEPT !.kind = k, !.counter = n, !.locked = b] /\ k \in Kinds
    OBVIOUS
  <2> HIDE DEF r
  <2>3. /\ r \in Element /\ r.kind = k /\ r.counter = n /\ r.locked = b
        /\ ~r.dropped /\ ~r.opened /\ r.puts = 0
    <3>1. /\ NoElement \in Element /\ ~NoElement.dropped /\ ~NoElement.opened /\ NoElement.puts = 0
      BY DEF NoElement, Element, Kinds
    <3> QED BY <2>1, <2>4, <3>1 DEF Element
  <2>6. elem' \in [Elements -> Element] /\ elem'[e] = r /\ \A x \in Elements \ {e} : elem'[x] = elem[x]
    BY <1>3, <2>3, <2>2 DEF InboundInv, Typed, ElemsTyped
  <2> QED BY <2>1, <2>3, <2>6
<1>5. /\ UdpTyped' /\ udp'[c].elem = e /\ udp'[c].old = udp[c].old
      /\ udp'[c].pc = IF k = "handshake" THEN "handshake" ELSE "decryption"
      /\ \A d \in Conns \ {c} : udp'[d] = udp[d]
  BY <1>2, <1>3 DEF InboundInv, Typed, UdpTyped, Udp
<1>6. udp[c].elem = None /\ udp[c].old = None
  BY <1>1 DEF InboundInv, Typed, Places
<1>7. Typed'
  <2>1. ElemsTyped'
    BY <1>4 DEF ElemsTyped
  <2>2. QueuesTyped'
    <3>1. /\ decryptionQ \in Seq(1..count') /\ inboundQ \in Seq(1..count')
          /\ handshakeQ \in Seq(1..count') /\ tun \in Seq(1..count')
      BY <1>3, Members, SeqMonotone DEF InboundInv
    <3> QED BY <1>1, <1>3, <3>1 DEF InboundInv, Typed, QueuesTyped
  <2>3. RoutinesTyped'
    BY <1>1, <1>3 DEF InboundInv, Typed, RoutinesTyped
  <2>4. Places'
    BY <1>1, <1>3, <1>5, <1>6, UdpPlaces DEF InboundInv
  <2> QED BY <1>1, <1>5, <2>1, <2>2, <2>3, <2>4, TypedKept DEF InboundInv, Typed
<1> HIDE DEF e
<1>8. Held' = Held /\ Down' = Down /\ Shaking' = Shaking
  <2>1. \A d \in Conns : udp'[d].old = udp[d].old
    BY <1>5
  <2> QED BY <1>1, <2>1 DEF Held, Down, Shaking
<1>9. /\ e \notin Held /\ e \notin Down /\ e \notin Shaking /\ e \notin Positions(tun)
      /\ \A d \in Conns : udp[d].elem # e /\ udp[d].old # e
      /\ e # receiver.elem /\ e # worker.elem
  <2>1. Held \cup Down \cup Shaking \subseteq 0..count
    BY Members DEF Held, Down, Shaking, InboundInv
  <2>2. \A d \in Conns : udp[d].elem # e /\ udp[d].old # e
    BY <1>3, Members DEF InboundInv
  <2>3. e \notin Held /\ e \notin Down /\ e \notin Shaking
    BY <1>3, <2>1
  <2> QED BY <2>2, <2>3 DEF Down, Held
<1>10. Apart'
  <2>1. \A d \in Conns : udp'[d].elem # None =>
           /\ \A b \in Conns \ {d} : udp'[b].elem # udp'[d].elem
           /\ udp'[d].elem \notin Down /\ udp'[d].elem \notin Shaking
           /\ udp'[d].pc # "inbound" => udp'[d].elem \notin Held
    <3> SUFFICES ASSUME NEW d \in Conns, udp'[d].elem # None
                 PROVE  /\ \A b \in Conns \ {d} : udp'[b].elem # udp'[d].elem
                        /\ udp'[d].elem \notin Down /\ udp'[d].elem \notin Shaking
                        /\ udp'[d].pc # "inbound" => udp'[d].elem \notin Held
      OBVIOUS
    <3>1. CASE d = c
      BY <1>5, <1>9, <3>1
    <3>2. CASE d # c
      BY <1>5, <1>9, <3>2 DEF InboundInv, Apart
    <3> QED BY <3>1, <3>2
  <2>2. \A d \in Conns : udp'[d].old = udp[d].old
    BY <1>5
  <2> QED BY <1>1, <1>8, <2>1, <2>2 DEF InboundInv, Apart, Checking
<1>11. KindsKnown'
  <2>1. \A x \in Held \cup Down \cup Shaking : x # None => elem'[x] = elem[x]
    BY <1>4, <1>9, InElements DEF InboundInv
  <2>2. \A d \in Conns \ {c} : udp[d].elem # None => elem'[udp[d].elem] = elem[udp[d].elem]
    BY <1>4, <1>9, InElements DEF InboundInv
  <2> QED BY <1>4, <1>5, <1>8, <2>1, <2>2 DEF InboundInv, KindsKnown
<1>12. Locking'
  <2>1. \A x \in Held : x # None => elem'[x] = elem[x]
    BY <1>4, <1>9, InElements DEF InboundInv
  <2>2. \A d \in Conns \ {c} : udp[d].elem # None => elem'[udp[d].elem] = elem[udp[d].elem]
    BY <1>4, <1>9, InElements DEF InboundInv
  <2>3. \A d \in Conns : udp[d].old # None => elem'[udp[d].old] = elem[udp[d].old]
    BY <1>4, <1>9, InElements DEF InboundInv
  <2>4. \A d \in Conns \ {c} : udp[d].pc \in {"decryption", "release"} => udp[d].elem # None
    BY DEF InboundInv, Typed, Places
  <2>5. \A d \in Conns : udp'[d].pc \in {"decryption", "release"} =>
           elem'[udp'[d].elem].locked /\ ~elem'[udp'[d].elem].dropped
    BY <1>4, <1>5, <2>2, <2>4 DEF InboundInv, Locking
  <2> QED BY <1>5, <1>6, <1>8, <2>1, <2>3, <2>5 DEF InboundInv, Locking
<1>13. Served'
  <2>1. \A x \in Elements : ToLock(x)' => ToLock(x) /\ x # e
    <3>1. \A d \in Conns : udp'[d].pc = "inbound" => udp[d].pc = "inbound" /\ udp'[d].elem = udp[d].elem
      BY <1>5
    <3>2. e \notin Positions(inboundQ)
      BY <1>9 DEF Down
    <3> QED BY <1>1, <1>9, <3>1, <3>2 DEF ToLock
  <2>2. Checking => elem'[receiver.elem] = elem[receiver.elem]
    BY <1>4, <1>9, InElements DEF InboundInv, Checking
  <2>3. \A d \in Conns : udp'[d].old = udp[d].old
    BY <1>5
  <2> QED BY <1>1, <1>4, <2>1, <2>2, <2>3 DEF InboundInv, Served, Checking
<1>14. Delivered'
  <2>1. \A x \in Positions(tun) : elem'[x] = elem[x]
    BY <1>4, <1>9, InElements DEF InboundInv
  <2>2. receiver.pc = "write" => elem'[receiver.elem] = elem[receiver.elem]
    BY <1>4, <1>9, InElements DEF InboundInv
  <2>3. \A x \in 1..count : x \in Elements /\ x # e /\ elem'[x] = elem[x]
    <3>1. \A x \in 1..count : x \in 0..count /\ x \in Elements
      BY Members DEF InboundInv
    <3> QED BY <1>3, <1>4, <3>1
  <2>4. \A x \in Elements : elem'[x].opened => elem'[x].kind # "garbled"
    BY <1>4 DEF InboundInv, Delivered
  <2>5. \A x \in 1..count' : elem'[x].counter \in Counters
    BY <1>3, <1>4, <2>3 DEF InboundInv, Delivered
  <2>6. OnlyAuthenticRemembered'
    BY <1>1, <1>3, <2>3 DEF InboundInv, Delivered, OnlyAuthenticRemembered
  <2> QED BY <1>1, <2>1, <2>2, <2>4, <2>5, <2>6 DEF InboundInv, Delivered
<1>15. BuffersExclusive'
  <2>1. \A x \in InUse' : x \in InUse \/ x = e
    <3>1. \A d \in Conns : udp'[d].old = udp[d].old /\ udp'[d].elem \in {udp[d].elem, e}
      BY <1>5
    <3> QED BY <1>1, <3>1, InUseMembers, InUseMembersNext
  <2> QED BY <1>4, <2>1 DEF InboundInv, BuffersExclusive
<1> QED BY <1>7, <1>10, <1>11, <1>12, <1>13, <1>14, <1>15 DEF InboundInv

\* handleUDP hands its element to the worker.
LEMMA AddToDecryptionInv ==
    ASSUME InboundInv, NEW c \in Conns, AddToDecryptionQueue(c)
    PROVE  InboundInv'
<1> DEFINE e == udp[c].elem
<1>1. /\ UNCHANGED <<count, elem, inboundQ, handshakeQ, worker, handling, receiver, filterVars, tun>>
      /\ udp[c].pc = "decryption" /\ decryptionQ' = Append(decryptionQ, e)
      /\ udp' = [udp EXCEPT ![c].pc = "inbound"] /\ ~Full(decryptionQ, QueueInboundSize)
  BY DEF AddToDecryptionQueue
<1>2. /\ udp' \in [Conns -> Udp] /\ udp'[c].pc = "inbound" /\ udp'[c].elem = e
      /\ udp'[c].old = udp[c].old /\ \A d \in Conns \ {c} : udp'[d] = udp[d]
  BY <1>1, UdpPc DEF InboundInv, Typed
<1>3. e # None /\ e \in Elements /\ udp[c].old = None
  BY <1>1, InElements DEF InboundInv, Typed, Places
<1>4. e \notin Held /\ e \notin Down /\ e \notin Shaking
  BY <1>1, <1>3 DEF InboundInv, Apart
<1>5. Positions(decryptionQ') = Positions(decryptionQ) \cup {e} /\ Distinct(decryptionQ')
  <2>1. decryptionQ \in Seq(Elements) /\ Distinct(decryptionQ) /\ e \notin Positions(decryptionQ)
    BY <1>4, Members DEF InboundInv, Apart, Held
  <2> QED BY <1>1, <1>3, <2>1, AddLast, AddLastDistinct
<1>6. Typed'
  <2>1. Places'
    BY <1>1, <1>2, <1>3, UdpPlaces DEF InboundInv
  <2>2. decryptionQ' \in Seq(1..count) /\ Len(decryptionQ') <= QueueInboundSize
    <3>1. e \in 1..count /\ decryptionQ \in Seq(1..count)
      BY <1>3, InElements, Members DEF InboundInv
    <3>2. Len(decryptionQ) <= QueueInboundSize /\ Len(decryptionQ) # QueueInboundSize
      BY <1>1 DEF InboundInv, Typed, QueuesTyped, Full
    <3> QED BY <1>1, <3>1, <3>2, AddLast, InboundAssumption
  <2>3. QueuesTyped'
    BY <1>1, <2>2 DEF InboundInv, Typed, QueuesTyped
  <2> QED BY <1>1, <1>2, <2>1, <2>3, TypedKept, UdpTypedKept DEF InboundInv, Typed
<1>7. Held' = Held \cup {e} /\ Down' = Down /\ Shaking' = Shaking
  <2>1. \A d \in Conns : udp'[d].old = udp[d].old
    BY <1>2
  <2> QED BY <1>1, <1>5, <2>1 DEF Held, Down, Shaking
<1>8. /\ \A d \in Conns : udp'[d].old = udp[d].old /\ udp'[d].elem = udp[d].elem
      /\ \A d \in Conns : udp[d].old # e
      /\ \A d \in Conns \ {c} : udp[d].elem # e /\ udp'[d].pc = udp[d].pc
      /\ worker.elem # e /\ e # receiver.elem /\ e \notin Positions(tun)
  BY <1>2, <1>3, <1>4 DEF InboundInv, Apart, Held, Down
<1> HIDE DEF e
<1>9. Apart'
  <2>1. \A d \in Conns : udp'[d].elem # None =>
           /\ \A b \in Conns \ {d} : udp'[b].elem # udp'[d].elem
           /\ udp'[d].elem \notin Down /\ udp'[d].elem \notin Shaking
           /\ udp'[d].pc # "inbound" => udp'[d].elem \notin Held'
    <3>1. \A d \in Conns : udp[d].elem # None =>
             /\ \A b \in Conns \ {d} : udp[b].elem # udp[d].elem
             /\ udp[d].elem \notin Down /\ udp[d].elem \notin Shaking
             /\ udp[d].pc # "inbound" => udp[d].elem \notin Held
      BY DEF InboundInv, Apart
    <3> QED BY <1>2, <1>7, <1>8, <3>1
  <2> QED BY <1>1, <1>5, <1>7, <1>8, <2>1 DEF InboundInv, Apart, Checking
<1>10. KindsKnown'
  <2>1. elem[e].kind # "handshake"
    BY <1>1, <1>3 DEF InboundInv, KindsKnown, e
  <2>2. \A d \in Conns : udp'[d].pc = "handshake" <=> udp[d].pc = "handshake"
    BY <1>1, <1>2
  <2> QED BY <1>1, <1>7, <1>8, <2>1, <2>2 DEF InboundInv, KindsKnown
<1>11. elem[e].locked /\ ~elem[e].dropped
  BY <1>1 DEF InboundInv, Locking, e
<1>12. Locking'
  <2>1. \A d \in Conns : udp'[d].pc \in {"decryption", "release"} => udp[d].pc \in {"decryption", "release"}
    BY <1>2
  <2> QED BY <1>1, <1>7, <1>8, <1>11, <2>1 DEF InboundInv, Locking
<1>13. Served'
  <2>1. \A x \in Elements : ToLock(x)' => ToLock(x) \/ x = e
    BY <1>1, <1>2, <1>8 DEF ToLock
  <2>2. \A d \in Conns : udp'[d].old = udp[d].old
    BY <1>8
  <2> QED BY <1>1, <1>5, <1>11, <2>1, <2>2 DEF InboundInv, Served, Checking
<1>14. BuffersExclusive'
  <2>1. InUse' \subseteq InUse
    BY <1>1, <1>5, <1>8, InUseMembers, InUseMembersNext DEF e
  <2> QED BY <1>1, <2>1, BuffersKept DEF InboundInv
<1> QED BY <1>1, <1>6, <1>9, <1>10, <1>12, <1>13, <1>14, InvKept DEF InboundInv

\* A step that changes no kind and puts no element where it was not.
LEMMA KindsKept ==
    ASSUME Typed, KindsKnown, \A x \in Elements : elem'[x].kind = elem[x].kind,
           \A x \in Held' \cup Down' : x # None => x \in Held \cup Down,
           \A x \in Shaking' : x # None => x \in Shaking,
           \A d \in Conns : udp'[d].elem # None =>
              udp'[d].elem = udp[d].elem /\ (udp'[d].pc = "handshake" <=> udp[d].pc = "handshake")
    PROVE  KindsKnown'
<1>1. \A x \in Held \cup Down \cup Shaking : x # None => x \in Elements
  BY InElements
<1>2. \A d \in Conns : udp[d].elem # None => udp[d].elem \in Elements
  BY InElements
<1>3. \A x \in Held' \cup Down' : x # None => elem'[x].kind # "handshake"
  BY <1>1 DEF KindsKnown
<1>4. \A x \in Shaking' : x # None => elem'[x].kind = "handshake"
  BY <1>1 DEF KindsKnown
<1>5. \A d \in Conns : udp'[d].elem # None =>
         (elem'[udp'[d].elem].kind = "handshake" <=> udp'[d].pc = "handshake")
  BY <1>2 DEF KindsKnown
<1> QED BY <1>3, <1>4, <1>5 DEF KindsKnown

\* A step that opens, validates and writes nothing.
LEMMA DeliveredKept ==
    ASSUME Typed, Delivered, UNCHANGED <<count, passed, tun>>,
           receiver'.pc = "write" => UNCHANGED receiver,
           \A x \in Elements : /\ elem'[x].kind = elem[x].kind /\ elem'[x].counter = elem[x].counter
                               /\ elem'[x].opened = elem[x].opened
    PROVE  Delivered'
<1>1. \A x \in Positions(tun) : x \in Elements
  BY InElements
<1>2. \A x \in 1..count : x \in Elements
  BY Members
<1>3. receiver.pc = "write" => receiver.elem \in Elements
  BY InElements
<1>4. OnlyAuthenticRemembered'
  BY <1>2 DEF Delivered, OnlyAuthenticRemembered
<1> QED BY <1>1, <1>2, <1>3, <1>4 DEF Delivered

-----------------------------------------------------------------------------
(* A queue that is full *)

\* handleUDP drops the oldest element of the decryption queue and holds it.
LEMMA EvictInv ==
    ASSUME InboundInv, NEW c \in Conns, EvictFromDecryptionQueue(c)
    PROVE  InboundInv'
<1> DEFINE e == Head(decryptionQ)
<1>1. /\ UNCHANGED <<count, inboundQ, handshakeQ, worker, handling, receiver, filterVars, tun>>
      /\ udp[c].pc = "decryption" /\ decryptionQ' = Tail(decryptionQ) /\ elem' = Drop(e)
      /\ udp' = [udp EXCEPT ![c].pc = "release", ![c].old = e] /\ Full(decryptionQ, QueueInboundSize)
  BY DEF EvictFromDecryptionQueue
<1>2. /\ decryptionQ # <<>> /\ decryptionQ \in Seq(1..count) /\ decryptionQ \in Seq(Elements)
      /\ Distinct(decryptionQ)
  BY <1>1, Members, FullQueue DEF InboundInv, Apart
<1>3. /\ e \in Elements /\ e \in Positions(decryptionQ) /\ e \notin Positions(decryptionQ')
      /\ Positions(decryptionQ) = {e} \cup Positions(decryptionQ') /\ Distinct(decryptionQ')
  BY <1>1, <1>2, TakeHead, TakeHeadDistinct
<1>4. /\ e \in 1..count /\ decryptionQ' \in Seq(1..count)
      /\ Len(decryptionQ) \in Nat /\ Len(decryptionQ') = Len(decryptionQ) - 1
  BY <1>1, <1>2, TakeHead
<1> HIDE DEF e
<1>5. /\ udp' \in [Conns -> Udp] /\ udp'[c].pc = "release" /\ udp'[c].elem = udp[c].elem
      /\ udp'[c].old = e /\ \A d \in Conns \ {c} : udp'[d] = udp[d]
  <2>1. e \in 0..count
    BY <1>4
  <2> QED BY <1>1, <2>1, UdpPcOld DEF InboundInv, Typed
<1>6. /\ elem' \in [Elements -> Element] /\ \A x \in Elements \ {e} : elem'[x] = elem[x]
      /\ elem'[e].dropped /\ elem'[e].locked = elem[e].locked
      /\ \A x \in Elements : /\ elem'[x].kind = elem[x].kind /\ elem'[x].counter = elem[x].counter
                             /\ elem'[x].opened = elem[x].opened /\ elem'[x].puts = elem[x].puts
                             /\ elem'[x].locked = elem[x].locked
  BY <1>1, <1>3, DropFacts DEF InboundInv, Typed
<1>7. udp[c].old = None /\ udp[c].elem # None /\ e # None
  BY <1>1, <1>3, InElements DEF InboundInv, Typed, Places
<1>8. Typed'
  <2>1. Places'
    BY <1>1, <1>5, <1>7, UdpPlaces DEF InboundInv
  <2>2. QueuesTyped'
    <3>1. Len(decryptionQ') <= QueueInboundSize
      BY <1>4, InboundAssumption DEF InboundInv, Typed, QueuesTyped
    <3> QED BY <1>1, <1>4, <3>1 DEF InboundInv, Typed, QueuesTyped
  <2>3. ElemsTyped'
    BY <1>6 DEF ElemsTyped
  <2> QED BY <1>1, <1>5, <2>1, <2>2, <2>3, TypedKept, UdpTypedKept DEF InboundInv, Typed
<1>9. e \in Held /\ (\A x \in Held' : x \in Held) /\ Down' = Down /\ Shaking' = Shaking
  <2>1. \A d \in Conns : udp'[d].old \in {udp[d].old, e}
    BY <1>5
  <2> QED BY <1>1, <1>3, <2>1 DEF Held, Down, Shaking
<1>10. /\ worker.elem # e /\ \A d \in Conns : udp[d].old # e
       /\ \A d \in Conns : udp[d].pc \in {"decryption", "release"} => udp[d].elem # e
       /\ \A d \in Conns : udp'[d].elem = udp[d].elem
       /\ \A d \in Conns : udp'[d].pc = udp[d].pc \/ (udp[d].pc = "decryption" /\ udp'[d].pc = "release")
  <2>1. \A d \in Conns : udp[d].pc \in {"decryption", "release"} => udp[d].elem # e
    BY <1>9 DEF InboundInv, Apart, Typed, Places
  <2> QED BY <1>1, <1>3, <1>5, <2>1 DEF InboundInv, Apart
<1>11. Apart'
  <2>1. \A d \in Conns : udp'[d].elem # None =>
           /\ \A b \in Conns \ {d} : udp'[b].elem # udp'[d].elem
           /\ udp'[d].elem \notin Down' /\ udp'[d].elem \notin Shaking'
           /\ udp'[d].pc # "inbound" => udp'[d].elem \notin Held'
    BY <1>9, <1>10 DEF InboundInv, Apart
  <2>2. \A d \in Conns :
           /\ udp'[d].old \notin Positions(decryptionQ')
           /\ udp'[d].old # None =>
                 /\ udp'[d].old # worker.elem
                 /\ \A b \in Conns \ {d} : udp'[b].old # udp'[d].old
    BY <1>3, <1>5, <1>10 DEF InboundInv, Apart
  <2> QED BY <1>1, <1>3, <1>9, <2>1, <2>2 DEF InboundInv, Apart, Checking
<1>12. KindsKnown'
  BY <1>6, <1>9, <1>10, KindsKept DEF InboundInv
<1>13. Locking'
  <2>1. \A x \in Held' : x # None => elem'[x].locked
    BY <1>6, <1>9, InElements DEF InboundInv, Locking
  <2>2. \A d \in Conns : udp'[d].old # None => elem'[udp'[d].old].dropped
    BY <1>5, <1>6, <1>10, InElements DEF InboundInv, Locking
  <2>3. \A d \in Conns : udp[d].pc \in {"decryption", "release"} =>
           elem'[udp[d].elem] = elem[udp[d].elem]
    BY <1>6, <1>10, InElements DEF InboundInv, Typed, Places
  <2>4. \A d \in Conns : udp'[d].pc \in {"decryption", "release"} =>
           elem'[udp'[d].elem].locked /\ ~elem'[udp'[d].elem].dropped
    BY <1>10, <2>3 DEF InboundInv, Locking
  <2> QED BY <2>1, <2>2, <2>4 DEF Locking
<1>14. Served'
  <2>1. \A x \in Elements : ToLock(x)' => ToLock(x)
    <3>1. \A d \in Conns : udp'[d].pc = "inbound" => udp[d].pc = "inbound" /\ udp'[d].elem = udp[d].elem
      BY <1>10
    <3> QED BY <1>1, <3>1 DEF ToLock
  <2>2. \A x \in Elements : (\E d \in Conns : udp[d].old = x) => \E d \in Conns : udp'[d].old = x
    <3>1. \A x \in Elements : x # udp[c].old
      BY <1>7, InElements DEF InboundInv
    <3> QED BY <1>5, <3>1
  <2>3. \A x \in Elements : x \in Positions(decryptionQ) =>
           x \in Positions(decryptionQ') \/ \E d \in Conns : udp'[d].old = x
    BY <1>3, <1>5
  <2>4. Checking' => elem'[receiver'.elem].opened
    BY <1>1, <1>6, InElements DEF InboundInv, Served, Checking
  <2>5. \A x \in Elements : ToLock(x) =>
          IF elem'[x].locked
          THEN \/ x \in Positions(decryptionQ') /\ ~elem'[x].dropped
               \/ worker.pc = "open" /\ worker.elem = x
               \/ \E d \in Conns : udp'[d].old = x
               \/ worker.pc = "returned"
          ELSE elem'[x].opened \/ elem'[x].dropped
    <3> SUFFICES ASSUME NEW x \in Elements, ToLock(x)
                 PROVE  IF elem'[x].locked
                        THEN \/ x \in Positions(decryptionQ') /\ ~elem'[x].dropped
                             \/ worker.pc = "open" /\ worker.elem = x
                             \/ \E d \in Conns : udp'[d].old = x
                             \/ worker.pc = "returned"
                        ELSE elem'[x].opened \/ elem'[x].dropped
      OBVIOUS
    <3>1. CASE x = e
      BY <3>1, <1>5, <1>6
    <3>2. CASE x # e
      BY <3>2, <1>6, <2>2, <2>3 DEF InboundInv, Served
    <3> QED BY <3>1, <3>2
  <2> QED BY <1>1, <2>1, <2>4, <2>5 DEF Served
<1>15. Delivered'
  BY <1>1, <1>6, DeliveredKept DEF InboundInv
<1>16. BuffersExclusive'
  <2>1. \A d \in Conns : udp'[d].old \in {udp[d].old, e}
    BY <1>5
  <2>2. InUse' \subseteq InUse
    <3>1. Positions(decryptionQ) \subseteq InUse /\ Positions(inboundQ) \subseteq InUse
          /\ Positions(handshakeQ) \subseteq InUse
      BY PlacesInUse DEF InboundInv
    <3>2. Positions(decryptionQ') \subseteq InUse /\ e \in InUse
      BY <1>3, <3>1
    <3>3. \A d \in Conns : udp'[d].elem # None => udp'[d].elem \in InUse
      BY <1>10, PlacesInUse DEF InboundInv
    <3>4. \A d \in Conns : udp'[d].old # None => udp'[d].old \in InUse
      BY <2>1, <3>2, PlacesInUse DEF InboundInv
    <3>5. /\ worker.elem # None => worker.elem \in InUse
          /\ receiver.elem # None => receiver.elem \in InUse
          /\ handling # None => handling \in InUse
      BY PlacesInUse DEF InboundInv
    <3> QED BY <1>1, <3>1, <3>2, <3>3, <3>4, <3>5, InUseKept
  <2> QED BY <1>6, <2>2, BuffersKept DEF InboundInv
<1> QED BY <1>8, <1>11, <1>12, <1>13, <1>14, <1>15, <1>16 DEF InboundInv


\* handleUDP unlocks the element it dropped, and tries again.
LEMMA ReleaseInv ==
    ASSUME InboundInv, NEW c \in Conns, ReleaseEvicted(c)
    PROVE  InboundInv'
<1> DEFINE o == udp[c].old
<1>1. /\ UNCHANGED <<count, qVars, worker, handling, receiver, filterVars, tun>>
      /\ udp[c].pc = "release" /\ elem' = [elem EXCEPT ![o].locked = FALSE]
      /\ udp' = [udp EXCEPT ![c].pc = "decryption", ![c].old = None]
  BY DEF ReleaseEvicted
<1>2. o # None /\ o \in Elements /\ udp[c].elem # None /\ None \in 0..count
  BY <1>1, InElements, Members DEF InboundInv, Typed, Places
<1>3. /\ udp' \in [Conns -> Udp] /\ udp'[c].pc = "decryption" /\ udp'[c].elem = udp[c].elem
      /\ udp'[c].old = None /\ \A d \in Conns \ {c} : udp'[d] = udp[d]
  BY <1>1, <1>2, UdpPcOld DEF InboundInv, Typed
<1>4. elem[o].dropped /\ o \in Held /\ o \notin Positions(decryptionQ) /\ o # worker.elem
      /\ \A d \in Conns \ {c} : udp[d].old # o
  BY <1>2 DEF InboundInv, Apart, Locking, Held
<1> HIDE DEF o
<1>5. /\ elem' \in [Elements -> Element] /\ \A x \in Elements \ {o} : elem'[x] = elem[x]
      /\ ~elem'[o].locked /\ elem'[o].dropped
      /\ \A x \in Elements : /\ elem'[x].kind = elem[x].kind /\ elem'[x].counter = elem[x].counter
                             /\ elem'[x].opened = elem[x].opened /\ elem'[x].puts = elem[x].puts
                             /\ elem'[x].dropped = elem[x].dropped
  BY <1>1, <1>2, <1>4, UnlockFacts DEF InboundInv, Typed
<1>6. Typed'
  <2>1. Places'
    BY <1>1, <1>2, <1>3, UdpPlaces DEF InboundInv
  <2>2. ElemsTyped'
    BY <1>5 DEF ElemsTyped
  <2> QED BY <1>1, <1>3, <2>1, <2>2, TypedKept, UdpTypedKept DEF InboundInv, Typed
<1>7. /\ \A x \in Held' : x # None => x \in Held /\ x # o
      /\ Down' = Down /\ Shaking' = Shaking
  <2>1. \A d \in Conns : udp'[d].old # None => udp'[d].old = udp[d].old /\ udp[d].old # o
    BY <1>3, <1>4
  <2>2. \A x \in Held' : x # None => x \in Held /\ x # o
    BY <1>1, <1>4, <2>1 DEF Held
  <2>3. Down' = Down /\ Shaking' = Shaking
    BY <1>1 DEF Down, Shaking
  <2> QED BY <2>2, <2>3
<1>8. /\ \A d \in Conns : udp'[d].elem = udp[d].elem
      /\ \A d \in Conns : udp'[d].pc = udp[d].pc \/ (udp[d].pc = "release" /\ udp'[d].pc = "decryption")
      /\ \A d \in Conns : udp[d].pc \in {"decryption", "release"} => udp[d].elem # o
  <2>1. \A d \in Conns : udp[d].pc \in {"decryption", "release"} => udp[d].elem # o
    BY <1>4 DEF InboundInv, Apart, Typed, Places
  <2> QED BY <1>1, <1>3, <2>1
<1>9. Apart'
  <2>1. \A d \in Conns : udp'[d].elem # None =>
           /\ \A b \in Conns \ {d} : udp'[b].elem # udp'[d].elem
           /\ udp'[d].elem \notin Down' /\ udp'[d].elem \notin Shaking'
           /\ udp'[d].pc # "inbound" => udp'[d].elem \notin Held'
    BY <1>7, <1>8 DEF InboundInv, Apart
  <2>2. \A d \in Conns :
           /\ udp'[d].old \notin Positions(decryptionQ)
           /\ udp'[d].old # None =>
                 /\ udp'[d].old # worker.elem
                 /\ \A b \in Conns \ {d} : udp'[b].old # udp'[d].old
    BY <1>3, InElements DEF InboundInv, Apart
  <2>3. \A x \in Positions(tun) : x \notin Held'
    BY <1>7, InElements DEF InboundInv, Apart
  <2>4. Checking => receiver.elem \notin Held'
    BY <1>7, InElements DEF InboundInv, Apart, Checking
  <2> QED BY <1>1, <1>7, <2>1, <2>2, <2>3, <2>4 DEF InboundInv, Apart, Checking
<1>10. KindsKnown'
  <2>1. \A d \in Conns : udp'[d].pc = "handshake" <=> udp[d].pc = "handshake"
    BY <1>8
  <2> QED BY <1>5, <1>7, <1>8, <2>1, KindsKept DEF InboundInv
<1>11. Locking'
  <2>1. \A x \in Held' : x # None => elem'[x].locked
    BY <1>5, <1>7, InElements DEF InboundInv, Locking
  <2>2. \A d \in Conns : udp'[d].old # None => elem'[udp'[d].old].dropped
    BY <1>3, <1>5, InElements DEF InboundInv, Locking
  <2>3. \A d \in Conns : udp[d].pc \in {"decryption", "release"} =>
           elem'[udp[d].elem] = elem[udp[d].elem]
    BY <1>5, <1>8, InElements DEF InboundInv, Typed, Places
  <2>4. \A d \in Conns : udp'[d].pc \in {"decryption", "release"} =>
           elem'[udp'[d].elem].locked /\ ~elem'[udp'[d].elem].dropped
    BY <1>8, <2>3 DEF InboundInv, Locking
  <2> QED BY <2>1, <2>2, <2>4 DEF Locking
<1>12. Served'
  <2>1. \A x \in Elements : ToLock(x)' => ToLock(x)
    <3>1. \A d \in Conns : udp'[d].pc = "inbound" => udp[d].pc = "inbound" /\ udp'[d].elem = udp[d].elem
      BY <1>8
    <3> QED BY <1>1, <3>1 DEF ToLock
  <2>2. \A x \in Elements \ {o} : (\E d \in Conns : udp[d].old = x) => \E d \in Conns : udp'[d].old = x
    BY <1>3 DEF o
  <2>3. Checking' => elem'[receiver'.elem].opened
    BY <1>1, <1>5, InElements DEF InboundInv, Served, Checking
  <2> QED BY <1>1, <1>5, <2>1, <2>2, <2>3 DEF InboundInv, Served
<1>13. Delivered'
  BY <1>1, <1>5, DeliveredKept DEF InboundInv
<1>14. BuffersExclusive'
  <2>1. InUse' \subseteq InUse
    <3>1. \A d \in Conns : udp'[d].old # None => udp'[d].old = udp[d].old
      BY <1>3
    <3>2. \A d \in Conns : udp'[d].elem # None => udp'[d].elem \in InUse
      BY <1>8, PlacesInUse DEF InboundInv
    <3>3. \A d \in Conns : udp'[d].old # None => udp'[d].old \in InUse
      BY <3>1, PlacesInUse DEF InboundInv
    <3> QED BY <1>1, <3>2, <3>3, PlacesInUse, InUseKept DEF InboundInv
  <2> QED BY <1>5, <2>1, BuffersKept DEF InboundInv
<1> QED BY <1>6, <1>9, <1>10, <1>11, <1>12, <1>13, <1>14 DEF InboundInv


\* handleUDP hands its element to the receiver.
LEMMA AddToInboundInv ==
    ASSUME InboundInv, NEW c \in Conns, AddToInboundQueue(c), ~Full(inboundQ, QueueInboundSize)
    PROVE  InboundInv'
<1> DEFINE e == udp[c].elem
<1>1. /\ UNCHANGED <<count, elem, decryptionQ, handshakeQ, worker, handling, receiver, filterVars, tun>>
      /\ udp[c].pc = "inbound" /\ inboundQ' = Append(inboundQ, e)
      /\ udp' = [udp EXCEPT ![c].pc = "read", ![c].elem = None]
  BY DEF AddToInboundQueue, ReadNext
<1>2. /\ e # None /\ e \in Elements /\ e \in 1..count /\ udp[c].old = None /\ None \in 0..count
  BY <1>1, InElements, Members DEF InboundInv, Typed, Places
<1>3. /\ udp' \in [Conns -> Udp] /\ udp'[c].pc = "read" /\ udp'[c].elem = None
      /\ udp'[c].old = udp[c].old /\ \A d \in Conns \ {c} : udp'[d] = udp[d]
  BY <1>1, <1>2, UdpPcElem DEF InboundInv, Typed
<1>4. e \notin Down /\ e \notin Shaking /\ \A d \in Conns \ {c} : udp[d].elem # e
  BY <1>2 DEF InboundInv, Apart
<1>5. elem[e].kind # "handshake"
  BY <1>1, <1>2 DEF InboundInv, KindsKnown
<1> HIDE DEF e
<1>6. Positions(inboundQ') = Positions(inboundQ) \cup {e} /\ Distinct(inboundQ')
  <2>1. inboundQ \in Seq(Elements) /\ Distinct(inboundQ) /\ e \notin Positions(inboundQ)
    BY <1>4, Members DEF InboundInv, Apart, Down
  <2> QED BY <1>1, <1>2, <2>1, AddLast, AddLastDistinct
<1>7. Typed'
  <2>1. Places'
    BY <1>1, <1>2, <1>3, UdpPlaces DEF InboundInv
  <2>2. inboundQ' \in Seq(1..count) /\ Len(inboundQ') <= QueueInboundSize
    <3>1. inboundQ \in Seq(1..count)
      BY Members DEF InboundInv
    <3>2. Len(inboundQ) <= QueueInboundSize /\ Len(inboundQ) # QueueInboundSize
      BY DEF InboundInv, Typed, QueuesTyped, Full
    <3> QED BY <1>1, <1>2, <3>1, <3>2, AddLast, InboundAssumption
  <2>3. QueuesTyped'
    BY <1>1, <2>2 DEF InboundInv, Typed, QueuesTyped
  <2> QED BY <1>1, <1>3, <2>1, <2>3, TypedKept, UdpTypedKept DEF InboundInv, Typed
<1>8. /\ \A d \in Conns : udp'[d].old = udp[d].old
      /\ \A d \in Conns : udp'[d].elem # None => d # c /\ udp'[d] = udp[d] /\ udp[d].elem # e
      /\ e # receiver.elem /\ e \notin Positions(tun)
  BY <1>3, <1>4 DEF Down
<1>9. Held' = Held /\ Down' = Down \cup {e} /\ Shaking' = Shaking
  <2>1. Held' = Held
    <3>1. {udp'[d].old : d \in Conns} = {udp[d].old : d \in Conns}
      BY <1>8
    <3> QED BY <1>1, <3>1 DEF Held
  <2>2. Down' = Down \cup {e} /\ Shaking' = Shaking
    BY <1>1, <1>6 DEF Down, Shaking
  <2> QED BY <2>1, <2>2
<1>10. Apart'
  <2>1. \A d \in Conns : udp'[d].elem # None =>
           /\ \A b \in Conns \ {d} : udp'[b].elem # udp'[d].elem
           /\ udp'[d].elem \notin Down' /\ udp'[d].elem \notin Shaking'
           /\ udp'[d].pc # "inbound" => udp'[d].elem \notin Held'
    BY <1>3, <1>8, <1>9 DEF InboundInv, Apart
  <2>2. /\ receiver.elem \notin Positions(inboundQ')
        /\ \A x \in Positions(inboundQ') : x \notin Positions(tun)
    BY <1>6, <1>8 DEF InboundInv, Apart
  <2>3. \A d \in Conns :
           /\ udp'[d].old \notin Positions(decryptionQ)
           /\ udp'[d].old # None =>
                 /\ udp'[d].old # worker.elem
                 /\ \A b \in Conns \ {d} : udp'[b].old # udp'[d].old
    BY <1>8 DEF InboundInv, Apart
  <2> QED BY <1>1, <1>6, <1>9, <2>1, <2>2, <2>3 DEF InboundInv, Apart, Checking
<1>11. KindsKnown'
  BY <1>1, <1>5, <1>8, <1>9 DEF InboundInv, KindsKnown
<1>12. Locking'
  <2>1. \A d \in Conns : udp'[d].pc \in {"decryption", "release"} => udp'[d] = udp[d]
    BY <1>3
  <2> QED BY <1>1, <1>8, <1>9, <2>1 DEF InboundInv, Locking
<1>13. Served'
  <2>1. \A x \in Elements : ToLock(x)' => ToLock(x)
    <3>1. \A d \in Conns : udp'[d].pc = "inbound" => udp'[d] = udp[d]
      BY <1>3
    <3> QED BY <1>1, <1>6, <3>1 DEF ToLock, e
  <2>2. \A d \in Conns : udp'[d].old = udp[d].old
    BY <1>8
  <2> QED BY <1>1, <2>1, <2>2 DEF InboundInv, Served, Checking
<1>14. BuffersExclusive'
  <2>1. e \in InUse
    BY <1>2, PlacesInUse DEF InboundInv, e
  <2>2. InUse' \subseteq InUse
    BY <1>1, <1>6, <1>8, <2>1, PlacesInUse, InUseKept DEF InboundInv
  <2> QED BY <1>1, <2>2, BuffersKept DEF InboundInv
<1> QED BY <1>1, <1>7, <1>10, <1>11, <1>12, <1>13, <1>14, InvKept DEF InboundInv

\* handleUDP drops the oldest element of the inbound queue: the worker may have
\* it, the receiver will not.
LEMMA DropFromInboundInv ==
    ASSUME InboundInv, NEW c \in Conns, AddToInboundQueue(c), Full(inboundQ, QueueInboundSize)
    PROVE  InboundInv'
<1> DEFINE e == Head(inboundQ)
<1>1. /\ UNCHANGED <<count, decryptionQ, handshakeQ, udp, worker, handling, receiver, filterVars, tun>>
      /\ inboundQ' = Tail(inboundQ) /\ elem' = Drop(e)
  BY DEF AddToInboundQueue
<1>2. /\ inboundQ # <<>> /\ inboundQ \in Seq(1..count) /\ inboundQ \in Seq(Elements)
      /\ Distinct(inboundQ)
  BY Members, FullQueue DEF InboundInv, Apart
<1>3. /\ e \in Elements /\ e \in Positions(inboundQ) /\ e \notin Positions(inboundQ')
      /\ Positions(inboundQ) = {e} \cup Positions(inboundQ') /\ Distinct(inboundQ')
  BY <1>1, <1>2, TakeHead, TakeHeadDistinct
<1>4. /\ inboundQ' \in Seq(1..count)
      /\ Len(inboundQ) \in Nat /\ Len(inboundQ') = Len(inboundQ) - 1
  BY <1>1, <1>2, TakeHead
<1> HIDE DEF e
<1>5. /\ elem' \in [Elements -> Element] /\ \A x \in Elements \ {e} : elem'[x] = elem[x]
      /\ elem'[e].dropped
      /\ \A x \in Elements : /\ elem'[x].kind = elem[x].kind /\ elem'[x].counter = elem[x].counter
                             /\ elem'[x].opened = elem[x].opened /\ elem'[x].puts = elem[x].puts
                             /\ elem'[x].locked = elem[x].locked
  BY <1>1, <1>3, DropFacts DEF InboundInv, Typed
<1>6. Typed'
  <2>1. QueuesTyped'
    <3>1. Len(inboundQ') <= QueueInboundSize
      BY <1>4, InboundAssumption DEF InboundInv, Typed, QueuesTyped
    <3> QED BY <1>1, <1>4, <3>1 DEF InboundInv, Typed, QueuesTyped
  <2>2. ElemsTyped'
    BY <1>5 DEF ElemsTyped
  <2> QED BY <1>1, <2>1, <2>2, TypedKept DEF InboundInv, Typed
<1>7. e \in Down /\ (\A x \in Down' : x \in Down) /\ Held' = Held /\ Shaking' = Shaking
  BY <1>1, <1>3 DEF Held, Down, Shaking
<1>8. /\ e # receiver.elem /\ e # None
      /\ \A d \in Conns : udp[d].elem # e
  BY <1>3, <1>7, InElements DEF InboundInv, Apart
<1>9. Apart'
  <2>1. /\ receiver.elem \notin Positions(inboundQ')
        /\ \A x \in Positions(inboundQ') : x \notin Positions(tun)
    BY <1>3 DEF InboundInv, Apart
  <2> QED BY <1>1, <1>3, <1>7, <2>1 DEF InboundInv, Apart, Checking
<1>10. KindsKnown'
  BY <1>1, <1>5, <1>7, KindsKept DEF InboundInv
<1>11. Locking'
  <2>1. \A x \in Held' : x # None => elem'[x].locked
    BY <1>5, <1>7, InElements DEF InboundInv, Locking
  <2>2. \A d \in Conns : udp[d].old # None => elem'[udp[d].old].dropped
    BY <1>5, InElements DEF InboundInv, Locking
  <2>3. \A d \in Conns : udp[d].pc \in {"decryption", "release"} =>
           elem'[udp[d].elem] = elem[udp[d].elem]
    BY <1>5, <1>8, InElements DEF InboundInv, Typed, Places
  <2> QED BY <1>1, <2>1, <2>2, <2>3 DEF InboundInv, Locking
<1>12. Served'
  <2>1. \A x \in Elements : ToLock(x)' => ToLock(x) /\ x # e
    BY <1>1, <1>3, <1>8 DEF ToLock
  <2>2. Checking' => elem'[receiver'.elem].opened
    BY <1>1, <1>5, InElements DEF InboundInv, Served, Checking
  <2> QED BY <1>1, <1>5, <2>1, <2>2 DEF InboundInv, Served
<1>13. Delivered'
  BY <1>1, <1>5, DeliveredKept DEF InboundInv
<1>14. BuffersExclusive'
  <2>1. InUse' \subseteq InUse
    BY <1>1, <1>3, PlacesInUse, InUseKept DEF InboundInv
  <2> QED BY <1>5, <2>1, BuffersKept DEF InboundInv
<1> QED BY <1>6, <1>9, <1>10, <1>11, <1>12, <1>13, <1>14 DEF InboundInv


\* handleUDP hands its element to RoutineHandshake.
LEMMA AddToHandshakeInv ==
    ASSUME InboundInv, NEW c \in Conns, AddToHandshakeQueue(c), ~Full(handshakeQ, QueueHandshakeSize)
    PROVE  InboundInv'
<1> DEFINE e == udp[c].elem
<1>1. /\ UNCHANGED <<count, elem, decryptionQ, inboundQ, worker, handling, receiver, filterVars, tun>>
      /\ udp[c].pc = "handshake" /\ handshakeQ' = Append(handshakeQ, e)
      /\ udp' = [udp EXCEPT ![c].pc = "read", ![c].elem = None]
  BY DEF AddToHandshakeQueue, ReadNext
<1>2. /\ e # None /\ e \in Elements /\ e \in 1..count /\ udp[c].old = None /\ None \in 0..count
  BY <1>1, InElements, Members DEF InboundInv, Typed, Places
<1>3. /\ udp' \in [Conns -> Udp] /\ udp'[c].pc = "read" /\ udp'[c].elem = None
      /\ udp'[c].old = udp[c].old /\ \A d \in Conns \ {c} : udp'[d] = udp[d]
  BY <1>1, <1>2, UdpPcElem DEF InboundInv, Typed
<1>4. e \notin Down /\ e \notin Shaking /\ \A d \in Conns \ {c} : udp[d].elem # e
  BY <1>2 DEF InboundInv, Apart
<1>5. elem[e].kind = "handshake"
  BY <1>1, <1>2 DEF InboundInv, KindsKnown
<1> HIDE DEF e
<1>6. Positions(handshakeQ') = Positions(handshakeQ) \cup {e} /\ Distinct(handshakeQ')
  <2>1. handshakeQ \in Seq(Elements) /\ Distinct(handshakeQ) /\ e \notin Positions(handshakeQ)
    BY <1>4, Members DEF InboundInv, Apart, Shaking
  <2> QED BY <1>1, <1>2, <2>1, AddLast, AddLastDistinct
<1>7. Typed'
  <2>1. Places'
    BY <1>1, <1>2, <1>3, UdpPlaces DEF InboundInv
  <2>2. handshakeQ' \in Seq(1..count) /\ Len(handshakeQ') <= QueueHandshakeSize
    <3>1. handshakeQ \in Seq(1..count)
      BY Members DEF InboundInv
    <3>2. Len(handshakeQ) <= QueueHandshakeSize /\ Len(handshakeQ) # QueueHandshakeSize
      BY DEF InboundInv, Typed, QueuesTyped, Full
    <3> QED BY <1>1, <1>2, <3>1, <3>2, AddLast, InboundAssumption
  <2>3. QueuesTyped'
    BY <1>1, <2>2 DEF InboundInv, Typed, QueuesTyped
  <2> QED BY <1>1, <1>3, <2>1, <2>3, TypedKept, UdpTypedKept DEF InboundInv, Typed
<1>8. /\ \A d \in Conns : udp'[d].old = udp[d].old
      /\ \A d \in Conns : udp'[d].elem # None => d # c /\ udp'[d] = udp[d] /\ udp[d].elem # e
      /\ e # handling
  BY <1>3, <1>4 DEF Shaking
<1>9. Held' = Held /\ Down' = Down /\ Shaking' = Shaking \cup {e}
  <2>1. Held' = Held
    <3>1. {udp'[d].old : d \in Conns} = {udp[d].old : d \in Conns}
      BY <1>8
    <3> QED BY <1>1, <3>1 DEF Held
  <2>2. Down' = Down /\ Shaking' = Shaking \cup {e}
    BY <1>1, <1>6 DEF Down, Shaking
  <2> QED BY <2>1, <2>2
<1>10. Apart'
  <2>1. \A d \in Conns : udp'[d].elem # None =>
           /\ \A b \in Conns \ {d} : udp'[b].elem # udp'[d].elem
           /\ udp'[d].elem \notin Down' /\ udp'[d].elem \notin Shaking'
           /\ udp'[d].pc # "inbound" => udp'[d].elem \notin Held'
    BY <1>3, <1>8, <1>9 DEF InboundInv, Apart
  <2>2. handling \notin Positions(handshakeQ')
    BY <1>6, <1>8 DEF InboundInv, Apart
  <2>3. \A d \in Conns :
           /\ udp'[d].old \notin Positions(decryptionQ)
           /\ udp'[d].old # None =>
                 /\ udp'[d].old # worker.elem
                 /\ \A b \in Conns \ {d} : udp'[b].old # udp'[d].old
    BY <1>8 DEF InboundInv, Apart
  <2> QED BY <1>1, <1>6, <1>9, <2>1, <2>2, <2>3 DEF InboundInv, Apart, Checking
<1>11. KindsKnown'
  BY <1>1, <1>5, <1>8, <1>9 DEF InboundInv, KindsKnown
<1>12. Locking'
  <2>1. \A d \in Conns : udp'[d].pc \in {"decryption", "release"} => udp'[d] = udp[d]
    BY <1>3
  <2> QED BY <1>1, <1>8, <1>9, <2>1 DEF InboundInv, Locking
<1>13. Served'
  <2>1. \A x \in Elements : ToLock(x)' => ToLock(x)
    <3>1. \A d \in Conns : udp'[d].pc = "inbound" => udp'[d] = udp[d]
      BY <1>3
    <3> QED BY <1>1, <3>1 DEF ToLock
  <2>2. \A d \in Conns : udp'[d].old = udp[d].old
    BY <1>8
  <2> QED BY <1>1, <2>1, <2>2 DEF InboundInv, Served, Checking
<1>14. BuffersExclusive'
  <2>1. e \in InUse
    BY <1>2, PlacesInUse DEF InboundInv, e
  <2>2. InUse' \subseteq InUse
    BY <1>1, <1>6, <1>8, <2>1, PlacesInUse, InUseKept DEF InboundInv
  <2> QED BY <1>1, <2>2, BuffersKept DEF InboundInv
<1> QED BY <1>1, <1>7, <1>10, <1>11, <1>12, <1>13, <1>14, InvKept DEF InboundInv

\* handleUDP puts the buffer of the oldest handshake message back: nobody else
\* has it, as no other place holds handshake messages.
LEMMA PutFromHandshakeInv ==
    ASSUME InboundInv, NEW c \in Conns, AddToHandshakeQueue(c), Full(handshakeQ, QueueHandshakeSize)
    PROVE  InboundInv'
<1> DEFINE e == Head(handshakeQ)
<1>1. /\ UNCHANGED <<count, decryptionQ, inboundQ, udp, worker, handling, receiver, filterVars, tun>>
      /\ handshakeQ' = Tail(handshakeQ) /\ PutMessageBuffer(e)
  BY DEF AddToHandshakeQueue
<1>2. /\ handshakeQ # <<>> /\ handshakeQ \in Seq(1..count) /\ handshakeQ \in Seq(Elements)
      /\ Distinct(handshakeQ)
  BY Members, FullQueue DEF InboundInv, Apart
<1>3. /\ e \in Elements /\ e \in Positions(handshakeQ) /\ e \notin Positions(handshakeQ')
      /\ Positions(handshakeQ) = {e} \cup Positions(handshakeQ') /\ Distinct(handshakeQ')
  BY <1>1, <1>2, TakeHead, TakeHeadDistinct
<1>4. /\ handshakeQ' \in Seq(1..count)
      /\ Len(handshakeQ) \in Nat /\ Len(handshakeQ') = Len(handshakeQ) - 1
  BY <1>1, <1>2, TakeHead
<1> HIDE DEF e
<1>5. /\ elem' \in [Elements -> Element] /\ \A x \in Elements \ {e} : elem'[x] = elem[x]
      /\ elem'[e].puts = elem[e].puts + 1
      /\ \A x \in Elements : /\ elem'[x].kind = elem[x].kind /\ elem'[x].counter = elem[x].counter
                             /\ elem'[x].opened = elem[x].opened /\ elem'[x].dropped = elem[x].dropped
                             /\ elem'[x].locked = elem[x].locked
  BY <1>1, <1>3, PutFacts DEF InboundInv, Typed
<1>6. Typed'
  <2>1. QueuesTyped'
    <3>1. Len(handshakeQ') <= QueueHandshakeSize
      BY <1>4, InboundAssumption DEF InboundInv, Typed, QueuesTyped
    <3> QED BY <1>1, <1>4, <3>1 DEF InboundInv, Typed, QueuesTyped
  <2>2. ElemsTyped'
    BY <1>5 DEF ElemsTyped
  <2> QED BY <1>1, <2>1, <2>2, TypedKept DEF InboundInv, Typed
<1>7. e \in Shaking /\ (\A x \in Shaking' : x \in Shaking) /\ Held' = Held /\ Down' = Down
  BY <1>1, <1>3 DEF Held, Down, Shaking
<1>8. /\ e # handling /\ e # None /\ \A d \in Conns : udp[d].elem # e
      /\ e \notin Held /\ e \notin Down
  <2>1. e # handling /\ e # None /\ \A d \in Conns : udp[d].elem # e
    BY <1>3, <1>7, InElements DEF InboundInv, Apart
  <2> QED BY <1>7, <2>1 DEF InboundInv, KindsKnown
<1>9. Apart'
  BY <1>1, <1>3, <1>7 DEF InboundInv, Apart, Checking
<1>10. KindsKnown'
  BY <1>1, <1>5, <1>7, KindsKept DEF InboundInv
<1>11. Locking'
  <2>1. \A x \in Held' : x # None => elem'[x].locked
    BY <1>5, <1>7, InElements DEF InboundInv, Locking
  <2>2. \A d \in Conns : udp[d].old # None => elem'[udp[d].old].dropped
    BY <1>5, InElements DEF InboundInv, Locking
  <2>3. \A d \in Conns : udp[d].pc \in {"decryption", "release"} =>
           elem'[udp[d].elem] = elem[udp[d].elem]
    BY <1>5, <1>8, InElements DEF InboundInv, Typed, Places
  <2> QED BY <1>1, <2>1, <2>2, <2>3 DEF InboundInv, Locking
<1>12. Served'
  <2>1. \A x \in Elements : ToLock(x)' => ToLock(x)
    BY <1>1 DEF ToLock
  <2>2. Checking' => elem'[receiver'.elem].opened
    BY <1>1, <1>5, InElements DEF InboundInv, Served, Checking
  <2> QED BY <1>1, <1>5, <2>1, <2>2 DEF InboundInv, Served
<1>13. Delivered'
  BY <1>1, <1>5, DeliveredKept DEF InboundInv
<1>14. BuffersExclusive'
  <2>1. e \in InUse
    BY <1>3, PlacesInUse DEF InboundInv
  <2>2. /\ \A x \in Positions(decryptionQ) : x # e
        /\ \A x \in Positions(inboundQ) : x # e
        /\ worker.elem # e /\ receiver.elem # e /\ \A d \in Conns : udp[d].old # e
    BY <1>8 DEF Held, Down
  <2>3. InUse' \subseteq InUse \ {e}
    <3>1. \A x \in Positions(handshakeQ') : x \in InUse /\ x # e
      BY <1>3, PlacesInUse DEF InboundInv
    <3>2. /\ \A x \in Positions(decryptionQ) : x \in InUse /\ x # e
          /\ \A x \in Positions(inboundQ) : x \in InUse /\ x # e
      BY <2>2, PlacesInUse DEF InboundInv
    <3>3. \A d \in Conns : udp[d].elem # None => udp[d].elem \in InUse /\ udp[d].elem # e
      BY <1>8, PlacesInUse DEF InboundInv
    <3>4. \A d \in Conns : udp[d].old # None => udp[d].old \in InUse /\ udp[d].old # e
      BY <2>2, PlacesInUse DEF InboundInv
    <3>5. /\ worker.elem # None => worker.elem \in InUse /\ worker.elem # e
          /\ receiver.elem # None => receiver.elem \in InUse /\ receiver.elem # e
          /\ handling # None => handling \in InUse /\ handling # e
      BY <1>8, <2>2, PlacesInUse DEF InboundInv
    <3> QED BY <1>1, <3>1, <3>2, <3>3, <3>4, <3>5, InUseLess
  <2> QED BY <1>3, <1>5, <2>1, <2>3, BuffersPut DEF InboundInv, Typed
<1> QED BY <1>6, <1>9, <1>10, <1>11, <1>12, <1>13, <1>14 DEF InboundInv


-----------------------------------------------------------------------------
(* RoutineDecryption and RoutineHandshake *)

\* The worker takes the oldest element, and skips it if it was dropped.
LEMMA TakeDecryptionInv ==
    ASSUME InboundInv, TakeDecryption
    PROVE  InboundInv'
<1> DEFINE e == Head(decryptionQ)
<1>1. /\ UNCHANGED <<count, elem, inboundQ, handshakeQ, udp, handling, receiver, filterVars, tun>>
      /\ worker.pc = "idle" /\ decryptionQ # <<>> /\ decryptionQ' = Tail(decryptionQ)
      /\ worker' = IF elem[e].dropped THEN worker ELSE [pc |-> "open", elem |-> e]
  BY DEF TakeDecryption
<1>2. decryptionQ \in Seq(1..count) /\ decryptionQ \in Seq(Elements) /\ Distinct(decryptionQ)
  BY Members DEF InboundInv, Apart
<1>3. /\ e \in Elements /\ e \in Positions(decryptionQ) /\ e \notin Positions(decryptionQ')
      /\ Positions(decryptionQ) = {e} \cup Positions(decryptionQ') /\ Distinct(decryptionQ')
  BY <1>1, <1>2, TakeHead, TakeHeadDistinct
<1>4. /\ e \in 1..count /\ decryptionQ' \in Seq(1..count)
      /\ Len(decryptionQ) \in Nat /\ Len(decryptionQ') = Len(decryptionQ) - 1
  BY <1>1, <1>2, TakeHead
<1> HIDE DEF e
<1>5. worker.elem = None /\ e # None /\ None \notin Positions(decryptionQ')
  BY <1>1, <1>3, InElements DEF InboundInv, Typed, Places
<1>6. \/ elem[e].dropped /\ worker'.pc = "idle" /\ worker'.elem = None /\ worker' = worker
      \/ ~elem[e].dropped /\ worker'.pc = "open" /\ worker'.elem = e
  BY <1>1, <1>5
<1>7. Typed'
  <2>1. Places'
    BY <1>1, <1>5, <1>6 DEF InboundInv, Typed, Places
  <2>2. QueuesTyped'
    <3>1. Len(decryptionQ') <= QueueInboundSize
      BY <1>4, InboundAssumption DEF InboundInv, Typed, QueuesTyped
    <3> QED BY <1>1, <1>4, <3>1 DEF InboundInv, Typed, QueuesTyped
  <2>3. RoutinesTyped'
    <3>1. e \in 0..count
      BY <1>4
    <3> QED BY <1>1, <3>1 DEF InboundInv, Typed, RoutinesTyped
  <2> QED BY <1>1, <2>1, <2>2, <2>3, TypedKept DEF InboundInv, Typed
<1>8. (\A x \in Held' : x \in Held) /\ Down' = Down /\ Shaking' = Shaking
  BY <1>1, <1>3, <1>6 DEF Held, Down, Shaking
<1>9. Apart'
  <2>1. \A d \in Conns : udp[d].elem # None =>
           /\ \A b \in Conns \ {d} : udp[b].elem # udp[d].elem
           /\ udp[d].elem \notin Down' /\ udp[d].elem \notin Shaking'
           /\ udp[d].pc # "inbound" => udp[d].elem \notin Held'
    BY <1>8 DEF InboundInv, Apart
  <2>2. \A d \in Conns :
           /\ udp[d].old \notin Positions(decryptionQ')
           /\ udp[d].old # None =>
                 /\ udp[d].old # worker'.elem
                 /\ \A b \in Conns \ {d} : udp[b].old # udp[d].old
    BY <1>3, <1>5, <1>6 DEF InboundInv, Apart
  <2>3. worker'.elem \notin Positions(decryptionQ')
    BY <1>3, <1>5, <1>6
  <2> QED BY <1>1, <1>3, <1>8, <2>1, <2>2, <2>3 DEF InboundInv, Apart, Checking
<1>10. KindsKnown'
  BY <1>1, <1>8, KindsKept DEF InboundInv
<1>11. Locking'
  BY <1>1, <1>8 DEF InboundInv, Locking
<1>12. Served'
  <2>1. \A x \in Elements : ToLock(x)' => ToLock(x)
    BY <1>1 DEF ToLock
  <2>2. \A x \in Elements : x \in Positions(decryptionQ) /\ ~elem[x].dropped =>
           \/ x \in Positions(decryptionQ')
           \/ worker'.pc = "open" /\ worker'.elem = x
    BY <1>3, <1>6
  <2> QED BY <1>1, <2>1, <2>2 DEF InboundInv, Served, Checking
<1>13. BuffersExclusive'
  <2>1. InUse' \subseteq InUse
    BY <1>1, <1>3, <1>6, PlacesInUse, InUseKept DEF InboundInv
  <2> QED BY <1>1, <2>1, BuffersKept DEF InboundInv
<1> QED BY <1>1, <1>7, <1>9, <1>10, <1>11, <1>12, <1>13, InvKept DEF InboundInv

\* The worker opens its element and unlocks it.
LEMMA OpenInv ==
    ASSUME InboundInv, Open
    PROVE  InboundInv'
<1> DEFINE e == worker.elem
<1>1. /\ UNCHANGED <<count, qVars, udp, handling, receiver, filterVars, tun>>
      /\ worker.pc = "open" /\ worker'.pc = "idle" /\ worker'.elem = None
      /\ worker' = [pc |-> "idle", elem |-> None]
  BY DEF Open
<1>2. e \in Elements /\ e # None /\ None \in 0..count
  BY <1>1, InElements, Members DEF InboundInv
<1>3. /\ e \in Held /\ e \notin Positions(decryptionQ)
      /\ \A d \in Conns : udp[d].old # e
  BY <1>2 DEF InboundInv, Apart, Held
<1>4. /\ elem' \in [Elements -> Element] /\ \A x \in Elements \ {e} : elem'[x] = elem[x]
      /\ ~elem'[e].locked /\ (elem'[e].opened \/ elem'[e].dropped)
      /\ (elem'[e].opened <=> elem[e].kind # "garbled")
      /\ \A x \in Elements : /\ elem'[x].kind = elem[x].kind /\ elem'[x].counter = elem[x].counter
                             /\ elem'[x].puts = elem[x].puts
  BY OpenFacts DEF InboundInv
<1> HIDE DEF e
<1>5. \A x \in Elements : elem[x].opened => elem'[x].opened
  BY <1>4 DEF InboundInv, Delivered
<1>6. Typed'
  <2>1. Places'
    BY <1>1 DEF InboundInv, Typed, Places
  <2>2. ElemsTyped'
    BY <1>4 DEF ElemsTyped
  <2>3. RoutinesTyped'
    BY <1>1, <1>2 DEF InboundInv, Typed, RoutinesTyped
  <2> QED BY <1>1, <2>1, <2>2, <2>3, TypedKept DEF InboundInv, Typed
<1>7. /\ \A x \in Held' : x # None => x \in Held /\ x # e
      /\ Down' = Down /\ Shaking' = Shaking
  BY <1>1, <1>3 DEF Held, Down, Shaking
<1>8. /\ \A d \in Conns : udp[d].pc \in {"decryption", "release"} => udp[d].elem # e
      /\ \A x \in Positions(tun) : x # e
      /\ Checking => receiver.elem # e
  BY <1>3 DEF InboundInv, Apart, Typed, Places
<1>9. Apart'
  <2>1. \A d \in Conns : udp[d].elem # None =>
           /\ \A b \in Conns \ {d} : udp[b].elem # udp[d].elem
           /\ udp[d].elem \notin Down' /\ udp[d].elem \notin Shaking'
           /\ udp[d].pc # "inbound" => udp[d].elem \notin Held'
    BY <1>7 DEF InboundInv, Apart
  <2>2. worker'.elem \notin Positions(decryptionQ)
    BY <1>1, InElements DEF InboundInv
  <2>3. \A x \in Positions(tun) : x \notin Held'
    BY <1>7, InElements DEF InboundInv, Apart
  <2>4. Checking => receiver.elem \notin Held'
    BY <1>7, InElements DEF InboundInv, Apart, Checking
  <2> QED BY <1>1, <1>7, <2>1, <2>2, <2>3, <2>4 DEF InboundInv, Apart, Checking
<1>10. KindsKnown'
  <2>1. \A d \in Conns : udp'[d] = udp[d]
    BY <1>1
  <2> QED BY <1>4, <1>7, <2>1, KindsKept DEF InboundInv
<1>11. Locking'
  <2>1. \A x \in Held' : x # None => elem'[x].locked
    BY <1>4, <1>7, InElements DEF InboundInv, Locking
  <2>2. \A d \in Conns : udp[d].old # None => elem'[udp[d].old].dropped
    BY <1>3, <1>4, InElements DEF InboundInv, Locking
  <2>3. \A d \in Conns : udp[d].pc \in {"decryption", "release"} =>
           elem'[udp[d].elem] = elem[udp[d].elem]
    BY <1>4, <1>8, InElements DEF InboundInv, Typed, Places
  <2> QED BY <1>1, <2>1, <2>2, <2>3 DEF InboundInv, Locking
<1>12. Served'
  <2>1. \A x \in Elements : ToLock(x)' => ToLock(x)
    BY <1>1 DEF ToLock
  <2>2. Checking' => elem'[receiver'.elem].opened
    BY <1>1, <1>5, InElements DEF InboundInv, Served, Checking
  <2>3. \A x \in Elements \ {e} : ~(worker.pc = "open" /\ worker.elem = x) /\ worker.pc # "returned"
    BY <1>1 DEF e
  <2> QED BY <1>1, <1>4, <2>1, <2>2, <2>3 DEF InboundInv, Served
<1>13. Delivered'
  <2>1. \A x \in Positions(tun) : elem'[x] = elem[x]
    BY <1>4, <1>8, InElements DEF InboundInv
  <2>2. receiver.pc = "write" => elem'[receiver.elem] = elem[receiver.elem]
    BY <1>4, <1>8, InElements DEF InboundInv, Checking
  <2>3. \A x \in Elements : elem'[x].opened => elem'[x].kind # "garbled"
    BY <1>4 DEF InboundInv, Delivered
  <2>4. \A x \in 1..count : x \in Elements
    BY Members DEF InboundInv
  <2>5. \A x \in 1..count : elem'[x].counter \in Counters
    BY <1>4, <2>4 DEF InboundInv, Delivered
  <2>6. OnlyAuthenticRemembered'
    BY <1>1, <1>4, <1>5, <2>4 DEF InboundInv, Delivered, OnlyAuthenticRemembered
  <2> QED BY <1>1, <2>1, <2>2, <2>3, <2>5, <2>6 DEF InboundInv, Delivered
<1>14. BuffersExclusive'
  <2>1. InUse' \subseteq InUse
    BY <1>1, PlacesInUse, InUseKept DEF InboundInv
  <2> QED BY <1>4, <2>1, BuffersKept DEF InboundInv
<1> QED BY <1>6, <1>9, <1>10, <1>11, <1>12, <1>13, <1>14 DEF InboundInv

\* Open panics: the worker has ended with its element locked.
LEMMA OpenPanickedInv ==
    ASSUME InboundInv, OpenPanicked
    PROVE  InboundInv'
<1>1. /\ UNCHANGED <<count, elem, qVars, udp, handling, receiver, filterVars, tun>>
      /\ worker.pc = "open" /\ worker' = [worker EXCEPT !.pc = "returned"]
  BY DEF OpenPanicked
<1>2. RoutinesTyped' /\ worker'.pc = "returned" /\ worker'.elem = worker.elem
  BY <1>1 DEF InboundInv, Typed, RoutinesTyped
<1>3. Typed'
  <2>1. Places'
    BY <1>1, <1>2 DEF InboundInv, Typed, Places
  <2> QED BY <1>1, <1>2, <2>1, TypedKept DEF InboundInv, Typed
<1>4. Held' = Held /\ Down' = Down /\ Shaking' = Shaking
  BY <1>1, <1>2 DEF Held, Down, Shaking
<1>5. Apart'
  BY <1>1, <1>2, <1>4 DEF InboundInv, Apart, Checking
<1>6. KindsKnown' /\ Locking'
  BY <1>1, <1>2, <1>4 DEF InboundInv, KindsKnown, Locking
<1>7. Served'
  BY <1>1, <1>2 DEF InboundInv, Served, ToLock, Checking
<1>8. BuffersExclusive'
  <2>1. InUse' \subseteq InUse
    BY <1>1, <1>2, PlacesInUse, InUseKept DEF InboundInv
  <2> QED BY <1>1, <2>1, BuffersKept DEF InboundInv
<1> QED BY <1>1, <1>3, <1>5, <1>6, <1>7, <1>8, InvKept DEF InboundInv

\* RoutineHandshake takes a message.
LEMMA TakeHandshakeInv ==
    ASSUME InboundInv, TakeHandshake
    PROVE  InboundInv'
<1> DEFINE e == Head(handshakeQ)
<1>1. /\ UNCHANGED <<count, elem, decryptionQ, inboundQ, udp, worker, receiver, filterVars, tun>>
      /\ handshakeQ # <<>> /\ handling' = e /\ handshakeQ' = Tail(handshakeQ)
  BY DEF TakeHandshake
<1>2. handshakeQ \in Seq(1..count) /\ handshakeQ \in Seq(Elements) /\ Distinct(handshakeQ)
  BY Members DEF InboundInv, Apart
<1>3. /\ e \in Positions(handshakeQ) /\ e \notin Positions(handshakeQ')
      /\ Positions(handshakeQ) = {e} \cup Positions(handshakeQ') /\ Distinct(handshakeQ')
  BY <1>1, <1>2, TakeHead, TakeHeadDistinct
<1>4. /\ e \in 1..count /\ handshakeQ' \in Seq(1..count)
      /\ Len(handshakeQ) \in Nat /\ Len(handshakeQ') = Len(handshakeQ) - 1
  BY <1>1, <1>2, TakeHead
<1> HIDE DEF e
<1>5. Typed'
  <2>1. QueuesTyped'
    <3>1. Len(handshakeQ') <= QueueHandshakeSize
      BY <1>4, InboundAssumption DEF InboundInv, Typed, QueuesTyped
    <3> QED BY <1>1, <1>4, <3>1 DEF InboundInv, Typed, QueuesTyped
  <2>2. RoutinesTyped'
    BY <1>1, <1>4 DEF InboundInv, Typed, RoutinesTyped
  <2> QED BY <1>1, <2>1, <2>2, TypedKept DEF InboundInv, Typed
<1>6. (\A x \in Shaking' : x \in Shaking) /\ Held' = Held /\ Down' = Down
  BY <1>1, <1>3 DEF Held, Down, Shaking
<1>7. Apart'
  BY <1>1, <1>3, <1>6 DEF InboundInv, Apart, Checking
<1>8. KindsKnown'
  BY <1>1, <1>6, KindsKept DEF InboundInv
<1>9. BuffersExclusive'
  <2>1. InUse' \subseteq InUse
    BY <1>1, <1>3, PlacesInUse, InUseKept DEF InboundInv
  <2> QED BY <1>1, <2>1, BuffersKept DEF InboundInv
<1> QED BY <1>1, <1>5, <1>7, <1>8, <1>9, InvKept DEF InboundInv

\* RoutineHandshake has done with a message.
LEMMA FinishHandshakeInv ==
    ASSUME InboundInv, FinishHandshake
    PROVE  InboundInv'
<1>1. /\ UNCHANGED <<count, elem, qVars, udp, worker, receiver, filterVars, tun>> /\ handling' = None
  BY DEF FinishHandshake
<1>2. Typed'
  <2>1. RoutinesTyped'
    BY <1>1, Members DEF InboundInv, Typed, RoutinesTyped
  <2> QED BY <1>1, <2>1, TypedKept DEF InboundInv, Typed
<1>3. (\A x \in Shaking' : x # None => x \in Shaking) /\ Held' = Held /\ Down' = Down
  BY <1>1 DEF Held, Down, Shaking
<1>4. Apart'
  BY <1>1, <1>3, InElements DEF InboundInv, Apart, Checking
<1>5. KindsKnown'
  BY <1>1, <1>3, KindsKept DEF InboundInv
<1>6. BuffersExclusive'
  <2>1. InUse' \subseteq InUse
    BY <1>1, PlacesInUse, InUseKept DEF InboundInv
  <2> QED BY <1>1, <2>1, BuffersKept DEF InboundInv
<1> QED BY <1>1, <1>2, <1>4, <1>5, <1>6, InvKept DEF InboundInv


-----------------------------------------------------------------------------
(* RoutineSequentialReceiver *)

\* The receiver takes the oldest element, and has still to lock it.
LEMMA TakeInboundInv ==
    ASSUME InboundInv, TakeInbound
    PROVE  InboundInv'
<1> DEFINE e == Head(inboundQ)
<1>1. /\ UNCHANGED <<count, elem, decryptionQ, handshakeQ, udp, worker, handling, filterVars, tun>>
      /\ receiver.pc = "idle" /\ inboundQ # <<>> /\ inboundQ' = Tail(inboundQ)
      /\ receiver' = [pc |-> "lock", elem |-> e] /\ receiver'.pc = "lock" /\ receiver'.elem = e
  BY DEF TakeInbound
<1>2. inboundQ \in Seq(1..count) /\ inboundQ \in Seq(Elements) /\ Distinct(inboundQ)
  BY Members DEF InboundInv, Apart
<1>3. /\ e \in Elements /\ e \in Positions(inboundQ) /\ e \notin Positions(inboundQ')
      /\ Positions(inboundQ) = {e} \cup Positions(inboundQ') /\ Distinct(inboundQ')
  BY <1>1, <1>2, TakeHead, TakeHeadDistinct
<1>4. /\ e \in 1..count /\ inboundQ' \in Seq(1..count)
      /\ Len(inboundQ) \in Nat /\ Len(inboundQ') = Len(inboundQ) - 1
  BY <1>1, <1>2, TakeHead
<1> HIDE DEF e
<1>5. e # None
  BY <1>3, InElements DEF InboundInv
<1>6. Typed'
  <2>1. Places'
    BY <1>1, <1>5 DEF InboundInv, Typed, Places
  <2>2. QueuesTyped'
    <3>1. Len(inboundQ') <= QueueInboundSize
      BY <1>4, InboundAssumption DEF InboundInv, Typed, QueuesTyped
    <3> QED BY <1>1, <1>4, <3>1 DEF InboundInv, Typed, QueuesTyped
  <2>3. RoutinesTyped'
    <3>1. e \in 0..count
      BY <1>4
    <3> QED BY <1>1, <3>1 DEF InboundInv, Typed, RoutinesTyped
  <2> QED BY <1>1, <2>1, <2>2, <2>3, TypedKept DEF InboundInv, Typed
<1>7. (\A x \in Down' : x \in Down) /\ Held' = Held /\ Shaking' = Shaking
  BY <1>1, <1>3 DEF Held, Down, Shaking
<1>8. Apart'
  <2>1. /\ receiver'.elem \notin Positions(inboundQ') /\ receiver'.elem \notin Positions(tun)
        /\ \A x \in Positions(inboundQ') : x \notin Positions(tun)
    BY <1>1, <1>3 DEF InboundInv, Apart
  <2> QED BY <1>1, <1>3, <1>7, <2>1 DEF InboundInv, Apart, Checking
<1>9. KindsKnown'
  BY <1>1, <1>7, KindsKept DEF InboundInv
<1>10. Served'
  <2>1. \A x \in Elements : ToLock(x)' => ToLock(x)
    BY <1>1, <1>3 DEF ToLock
  <2> QED BY <1>1, <2>1 DEF InboundInv, Served, Checking
<1>11. Delivered'
  BY <1>1, DeliveredKept DEF InboundInv
<1>12. BuffersExclusive'
  <2>1. InUse' \subseteq InUse
    BY <1>1, <1>3, PlacesInUse, InUseKept DEF InboundInv
  <2> QED BY <1>1, <2>1, BuffersKept DEF InboundInv
<1> QED BY <1>1, <1>6, <1>8, <1>9, <1>10, <1>11, <1>12, InvKept DEF InboundInv

\* The receiver gets the mutex: whoever held the element is done with it.
LEMMA LockElementInv ==
    ASSUME InboundInv, LockElement
    PROVE  InboundInv'
<1> DEFINE e == receiver.elem
<1>1. /\ UNCHANGED <<count, qVars, udp, worker, handling, filterVars, tun>>
      /\ receiver.pc = "lock" /\ ~elem[e].locked /\ elem' = [elem EXCEPT ![e].locked = TRUE]
      /\ receiver' = IF elem[e].dropped THEN [pc |-> "idle", elem |-> None]
                     ELSE [receiver EXCEPT !.pc = "validate"]
  BY DEF LockElement
<1>2. e \in Elements /\ e # None /\ None \in 0..count /\ e \in 0..count
  BY <1>1, InElements, Members DEF InboundInv
<1>3. /\ e \notin Held /\ e \notin Positions(inboundQ) /\ e \in Down
      /\ \A d \in Conns : udp[d].elem # e
      /\ \A d \in Conns : udp[d].old # e
  <2>1. e \notin Held /\ e \in Down /\ e \notin Positions(inboundQ)
    BY <1>1, <1>2 DEF InboundInv, Locking, Down, Apart
  <2>2. \A d \in Conns : udp[d].elem # e
    BY <1>2, <2>1 DEF InboundInv, Apart
  <2> QED BY <2>1, <2>2 DEF Held
<1>4. elem[e].opened \/ elem[e].dropped
  BY <1>1, <1>2 DEF InboundInv, Served, ToLock
<1>5. /\ \/ elem[e].dropped /\ receiver'.pc = "idle" /\ receiver'.elem = None
         \/ elem[e].opened /\ receiver'.pc = "validate" /\ receiver'.elem = e
      /\ RoutinesTyped'
  <2>1. CASE elem[e].dropped
    BY <1>1, <1>2, <2>1 DEF InboundInv, Typed, RoutinesTyped
  <2>2. CASE ~elem[e].dropped
    BY <1>1, <1>2, <1>4, <2>2 DEF InboundInv, Typed, RoutinesTyped
  <2> QED BY <2>1, <2>2
<1>6. /\ elem' \in [Elements -> Element] /\ \A x \in Elements \ {e} : elem'[x] = elem[x]
      /\ \A x \in Elements : /\ elem'[x].kind = elem[x].kind /\ elem'[x].counter = elem[x].counter
                             /\ elem'[x].opened = elem[x].opened /\ elem'[x].puts = elem[x].puts
                             /\ elem'[x].dropped = elem[x].dropped
  BY <1>1, <1>2, LockFacts DEF InboundInv, Typed
<1>7. receiver.elem = e
  OBVIOUS
<1> HIDE DEF e
<1>8. Typed'
  <2>1. Places'
    BY <1>1, <1>2, <1>5 DEF InboundInv, Typed, Places
  <2>2. ElemsTyped'
    BY <1>6 DEF ElemsTyped
  <2> QED BY <1>1, <1>5, <2>1, <2>2, TypedKept DEF InboundInv, Typed
<1>9. (\A x \in Down' : x # None => x \in Down) /\ Held' = Held /\ Shaking' = Shaking
  BY <1>1, <1>5, <1>7 DEF Held, Down, Shaking
<1>10. Apart'
  <2>1. receiver'.elem \notin Positions(inboundQ) /\ receiver'.elem \notin Positions(tun)
    BY <1>5, <1>7, InElements DEF InboundInv, Apart
  <2>2. \A d \in Conns : udp[d].elem # None => udp[d].elem \notin Down'
    BY <1>9 DEF InboundInv, Apart
  <2>3. Checking' => receiver'.elem \notin Held
    BY <1>3, <1>5 DEF Checking
  <2> QED BY <1>1, <1>9, <2>1, <2>2, <2>3 DEF InboundInv, Apart
<1>11. KindsKnown'
  BY <1>1, <1>6, <1>9, KindsKept DEF InboundInv
<1>12. Locking'
  <2>1. \A x \in Held : x # None => elem'[x] = elem[x]
    BY <1>3, <1>6, InElements DEF InboundInv
  <2>2. \A d \in Conns : udp[d].old # None => elem'[udp[d].old].dropped
    BY <1>6, InElements DEF InboundInv, Locking
  <2>3. \A d \in Conns : udp[d].pc \in {"decryption", "release"} =>
           elem'[udp[d].elem] = elem[udp[d].elem]
    BY <1>3, <1>6, InElements DEF InboundInv, Typed, Places
  <2> QED BY <1>1, <1>9, <2>1, <2>2, <2>3 DEF InboundInv, Locking
<1>13. Served'
  <2>1. \A x \in Elements : ToLock(x)' => ToLock(x) /\ x # e
    BY <1>1, <1>3, <1>5 DEF ToLock
  <2>2. Checking' => elem'[receiver'.elem].opened
    BY <1>2, <1>5, <1>6 DEF Checking
  <2> QED BY <1>1, <1>6, <2>1, <2>2 DEF InboundInv, Served
<1>14. Delivered'
  BY <1>1, <1>5, <1>6, DeliveredKept DEF InboundInv
<1>15. BuffersExclusive'
  <2>1. InUse' \subseteq InUse
    BY <1>1, <1>5, <1>7, PlacesInUse, InUseKept DEF InboundInv
  <2> QED BY <1>6, <2>1, BuffersKept DEF InboundInv
<1> QED BY <1>8, <1>10, <1>11, <1>12, <1>13, <1>14, <1>15 DEF InboundInv

\* The filter remembers the counter of an opened element; one that passes is
\* remembered now and was not before, so nothing with it was written.
LEMMA ValidateInv ==
    ASSUME InboundInv, Validate
    PROVE  InboundInv'
<1> DEFINE e == receiver.elem
           n == elem[e].counter
<1>1. /\ UNCHANGED <<count, elem, qVars, udp, worker, handling, tun>>
      /\ receiver.pc = "validate" /\ Remember(n)
      /\ \/ /\ Filter!Passes(n) /\ elem[e].kind = "packet"
            /\ receiver' = [receiver EXCEPT !.pc = "write"]
         \/ receiver' = [pc |-> "idle", elem |-> None]
  BY DEF Validate
<1>2. e \in Elements /\ e # None /\ None \in 0..count /\ e \in 1..count
  BY <1>1, InElements, Members DEF InboundInv
<1>3. n \in Counters /\ n \in Nat
  BY <1>2, InboundAssumption DEF InboundInv, Delivered
<1>4. elem[e].opened /\ e \notin Held
  BY <1>1 DEF InboundInv, Served, Apart, Checking
<1>5. receiver.elem = e /\ n = elem[e].counter
  OBVIOUS
<1> HIDE DEF n, e
<1>6. /\ FilterTyped'
      /\ \A m \in Counters : passed[m] > 0 => passed'[m] > 0
      /\ \A m \in Counters : passed'[m] > 0 => passed[m] > 0 \/ m = n
      /\ Filter!Passes(n) => passed[n] = 0 /\ passed'[n] > 0
  <2>1. CASE Filter!Passes(n)
    <3>1. /\ passed' = [passed EXCEPT ![n] = 1] /\ passed[n] = 0
          /\ highest' = IF n > highest THEN n ELSE highest
      BY <1>1, <2>1 DEF Remember, Filter!Passes
    <3> QED BY <1>3, <3>1 DEF InboundInv, Typed, FilterTyped
  <2>2. CASE ~Filter!Passes(n)
    BY <1>1, <2>2 DEF Remember, InboundInv, Typed, FilterTyped
  <2> QED BY <2>1, <2>2
<1>7. /\ \/ Filter!Passes(n) /\ elem[e].kind = "packet" /\ receiver'.pc = "write" /\ receiver'.elem = e
         \/ receiver'.pc = "idle" /\ receiver'.elem = None
      /\ RoutinesTyped'
  BY <1>1, <1>2, <1>5 DEF InboundInv, Typed, RoutinesTyped
<1>8. Typed'
  <2>1. Places'
    BY <1>1, <1>2, <1>7 DEF InboundInv, Typed, Places
  <2> QED BY <1>1, <1>6, <1>7, <2>1, TypedKept DEF InboundInv, Typed
<1>9. (\A x \in Down' : x # None => x \in Down) /\ Held' = Held /\ Shaking' = Shaking
  BY <1>1, <1>5, <1>7 DEF Held, Down, Shaking
<1>10. Apart'
  <2>1. receiver'.elem \notin Positions(inboundQ) /\ receiver'.elem \notin Positions(tun)
    BY <1>5, <1>7, InElements DEF InboundInv, Apart
  <2>2. \A d \in Conns : udp[d].elem # None => udp[d].elem \notin Down'
    BY <1>9 DEF InboundInv, Apart
  <2>3. Checking' => receiver'.elem \notin Held
    BY <1>4, <1>7 DEF Checking
  <2> QED BY <1>1, <1>9, <2>1, <2>2, <2>3 DEF InboundInv, Apart
<1>11. KindsKnown'
  BY <1>1, <1>9, KindsKept DEF InboundInv
<1>12. Served'
  <2>1. \A x \in Elements : ToLock(x)' => ToLock(x)
    BY <1>1, <1>7 DEF ToLock
  <2>2. Checking' => elem'[receiver'.elem].opened
    BY <1>1, <1>4, <1>7 DEF Checking
  <2> QED BY <1>1, <2>1, <2>2 DEF InboundInv, Served
<1>13. Delivered'
  <2>1. \A x \in Positions(tun) : /\ elem[x].counter \in Counters /\ passed[elem[x].counter] > 0
                                  /\ passed'[elem[x].counter] > 0
    <3>1. \A x \in Positions(tun) : x \in 1..count
      BY Members DEF InboundInv
    <3> QED BY <1>6, <3>1 DEF InboundInv, Delivered
  <2>2. receiver'.pc = "write" =>
           /\ elem[e].kind = "packet" /\ passed'[n] > 0 /\ receiver'.elem = e
           /\ \A x \in Positions(tun) : elem[x].counter # n
    BY <1>3, <1>6, <1>7, <2>1
  <2>3. OnlyAuthenticRemembered'
    BY <1>1, <1>2, <1>4, <1>5, <1>6 DEF InboundInv, Delivered, OnlyAuthenticRemembered
  <2> QED BY <1>1, <1>5, <2>1, <2>2, <2>3 DEF InboundInv, Delivered
<1>14. BuffersExclusive'
  <2>1. InUse' \subseteq InUse
    BY <1>1, <1>5, <1>7, PlacesInUse, InUseKept DEF InboundInv
  <2> QED BY <1>1, <2>1, BuffersKept DEF InboundInv
<1> QED BY <1>1, <1>8, <1>10, <1>11, <1>12, <1>13, <1>14, InvKept DEF InboundInv

\* The receiver writes the packet and puts its buffer back: nobody else has it.
LEMMA WriteInv ==
    ASSUME InboundInv, WriteTUN
    PROVE  InboundInv'
<1> DEFINE e == receiver.elem
<1>1. /\ UNCHANGED <<count, qVars, udp, worker, handling, filterVars>>
      /\ receiver.pc = "write" /\ PutMessageBuffer(e) /\ tun' = Append(tun, e)
      /\ receiver' = [pc |-> "idle", elem |-> None] /\ receiver'.pc = "idle" /\ receiver'.elem = None
  BY DEF WriteTUN
<1>2. e \in Elements /\ e # None /\ None \in 0..count /\ e \in 1..count
  BY <1>1, InElements, Members DEF InboundInv
<1>3. /\ e \notin Held /\ e \notin Positions(inboundQ) /\ e \notin Positions(tun) /\ e \in Down
      /\ elem[e].opened
  BY <1>1 DEF InboundInv, Served, Apart, Checking, Down
<1>4. /\ elem[e].kind = "packet" /\ passed[elem[e].counter] > 0
      /\ \A x \in Positions(tun) : elem[x].counter # elem[e].counter
  BY <1>1 DEF InboundInv, Delivered
<1>5. e \notin Shaking /\ \A d \in Conns : udp[d].elem # e /\ udp[d].old # e
  <2>1. \A d \in Conns : udp[d].elem # e
    BY <1>2, <1>3 DEF InboundInv, Apart
  <2>2. e \notin Shaking
    BY <1>2, <1>4 DEF InboundInv, KindsKnown
  <2> QED BY <1>3, <2>1, <2>2 DEF Held
<1> HIDE DEF e
<1>6. /\ elem' \in [Elements -> Element] /\ \A x \in Elements \ {e} : elem'[x] = elem[x]
      /\ elem'[e].puts = elem[e].puts + 1
      /\ \A x \in Elements : /\ elem'[x].kind = elem[x].kind /\ elem'[x].counter = elem[x].counter
                             /\ elem'[x].opened = elem[x].opened /\ elem'[x].dropped = elem[x].dropped
                             /\ elem'[x].locked = elem[x].locked
  BY <1>1, <1>2, PutFacts DEF InboundInv, Typed
<1>7. Positions(tun') = Positions(tun) \cup {e} /\ Distinct(tun')
  <2>1. tun \in Seq(Elements) /\ Distinct(tun)
    BY Members DEF InboundInv, Apart
  <2> QED BY <1>1, <1>2, <1>3, <2>1, AddLast, AddLastDistinct
<1>8. Typed'
  <2>1. Places'
    BY <1>1 DEF InboundInv, Typed, Places
  <2>2. QueuesTyped'
    <3>1. tun' \in Seq(1..count)
      BY <1>1, <1>2, Members, AddLast DEF InboundInv
    <3> QED BY <1>1, <3>1 DEF InboundInv, Typed, QueuesTyped
  <2>3. RoutinesTyped'
    BY <1>1, <1>2 DEF InboundInv, Typed, RoutinesTyped
  <2>4. ElemsTyped'
    BY <1>6 DEF ElemsTyped
  <2> QED BY <1>1, <2>1, <2>2, <2>3, <2>4, TypedKept DEF InboundInv, Typed
<1>9. (\A x \in Down' : x # None => x \in Down) /\ Held' = Held /\ Shaking' = Shaking
  BY <1>1, <1>3, <1>7 DEF Held, Down, Shaking
<1>10. Apart'
  <2>1. receiver'.elem \notin Positions(inboundQ) /\ receiver'.elem \notin Positions(tun')
    BY <1>1, <1>2, <1>7, InElements DEF InboundInv
  <2>2. \A d \in Conns : udp[d].elem # None => udp[d].elem \notin Down'
    BY <1>9 DEF InboundInv, Apart
  <2>3. /\ \A x \in Positions(tun') : x \notin Held
        /\ \A x \in Positions(inboundQ) : x \notin Positions(tun')
    BY <1>3, <1>7 DEF InboundInv, Apart
  <2>4. ~Checking'
    BY <1>1 DEF Checking
  <2> QED BY <1>1, <1>7, <1>9, <2>1, <2>2, <2>3, <2>4 DEF InboundInv, Apart
<1>11. KindsKnown'
  BY <1>1, <1>6, <1>9, KindsKept DEF InboundInv
<1>12. Locking'
  <2>1. \A x \in Held : x # None => elem'[x] = elem[x]
    BY <1>3, <1>6, InElements DEF InboundInv
  <2>2. \A d \in Conns : udp[d].old # None => elem'[udp[d].old].dropped
    BY <1>6, InElements DEF InboundInv, Locking
  <2>3. \A d \in Conns : udp[d].pc \in {"decryption", "release"} =>
           elem'[udp[d].elem] = elem[udp[d].elem]
    BY <1>5, <1>6, InElements DEF InboundInv, Typed, Places
  <2> QED BY <1>1, <1>9, <2>1, <2>2, <2>3 DEF InboundInv, Locking
<1>13. Served'
  <2>1. \A x \in Elements : ToLock(x)' => ToLock(x)
    BY <1>1 DEF ToLock
  <2>2. ~Checking'
    BY <1>1 DEF Checking
  <2> QED BY <1>1, <1>6, <2>1, <2>2 DEF InboundInv, Served
<1>14. Delivered'
  <2>1. \A x \in Positions(tun') : x \in Elements /\ (x \in Positions(tun) \/ x = e)
    BY <1>2, <1>7, InElements DEF InboundInv
  <2>2. \A x \in Positions(tun') :
           elem'[x].opened /\ elem'[x].kind = "packet" /\ passed[elem'[x].counter] > 0
    <3>1. \A x \in Positions(tun') :
             elem[x].opened /\ elem[x].kind = "packet" /\ passed[elem[x].counter] > 0
      BY <1>3, <1>4, <2>1 DEF InboundInv, Delivered
    <3> QED BY <1>6, <2>1, <3>1
  <2>3. \A x, y \in Positions(tun') : x # y => elem'[x].counter # elem'[y].counter
    <3>1. \A x, y \in Positions(tun') : x # y => elem[x].counter # elem[y].counter
      BY <1>4, <2>1 DEF InboundInv, Delivered
    <3>2. \A x \in Positions(tun') : elem'[x].counter = elem[x].counter
      BY <1>6, <2>1
    <3> QED BY <3>1, <3>2
  <2>4. \A x \in 1..count : x \in Elements
    BY Members DEF InboundInv
  <2>5. \A x \in 1..count : elem'[x].counter \in Counters
    BY <1>6, <2>4 DEF InboundInv, Delivered
  <2>6. OnlyAuthenticRemembered'
    BY <1>1, <1>6, <2>4 DEF InboundInv, Delivered, OnlyAuthenticRemembered
  <2>7. \A x \in Elements : elem'[x].opened => elem'[x].kind # "garbled"
    BY <1>6 DEF InboundInv, Delivered
  <2> QED BY <1>1, <2>2, <2>3, <2>5, <2>6, <2>7 DEF Delivered
<1>15. BuffersExclusive'
  <2>1. e \in InUse
    BY <1>2, PlacesInUse DEF InboundInv, e
  <2>2. /\ \A x \in Positions(decryptionQ) : x # e
        /\ \A x \in Positions(inboundQ) : x # e
        /\ \A x \in Positions(handshakeQ) : x # e
        /\ worker.elem # e /\ handling # e
    BY <1>3, <1>5 DEF Held, Shaking
  <2>3. InUse' \subseteq InUse \ {e}
    BY <1>1, <1>5, <2>2, PlacesInUse, InUseLess DEF InboundInv
  <2> QED BY <1>2, <1>6, <2>1, <2>3, BuffersPut DEF InboundInv, Typed
<1> QED BY <1>8, <1>10, <1>11, <1>12, <1>13, <1>14, <1>15 DEF InboundInv


-----------------------------------------------------------------------------
(* The invariant and the theorems *)

\* Every step preserves the invariant.
LEMMA InboundStepInv == InboundInv /\ [Next]_vars => InboundInv'
<1>  SUFFICES ASSUME InboundInv, [Next]_vars PROVE InboundInv'
  OBVIOUS
<1>1. ASSUME NEW c \in Conns, HandleUDP(c) PROVE InboundInv'
  <2>1. CASE ReadFromUDP(c)
    BY <2>1, ReadInv
  <2>2. CASE AddToDecryptionQueue(c)
    BY <2>2, AddToDecryptionInv
  <2>3. CASE EvictFromDecryptionQueue(c)
    BY <2>3, EvictInv
  <2>4. CASE ReleaseEvicted(c)
    BY <2>4, ReleaseInv
  <2>5. CASE AddToInboundQueue(c)
    BY <2>5, AddToInboundInv, DropFromInboundInv
  <2>6. CASE AddToHandshakeQueue(c)
    BY <2>6, AddToHandshakeInv, PutFromHandshakeInv
  <2> QED BY <1>1, <2>1, <2>2, <2>3, <2>4, <2>5, <2>6 DEF HandleUDP
<1>2. ASSUME NEW c \in Conns, RoutineReceiveIncomming(c) PROVE InboundInv'
  BY <1>2, ConnectionInv DEF RoutineReceiveIncomming
<1>3. CASE RoutineDecryption
  BY <1>3, TakeDecryptionInv, OpenInv, OpenPanickedInv DEF RoutineDecryption
<1>4. CASE RoutineHandshake
  BY <1>4, TakeHandshakeInv, FinishHandshakeInv DEF RoutineHandshake
<1>5. CASE RoutineSequentialReceiver
  BY <1>5, TakeInboundInv, LockElementInv, ValidateInv, WriteInv DEF RoutineSequentialReceiver
<1>6. CASE UNCHANGED vars
  <2>1. Typed'
    BY <1>6, TypedKept DEF InboundInv, Typed
  <2> QED BY <1>6, <2>1, InvKept DEF InboundInv
<1> QED BY <1>1, <1>2, <1>3, <1>4, <1>5, <1>6 DEF Next

\* The invariant holds in every reachable state.
LEMMA InboundInvariant == Spec => []InboundInv
  BY InboundInitInv, InboundStepInv, PTL DEF Spec

\* Type correctness, and no queue ever holds more than its channel: handleUDP
\* enqueues only what fits, however many connections share the queues.
THEOREM InboundTypeOK == Spec => []TypeOK
<1>1. InboundInv => TypeOK
  BY TypedIsTypeOK DEF InboundInv
<1> QED BY <1>1, InboundInvariant, PTL

\* No mutex is unlocked twice (receive.go, dropping from the decryption queue
\* and the end of RoutineDecryption): what the worker opens and what the
\* handleUDPs release is locked and all different.
THEOREM InboundUnlockOnce == Spec => []UnlockOnce
<1>1. InboundInv => UnlockOnce
  <2>  SUFFICES ASSUME InboundInv PROVE UnlockOnce
    OBVIOUS
  <2>1. worker.pc = "open" => elem[worker.elem].locked
    BY InElements DEF InboundInv, Locking, Held
  <2>2. ASSUME NEW c \in Conns, udp[c].pc = "release"
        PROVE  /\ elem[udp[c].old].locked /\ udp[c].old # worker.elem
               /\ \A d \in Conns \ {c} : udp[d].old # udp[c].old
    <3>1. udp[c].old # None /\ udp[c].old \in Held
      BY <2>2 DEF InboundInv, Typed, Places, Held
    <3> QED BY <3>1 DEF InboundInv, Apart, Locking
  <2> QED BY <2>1, <2>2 DEF UnlockOnce
<1> QED BY <1>1, InboundInvariant, PTL

\* RoutineSequentialReceiver never waits for a mutex that nobody will unlock,
\* unless RoutineDecryption has ended in a panic of Open.
THEOREM InboundReceiverServed == Spec => []ReceiverServed
<1>1. InboundInv => ReceiverServed
  <2>  SUFFICES ASSUME InboundInv, receiver.pc = "lock", elem[receiver.elem].locked
                PROVE  \/ receiver.elem \in Positions(decryptionQ) /\ ~elem[receiver.elem].dropped
                       \/ worker.pc = "open" /\ worker.elem = receiver.elem
                       \/ \E c \in Conns : udp[c].pc = "release" /\ udp[c].old = receiver.elem
                       \/ worker.pc = "returned"
    BY DEF ReceiverServed
  <2>1. receiver.elem \in Elements /\ receiver.elem # None /\ ToLock(receiver.elem)
    BY InElements DEF InboundInv, ToLock
  <2>2. \A c \in Conns : udp[c].old # None => udp[c].pc = "release"
    BY DEF InboundInv, Typed, Places
  <2> QED BY <2>1, <2>2 DEF InboundInv, Served
<1> QED BY <1>1, InboundInvariant, PTL

\* The TUN device gets authenticated packets only, and no counter twice,
\* whatever the queues lose and however often a message arrives.
THEOREM InboundDeliveredOnce == Spec => []DeliveredOnce
<1>1. InboundInv => DeliveredOnce
  <2>  SUFFICES ASSUME InboundInv PROVE DeliveredOnce
    OBVIOUS
  <2>1. \A i \in DOMAIN tun : tun[i] \in Positions(tun)
    BY DEF Positions
  <2>2. \A i, j \in DOMAIN tun : i # j => tun[i] # tun[j]
    BY DEF InboundInv, Apart, Distinct
  <2> QED BY <2>1, <2>2 DEF InboundInv, Delivered, DeliveredOnce
<1> QED BY <1>1, InboundInvariant, PTL

\* The replay filter remembers counters of messages that authenticated only.
THEOREM InboundOnlyAuthentic == Spec => []OnlyAuthenticRemembered
<1>1. InboundInv => OnlyAuthenticRemembered
  BY DEF InboundInv, Delivered
<1> QED BY <1>1, InboundInvariant, PTL

\* A buffer goes back to the pool at most once, and only when no queue and no
\* goroutine has its element any more (PutMessageBuffer in receive.go).
THEOREM InboundBuffersExclusive == Spec => []BuffersExclusive
<1>1. InboundInv => BuffersExclusive
  BY DEF InboundInv
<1> QED BY <1>1, InboundInvariant, PTL


=============================================================================

---------------------------- MODULE OutboundProofs ----------------------------
(***************************************************************************)
(* Proofs about module OutboundPipeline, for any number of workers and of  *)
(* keep-alive callers, any queue size, any limit on nonces and any number  *)
(* of elements and key pairs: the five invariants the run checks, and that *)
(* the pipeline implements LossyFifo.                                      *)
(*                                                                         *)
(* One inductive invariant, OutboundInv, carries all six.  It says where   *)
(* an element can be: elements move from the nonce queue to RoutineNonce,  *)
(* then through the outbound queue and the sender to the wire, and never   *)
(* overtake one another (InOrder); meanwhile each has at most one holder   *)
(* that will unlock it (HeldOnce), and one that the sender has still to    *)
(* lock is either held or already sealed or dropped (Served).              *)
(***************************************************************************)
EXTENDS OutboundPipeline, TLAPS

-----------------------------------------------------------------------------
(* Queues of rising element numbers *)

Rising(q) == \A i, j \in DOMAIN q : i < j => q[i] < q[j]

\* A sequence over a set is one over a larger set.
LEMMA SeqMonotone ==
    ASSUME NEW S, NEW T, S \subseteq T, NEW s \in Seq(S)
    PROVE  s \in Seq(T)
  OBVIOUS

\* The members of a queue are of the queue's type.
LEMMA PositionsType ==
    ASSUME NEW S, NEW q \in Seq(S)
    PROVE  Positions(q) \subseteq S
  BY DEF Positions

\* An empty queue has no members.
LEMMA PositionsEmpty == Positions(<<>>) = {} /\ Rising(<<>>)
  BY DEF Positions, Rising

\* Taking the oldest element out of a queue.
LEMMA TakeHead ==
    ASSUME NEW S, NEW q \in Seq(S), q # <<>>
    PROVE  /\ Head(q) \in S /\ Tail(q) \in Seq(S)
           /\ Len(q) \in Nat /\ Len(q) > 0 /\ Len(Tail(q)) = Len(q) - 1
           /\ Positions(q) = {Head(q)} \cup Positions(Tail(q))
<1>1. Len(q) \in Nat /\ Len(q) > 0 /\ DOMAIN q = 1..Len(q) /\ Head(q) = q[1]
  OBVIOUS
<1>2. /\ Tail(q) \in Seq(S) /\ Len(Tail(q)) = Len(q) - 1 /\ DOMAIN Tail(q) = 1..(Len(q) - 1)
      /\ \A i \in 1..(Len(q) - 1) : Tail(q)[i] = q[i + 1]
  OBVIOUS
<1>3. ASSUME NEW x \in Positions(q) PROVE x \in {Head(q)} \cup Positions(Tail(q))
  <2>1. PICK i \in 1..Len(q) : x = q[i]
    BY <1>1 DEF Positions
  <2>2. CASE i = 1
    BY <2>1, <2>2, <1>1
  <2>3. CASE i # 1
    <3>1. i - 1 \in 1..(Len(q) - 1) /\ Tail(q)[i - 1] = x
      BY <2>1, <2>3, <1>1, <1>2
    <3> QED BY <3>1, <1>2 DEF Positions
  <2> QED BY <2>2, <2>3
<1>4. ASSUME NEW x \in Positions(Tail(q)) PROVE x \in Positions(q)
  <2>1. PICK i \in 1..(Len(q) - 1) : x = Tail(q)[i]
    BY <1>2 DEF Positions
  <2>2. i + 1 \in DOMAIN q /\ x = q[i + 1]
    BY <2>1, <1>1, <1>2
  <2> QED BY <2>2 DEF Positions
<1>5. Head(q) \in Positions(q) /\ Head(q) \in S
  <2>1. 1 \in DOMAIN q
    BY <1>1
  <2> QED BY <2>1, <1>1 DEF Positions
<1> QED BY <1>1, <1>2, <1>3, <1>4, <1>5

\* The oldest element of a rising queue is below the others.
LEMMA TakeHeadRising ==
    ASSUME NEW S, NEW q \in Seq(S), q # <<>>, Rising(q)
    PROVE  /\ Rising(Tail(q))
           /\ \A x \in Positions(Tail(q)) : Head(q) < x
<1>1. Len(q) \in Nat /\ Len(q) > 0 /\ DOMAIN q = 1..Len(q) /\ Head(q) = q[1]
  OBVIOUS
<1>2. /\ DOMAIN Tail(q) = 1..(Len(q) - 1)
      /\ \A i \in 1..(Len(q) - 1) : Tail(q)[i] = q[i + 1]
  OBVIOUS
<1>3. \A i \in 1..(Len(q) - 1) : i + 1 \in DOMAIN q /\ 1 \in DOMAIN q /\ 1 < i + 1
  BY <1>1
<1>4. Rising(Tail(q))
  BY <1>1, <1>2, <1>3 DEF Rising
<1>5. \A x \in Positions(Tail(q)) : Head(q) < x
  BY <1>1, <1>2, <1>3 DEF Rising, Positions
<1> QED BY <1>4, <1>5

\* Adding an element to a queue.
LEMMA AddLast ==
    ASSUME NEW S, NEW q \in Seq(S), NEW x \in S
    PROVE  /\ Append(q, x) \in Seq(S)
           /\ Len(q) \in Nat /\ Len(Append(q, x)) = Len(q) + 1
           /\ Positions(Append(q, x)) = Positions(q) \cup {x}
<1>1. /\ Append(q, x) \in Seq(S) /\ Len(q) \in Nat /\ DOMAIN q = 1..Len(q)
      /\ Len(Append(q, x)) = Len(q) + 1 /\ DOMAIN Append(q, x) = 1..(Len(q) + 1)
      /\ \A i \in 1..Len(q) : Append(q, x)[i] = q[i]
      /\ Append(q, x)[Len(q) + 1] = x
  OBVIOUS
<1>2. \A i \in 1..(Len(q) + 1) : i \in 1..Len(q) \/ i = Len(q) + 1
  BY <1>1
<1>3. 1..Len(q) \subseteq 1..(Len(q) + 1) /\ Len(q) + 1 \in 1..(Len(q) + 1)
  BY <1>1
<1> QED BY <1>1, <1>2, <1>3 DEF Positions

\* A queue keeps rising when the new element is above the others.
LEMMA AddLastRising ==
    ASSUME NEW S, NEW q \in Seq(S), NEW x \in S, Rising(q), \A y \in Positions(q) : y < x
    PROVE  Rising(Append(q, x))
<1>1. /\ Len(q) \in Nat /\ DOMAIN q = 1..Len(q) /\ DOMAIN Append(q, x) = 1..(Len(q) + 1)
      /\ \A i \in 1..Len(q) : Append(q, x)[i] = q[i]
      /\ Append(q, x)[Len(q) + 1] = x
  OBVIOUS
<1>2. \A i \in 1..(Len(q) + 1) : i \in 1..Len(q) \/ i = Len(q) + 1
  BY <1>1
<1>3. \A i \in 1..Len(q) : q[i] < x
  BY <1>1 DEF Positions
<1> QED BY <1>1, <1>2, <1>3 DEF Rising

-----------------------------------------------------------------------------
(* Typing *)

Element == [dropped : BOOLEAN, locked : BOOLEAN, sealed : BOOLEAN,
            keyPair : KeyPairs \cup {None}, nonce : Nat]

ElemsTyped == elem \in [Elements -> Element]

QueuesTyped ==
    /\ count \in 0..MaxElements
    /\ nonceQ \in Seq(1..count) /\ Len(nonceQ) <= QueueOutboundSize
    /\ encryptionQ \in Seq(1..count) /\ Len(encryptionQ) <= QueueOutboundSize
    /\ outboundQ \in Seq(1..count) /\ Len(outboundQ) <= QueueOutboundSize
    /\ sent \in Seq(1..count)

\* A routine that is busy has its element.
Places ==
    /\ nonce.elem # None <=> nonce.pc \in {"select", "await", "encryption", "release", "outbound"}
    /\ nonce.old # None <=> nonce.pc = "release"
    /\ sender.elem # None <=> sender.pc # "idle"

RoutinesTyped ==
    /\ nonce \in [pc : {"idle", "select", "await", "flush", "encryption", "release", "outbound"},
                  elem : 0..count, old : 0..count, left : 0..QueueOutboundSize]
    /\ working \in [Workers -> 0..count]
    /\ sender \in [pc : {"idle", "lock", "send"}, elem : 0..count]
    /\ Places

SignalsTyped ==
    /\ reading \in BOOLEAN /\ checked \subseteq KeepAliveCallers
    /\ keys \in 0..MaxKeyPairs /\ current \in 0..keys /\ fresh \in BOOLEAN
    /\ sendNonce \in [KeyPairs -> 0..RejectAfterMessages]
    /\ newKeyPair \in BOOLEAN /\ flushNonceQueue \in BOOLEAN /\ handshakeBegin \in BOOLEAN

Typed == ElemsTyped /\ QueuesTyped /\ RoutinesTyped /\ SignalsTyped

USE DEF vars, qVars, keyVars, signals

\* The parts make up the type invariant of the run.
LEMMA TypedIsTypeOK == Typed <=> TypeOK /\ Places
  BY DEF Typed, ElemsTyped, Element, QueuesTyped, RoutinesTyped, SignalsTyped, TypeOK

\* What Drop changes in an element, and what it leaves alone.
LEMMA DropFacts ==
    ASSUME ElemsTyped, NEW e \in Elements
    PROVE  /\ Drop(e) \in [Elements -> Element]
           /\ \A x \in Elements \ {e} : Drop(e)[x] = elem[x]
           /\ Drop(e)[e].dropped
           /\ Drop(e)[e].locked = elem[e].locked /\ Drop(e)[e].sealed = elem[e].sealed
           /\ Drop(e)[e].keyPair = elem[e].keyPair /\ Drop(e)[e].nonce = elem[e].nonce
  BY DEF Drop, ElemsTyped, Element

\* The same for the mutex of an element.
LEMMA LockFacts ==
    ASSUME ElemsTyped, NEW e \in Elements, elem' = [elem EXCEPT ![e].locked = TRUE]
    PROVE  /\ elem' \in [Elements -> Element]
           /\ \A x \in Elements \ {e} : elem'[x] = elem[x]
           /\ elem'[e].locked
           /\ elem'[e].dropped = elem[e].dropped /\ elem'[e].sealed = elem[e].sealed
           /\ elem'[e].keyPair = elem[e].keyPair /\ elem'[e].nonce = elem[e].nonce
  BY DEF ElemsTyped, Element

\* And for unlocking it.
LEMMA UnlockFacts ==
    ASSUME ElemsTyped, NEW e \in Elements, elem' = [elem EXCEPT ![e].locked = FALSE]
    PROVE  /\ elem' \in [Elements -> Element]
           /\ \A x \in Elements \ {e} : elem'[x] = elem[x]
           /\ ~elem'[e].locked
           /\ elem'[e].dropped = elem[e].dropped /\ elem'[e].sealed = elem[e].sealed
           /\ elem'[e].keyPair = elem[e].keyPair /\ elem'[e].nonce = elem[e].nonce
  BY DEF ElemsTyped, Element

\* Sealing an element unlocks it.
LEMMA SealFacts ==
    ASSUME ElemsTyped, NEW e \in Elements,
           elem' = [elem EXCEPT ![e].sealed = TRUE, ![e].locked = FALSE]
    PROVE  /\ elem' \in [Elements -> Element]
           /\ \A x \in Elements \ {e} : elem'[x] = elem[x]
           /\ elem'[e].sealed /\ ~elem'[e].locked
           /\ elem'[e].dropped = elem[e].dropped
           /\ elem'[e].keyPair = elem[e].keyPair /\ elem'[e].nonce = elem[e].nonce
  BY DEF ElemsTyped, Element

\* RoutineNonce starts an element afresh: locked, with the next nonce of the pair.
LEMMA AssignFacts ==
    ASSUME Typed, AssignNonce
    PROVE  /\ nonce.elem \in Elements /\ current \in KeyPairs
           /\ elem' \in [Elements -> Element]
           /\ \A x \in Elements \ {nonce.elem} : elem'[x] = elem[x]
           /\ elem'[nonce.elem].locked /\ ~elem'[nonce.elem].dropped
           /\ elem'[nonce.elem].keyPair = current
           /\ elem'[nonce.elem].nonce = sendNonce[current]
           /\ sendNonce' \in [KeyPairs -> 0..RejectAfterMessages]
           /\ sendNonce'[current] = sendNonce[current] + 1
           /\ sendNonce[current] < RejectAfterMessages
<1>1. nonce.elem \in Elements
  BY SizeAssumption DEF AssignNonce, Typed, RoutinesTyped, QueuesTyped, Places, Elements, None
<1>2. /\ current \in KeyPairs /\ sendNonce[current] \in Nat
      /\ sendNonce[current] < RejectAfterMessages
  BY SizeAssumption DEF AssignNonce, Usable, Typed, SignalsTyped, KeyPairs, None
<1>3. /\ sendNonce' \in [KeyPairs -> 0..RejectAfterMessages]
      /\ sendNonce'[current] = sendNonce[current] + 1
  BY <1>2, SizeAssumption DEF AssignNonce, Typed, SignalsTyped
<1> DEFINE r == [dropped |-> FALSE, locked |-> TRUE, sealed |-> FALSE,
                 keyPair |-> current, nonce |-> sendNonce[current]]
<1>4. r \in Element
  BY <1>2 DEF Element
<1>5. /\ r.locked /\ ~r.dropped /\ r.keyPair = current /\ r.nonce = sendNonce[current]
  OBVIOUS
<1>6. elem' = [elem EXCEPT ![nonce.elem] = r]
  BY DEF AssignNonce
<1> HIDE DEF r
<1>7. /\ elem' \in [Elements -> Element]
      /\ \A x \in Elements \ {nonce.elem} : elem'[x] = elem[x]
      /\ elem'[nonce.elem] = r
  BY <1>1, <1>4, <1>6 DEF Typed, ElemsTyped
<1> QED BY <1>1, <1>2, <1>3, <1>5, <1>7

\* The members of the queues are numbers of elements.
LEMMA Members ==
    ASSUME Typed
    PROVE  /\ count \in Nat /\ MaxElements \in Nat /\ count <= MaxElements
           /\ 1..count \subseteq Elements /\ 0..count \subseteq Int
           /\ nonceQ \in Seq(1..count) /\ encryptionQ \in Seq(1..count)
           /\ outboundQ \in Seq(1..count) /\ sent \in Seq(1..count)
           /\ Positions(nonceQ) \subseteq 1..count
           /\ Positions(encryptionQ) \subseteq 1..count
           /\ Positions(outboundQ) \subseteq 1..count
           /\ Positions(sent) \subseteq 1..count
           /\ \A w \in Workers : working[w] \in 0..count
           /\ nonce.elem \in 0..count /\ nonce.old \in 0..count /\ sender.elem \in 0..count
<1>1. /\ nonceQ \in Seq(1..count) /\ encryptionQ \in Seq(1..count)
      /\ outboundQ \in Seq(1..count) /\ sent \in Seq(1..count)
  BY DEF Typed, QueuesTyped
<1>2. /\ count \in Nat /\ MaxElements \in Nat /\ count <= MaxElements
      /\ 1..count \subseteq Elements /\ 0..count \subseteq Int
  BY SizeAssumption DEF Typed, QueuesTyped, Elements
<1> QED BY <1>1, <1>2, PositionsType DEF Typed, RoutinesTyped

\* A full queue holds an element.
LEMMA FullQueue ==
    ASSUME NEW q \in Seq(1..count), Full(q)
    PROVE  q # <<>>
  BY SizeAssumption DEF Full

\* A queue stays typed when its oldest element leaves.
LEMMA TailTyped ==
    ASSUME NEW q \in Seq(1..count), q # <<>>, Len(q) <= QueueOutboundSize
    PROVE  /\ Head(q) \in 1..count /\ Tail(q) \in Seq(1..count)
           /\ Len(Tail(q)) <= QueueOutboundSize
<1>1. Head(q) \in 1..count /\ Tail(q) \in Seq(1..count)
  BY TakeHead
<1>2. Len(q) \in Nat /\ Len(Tail(q)) = Len(q) - 1
  BY TakeHead
<1> QED BY <1>1, <1>2, SizeAssumption

\* A queue stays typed when elements enter the pipeline.
LEMMA EnterTyped ==
    ASSUME Typed, EnterNonceQueue
    PROVE  /\ count' \in 0..MaxElements /\ count' = count + 1
           /\ 1..count \subseteq 1..count' /\ 0..count \subseteq 0..count'
           /\ nonceQ' \in Seq(1..count') /\ Len(nonceQ') <= QueueOutboundSize
           /\ encryptionQ \in Seq(1..count') /\ outboundQ \in Seq(1..count')
           /\ sent \in Seq(1..count')
<1>1. count \in Nat /\ count' = count + 1 /\ count' \in 0..MaxElements
  BY Members DEF EnterNonceQueue
<1>2. 1..count \subseteq 1..count' /\ 0..count \subseteq 0..count' /\ count' \in 1..count'
  BY <1>1
<1>3. /\ nonceQ \in Seq(1..count') /\ encryptionQ \in Seq(1..count')
      /\ outboundQ \in Seq(1..count') /\ sent \in Seq(1..count')
  BY <1>2, Members, SeqMonotone
<1>4. nonceQ' = Append(nonceQ, count') /\ Len(nonceQ) < QueueOutboundSize
  BY <1>1, SizeAssumption DEF EnterNonceQueue, Full, Typed, QueuesTyped
<1> QED BY <1>1, <1>2, <1>3, <1>4, AddLast, SizeAssumption

\* Parts of the type that a step leaves alone.
LEMMA TypedKept ==
    /\ ElemsTyped /\ UNCHANGED elem => ElemsTyped'
    /\ QueuesTyped /\ UNCHANGED <<count, qVars, sent>> => QueuesTyped'
    /\ RoutinesTyped /\ UNCHANGED <<count, nonce, working, sender>> => RoutinesTyped'
    /\ SignalsTyped /\ UNCHANGED <<reading, checked, keyVars, signals>> => SignalsTyped'
  BY DEF ElemsTyped, QueuesTyped, RoutinesTyped, SignalsTyped, Places

\* A nonce routine with new values in its fields.
LEMMA NonceTyped ==
    ASSUME RoutinesTyped, UNCHANGED <<count, working, sender>>,
           NEW p \in {"idle", "select", "await", "flush", "encryption", "release", "outbound"},
           NEW e \in 0..count, NEW o \in 0..count, NEW l \in 0..QueueOutboundSize,
           nonce' = [pc |-> p, elem |-> e, old |-> o, left |-> l],
           e # None <=> p \in {"select", "await", "encryption", "release", "outbound"},
           o # None <=> p = "release"
    PROVE  RoutinesTyped'
  BY DEF RoutinesTyped, Places

\* The fields of the nonce routine.
LEMMA NonceFields ==
    ASSUME RoutinesTyped
    PROVE  /\ nonce = [pc |-> nonce.pc, elem |-> nonce.elem, old |-> nonce.old, left |-> nonce.left]
           /\ nonce.elem \in 0..count /\ nonce.old \in 0..count
           /\ nonce.left \in 0..QueueOutboundSize
  BY DEF RoutinesTyped

\* RoutineReadFromTUN and SendKeepAlive keep the types.
LEMMA EnterTypedStep ==
    ASSUME Typed, RoutineReadFromTUN \/ SendKeepAlive
    PROVE  Typed'
<1>1. CASE ReadFromTUN
  <2>1. SignalsTyped'
    BY <1>1 DEF ReadFromTUN, Typed, SignalsTyped
  <2> QED BY <1>1, <2>1, TypedKept DEF ReadFromTUN, Typed
<1>2. ASSUME EnterNonceQueue, UNCHANGED <<encryptionQ, outboundQ, nonce, working, sender, sent>>
      PROVE  QueuesTyped' /\ RoutinesTyped'
  <2>1. QueuesTyped'
    BY <1>2, EnterTyped DEF Typed, QueuesTyped
  <2>2. RoutinesTyped'
    BY <1>2, EnterTyped DEF Typed, RoutinesTyped, Places
  <2> QED BY <2>1, <2>2
<1>3. CASE AddToNonceQueue
  <2>1. SignalsTyped'
    BY <1>3 DEF AddToNonceQueue, Typed, SignalsTyped
  <2>2. CASE EnterNonceQueue /\ UNCHANGED elem
    BY <1>2, <1>3, <2>1, <2>2, TypedKept DEF AddToNonceQueue, Typed
  <2>3. CASE Full(nonceQ) /\ elem' = Drop(Head(nonceQ)) /\ nonceQ' = Tail(nonceQ) /\ UNCHANGED count
    <3>1. Head(nonceQ) \in 1..count /\ QueuesTyped'
      <4>1. nonceQ \in Seq(1..count) /\ Len(nonceQ) <= QueueOutboundSize
        BY Members DEF Typed, QueuesTyped
      <4>2. nonceQ # <<>>
        BY <1>3, <2>3, <4>1, FullQueue DEF AddToNonceQueue
      <4>3. /\ Head(nonceQ) \in 1..count /\ Tail(nonceQ) \in Seq(1..count)
            /\ Len(Tail(nonceQ)) <= QueueOutboundSize
        BY <4>1, <4>2, TailTyped
      <4> QED BY <1>3, <2>3, <4>3 DEF AddToNonceQueue, Typed, QueuesTyped
    <3>2. ElemsTyped'
      BY <2>3, <3>1, Members, DropFacts DEF Typed, ElemsTyped
    <3> QED BY <1>3, <2>1, <2>3, <3>1, <3>2, TypedKept DEF AddToNonceQueue, Typed
  <2> QED BY <1>3, <2>2, <2>3 DEF AddToNonceQueue
<1>4. ASSUME NEW g \in KeepAliveCallers, KeepAliveCheck(g) PROVE Typed'
  <2>1. SignalsTyped'
    BY <1>4 DEF KeepAliveCheck, Typed, SignalsTyped
  <2> QED BY <1>4, <2>1, TypedKept DEF KeepAliveCheck, Typed
<1>5. ASSUME NEW g \in KeepAliveCallers, KeepAliveSend(g) PROVE Typed'
  <2>1. SignalsTyped'
    BY <1>5 DEF KeepAliveSend, Typed, SignalsTyped
  <2>2. QueuesTyped' /\ RoutinesTyped'
    BY <1>2, <1>5, TypedKept DEF KeepAliveSend, Typed
  <2> QED BY <1>5, <2>1, <2>2, TypedKept DEF KeepAliveSend, Typed
<1> QED BY <1>1, <1>3, <1>4, <1>5 DEF RoutineReadFromTUN, SendKeepAlive

\* RoutineNonce keeps the types.
LEMMA NonceTypedStep ==
    ASSUME Typed, RoutineNonce
    PROVE  Typed'
<1>1. CASE TakeNonce
  <2>1. Head(nonceQ) \in 1..count /\ QueuesTyped'
    BY <1>1, Members, TakeHead, SizeAssumption DEF TakeNonce, Typed, QueuesTyped
  <2>2. nonce' = [pc |-> "select", elem |-> Head(nonceQ), old |-> nonce.old, left |-> nonce.left]
    BY <1>1, NonceFields DEF TakeNonce, NonceAt, Typed
  <2>3. nonce.old = None /\ Head(nonceQ) # None /\ Head(nonceQ) \in 0..count
    BY <1>1, <2>1, Members DEF TakeNonce, Typed, RoutinesTyped, Places, None
  <2>4. RoutinesTyped'
    BY <1>1, <2>2, <2>3, NonceTyped, NonceFields DEF TakeNonce, Typed, None
  <2> QED BY <1>1, <2>1, <2>4, TypedKept DEF TakeNonce, Typed
<1>2. CASE AssignNonce
  <2>1. ElemsTyped' /\ SignalsTyped'
    BY <1>2, AssignFacts DEF AssignNonce, Typed, ElemsTyped, SignalsTyped
  <2>2. RoutinesTyped'
    BY <1>2 DEF AssignNonce, NonceAt, Typed, RoutinesTyped, Places
  <2> QED BY <1>2, <2>1, <2>2, TypedKept DEF AssignNonce, Typed
<1>3. CASE AwaitKeyPair
  <2>1. SignalsTyped'
    BY <1>3 DEF AwaitKeyPair, Typed, SignalsTyped
  <2>2. RoutinesTyped'
    BY <1>3 DEF AwaitKeyPair, NonceAt, Typed, RoutinesTyped, Places
  <2> QED BY <1>3, <2>1, <2>2, TypedKept DEF AwaitKeyPair, Typed
<1>4. CASE NewKeyPairSignalled
  <2>1. SignalsTyped'
    BY <1>4 DEF NewKeyPairSignalled, Typed, SignalsTyped
  <2>2. RoutinesTyped'
    BY <1>4 DEF NewKeyPairSignalled, NonceAt, Typed, RoutinesTyped, Places
  <2> QED BY <1>4, <2>1, <2>2, TypedKept DEF NewKeyPairSignalled, Typed
<1>5. CASE FlushSignalled
  <2>1. SignalsTyped'
    BY <1>5 DEF FlushSignalled, Typed, SignalsTyped
  <2>2. Len(nonceQ) \in 0..QueueOutboundSize
    BY SizeAssumption DEF Typed, QueuesTyped
  <2>3. RoutinesTyped'
    BY <1>5, <2>2, Members DEF FlushSignalled, Typed, RoutinesTyped, Places, None
  <2> QED BY <1>5, <2>1, <2>3, TypedKept DEF FlushSignalled, Typed
<1>6. CASE FlushNonceQueue
  <2>1. nonce.elem = None /\ nonce.old = None /\ nonce.left \in 0..QueueOutboundSize
    BY <1>6, NonceFields DEF FlushNonceQueue, Typed, RoutinesTyped, Places
  <2>2. CASE nonce.left > 0 /\ nonceQ # <<>>
    <3>1. nonceQ' \in Seq(1..count) /\ Len(nonceQ') <= QueueOutboundSize
      <4>1. nonceQ' = Tail(nonceQ) /\ nonceQ \in Seq(1..count)
        BY <1>6, <2>2, Members DEF FlushNonceQueue
      <4>2. Len(nonceQ) <= QueueOutboundSize
        BY DEF Typed, QueuesTyped
      <4> QED BY <2>2, <4>1, <4>2, TakeHead, SizeAssumption
    <3>2. QueuesTyped'
      BY <1>6, <3>1 DEF FlushNonceQueue, Typed, QueuesTyped
    <3>3. nonce' = [pc |-> nonce.pc, elem |-> nonce.elem, old |-> nonce.old, left |-> nonce.left - 1]
      BY <1>6, <2>2, NonceFields DEF FlushNonceQueue, Typed
    <3>4. nonce.left - 1 \in 0..QueueOutboundSize
      BY <2>1, <2>2, SizeAssumption
    <3>5. RoutinesTyped'
      BY <1>6, <2>1, <3>3, <3>4, NonceTyped, NonceFields DEF FlushNonceQueue, Typed
    <3> QED BY <1>6, <3>2, <3>5, TypedKept DEF FlushNonceQueue, Typed
  <2>3. CASE ~(nonce.left > 0 /\ nonceQ # <<>>)
    <3>1. nonce' = [pc |-> "idle", elem |-> nonce.elem, old |-> nonce.old, left |-> 0]
      BY <1>6, <2>3, NonceFields DEF FlushNonceQueue, Typed
    <3>2. 0 \in 0..QueueOutboundSize
      BY SizeAssumption
    <3>3. RoutinesTyped'
      BY <1>6, <2>1, <3>1, <3>2, NonceTyped, NonceFields DEF FlushNonceQueue, Typed
    <3> QED BY <1>6, <2>3, <3>3, TypedKept DEF FlushNonceQueue, Typed
  <2> QED BY <2>2, <2>3
<1>7. CASE AddToEncryptionQueue
  <2>1. nonce.elem \in 1..count
    BY <1>7, Members DEF AddToEncryptionQueue, Typed, RoutinesTyped, Places, None
  <2>2. QueuesTyped'
    <3>1. encryptionQ' \in Seq(1..count) /\ Len(encryptionQ') <= QueueOutboundSize
      BY <1>7, <2>1, Members, AddLast, SizeAssumption
         DEF AddToEncryptionQueue, Typed, QueuesTyped, Full
    <3> QED BY <1>7, <3>1 DEF AddToEncryptionQueue, Typed, QueuesTyped
  <2>3. RoutinesTyped'
    BY <1>7 DEF AddToEncryptionQueue, NonceAt, Typed, RoutinesTyped, Places
  <2> QED BY <1>7, <2>2, <2>3, TypedKept DEF AddToEncryptionQueue, Typed
<1>8. CASE EvictFromEncryptionQueue
  <2>1. Head(encryptionQ) \in 1..count /\ QueuesTyped'
    <3>1. encryptionQ \in Seq(1..count) /\ Len(encryptionQ) <= QueueOutboundSize
      BY Members DEF Typed, QueuesTyped
    <3>2. encryptionQ # <<>>
      BY <1>8, <3>1, FullQueue DEF EvictFromEncryptionQueue
    <3>3. /\ Head(encryptionQ) \in 1..count /\ Tail(encryptionQ) \in Seq(1..count)
          /\ Len(Tail(encryptionQ)) <= QueueOutboundSize
      BY <3>1, <3>2, TailTyped
    <3> QED BY <1>8, <3>3 DEF EvictFromEncryptionQueue, Typed, QueuesTyped
  <2>2. ElemsTyped'
    BY <1>8, <2>1, Members, DropFacts DEF EvictFromEncryptionQueue, Typed, ElemsTyped
  <2>3. RoutinesTyped'
    <3>1. nonce' = [pc |-> "release", elem |-> nonce.elem, old |-> Head(encryptionQ),
                    left |-> nonce.left]
      BY <1>8, NonceFields DEF EvictFromEncryptionQueue, Typed
    <3>2. nonce.elem # None /\ Head(encryptionQ) # None /\ Head(encryptionQ) \in 0..count
      BY <1>8, <2>1, Members DEF EvictFromEncryptionQueue, Typed, RoutinesTyped, Places, None
    <3> QED BY <1>8, <3>1, <3>2, NonceTyped, NonceFields DEF EvictFromEncryptionQueue, Typed
  <2> QED BY <1>8, <2>1, <2>2, <2>3, TypedKept DEF EvictFromEncryptionQueue, Typed
<1>9. CASE ReleaseEvicted
  <2>1. nonce.old \in Elements
    BY <1>9, Members DEF ReleaseEvicted, Typed, RoutinesTyped, Places, None
  <2>2. ElemsTyped'
    BY <1>9, <2>1, UnlockFacts DEF ReleaseEvicted, Typed, ElemsTyped
  <2>3. RoutinesTyped'
    <3>1. nonce' = [pc |-> "encryption", elem |-> nonce.elem, old |-> None, left |-> nonce.left]
      BY <1>9, NonceFields DEF ReleaseEvicted, Typed
    <3>2. nonce.elem # None /\ None \in 0..count
      BY <1>9, Members DEF ReleaseEvicted, Typed, RoutinesTyped, Places, None
    <3> QED BY <1>9, <3>1, <3>2, NonceTyped, NonceFields DEF ReleaseEvicted, Typed
  <2> QED BY <1>9, <2>2, <2>3, TypedKept DEF ReleaseEvicted, Typed
<1>10. CASE AddToOutboundQueue /\ ~Full(outboundQ)
  <2>1. nonce.elem \in 1..count
    BY <1>10, Members DEF AddToOutboundQueue, Typed, RoutinesTyped, Places, None
  <2>2. QueuesTyped'
    <3>1. outboundQ' \in Seq(1..count) /\ Len(outboundQ') <= QueueOutboundSize
      <4>1. outboundQ' = Append(outboundQ, nonce.elem) /\ outboundQ \in Seq(1..count)
        BY <1>10, Members DEF AddToOutboundQueue
      <4>2. Len(outboundQ) <= QueueOutboundSize /\ Len(outboundQ) # QueueOutboundSize
        BY <1>10 DEF Typed, QueuesTyped, Full
      <4> QED BY <2>1, <4>1, <4>2, AddLast, SizeAssumption
    <3> QED BY <1>10, <3>1 DEF AddToOutboundQueue, Typed, QueuesTyped
  <2>3. RoutinesTyped'
    <3>1. nonce' = [pc |-> "idle", elem |-> None, old |-> nonce.old, left |-> nonce.left]
      BY <1>10, NonceFields DEF AddToOutboundQueue, NonceAt, Typed
    <3>2. nonce.old = None /\ None \in 0..count
      BY <1>10, Members DEF AddToOutboundQueue, Typed, RoutinesTyped, Places, None
    <3> QED BY <1>10, <3>1, <3>2, NonceTyped, NonceFields DEF AddToOutboundQueue, Typed
  <2> QED BY <1>10, <2>2, <2>3, TypedKept DEF AddToOutboundQueue, Typed
<1>11. CASE AddToOutboundQueue /\ Full(outboundQ)
  <2>1. /\ Head(outboundQ) \in 1..count /\ outboundQ' \in Seq(1..count)
        /\ Len(outboundQ') <= QueueOutboundSize /\ UNCHANGED nonce /\ elem' = Drop(Head(outboundQ))
    <3>1. outboundQ' = Tail(outboundQ) /\ UNCHANGED nonce /\ elem' = Drop(Head(outboundQ))
      BY <1>11 DEF AddToOutboundQueue
    <3>2. outboundQ \in Seq(1..count) /\ outboundQ # <<>> /\ Len(outboundQ) <= QueueOutboundSize
      BY <1>11, Members, FullQueue DEF Typed, QueuesTyped
    <3>3. /\ Head(outboundQ) \in 1..count /\ Tail(outboundQ) \in Seq(1..count)
          /\ Len(Tail(outboundQ)) <= QueueOutboundSize
      <4>1. /\ Head(outboundQ) \in 1..count /\ Tail(outboundQ) \in Seq(1..count)
            /\ Len(outboundQ) \in Nat /\ Len(Tail(outboundQ)) = Len(outboundQ) - 1
        BY <3>2, TakeHead
      <4> QED BY <3>2, <4>1, SizeAssumption
    <3> QED BY <3>1, <3>3
  <2>3. QueuesTyped'
    BY <1>11, <2>1 DEF AddToOutboundQueue, Typed, QueuesTyped
  <2>2. ElemsTyped'
    BY <2>1, Members, DropFacts DEF Typed, ElemsTyped
  <2> QED BY <1>11, <2>1, <2>2, <2>3, TypedKept DEF AddToOutboundQueue, Typed
<1> QED BY <1>1, <1>2, <1>3, <1>4, <1>5, <1>6, <1>7, <1>8, <1>9, <1>10, <1>11 DEF RoutineNonce

\* The workers and the sender keep the types.
LEMMA SenderTypedStep ==
    ASSUME Typed, (\E w \in Workers : RoutineEncryption(w)) \/ RoutineSequentialSender
    PROVE  Typed'
<1>1. ASSUME NEW w \in Workers, TakeEncryption(w) PROVE Typed'
  <2>1. Head(encryptionQ) \in 1..count /\ QueuesTyped'
    <3>1. encryptionQ \in Seq(1..count) /\ Len(encryptionQ) <= QueueOutboundSize
      BY Members DEF Typed, QueuesTyped
    <3>2. encryptionQ # <<>>
      BY <1>1 DEF TakeEncryption
    <3>3. /\ Head(encryptionQ) \in 1..count /\ Tail(encryptionQ) \in Seq(1..count)
          /\ Len(Tail(encryptionQ)) <= QueueOutboundSize
      BY <3>1, <3>2, TailTyped
    <3> QED BY <1>1, <3>3 DEF TakeEncryption, Typed, QueuesTyped
  <2>2. RoutinesTyped'
    <3>1. Head(encryptionQ) \in 0..count
      BY <2>1, Members
    <3>2. working' \in [Workers -> 0..count]
      BY <1>1, <3>1 DEF TakeEncryption, Typed, RoutinesTyped
    <3> QED BY <1>1, <3>2 DEF TakeEncryption, Typed, RoutinesTyped, Places
  <2> QED BY <1>1, <2>1, <2>2, TypedKept DEF TakeEncryption, Typed
<1>2. ASSUME NEW w \in Workers, Seal(w) PROVE Typed'
  <2>1. working[w] \in Elements
    BY <1>2, Members DEF Seal, None
  <2>2. ElemsTyped'
    BY <1>2, <2>1, SealFacts DEF Seal, Typed, ElemsTyped
  <2>3. RoutinesTyped'
    BY <1>2, Members DEF Seal, Typed, RoutinesTyped, Places, None
  <2> QED BY <1>2, <2>2, <2>3, TypedKept DEF Seal, Typed
<1>3. CASE TakeOutbound
  <2>1. Head(outboundQ) \in 1..count /\ QueuesTyped'
    <3>1. outboundQ \in Seq(1..count) /\ Len(outboundQ) <= QueueOutboundSize
      BY Members DEF Typed, QueuesTyped
    <3>2. outboundQ # <<>>
      BY <1>3 DEF TakeOutbound
    <3>3. /\ Head(outboundQ) \in 1..count /\ Tail(outboundQ) \in Seq(1..count)
          /\ Len(Tail(outboundQ)) <= QueueOutboundSize
      BY <3>1, <3>2, TailTyped
    <3> QED BY <1>3, <3>3 DEF TakeOutbound, Typed, QueuesTyped
  <2>2. RoutinesTyped'
    <3>1. Head(outboundQ) \in 0..count /\ Head(outboundQ) # None
      BY <2>1, Members DEF None
    <3>2. sender' \in [pc : {"idle", "lock", "send"}, elem : 0..count]
      BY <1>3, <3>1 DEF TakeOutbound, Typed, RoutinesTyped
    <3>3. sender'.elem # None <=> sender'.pc # "idle"
      BY <1>3, <3>1 DEF TakeOutbound, Typed, RoutinesTyped, Places
    <3> QED BY <1>3, <3>2, <3>3 DEF TakeOutbound, Typed, RoutinesTyped, Places
  <2> QED BY <1>3, <2>1, <2>2, TypedKept DEF TakeOutbound, Typed
<1>4. CASE LockElement
  <2>1. sender.elem \in Elements
    BY <1>4, Members DEF LockElement, Typed, RoutinesTyped, Places, None
  <2>2. ElemsTyped'
    BY <1>4, <2>1, LockFacts DEF LockElement, Typed, ElemsTyped
  <2>3. RoutinesTyped'
    <3>1. sender.elem \in 0..count /\ None \in 0..count
      BY Members DEF None
    <3>2. sender' \in [pc : {"idle", "lock", "send"}, elem : 0..count]
      BY <1>4, <3>1 DEF LockElement, Typed, RoutinesTyped
    <3>3. sender'.elem # None <=> sender'.pc # "idle"
      BY <1>4 DEF LockElement, Typed, RoutinesTyped, Places
    <3> QED BY <1>4, <3>2, <3>3 DEF LockElement, Typed, RoutinesTyped, Places
  <2> QED BY <1>4, <2>2, <2>3, TypedKept DEF LockElement, Typed
<1>5. CASE Transmit
  <2>1. sender.elem \in 1..count
    BY <1>5, Members DEF Transmit, Typed, RoutinesTyped, Places, None
  <2>2. QueuesTyped'
    <3>1. sent' \in Seq(1..count)
      <4>1. Append(sent, sender.elem) \in Seq(1..count) /\ sent \in Seq(1..count)
        BY <2>1, Members, AddLast
      <4> QED BY <1>5, <4>1 DEF Transmit
    <3> QED BY <1>5, <3>1 DEF Transmit, Typed, QueuesTyped
  <2>3. RoutinesTyped'
    BY <1>5, Members DEF Transmit, Typed, RoutinesTyped, Places, None
  <2> QED BY <1>5, <2>2, <2>3, TypedKept DEF Transmit, Typed
<1> QED BY <1>1, <1>2, <1>3, <1>4, <1>5 DEF RoutineEncryption, RoutineSequentialSender

\* Every step keeps the types and the places of the routines.
LEMMA TypedStep ==
    ASSUME Typed, [Next]_vars
    PROVE  Typed'
<1>1. CASE Handshake
  <2>1. SignalsTyped'
    <3>1. CASE KeyPairDerived
      BY <3>1, SizeAssumption DEF KeyPairDerived, Typed, SignalsTyped
    <3>2. CASE KeyPairLost
      <4>1. current' \in 0..keys /\ fresh' \in BOOLEAN
        <5>1. current \in 0..keys /\ keys \in Nat
          BY SizeAssumption DEF Typed, SignalsTyped
        <5>2. current' \in 0..keys
          BY <3>2, <5>1 DEF KeyPairLost, None
        <5> QED BY <3>2, <5>2 DEF KeyPairLost
      <4> QED BY <3>2, <4>1 DEF KeyPairLost, Typed, SignalsTyped
    <3>3. CASE InitiatorSignals
      BY <3>3 DEF InitiatorSignals, Typed, SignalsTyped
    <3> QED BY <1>1, <3>1, <3>2, <3>3 DEF Handshake
  <2> QED BY <1>1, <2>1, TypedKept
          DEF Handshake, KeyPairDerived, KeyPairLost, InitiatorSignals, Typed
<1>2. CASE UNCHANGED vars
  BY <1>2, TypedKept DEF Typed
<1> QED BY <1>1, <1>2, EnterTypedStep, NonceTypedStep, SenderTypedStep DEF Next

-----------------------------------------------------------------------------
(* The inductive invariant *)

\* Elements on their way from the outbound queue to the wire, or on it.
Downstream == Positions(sent) \cup Positions(outboundQ) \cup {sender.elem}

\* Elements whose holder unlocks them or passes them on to one who does.
Held == Positions(encryptionQ) \cup {working[w] : w \in Workers} \cup {nonce.old}

\* The sender has still to lock the element.
ToLock(x) ==
    \/ x \in Positions(outboundQ)
    \/ sender.pc = "lock" /\ x = sender.elem
    \/ nonce.pc = "outbound" /\ x = nonce.elem

\* The element has its key pair and nonce and may still be transmitted.
Numbered(x) ==
    \/ x \in Downstream
    \/ nonce.pc \in {"encryption", "release", "outbound"} /\ x = nonce.elem

InOrder ==
    /\ Rising(nonceQ) /\ Rising(encryptionQ) /\ Rising(outboundQ) /\ Rising(sent)
    /\ \A y \in Positions(nonceQ) :
          nonce.elem < y /\ \A x \in Downstream \cup Held : x < y
    /\ nonce.elem # None =>
          /\ \A x \in Downstream : x < nonce.elem
          /\ \A x \in Held : x < nonce.elem \/ (x = nonce.elem /\ nonce.pc = "outbound")
    /\ \A y \in Positions(outboundQ) :
          sender.elem < y /\ \A x \in Positions(sent) : x < y
    /\ sender.elem # None => \A x \in Positions(sent) : x < sender.elem

HeldOnce ==
    /\ \A x \in Held : x # None => elem[x].locked
    /\ \A w \in Workers : working[w] # None =>
          /\ working[w] \notin Positions(encryptionQ)
          /\ working[w] # nonce.old
          /\ \A v \in Workers \ {w} : working[v] # working[w]
    /\ nonce.old \notin Positions(encryptionQ)
    /\ nonce.old # None => elem[nonce.old].dropped
    /\ nonce.pc \in {"encryption", "release"} =>
          elem[nonce.elem].locked /\ ~elem[nonce.elem].dropped

Served ==
    /\ \A x \in Elements : ToLock(x) =>
          IF elem[x].locked
          THEN \/ x \in Positions(encryptionQ) /\ ~elem[x].dropped
               \/ \E w \in Workers : working[w] = x
               \/ nonce.old = x
          ELSE elem[x].sealed \/ elem[x].dropped
    /\ sender.pc = "send" => elem[sender.elem].sealed
    /\ \A x \in Positions(sent) : elem[x].sealed

Before(a, b) == a.keyPair < b.keyPair \/ (a.keyPair = b.keyPair /\ a.nonce < b.nonce)

\* The next nonce of the current pair comes after all that were given out.
NonceOrder ==
    /\ current \in {None, keys}
    /\ \A x \in Elements : Numbered(x) =>
          /\ elem[x].keyPair \in 1..keys
          /\ elem[x].nonce < RejectAfterMessages
          /\ elem[x].keyPair = keys => elem[x].nonce < sendNonce[keys]
    /\ \A x, y \in Elements : Numbered(x) /\ Numbered(y) /\ x < y => Before(elem[x], elem[y])

OutboundInv == Typed /\ InOrder /\ HeldOnce /\ Served /\ NonceOrder

\* NewPeer leaves empty queues and idle routines.
LEMMA OutboundInitInv == Init => OutboundInv
<1>  SUFFICES ASSUME Init PROVE OutboundInv
  OBVIOUS
<1>1. TypeOK
  <2>1. /\ reading \in BOOLEAN /\ fresh \in BOOLEAN /\ newKeyPair \in BOOLEAN
        /\ flushNonceQueue \in BOOLEAN /\ handshakeBegin \in BOOLEAN
    BY DEF Init
  <2>2. elem \in [Elements -> [dropped : BOOLEAN, locked : BOOLEAN, sealed : BOOLEAN,
                               keyPair : KeyPairs \cup {None}, nonce : Nat]]
    BY DEF Init, NewOutboundElement, None
  <2> QED BY <2>1, <2>2, SizeAssumption DEF Init, TypeOK, NewOutboundElement, None, Elements, KeyPairs
<1>2. Typed
  BY <1>1, TypedIsTypeOK DEF Init, Places, None
<1>3. InOrder
  BY PositionsEmpty DEF Init, InOrder, Downstream, Held, None
<1>4. HeldOnce
  BY PositionsEmpty DEF Init, HeldOnce, Held, None
<1>5. Served
  BY PositionsEmpty DEF Init, Served, ToLock
<1>6. NonceOrder
  BY PositionsEmpty DEF Init, NonceOrder, Numbered, Downstream, None, Elements
<1> QED BY <1>2, <1>3, <1>4, <1>5, <1>6 DEF OutboundInv

\* Parts of the invariant that a step leaves alone.
LEMMA InvKept ==
    /\ InOrder /\ UNCHANGED <<qVars, nonce, working, sender, sent>> => InOrder'
    /\ HeldOnce /\ UNCHANGED <<elem, encryptionQ, nonce, working>> => HeldOnce'
    /\ Served /\ UNCHANGED <<elem, encryptionQ, outboundQ, nonce, working, sender, sent>> => Served'
    /\ NonceOrder /\ UNCHANGED <<elem, outboundQ, nonce, sender, sent, keys, current, sendNonce>>
          => NonceOrder'
<1>1. InOrder /\ UNCHANGED <<qVars, nonce, working, sender, sent>> => InOrder'
  BY DEF InOrder, Downstream, Held
<1>2. HeldOnce /\ UNCHANGED <<elem, encryptionQ, nonce, working>> => HeldOnce'
  BY DEF HeldOnce, Held
<1>3. Served /\ UNCHANGED <<elem, encryptionQ, outboundQ, nonce, working, sender, sent>> => Served'
  BY DEF Served, ToLock
<1>4. NonceOrder /\ UNCHANGED <<elem, outboundQ, nonce, sender, sent, keys, current, sendNonce>>
          => NonceOrder'
  BY DEF NonceOrder, Numbered, Downstream
<1> QED BY <1>1, <1>2, <1>3, <1>4

\* Whatever is in a place is an element, and a busy routine's place is not empty.
LEMMA InElements ==
    ASSUME OutboundInv
    PROVE  /\ \A x \in Held \cup Downstream : x # None => x \in Elements
           /\ nonce.elem # None => nonce.elem \in Elements
           /\ nonce.old # None => nonce.old \in Elements
           /\ Positions(sent) \subseteq Elements
           /\ nonce.pc \in {"select", "await", "encryption", "release", "outbound"} => nonce.elem # None
           /\ nonce.pc = "release" <=> nonce.old # None
           /\ sender.pc # "idle" => sender.elem # None /\ sender.elem \in Elements
<1>1. Places
  BY DEF OutboundInv, Typed, RoutinesTyped
<1>2. \A x \in 0..count : x # None => x \in Elements
  BY Members DEF OutboundInv, Elements, None
<1>3. Held \cup Downstream \subseteq 0..count /\ nonce.elem \in 0..count /\ nonce.old \in 0..count
  BY Members DEF OutboundInv, Held, Downstream
<1>4. sender.elem \in Downstream /\ Positions(sent) \subseteq Elements
  BY Members DEF OutboundInv, Downstream
<1> QED BY <1>1, <1>2, <1>3, <1>4 DEF Places

\* Every element with a holder or a nonce, and the one in RoutineNonce's hands,
\* entered before those in the nonce queue.
LEMMA WaitingIsNew ==
    ASSUME OutboundInv, NEW y \in Positions(nonceQ)
    PROVE  /\ y \in Elements /\ y \notin Held /\ y # nonce.elem /\ y # nonce.old
           /\ y # sender.elem /\ y \notin Positions(sent)
           /\ ~ToLock(y) /\ ~Numbered(y)
<1>1. /\ y \in 1..count /\ nonce.elem < y /\ y \in Elements
      /\ \A x \in Downstream \cup Held : x \in Int /\ x < y
  BY Members DEF OutboundInv, InOrder, Downstream, Held
<1>2. y \notin Downstream /\ y \notin Held /\ y # nonce.elem
  BY <1>1, Members DEF OutboundInv
<1> QED BY <1>1, <1>2 DEF Downstream, Held, ToLock, Numbered

\* An element enters the nonce queue behind all others.
LEMMA EnterInOrder ==
    ASSUME OutboundInv, EnterNonceQueue,
           UNCHANGED <<encryptionQ, outboundQ, nonce, working, sender, sent>>
    PROVE  InOrder'
<1>1. /\ count \in Nat /\ count + 1 \in 1..(count + 1) /\ nonceQ \in Seq(1..(count + 1))
      /\ \A x \in 0..count : x < count + 1
  BY Members, EnterTyped, SeqMonotone DEF OutboundInv
<1>2. Positions(nonceQ') = Positions(nonceQ) \cup {count + 1}
  BY <1>1, AddLast DEF EnterNonceQueue
<1>3. /\ \A y \in Positions(nonceQ) : y < count + 1
      /\ nonce.elem < count + 1 /\ \A x \in Downstream \cup Held : x < count + 1
  BY <1>1, Members DEF OutboundInv, Downstream, Held
<1>4. Rising(nonceQ')
  BY <1>1, <1>3, AddLastRising DEF EnterNonceQueue, OutboundInv, InOrder
<1> QED BY <1>2, <1>3, <1>4 DEF OutboundInv, InOrder, Downstream, Held

\* RoutineReadFromTUN and SendKeepAlive, in the nonce queue only.
LEMMA EnterInv ==
    ASSUME OutboundInv, RoutineReadFromTUN \/ SendKeepAlive
    PROVE  OutboundInv'
<1>0. Typed'
  BY TypedStep DEF OutboundInv, Next
<1>1. CASE ReadFromTUN
  BY <1>0, <1>1, InvKept DEF ReadFromTUN, OutboundInv
<1>2. ASSUME NEW g \in KeepAliveCallers, KeepAliveCheck(g) PROVE OutboundInv'
  BY <1>0, <1>2, InvKept DEF KeepAliveCheck, OutboundInv
<1>3. ASSUME NEW g \in KeepAliveCallers, KeepAliveSend(g) PROVE OutboundInv'
  <2>1. InOrder'
    BY <1>3, EnterInOrder, InvKept DEF KeepAliveSend, OutboundInv
  <2> QED BY <1>0, <1>3, <2>1, InvKept DEF KeepAliveSend, OutboundInv
<1>4. CASE AddToNonceQueue /\ EnterNonceQueue /\ UNCHANGED elem
  <2>1. InOrder'
    BY <1>4, EnterInOrder DEF AddToNonceQueue
  <2> QED BY <1>0, <1>4, <2>1, InvKept DEF AddToNonceQueue, OutboundInv
<1>5. CASE AddToNonceQueue /\ Full(nonceQ) /\ elem' = Drop(Head(nonceQ)) /\ nonceQ' = Tail(nonceQ)
  <2> DEFINE h == Head(nonceQ)
  <2>1. nonceQ \in Seq(1..count) /\ nonceQ # <<>> /\ Rising(nonceQ)
    BY <1>5, Members, FullQueue DEF OutboundInv, InOrder
  <2>2. Positions(nonceQ) = {h} \cup Positions(nonceQ') /\ Rising(nonceQ')
    BY <1>5, <2>1, TakeHead, TakeHeadRising
  <2>3. /\ h \in Elements /\ h \notin Held /\ h # nonce.elem /\ h # nonce.old
        /\ h # sender.elem /\ h \notin Positions(sent) /\ ~ToLock(h) /\ ~Numbered(h)
    BY <2>2, WaitingIsNew
  <2>4. \A x \in Elements \ {h} : elem'[x] = elem[x]
    BY <1>5, <2>3, DropFacts DEF OutboundInv, Typed
  <2>5. UNCHANGED <<encryptionQ, outboundQ, nonce, working, sender, keyVars, sent>>
    BY <1>5 DEF AddToNonceQueue
  <2> HIDE DEF h
  <2>6. InOrder'
    BY <2>2, <2>5 DEF OutboundInv, InOrder, Downstream, Held
  <2>7. HeldOnce'
    <3>1. Held' = Held
      BY <2>5 DEF Held
    <3>2. \A x \in Held : x # None => elem'[x] = elem[x]
      BY <2>3, <2>4, InElements
    <3>3. nonce.elem # None => elem'[nonce.elem] = elem[nonce.elem]
      BY <2>3, <2>4, InElements
    <3>4. nonce.old # None => elem'[nonce.old] = elem[nonce.old]
      BY <2>3, <2>4, InElements
    <3> QED BY <2>5, <3>1, <3>2, <3>3, <3>4, InElements DEF OutboundInv, HeldOnce
  <2>8. Served'
    <3>1. \A x \in Elements : ToLock(x)' => ToLock(x) /\ elem'[x] = elem[x]
      BY <2>3, <2>4, <2>5 DEF ToLock
    <3>2. \A x \in Positions(sent) : elem'[x] = elem[x]
      BY <2>3, <2>4, InElements
    <3>3. sender.pc = "send" => elem'[sender.elem] = elem[sender.elem]
      BY <2>3, <2>4, InElements
    <3> QED BY <2>5, <3>1, <3>2, <3>3 DEF OutboundInv, Served
  <2>9. NonceOrder'
    BY <2>3, <2>4, <2>5 DEF OutboundInv, NonceOrder, Numbered, Downstream
  <2> QED BY <1>0, <2>6, <2>7, <2>8, <2>9 DEF OutboundInv
<1> QED BY <1>1, <1>2, <1>3, <1>4, <1>5 DEF RoutineReadFromTUN, SendKeepAlive, AddToNonceQueue

\* Steps that touch neither an element nor who has it.
LEMMA OutboundFrame ==
    ASSUME OutboundInv, Typed',
           UNCHANGED <<elem, qVars, working, sender, keys, sendNonce, sent>>,
           nonce'.elem = nonce.elem, nonce'.old = nonce.old, current' \in {None, keys'},
           \/ nonce'.pc = nonce.pc
           \/ nonce.pc \in {"select", "await"} /\ nonce'.pc \in {"select", "await"}
    PROVE  OutboundInv'
<1>1. InOrder'
  BY DEF OutboundInv, InOrder, Downstream, Held
<1>2. HeldOnce'
  BY DEF OutboundInv, HeldOnce, Held
<1>3. Served'
  BY DEF OutboundInv, Served, ToLock
<1>4. NonceOrder'
  BY DEF OutboundInv, NonceOrder, Numbered, Downstream
<1> QED BY <1>1, <1>2, <1>3, <1>4 DEF OutboundInv

\* RoutineNonce takes an element, and waits for a key pair.
LEMMA TakeNonceInv ==
    ASSUME OutboundInv, TakeNonce \/ AwaitKeyPair \/ NewKeyPairSignalled
    PROVE  OutboundInv'
<1>0. Typed'
  BY TypedStep DEF OutboundInv, Next, RoutineNonce
<1>1. CASE AwaitKeyPair \/ NewKeyPairSignalled
  <2>1. nonce = [pc |-> nonce.pc, elem |-> nonce.elem, old |-> nonce.old, left |-> nonce.left]
    BY NonceFields DEF OutboundInv, Typed
  <2>2. /\ nonce'.elem = nonce.elem /\ nonce'.old = nonce.old
        /\ nonce.pc \in {"select", "await"} /\ nonce'.pc \in {"select", "await"}
    BY <1>1, <2>1 DEF AwaitKeyPair, NewKeyPairSignalled, NonceAt
  <2>3. /\ UNCHANGED <<elem, qVars, working, sender, keys, sendNonce, sent>>
        /\ current' \in {None, keys'}
    BY <1>1 DEF AwaitKeyPair, NewKeyPairSignalled, OutboundInv, NonceOrder
  <2> QED BY <1>0, <2>2, <2>3, OutboundFrame
<1>2. CASE TakeNonce
  <2> DEFINE h == Head(nonceQ)
  <2>1. nonceQ \in Seq(1..count) /\ nonceQ # <<>> /\ Rising(nonceQ)
    BY <1>2, Members DEF TakeNonce, OutboundInv, InOrder
  <2>2. /\ Positions(nonceQ) = {h} \cup Positions(nonceQ') /\ Rising(nonceQ')
        /\ \A y \in Positions(nonceQ') : h < y
    BY <1>2, <2>1, TakeHead, TakeHeadRising DEF TakeNonce
  <2>3. /\ nonce'.elem = h /\ nonce'.old = nonce.old /\ nonce.pc = "idle" /\ nonce'.pc = "select"
        /\ UNCHANGED <<elem, encryptionQ, outboundQ, working, sender, keyVars, sent>>
    BY <1>2, NonceFields DEF TakeNonce, NonceAt, OutboundInv, Typed
  <2>4. Held' = Held /\ Downstream' = Downstream
    BY <2>3 DEF Held, Downstream
  <2> HIDE DEF h
  <2>5. InOrder'
    BY <2>2, <2>3, <2>4 DEF OutboundInv, InOrder
  <2>6. HeldOnce'
    BY <2>3, <2>4 DEF OutboundInv, HeldOnce
  <2>7. Served'
    BY <2>3 DEF OutboundInv, Served, ToLock
  <2>8. NonceOrder'
    BY <2>3, <2>4 DEF OutboundInv, NonceOrder, Numbered
  <2> QED BY <1>0, <2>5, <2>6, <2>7, <2>8 DEF OutboundInv
<1> QED BY <1>1, <1>2

\* RoutineNonce throws the nonce queue and its element away.
LEMMA FlushInv ==
    ASSUME OutboundInv, FlushSignalled \/ FlushNonceQueue
    PROVE  OutboundInv'
<1>0. Typed'
  BY TypedStep DEF OutboundInv, Next, RoutineNonce
<1>1. /\ nonce'.elem = None /\ nonce'.old = nonce.old
      /\ nonce.pc \in {"await", "flush"} /\ nonce'.pc \in {"flush", "idle"}
      /\ UNCHANGED <<elem, encryptionQ, outboundQ, working, sender, keyVars, sent>>
      /\ nonceQ' = nonceQ \/ (nonceQ # <<>> /\ nonceQ' = Tail(nonceQ))
  <2>1. CASE FlushSignalled
    BY <2>1, NonceFields DEF FlushSignalled, OutboundInv, Typed
  <2>2. CASE FlushNonceQueue
    <3>1. nonce.elem = None
      BY <2>2 DEF FlushNonceQueue, OutboundInv, Typed, RoutinesTyped, Places
    <3> QED BY <2>2, <3>1, NonceFields DEF FlushNonceQueue, OutboundInv, Typed
  <2> QED BY <2>1, <2>2
<1>2. Positions(nonceQ') \subseteq Positions(nonceQ) /\ Rising(nonceQ')
  BY <1>1, Members, TakeHead, TakeHeadRising DEF OutboundInv, InOrder
<1>3. Held' = Held /\ Downstream' = Downstream
  BY <1>1 DEF Held, Downstream
<1>4. InOrder'
  <2>1. \A y \in Positions(nonceQ') : None < y
    BY <1>2, Members DEF OutboundInv, None
  <2> QED BY <1>1, <1>2, <1>3, <2>1 DEF OutboundInv, InOrder
<1>5. HeldOnce'
  BY <1>1, <1>3 DEF OutboundInv, HeldOnce
<1>6. Served'
  BY <1>1 DEF OutboundInv, Served, ToLock
<1>7. NonceOrder'
  BY <1>1, <1>3 DEF OutboundInv, NonceOrder, Numbered
<1> QED BY <1>0, <1>4, <1>5, <1>6, <1>7 DEF OutboundInv

\* RoutineNonce gives its element a key pair and a nonce: no one else has the
\* element, and all that have a nonce came before it.
LEMMA AssignInv ==
    ASSUME OutboundInv, AssignNonce
    PROVE  OutboundInv'
<1>0. Typed'
  BY TypedStep DEF OutboundInv, Next, RoutineNonce
<1> DEFINE n == nonce.elem
<1>1. /\ nonce'.elem = n /\ nonce'.old = nonce.old /\ nonce.pc = "select"
      /\ nonce'.pc = "encryption"
      /\ UNCHANGED <<qVars, working, sender, keys, current, sent>>
  BY NonceFields DEF AssignNonce, NonceAt, OutboundInv, Typed
<1>2. /\ n \in Elements /\ current \in KeyPairs
      /\ \A x \in Elements \ {n} : elem'[x] = elem[x]
      /\ elem'[n].locked /\ ~elem'[n].dropped
      /\ elem'[n].keyPair = current /\ elem'[n].nonce = sendNonce[current]
      /\ sendNonce'[current] = sendNonce[current] + 1
      /\ sendNonce[current] < RejectAfterMessages
  BY AssignFacts DEF OutboundInv
<1>3. Held' = Held /\ Downstream' = Downstream
  BY <1>1 DEF Held, Downstream
<1>4. n # None /\ nonce.old = None
  BY <1>1, InElements
<1>5. /\ \A x \in Downstream \cup Held : x < n /\ x # n
      /\ n \notin Positions(outboundQ) /\ n \notin Positions(sent) /\ n # sender.elem
      /\ ~ToLock(n)
  <2>1. \A x \in Downstream \cup Held : x < n /\ x \in Int /\ n \in Int
    BY <1>1, <1>4, Members DEF OutboundInv, InOrder, Downstream, Held
  <2>2. \A x \in Downstream \cup Held : x # n
    BY <2>1
  <2> QED BY <1>1, <2>1, <2>2 DEF Downstream, ToLock
<1> HIDE DEF n
<1>6. InOrder'
  BY <1>1, <1>3, <1>5 DEF OutboundInv, InOrder, n
<1>7. HeldOnce'
  <2>1. \A x \in Held : x # None => elem'[x] = elem[x]
    BY <1>2, <1>5, InElements
  <2> QED BY <1>1, <1>2, <1>3, <1>4, <2>1 DEF OutboundInv, HeldOnce
<1>8. Served'
  <2>1. \A x \in Elements : ToLock(x)' => ToLock(x) /\ elem'[x] = elem[x]
    BY <1>1, <1>2, <1>5 DEF ToLock
  <2>2. \A x \in Positions(sent) : elem'[x] = elem[x]
    BY <1>2, <1>5, InElements
  <2>3. sender.pc = "send" => elem'[sender.elem] = elem[sender.elem]
    BY <1>2, <1>5, InElements
  <2> QED BY <1>1, <2>1, <2>2, <2>3 DEF OutboundInv, Served
<1>9. NonceOrder'
  <2>1. /\ current = keys /\ keys \in Nat /\ sendNonce[keys] \in Nat
        /\ \A x \in Elements : elem[x].nonce \in Nat /\ elem[x].keyPair \in Nat
    BY <1>2 DEF OutboundInv, NonceOrder, Typed, SignalsTyped, ElemsTyped, Element, KeyPairs, None
  <2>2. \A x \in Elements : Numbered(x)' => x = n \/ (Numbered(x) /\ x < n /\ elem'[x] = elem[x])
    BY <1>1, <1>2, <1>3, <1>5 DEF Numbered, n
  <2>3. \A x \in Elements : Numbered(x) =>
           /\ elem[x].keyPair \in 1..keys /\ elem[x].nonce < RejectAfterMessages
           /\ elem[x].keyPair = keys => elem[x].nonce < sendNonce[keys]
    BY DEF OutboundInv, NonceOrder
  <2>4. \A x \in Elements : Numbered(x) => Before(elem[x], elem'[n])
    BY <1>2, <2>1, <2>3 DEF Before
  <2>5. \A x, y \in Elements : Numbered(x)' /\ Numbered(y)' /\ x < y => Before(elem'[x], elem'[y])
    <3> SUFFICES ASSUME NEW x \in Elements, NEW y \in Elements, Numbered(x)', Numbered(y)', x < y
                 PROVE  Before(elem'[x], elem'[y])
      OBVIOUS
    <3>1. x \in Int /\ y \in Int /\ n \in Int
      BY <1>2, SizeAssumption DEF Elements
    <3>2. CASE y = n
      BY <2>2, <2>4, <3>1, <3>2
    <3>3. CASE y # n
      <4>1. Numbered(y) /\ y < n /\ elem'[y] = elem[y] /\ x # n
        BY <2>2, <3>1, <3>3
      <4> QED BY <2>2, <4>1 DEF OutboundInv, NonceOrder
    <3> QED BY <3>2, <3>3
  <2>6. \A x \in Elements : Numbered(x)' =>
           /\ elem'[x].keyPair \in 1..keys' /\ elem'[x].nonce < RejectAfterMessages
           /\ elem'[x].keyPair = keys' => elem'[x].nonce < sendNonce'[keys']
    <3> SUFFICES ASSUME NEW x \in Elements, Numbered(x)'
                 PROVE  /\ elem'[x].keyPair \in 1..keys /\ elem'[x].nonce < RejectAfterMessages
                        /\ elem'[x].keyPair = keys => elem'[x].nonce < sendNonce[keys] + 1
      BY <1>1, <1>2, <2>1
    <3>1. CASE x = n
      BY <1>2, <2>1, <3>1 DEF KeyPairs
    <3>2. CASE x # n
      BY <2>1, <2>2, <2>3, <3>2
    <3> QED BY <3>1, <3>2
  <2> QED BY <1>1, <2>1, <2>5, <2>6 DEF NonceOrder
<1> QED BY <1>0, <1>6, <1>7, <1>8, <1>9 DEF OutboundInv

\* RoutineNonce hands its element to the workers.
LEMMA AddToEncryptionInv ==
    ASSUME OutboundInv, AddToEncryptionQueue
    PROVE  OutboundInv'
<1>0. Typed'
  BY TypedStep DEF OutboundInv, Next, RoutineNonce
<1> DEFINE n == nonce.elem
<1>1. /\ nonce'.elem = n /\ nonce'.old = nonce.old /\ nonce.pc = "encryption"
      /\ nonce'.pc = "outbound" /\ encryptionQ' = Append(encryptionQ, n)
      /\ UNCHANGED <<elem, nonceQ, outboundQ, working, sender, keyVars, sent>>
  BY NonceFields DEF AddToEncryptionQueue, NonceAt, OutboundInv, Typed
<1>2. n \in Elements /\ n # None /\ nonce.old = None /\ n \in 1..count
  BY <1>1, InElements, Members DEF OutboundInv, None
<1>3. \A x \in Downstream \cup Held : x < n /\ x # n
  <2>1. \A x \in Downstream \cup Held : x < n /\ x \in Int /\ n \in Int
    BY <1>1, <1>2, Members DEF OutboundInv, InOrder, Downstream, Held
  <2> QED BY <2>1
<1>4. Positions(encryptionQ') = Positions(encryptionQ) \cup {n} /\ Rising(encryptionQ')
  <2>1. \A x \in Positions(encryptionQ) : x < n
    BY <1>3 DEF Held
  <2>2. encryptionQ \in Seq(Elements) /\ Rising(encryptionQ)
    BY Members, SeqMonotone DEF OutboundInv, InOrder
  <2> QED BY <1>1, <1>2, <2>1, <2>2, AddLast, AddLastRising
<1>5. Held' = Held \cup {n} /\ Downstream' = Downstream
  BY <1>1, <1>4 DEF Held, Downstream
<1>6. /\ \A w \in Workers : working[w] # n
      /\ elem[n].locked /\ ~elem[n].dropped
  BY <1>1, <1>3 DEF OutboundInv, HeldOnce, Held
<1>7. InOrder'
  BY <1>1, <1>3, <1>4, <1>5 DEF OutboundInv, InOrder
<1> HIDE DEF n
<1>8. HeldOnce'
  BY <1>1, <1>2, <1>4, <1>5, <1>6 DEF OutboundInv, HeldOnce
<1>9. Served'
  <2>1. \A x \in Elements : ToLock(x)' => ToLock(x) \/ x = n
    BY <1>1 DEF ToLock
  <2> QED BY <1>1, <1>4, <1>6, <2>1 DEF OutboundInv, Served
<1>10. NonceOrder'
  <2>1. \A x \in Elements : Numbered(x)' <=> Numbered(x)
    BY <1>1, <1>5 DEF Numbered, n
  <2> QED BY <1>1, <2>1 DEF OutboundInv, NonceOrder
<1> QED BY <1>0, <1>7, <1>8, <1>9, <1>10 DEF OutboundInv

\* "drop & release to potential consumer", its first half: the oldest element
\* becomes the one RoutineNonce releases, marked as dropped.
LEMMA EvictInv ==
    ASSUME OutboundInv, EvictFromEncryptionQueue
    PROVE  OutboundInv'
<1>0. Typed'
  BY TypedStep DEF OutboundInv, Next, RoutineNonce
<1> DEFINE h == Head(encryptionQ)
<1>1. /\ nonce'.elem = nonce.elem /\ nonce'.old = h /\ nonce.pc = "encryption"
      /\ nonce'.pc = "release" /\ encryptionQ' = Tail(encryptionQ) /\ elem' = Drop(h)
      /\ UNCHANGED <<nonceQ, outboundQ, working, sender, keyVars, sent>>
  BY NonceFields DEF EvictFromEncryptionQueue, OutboundInv, Typed
<1>2. encryptionQ \in Seq(1..count) /\ encryptionQ # <<>> /\ Rising(encryptionQ)
  BY Members, FullQueue DEF EvictFromEncryptionQueue, OutboundInv, InOrder
<1>3. /\ h \in 1..count /\ Positions(encryptionQ) = {h} \cup Positions(encryptionQ')
      /\ Rising(encryptionQ') /\ \A x \in Positions(encryptionQ') : h < x
  BY <1>1, <1>2, TakeHead, TakeHeadRising
<1>4. h \in Elements /\ h # None /\ h \notin Positions(encryptionQ') /\ nonce.old = None
  <2>1. h \in Elements /\ h # None
    BY <1>3, Members DEF OutboundInv, None
  <2>2. h \notin Positions(encryptionQ')
    BY <1>3, Members DEF OutboundInv
  <2> QED BY <1>1, <2>1, <2>2, InElements
<1>5. /\ \A x \in Elements \ {h} : elem'[x] = elem[x]
      /\ elem'[h].dropped /\ elem'[h].locked = elem[h].locked /\ elem'[h].sealed = elem[h].sealed
      /\ elem'[h].keyPair = elem[h].keyPair /\ elem'[h].nonce = elem[h].nonce
  BY <1>1, <1>4, DropFacts DEF OutboundInv, Typed
<1>6. /\ Held' \subseteq Held /\ Downstream' = Downstream /\ h \in Held
      /\ nonce.elem # h /\ nonce.elem # None /\ nonce.elem \in Elements
  <2>1. Held' \subseteq Held /\ Downstream' = Downstream /\ h \in Held
    BY <1>1, <1>3 DEF Held, Downstream
  <2>2. nonce.elem # None /\ nonce.elem \in Elements
    BY <1>1, InElements
  <2>3. h < nonce.elem
    BY <1>1, <2>1, <2>2 DEF OutboundInv, InOrder
  <2>4. nonce.elem # h
    BY <1>3, <2>3, Members DEF OutboundInv
  <2> QED BY <2>1, <2>2, <2>4
<1> HIDE DEF h
<1>7. InOrder'
  BY <1>1, <1>3, <1>6 DEF OutboundInv, InOrder
<1>8. HeldOnce'
  <2>1. \A x \in Held' : x # None => elem'[x].locked
    <3>1. \A x \in Held : x # None => elem[x].locked /\ x \in Elements
      BY InElements DEF OutboundInv, HeldOnce
    <3> QED BY <1>5, <1>6, <3>1
  <2>2. \A w \in Workers : working[w] # None => working[w] # h
    BY <1>3 DEF OutboundInv, HeldOnce
  <2>3. \A w \in Workers : working'[w] # None =>
           /\ working'[w] \notin Positions(encryptionQ')
           /\ working'[w] # nonce'.old
           /\ \A v \in Workers \ {w} : working'[v] # working'[w]
    BY <1>1, <1>3, <2>2 DEF OutboundInv, HeldOnce
  <2>4. elem'[nonce'.elem].locked /\ ~elem'[nonce'.elem].dropped
    BY <1>1, <1>5, <1>6 DEF OutboundInv, HeldOnce
  <2> QED BY <1>1, <1>4, <1>5, <2>1, <2>3, <2>4 DEF HeldOnce
<1>9. Served'
  <2>1. \A x \in Elements : ToLock(x)' => ToLock(x)
    BY <1>1 DEF ToLock
  <2>2. \A x \in Elements : elem'[x].sealed = elem[x].sealed
    BY <1>5
  <2>3. elem[h].locked
    BY <1>4, <1>6 DEF OutboundInv, HeldOnce
  <2>4. sender.pc = "send" => elem'[sender.elem].sealed
    BY <2>2, InElements DEF OutboundInv, Served
  <2>5. \A x \in Positions(sent) : elem'[x].sealed
    BY <2>2, InElements DEF OutboundInv, Served
  <2>6. ASSUME NEW x \in Elements, ToLock(x)'
        PROVE  IF elem'[x].locked
               THEN \/ x \in Positions(encryptionQ') /\ ~elem'[x].dropped
                    \/ \E w \in Workers : working'[w] = x
                    \/ nonce'.old = x
               ELSE elem'[x].sealed \/ elem'[x].dropped
    <3>1. CASE x = h
      BY <1>1, <1>5, <3>1
    <3>2. CASE x # h
      <4>1. elem'[x] = elem[x] /\ ToLock(x)
        BY <1>5, <2>1, <2>6, <3>2
      <4>2. nonce.old # x /\ (x \in Positions(encryptionQ') <=> x \in Positions(encryptionQ))
        BY <1>3, <1>4, <3>2 DEF Elements, None
      <4> QED BY <1>1, <4>1, <4>2 DEF OutboundInv, Served
    <3> QED BY <3>1, <3>2
  <2> QED BY <1>1, <2>4, <2>5, <2>6 DEF Served
<1>10. NonceOrder'
  <2>1. \A x \in Elements : Numbered(x)' <=> Numbered(x)
    BY <1>1, <1>6 DEF Numbered
  <2>2. \A x \in Elements : elem'[x].keyPair = elem[x].keyPair /\ elem'[x].nonce = elem[x].nonce
    BY <1>5
  <2> QED BY <1>1, <2>1, <2>2 DEF OutboundInv, NonceOrder, Before
<1> QED BY <1>0, <1>7, <1>8, <1>9, <1>10 DEF OutboundInv

\* The second half: whoever waits for the evicted element finds it dropped.
LEMMA ReleaseInv ==
    ASSUME OutboundInv, ReleaseEvicted
    PROVE  OutboundInv'
<1>0. Typed'
  BY TypedStep DEF OutboundInv, Next, RoutineNonce
<1> DEFINE o == nonce.old
<1>1. /\ nonce'.elem = nonce.elem /\ nonce'.old = None /\ nonce.pc = "release"
      /\ nonce'.pc = "encryption" /\ elem' = [elem EXCEPT ![o].locked = FALSE]
      /\ UNCHANGED <<qVars, working, sender, keyVars, sent>>
  BY NonceFields DEF ReleaseEvicted, OutboundInv, Typed
<1>2. o \in Elements /\ o # None /\ nonce.elem # None /\ nonce.elem \in Elements /\ o \in Held
  BY <1>1, InElements DEF Held
<1>3. /\ \A x \in Elements \ {o} : elem'[x] = elem[x]
      /\ ~elem'[o].locked
      /\ elem'[o].dropped = elem[o].dropped /\ elem'[o].sealed = elem[o].sealed
      /\ elem'[o].keyPair = elem[o].keyPair /\ elem'[o].nonce = elem[o].nonce
  BY <1>1, <1>2, UnlockFacts DEF OutboundInv, Typed
<1>4. nonce.elem # o
  <2>1. o < nonce.elem
    BY <1>1, <1>2 DEF OutboundInv, InOrder
  <2> QED BY <2>1, Members DEF OutboundInv
<1>5. /\ o \notin Positions(encryptionQ) /\ elem[o].dropped
      /\ \A w \in Workers : working[w] # o
      /\ \A x \in Held' : x # None => x \in Held /\ x # o
  BY <1>1, <1>2 DEF OutboundInv, HeldOnce, Held
<1>6. Downstream' = Downstream
  BY <1>1 DEF Downstream
<1>7. InOrder'
  <2>1. \A x \in Held' : x < nonce.elem
    <3>1. None < nonce.elem
      BY <1>2, Members DEF OutboundInv, None
    <3> QED BY <1>1, <1>2, <1>5, <3>1 DEF OutboundInv, InOrder
  <2>2. \A y \in Positions(nonceQ) : \A x \in Held' : x < y
    <3>1. \A y \in Positions(nonceQ) : None < y
      BY Members DEF OutboundInv, None
    <3> QED BY <1>5, <3>1 DEF OutboundInv, InOrder
  <2> QED BY <1>1, <1>6, <2>1, <2>2 DEF OutboundInv, InOrder
<1> HIDE DEF o
<1>8. HeldOnce'
  <2>1. \A x \in Held' : x # None => elem'[x].locked
    <3>1. \A x \in Held : x # None => elem[x].locked /\ x \in Elements
      BY InElements DEF OutboundInv, HeldOnce
    <3> QED BY <1>3, <1>5, <3>1
  <2>2. None \notin Positions(encryptionQ)
    BY Members DEF OutboundInv, None
  <2> QED BY <1>1, <1>2, <1>3, <1>4, <2>1, <2>2 DEF OutboundInv, HeldOnce
<1>9. Served'
  <2>1. \A x \in Elements : ToLock(x)' => ToLock(x)
    BY <1>1 DEF ToLock
  <2>2. \A x \in Elements : elem'[x].sealed = elem[x].sealed
    BY <1>3
  <2>3. sender.pc = "send" => elem'[sender.elem].sealed
    BY <2>2, InElements DEF OutboundInv, Served
  <2>4. \A x \in Positions(sent) : elem'[x].sealed
    BY <2>2, InElements DEF OutboundInv, Served
  <2> QED BY <1>1, <1>3, <1>5, <2>1, <2>3, <2>4 DEF OutboundInv, Served, o
<1>10. NonceOrder'
  <2>1. \A x \in Elements : Numbered(x)' <=> Numbered(x)
    BY <1>1, <1>6 DEF Numbered
  <2>2. \A x \in Elements : elem'[x].keyPair = elem[x].keyPair /\ elem'[x].nonce = elem[x].nonce
    BY <1>3
  <2> QED BY <1>1, <2>1, <2>2 DEF OutboundInv, NonceOrder, Before
<1> QED BY <1>0, <1>7, <1>8, <1>9, <1>10 DEF OutboundInv

\* RoutineNonce puts its element into the outbound queue, behind all that have
\* gone this way, or takes the oldest out of it.
LEMMA AddToOutboundInv ==
    ASSUME OutboundInv, AddToOutboundQueue
    PROVE  OutboundInv'
<1>0. Typed'
  BY TypedStep DEF OutboundInv, Next, RoutineNonce
<1> DEFINE n == nonce.elem
<1>1. nonce.pc = "outbound" /\ n \in Elements /\ n # None /\ nonce.old = None
  BY InElements DEF AddToOutboundQueue
<1>2. UNCHANGED <<nonceQ, encryptionQ, working, sender, keyVars, sent>>
  BY DEF AddToOutboundQueue
<1>3. \A x \in Downstream : x < n /\ x # n
  <2>1. \A x \in Downstream : x < n /\ x \in Int /\ n \in Int
    BY <1>1, Members DEF OutboundInv, InOrder, Downstream
  <2> QED BY <2>1
<1>4. CASE ~Full(outboundQ)
  <2>1. /\ outboundQ' = Append(outboundQ, n) /\ UNCHANGED elem
        /\ nonce'.elem = None /\ nonce'.old = nonce.old /\ nonce'.pc = "idle"
    BY <1>4, NonceFields DEF AddToOutboundQueue, NonceAt, OutboundInv, Typed
  <2>2. Positions(outboundQ') = Positions(outboundQ) \cup {n} /\ Rising(outboundQ')
    <3>1. \A x \in Positions(outboundQ) : x < n
      BY <1>3 DEF Downstream
    <3>2. outboundQ \in Seq(Elements) /\ Rising(outboundQ)
      BY Members, SeqMonotone DEF OutboundInv, InOrder
    <3> QED BY <1>1, <2>1, <3>1, <3>2, AddLast, AddLastRising
  <2>3. Held' = Held /\ Downstream' = Downstream \cup {n}
    BY <1>2, <2>1, <2>2 DEF Held, Downstream
  <2>4. InOrder'
    <3>1. \A y \in Positions(nonceQ) : None < y
      BY Members DEF OutboundInv, None
    <3>2. sender.elem < n /\ \A x \in Positions(sent) : x < n
      BY <1>3 DEF Downstream
    <3> QED BY <1>2, <2>1, <2>2, <2>3, <3>1, <3>2 DEF OutboundInv, InOrder
  <2>5. HeldOnce'
    BY <1>2, <2>1, <2>3 DEF OutboundInv, HeldOnce
  <2>6. Served'
    <3>1. \A x \in Elements : ToLock(x)' => ToLock(x)
      BY <1>1, <1>2, <2>1, <2>2 DEF ToLock
    <3> QED BY <1>2, <2>1, <3>1 DEF OutboundInv, Served
  <2>7. NonceOrder'
    <3>1. \A x \in Elements : Numbered(x)' => Numbered(x)
      BY <1>1, <2>1, <2>3 DEF Numbered
    <3> QED BY <1>2, <2>1, <3>1 DEF OutboundInv, NonceOrder
  <2> QED BY <1>0, <2>4, <2>5, <2>6, <2>7 DEF OutboundInv
<1>5. CASE Full(outboundQ)
  <2> DEFINE h == Head(outboundQ)
  <2>1. outboundQ' = Tail(outboundQ) /\ elem' = Drop(h) /\ UNCHANGED nonce
    BY <1>5 DEF AddToOutboundQueue
  <2>2. outboundQ \in Seq(1..count) /\ outboundQ # <<>> /\ Rising(outboundQ)
    BY <1>5, Members, FullQueue DEF OutboundInv, InOrder
  <2>3. /\ h \in 1..count /\ Positions(outboundQ) = {h} \cup Positions(outboundQ')
        /\ Rising(outboundQ') /\ \A x \in Positions(outboundQ') : h < x
    BY <2>1, <2>2, TakeHead, TakeHeadRising
  <2>4. /\ h \in Elements /\ h \notin Positions(outboundQ') /\ h \in Downstream /\ h # n
        /\ h # sender.elem
    <3>1. h \in Elements /\ h \in Downstream
      BY <2>3, Members DEF OutboundInv, Downstream
    <3>2. h \notin Positions(outboundQ')
      BY <2>3, Members DEF OutboundInv
    <3>3. h # sender.elem
      <4>1. sender.elem < h
        BY <2>3 DEF OutboundInv, InOrder
      <4> QED BY <4>1, Members DEF OutboundInv
    <3> QED BY <1>3, <3>1, <3>2, <3>3
  <2>5. /\ \A x \in Elements \ {h} : elem'[x] = elem[x]
        /\ elem'[h].dropped /\ elem'[h].locked = elem[h].locked /\ elem'[h].sealed = elem[h].sealed
        /\ elem'[h].keyPair = elem[h].keyPair /\ elem'[h].nonce = elem[h].nonce
    BY <2>1, <2>4, DropFacts DEF OutboundInv, Typed
  <2> HIDE DEF h
  <2>6. Held' = Held /\ Downstream' \subseteq Downstream
    BY <1>2, <2>1, <2>3 DEF Held, Downstream
  <2>7. InOrder'
    BY <1>2, <2>1, <2>3, <2>6 DEF OutboundInv, InOrder
  <2>8. HeldOnce'
    <3>1. \A x \in Held : x # None => x \in Elements
      BY InElements
    <3>2. \A x \in Elements : elem'[x].locked = elem[x].locked
      BY <2>5
    <3> QED BY <1>1, <1>2, <2>1, <2>6, <3>1, <3>2 DEF OutboundInv, HeldOnce
  <2>9. Served'
    <3>1. \A x \in Elements : ToLock(x)' => ToLock(x) /\ elem'[x] = elem[x]
      BY <1>2, <2>1, <2>3, <2>4, <2>5 DEF ToLock, n
    <3>2. \A x \in Elements : elem'[x].sealed = elem[x].sealed
      BY <2>5
    <3>3. sender.pc = "send" => elem'[sender.elem].sealed
      BY <3>2, InElements DEF OutboundInv, Served
    <3>4. \A x \in Positions(sent) : elem'[x].sealed
      BY <3>2, InElements DEF OutboundInv, Served
    <3> QED BY <1>2, <2>1, <3>1, <3>3, <3>4 DEF OutboundInv, Served
  <2>10. NonceOrder'
    <3>1. \A x \in Elements : Numbered(x)' => Numbered(x)
      BY <1>2, <2>1, <2>6 DEF Numbered
    <3>2. \A x \in Elements : elem'[x].keyPair = elem[x].keyPair /\ elem'[x].nonce = elem[x].nonce
      BY <2>5
    <3> QED BY <1>2, <3>1, <3>2 DEF OutboundInv, NonceOrder, Before
  <2> QED BY <1>0, <2>7, <2>8, <2>9, <2>10 DEF OutboundInv
<1> QED BY <1>4, <1>5

\* A worker takes the oldest element; one that was dropped is nobody's any more,
\* and the sender will not see it.
LEMMA TakeEncryptionInv ==
    ASSUME OutboundInv, NEW w \in Workers, TakeEncryption(w)
    PROVE  OutboundInv'
<1>0. Typed'
  BY TypedStep DEF OutboundInv, Next, RoutineEncryption
<1> DEFINE h == Head(encryptionQ)
<1>1. /\ UNCHANGED <<elem, nonceQ, outboundQ, nonce, sender, keyVars, sent>>
      /\ encryptionQ' = Tail(encryptionQ) /\ working[w] = None
      /\ working' = IF elem[h].dropped THEN working ELSE [working EXCEPT ![w] = h]
  BY DEF TakeEncryption
<1>2. encryptionQ \in Seq(1..count) /\ encryptionQ # <<>> /\ Rising(encryptionQ)
  BY Members DEF TakeEncryption, OutboundInv, InOrder
<1>3. /\ h \in 1..count /\ Positions(encryptionQ) = {h} \cup Positions(encryptionQ')
      /\ Rising(encryptionQ') /\ \A x \in Positions(encryptionQ') : h < x
  BY <1>1, <1>2, TakeHead, TakeHeadRising
<1>4. h # None /\ h \in Elements /\ h \notin Positions(encryptionQ') /\ h \in Held
  <2>1. h # None /\ h \in Elements /\ h \in Held
    BY <1>3, Members DEF OutboundInv, None, Held
  <2>2. h \notin Positions(encryptionQ')
    BY <1>3, Members DEF OutboundInv
  <2> QED BY <2>1, <2>2
<1>5. /\ \A v \in Workers : working'[v] = working[v] \/ (v = w /\ working'[v] = h /\ ~elem[h].dropped)
      /\ ~elem[h].dropped => working'[w] = h
      /\ \A v \in Workers \ {w} : working'[v] = working[v]
  BY <1>1 DEF OutboundInv, Typed, RoutinesTyped
<1> HIDE DEF h
<1>6. Held' \subseteq Held /\ Downstream' = Downstream
  BY <1>1, <1>3, <1>4, <1>5 DEF Held, Downstream
<1>7. InOrder'
  BY <1>1, <1>3, <1>6 DEF OutboundInv, InOrder
<1>8. \A v \in Workers : working[v] # h
  BY <1>3, <1>4 DEF OutboundInv, HeldOnce
<1>9. HeldOnce'
  <2>1. \A v \in Workers : working'[v] # None =>
           /\ working'[v] \notin Positions(encryptionQ')
           /\ working'[v] # nonce'.old
           /\ \A u \in Workers \ {v} : working'[u] # working'[v]
    <3> SUFFICES ASSUME NEW v \in Workers, working'[v] # None
                 PROVE  /\ working'[v] \notin Positions(encryptionQ')
                        /\ working'[v] # nonce.old
                        /\ \A u \in Workers \ {v} : working'[u] # working'[v]
      BY <1>1
    <3>1. CASE working'[v] = h
      <4>1. v = w
        BY <1>5, <1>8, <3>1
      <4>2. h # nonce.old
        BY <1>3 DEF OutboundInv, HeldOnce
      <4> QED BY <1>4, <1>5, <1>8, <3>1, <4>1, <4>2
    <3>2. CASE working'[v] # h
      <4>1. working'[v] = working[v]
        BY <1>5, <3>2
      <4> QED BY <1>3, <1>5, <3>2, <4>1 DEF OutboundInv, HeldOnce
    <3> QED BY <3>1, <3>2
  <2> QED BY <1>1, <1>3, <1>6, <2>1 DEF OutboundInv, HeldOnce
<1>10. Served'
  <2>1. \A x \in Elements : ToLock(x)' => ToLock(x)
    BY <1>1 DEF ToLock
  <2>2. \A x \in Elements : x # h => (x \in Positions(encryptionQ') <=> x \in Positions(encryptionQ))
    BY <1>3
  <2>3. \A x \in Elements : (\E v \in Workers : working[v] = x) => \E v \in Workers : working'[v] = x
    <3>1. \A x \in Elements : x # None
      BY DEF Elements, None
    <3> QED BY <1>1, <1>5, <3>1
  <2>4. ASSUME ToLock(h), elem[h].locked PROVE ~elem[h].dropped
    BY <1>3, <1>4, <1>8, <2>4 DEF OutboundInv, Served, HeldOnce
  <2>5. ASSUME NEW x \in Elements, ToLock(x)'
        PROVE  IF elem'[x].locked
               THEN \/ x \in Positions(encryptionQ') /\ ~elem'[x].dropped
                    \/ \E v \in Workers : working'[v] = x
                    \/ nonce'.old = x
               ELSE elem'[x].sealed \/ elem'[x].dropped
    <3>1. CASE x = h
      BY <1>1, <1>5, <2>1, <2>4, <2>5, <3>1 DEF OutboundInv, Served
    <3>2. CASE x # h
      BY <1>1, <2>1, <2>2, <2>3, <2>5, <3>2 DEF OutboundInv, Served
    <3> QED BY <3>1, <3>2
  <2> QED BY <1>1, <2>5 DEF OutboundInv, Served
<1>11. NonceOrder'
  BY <1>1, InvKept DEF OutboundInv
<1> QED BY <1>0, <1>7, <1>9, <1>10, <1>11 DEF OutboundInv

\* A worker seals its element, which nobody else holds, and unlocks it.
LEMMA SealInv ==
    ASSUME OutboundInv, NEW w \in Workers, Seal(w)
    PROVE  OutboundInv'
<1>0. Typed'
  BY TypedStep DEF OutboundInv, Next, RoutineEncryption
<1> DEFINE e == working[w]
<1>1. /\ UNCHANGED <<qVars, nonce, sender, keyVars, sent>> /\ e # None
      /\ elem' = [elem EXCEPT ![e].sealed = TRUE, ![e].locked = FALSE]
      /\ working' = [working EXCEPT ![w] = None]
  BY DEF Seal
<1>2. e \in Elements /\ e \in Held
  BY <1>1, InElements DEF Held
<1>3. /\ \A x \in Elements \ {e} : elem'[x] = elem[x]
      /\ elem'[e].sealed /\ ~elem'[e].locked /\ elem'[e].dropped = elem[e].dropped
      /\ elem'[e].keyPair = elem[e].keyPair /\ elem'[e].nonce = elem[e].nonce
  BY <1>1, <1>2, SealFacts DEF OutboundInv, Typed
<1>4. /\ e \notin Positions(encryptionQ) /\ e # nonce.old
      /\ \A v \in Workers \ {w} : working[v] # e
  BY <1>1 DEF OutboundInv, HeldOnce
<1>5. /\ working'[w] = None /\ \A v \in Workers \ {w} : working'[v] = working[v]
  BY <1>1 DEF OutboundInv, Typed, RoutinesTyped
<1>6. \A x \in Held' : x # None => x \in Held /\ x # e
  BY <1>1, <1>4, <1>5 DEF Held
<1>7. Downstream' = Downstream
  BY <1>1 DEF Downstream
<1> HIDE DEF e
<1>8. InOrder'
  <2>1. \A y \in Positions(nonceQ) : None < y
    BY Members DEF OutboundInv, None
  <2>2. nonce.elem # None => None < nonce.elem
    BY Members DEF OutboundInv, None
  <2> QED BY <1>1, <1>6, <1>7, <2>1, <2>2 DEF OutboundInv, InOrder
<1>9. HeldOnce'
  <2>1. \A x \in Held' : x # None => elem'[x].locked
    <3>1. \A x \in Held : x # None => elem[x].locked /\ x \in Elements
      BY InElements DEF OutboundInv, HeldOnce
    <3> QED BY <1>3, <1>6, <3>1
  <2>2. \A v \in Workers : working'[v] # None => v # w /\ working'[v] = working[v]
    BY <1>5
  <2>3. \A v \in Workers : working'[v] # None =>
           /\ working'[v] \notin Positions(encryptionQ')
           /\ working'[v] # nonce'.old
           /\ \A u \in Workers \ {v} : working'[u] # working'[v]
    BY <1>1, <2>2 DEF OutboundInv, HeldOnce
  <2>4. nonce.old # None => elem'[nonce.old] = elem[nonce.old]
    BY <1>3, <1>4, InElements
  <2>5. nonce.pc \in {"encryption", "release"} => elem'[nonce.elem] = elem[nonce.elem]
    <3> SUFFICES ASSUME nonce.pc \in {"encryption", "release"} PROVE elem'[nonce.elem] = elem[nonce.elem]
      OBVIOUS
    <3>1. nonce.elem # None /\ nonce.elem \in Elements
      BY InElements
    <3>2. e < nonce.elem
      BY <1>2, <3>1 DEF OutboundInv, InOrder
    <3>3. e # nonce.elem
      BY <1>2, <3>1, <3>2, SizeAssumption DEF Elements
    <3> QED BY <1>3, <3>1, <3>3
  <2> QED BY <1>1, <2>1, <2>3, <2>4, <2>5 DEF OutboundInv, HeldOnce
<1>10. Served'
  <2>1. \A x \in Elements : ToLock(x)' => ToLock(x)
    BY <1>1 DEF ToLock
  <2>2. \A x \in Elements : elem[x].sealed => elem'[x].sealed
    BY <1>3
  <2>3. sender.pc = "send" => elem'[sender.elem].sealed
    BY <2>2, InElements DEF OutboundInv, Served
  <2>4. \A x \in Positions(sent) : elem'[x].sealed
    BY <2>2, InElements DEF OutboundInv, Served
  <2>5. ASSUME NEW x \in Elements, ToLock(x)'
        PROVE  IF elem'[x].locked
               THEN \/ x \in Positions(encryptionQ') /\ ~elem'[x].dropped
                    \/ \E v \in Workers : working'[v] = x
                    \/ nonce'.old = x
               ELSE elem'[x].sealed \/ elem'[x].dropped
    <3>1. CASE x = e
      BY <1>3, <3>1
    <3>2. CASE x # e
      <4>1. elem'[x] = elem[x] /\ ToLock(x)
        BY <1>3, <2>1, <2>5, <3>2
      <4>2. (\E v \in Workers : working[v] = x) => \E v \in Workers : working'[v] = x
        BY <1>5, <3>2 DEF e
      <4> QED BY <1>1, <4>1, <4>2 DEF OutboundInv, Served
    <3> QED BY <3>1, <3>2
  <2> QED BY <1>1, <2>3, <2>4, <2>5 DEF Served
<1>11. NonceOrder'
  <2>1. \A x \in Elements : Numbered(x)' => Numbered(x)
    BY <1>1, <1>7 DEF Numbered
  <2>2. \A x \in Elements : elem'[x].keyPair = elem[x].keyPair /\ elem'[x].nonce = elem[x].nonce
    BY <1>3
  <2>3. \A x \in Elements : Numbered(x)' =>
           /\ elem'[x].keyPair \in 1..keys /\ elem'[x].nonce < RejectAfterMessages
           /\ elem'[x].keyPair = keys => elem'[x].nonce < sendNonce[keys]
    BY <2>1, <2>2 DEF OutboundInv, NonceOrder
  <2>4. \A x, y \in Elements : Numbered(x)' /\ Numbered(y)' /\ x < y => Before(elem'[x], elem'[y])
    BY <2>1, <2>2 DEF OutboundInv, NonceOrder, Before
  <2> QED BY <1>1, <2>3, <2>4 DEF OutboundInv, NonceOrder
<1> QED BY <1>0, <1>8, <1>9, <1>10, <1>11 DEF OutboundInv

\* The sender takes the oldest element of the outbound queue.
LEMMA TakeOutboundInv ==
    ASSUME OutboundInv, TakeOutbound
    PROVE  OutboundInv'
<1>0. Typed'
  BY TypedStep DEF OutboundInv, Next, RoutineSequentialSender
<1> DEFINE h == Head(outboundQ)
<1>1. /\ UNCHANGED <<elem, nonceQ, encryptionQ, nonce, working, keyVars, sent>>
      /\ outboundQ' = Tail(outboundQ) /\ sender.pc = "idle"
      /\ sender'.pc = "lock" /\ sender'.elem = h
  BY DEF TakeOutbound
<1>2. outboundQ \in Seq(1..count) /\ outboundQ # <<>> /\ Rising(outboundQ)
  BY Members DEF TakeOutbound, OutboundInv, InOrder
<1>3. /\ Positions(outboundQ) = {h} \cup Positions(outboundQ')
      /\ Rising(outboundQ') /\ \A x \in Positions(outboundQ') : h < x
  BY <1>1, <1>2, TakeHead, TakeHeadRising
<1> HIDE DEF h
<1>4. Held' = Held /\ Downstream' \subseteq Downstream
  BY <1>1, <1>3 DEF Held, Downstream
<1>5. InOrder'
  BY <1>1, <1>3, <1>4 DEF OutboundInv, InOrder
<1>6. HeldOnce'
  BY <1>1, InvKept DEF OutboundInv
<1>7. Served'
  <2>1. \A x \in Elements : ToLock(x)' => ToLock(x)
    BY <1>1, <1>3 DEF ToLock
  <2> QED BY <1>1, <2>1 DEF OutboundInv, Served
<1>8. NonceOrder'
  <2>1. \A x \in Elements : Numbered(x)' => Numbered(x)
    BY <1>1, <1>4 DEF Numbered
  <2> QED BY <1>1, <2>1 DEF OutboundInv, NonceOrder
<1> QED BY <1>0, <1>5, <1>6, <1>7, <1>8 DEF OutboundInv

\* The sender locks its element: sealed, or else dropped and left behind.
LEMMA LockInv ==
    ASSUME OutboundInv, LockElement
    PROVE  OutboundInv'
<1>0. Typed'
  BY TypedStep DEF OutboundInv, Next, RoutineSequentialSender
<1> DEFINE e == sender.elem
<1>1. /\ UNCHANGED <<qVars, nonce, working, keyVars, sent>>
      /\ sender.pc = "lock" /\ ~elem[e].locked /\ elem' = [elem EXCEPT ![e].locked = TRUE]
  BY DEF LockElement
<1>2. e \in Elements /\ e # None
  BY <1>1, InElements
<1>3. \/ elem[e].dropped /\ sender'.pc = "idle" /\ sender'.elem = None
      \/ ~elem[e].dropped /\ sender'.pc = "send" /\ sender'.elem = e
  BY DEF LockElement, OutboundInv, Typed, RoutinesTyped
<1>4. /\ \A x \in Elements \ {e} : elem'[x] = elem[x]
      /\ elem'[e].locked /\ elem'[e].dropped = elem[e].dropped /\ elem'[e].sealed = elem[e].sealed
      /\ elem'[e].keyPair = elem[e].keyPair /\ elem'[e].nonce = elem[e].nonce
  BY <1>1, <1>2, LockFacts DEF OutboundInv, Typed
<1>5. /\ Held' = Held /\ \A x \in Downstream' : x # None => x \in Downstream
      /\ e \in Downstream
  BY <1>1, <1>3 DEF Held, Downstream
<1>6. e \notin Positions(outboundQ) /\ (nonce.elem # None => e # nonce.elem)
  <2>1. nonce.elem # None => e < nonce.elem
    BY <1>5 DEF OutboundInv, InOrder
  <2>2. \A y \in Positions(outboundQ) : e < y
    BY DEF OutboundInv, InOrder
  <2> QED BY <2>1, <2>2, Members DEF OutboundInv
<1>7. InOrder'
  <2>1. /\ \A y \in Positions(nonceQ) : None < y
        /\ \A y \in Positions(outboundQ) : None < y
        /\ nonce.elem # None => None < nonce.elem
    BY Members DEF OutboundInv, None
  <2> QED BY <1>1, <1>2, <1>3, <1>5, <2>1 DEF OutboundInv, InOrder
<1> HIDE DEF e
<1>8. HeldOnce'
  <2>1. \A x \in Elements : elem[x].locked => elem'[x].locked
    BY <1>4
  <2>2. \A x \in Elements : elem'[x].dropped = elem[x].dropped
    BY <1>4
  <2>3. \A x \in Held : x # None => elem'[x].locked
    BY <2>1, InElements DEF OutboundInv, HeldOnce
  <2>4. nonce.old # None => elem'[nonce.old].dropped
    BY <2>2, InElements DEF OutboundInv, HeldOnce
  <2>5. nonce.pc \in {"encryption", "release"} => elem'[nonce.elem].locked /\ ~elem'[nonce.elem].dropped
    BY <2>1, <2>2, InElements DEF OutboundInv, HeldOnce
  <2> QED BY <1>1, <1>5, <2>3, <2>4, <2>5 DEF OutboundInv, HeldOnce
<1>9. Served'
  <2>1. \A x \in Elements : ToLock(x)' => ToLock(x) /\ x # e
    BY <1>1, <1>3, <1>6, InElements DEF ToLock
  <2>2. \A x \in Elements : elem'[x].sealed = elem[x].sealed
    BY <1>4
  <2>3. sender'.pc = "send" => elem'[sender'.elem].sealed
    <3>1. ToLock(e)
      BY <1>1 DEF ToLock, e
    <3>2. elem[e].sealed \/ elem[e].dropped
      BY <1>1, <1>2, <3>1 DEF OutboundInv, Served
    <3> QED BY <1>3, <1>4, <3>2
  <2>4. \A x \in Positions(sent) : elem'[x].sealed
    BY <2>2, InElements DEF OutboundInv, Served
  <2> QED BY <1>1, <1>4, <2>1, <2>3, <2>4 DEF OutboundInv, Served
<1>10. NonceOrder'
  <2>1. \A x \in Elements : x # None
    BY DEF Elements, None
  <2>2. \A x \in Elements : Numbered(x)' => Numbered(x)
    BY <1>1, <1>5, <2>1 DEF Numbered
  <2>3. \A x \in Elements : elem'[x].keyPair = elem[x].keyPair /\ elem'[x].nonce = elem[x].nonce
    BY <1>4
  <2> QED BY <1>1, <2>2, <2>3 DEF OutboundInv, NonceOrder, Before
<1> QED BY <1>0, <1>7, <1>8, <1>9, <1>10 DEF OutboundInv

\* The sender transmits: the element comes after all that were sent.
LEMMA TransmitInv ==
    ASSUME OutboundInv, Transmit
    PROVE  OutboundInv'
<1>0. Typed'
  BY TypedStep DEF OutboundInv, Next, RoutineSequentialSender
<1> DEFINE e == sender.elem
<1>1. /\ UNCHANGED <<elem, qVars, nonce, working, keyVars>>
      /\ sender.pc = "send" /\ sender'.pc = "idle" /\ sender'.elem = None
      /\ sent' = Append(sent, e) \/ sent' = sent
  BY DEF Transmit
<1>2. e \in Elements /\ e # None
  BY <1>1, InElements
<1>3. Positions(sent') \subseteq Positions(sent) \cup {e} /\ Rising(sent')
  <2>1. sent \in Seq(Elements) /\ Rising(sent) /\ \A x \in Positions(sent) : x < e
    BY <1>2, Members, SeqMonotone DEF OutboundInv, InOrder
  <2>2. Positions(Append(sent, e)) = Positions(sent) \cup {e} /\ Rising(Append(sent, e))
    BY <1>2, <2>1, AddLast, AddLastRising
  <2> QED BY <1>1, <2>1, <2>2
<1>4. Held' = Held /\ \A x \in Downstream' : x # None => x \in Downstream
  BY <1>1, <1>3 DEF Held, Downstream
<1>5. InOrder'
  <2>1. /\ \A y \in Positions(nonceQ) : None < y
        /\ \A y \in Positions(outboundQ) : None < y
        /\ nonce.elem # None => None < nonce.elem
    BY Members DEF OutboundInv, None
  <2> QED BY <1>1, <1>3, <1>4, <2>1 DEF OutboundInv, InOrder
<1>6. HeldOnce'
  BY <1>1, InvKept DEF OutboundInv
<1>7. Served'
  <2>1. \A x \in Elements : ToLock(x)' => ToLock(x)
    BY <1>1 DEF ToLock
  <2> QED BY <1>1, <1>3, <2>1 DEF OutboundInv, Served
<1>8. NonceOrder'
  <2>1. \A x \in Elements : x # None
    BY DEF Elements, None
  <2>2. \A x \in Elements : Numbered(x)' => Numbered(x)
    BY <1>1, <1>4, <2>1 DEF Numbered
  <2> QED BY <1>1, <2>2 DEF OutboundInv, NonceOrder
<1> QED BY <1>0, <1>5, <1>6, <1>7, <1>8 DEF OutboundInv

\* A new pair has no nonce in use; an old one is only ever given up.
LEMMA HandshakeInv ==
    ASSUME OutboundInv, Handshake
    PROVE  OutboundInv'
<1>0. Typed'
  BY TypedStep DEF OutboundInv, Next
<1>1. UNCHANGED <<elem, qVars, nonce, working, sender, sendNonce, sent>>
  BY DEF Handshake, KeyPairDerived, KeyPairLost, InitiatorSignals
<1>2. NonceOrder'
  <2>1. \A x \in Elements : Numbered(x)' <=> Numbered(x)
    BY <1>1 DEF Numbered, Downstream
  <2>2. CASE UNCHANGED keys /\ current' \in {None, keys'}
    BY <1>1, <2>1, <2>2 DEF OutboundInv, NonceOrder
  <2>3. CASE keys' = keys + 1 /\ current' = keys + 1
    <3>1. keys \in Nat
      BY SizeAssumption DEF OutboundInv, Typed, SignalsTyped
    <3>2. \A k \in 1..keys : k \in 1..keys' /\ k # keys'
      BY <2>3, <3>1
    <3> QED BY <1>1, <2>1, <2>3, <3>2 DEF OutboundInv, NonceOrder
  <2> QED BY <2>2, <2>3
          DEF Handshake, KeyPairDerived, KeyPairLost, InitiatorSignals, OutboundInv, NonceOrder
<1> QED BY <1>0, <1>1, <1>2, InvKept DEF OutboundInv

-----------------------------------------------------------------------------
(* Theorems *)

\* Every step of the pipeline keeps the invariant.
LEMMA OutboundStepInv == OutboundInv /\ [Next]_vars => OutboundInv'
<1> SUFFICES ASSUME OutboundInv, [Next]_vars PROVE OutboundInv'
  OBVIOUS
<1>1. CASE UNCHANGED vars
  BY <1>1, TypedStep, InvKept DEF OutboundInv
<1>2. CASE RoutineNonce
  BY <1>2, TakeNonceInv, FlushInv, AssignInv, AddToEncryptionInv, EvictInv, ReleaseInv,
     AddToOutboundInv DEF RoutineNonce
<1>3. ASSUME NEW w \in Workers, RoutineEncryption(w) PROVE OutboundInv'
  BY <1>3, TakeEncryptionInv, SealInv DEF RoutineEncryption
<1>4. CASE RoutineSequentialSender
  BY <1>4, TakeOutboundInv, LockInv, TransmitInv DEF RoutineSequentialSender
<1> QED BY <1>1, <1>2, <1>3, <1>4, EnterInv, HandshakeInv DEF Next

\* The invariant holds in every behaviour.
LEMMA OutboundInvariant == Spec => []OutboundInv
  BY OutboundInitInv, OutboundStepInv, PTL DEF Spec

\* Every variable keeps its type, and no queue outgrows its channel.
THEOREM OutboundTypeOK == Spec => []TypeOK
<1>1. OutboundInv => TypeOK
  BY TypedIsTypeOK DEF OutboundInv
<1> QED BY <1>1, OutboundInvariant, PTL

\* No mutex is unlocked twice: a worker and RoutineNonce never hold the same
\* element, and what they hold is locked (send.go, addToEncryptionQueue and
\* RoutineEncryption).
THEOREM OutboundUnlockOnce == Spec => []UnlockOnce
<1>1. OutboundInv => UnlockOnce
  <2> SUFFICES ASSUME OutboundInv PROVE UnlockOnce
    OBVIOUS
  <2>1. \A w \in Workers : working[w] # None => elem[working[w]].locked
    BY DEF OutboundInv, HeldOnce, Held
  <2>2. nonce.pc = "release" => elem[nonce.old].locked
    BY InElements DEF OutboundInv, HeldOnce, Held
  <2> QED BY <2>1, <2>2 DEF OutboundInv, HeldOnce, UnlockOnce
<1> QED BY <1>1, OutboundInvariant, PTL

\* Whenever RoutineSequentialSender waits on an element's mutex, a worker or
\* RoutineNonce is still going to unlock it.
THEOREM OutboundSenderServed == Spec => []SenderServed
<1>1. OutboundInv => SenderServed
  <2> SUFFICES ASSUME OutboundInv, sender.pc = "lock", elem[sender.elem].locked
               PROVE  \/ sender.elem \in Positions(encryptionQ) /\ ~elem[sender.elem].dropped
                      \/ \E w \in Workers : working[w] = sender.elem
                      \/ nonce.pc = "release" /\ nonce.old = sender.elem
    BY DEF SenderServed
  <2>1. sender.elem \in Elements /\ sender.elem # None /\ ToLock(sender.elem)
    BY InElements DEF ToLock
  <2>2. nonce.old = sender.elem => nonce.pc = "release"
    BY <2>1, InElements
  <2> QED BY <2>1, <2>2 DEF OutboundInv, Served
<1> QED BY <1>1, OutboundInvariant, PTL

\* Nothing goes out in the clear: what SendBuffer is handed was sealed, although
\* the sender only looks at the mutex and at IsDropped.
THEOREM OutboundSentSealed == Spec => []SentSealed
<1>1. OutboundInv => SentSealed
  BY DEF OutboundInv, Served, SentSealed, Positions
<1> QED BY <1>1, OutboundInvariant, PTL

\* On the wire the nonces of a key pair strictly increase below
\* RejectAfterMessages, and no pair is used after a newer one.
THEOREM OutboundNoncesIncrease == Spec => []NoncesIncrease
<1>1. OutboundInv => NoncesIncrease
  <2> SUFFICES ASSUME OutboundInv PROVE NoncesIncrease
    OBVIOUS
  <2>1. \A i \in DOMAIN sent : sent[i] \in Elements /\ Numbered(sent[i])
    BY InElements DEF Numbered, Downstream, Positions
  <2>2. \A i, j \in DOMAIN sent : i < j => sent[i] < sent[j]
    BY DEF OutboundInv, InOrder, Rising
  <2> QED BY <2>1, <2>2 DEF OutboundInv, NonceOrder, NoncesIncrease, Before
<1> QED BY <1>1, OutboundInvariant, PTL

\* send.go:28: the pipeline with its three dropping queues, its workers that
\* finish in any order and its failing sends implements a lossy FIFO.
THEOREM OutboundOrderMaintained == Spec => OrderMaintained
<1>1. Init => Fifo!Init
  BY DEF Init, Fifo!Init
<1>2. OutboundInv /\ [Next]_vars => [Fifo!Next]_(Fifo!vars)
  <2> SUFFICES ASSUME OutboundInv, [Next]_vars PROVE [Fifo!Next]_(Fifo!vars)
    OBVIOUS
  <2>1. CASE Transmit
    <3>1. UNCHANGED count /\ (sent' = Append(sent, sender.elem) \/ sent' = sent)
      BY <2>1 DEF Transmit
    <3>2. sender.elem # None /\ sender.elem \in 1..count
      BY <2>1, InElements, Members DEF Transmit, OutboundInv, None
    <3>3. \A i \in DOMAIN sent : sent[i] < sender.elem
      BY <3>2 DEF OutboundInv, InOrder, Positions
    <3>4. CASE sent' = Append(sent, sender.elem)
      <4>1. Fifo!Deliver(sender.elem)
        BY <3>1, <3>3, <3>4 DEF Fifo!Deliver
      <4> QED BY <3>2, <4>1 DEF Fifo!Next
    <3> QED BY <3>1, <3>4 DEF Fifo!vars
  <2>2. CASE EnterNonceQueue /\ UNCHANGED sent
    BY <2>2 DEF EnterNonceQueue, Fifo!Next, Fifo!Offer
  <2>3. CASE UNCHANGED <<count, sent>>
    BY <2>3 DEF Fifo!vars
  <2>4. Transmit \/ (EnterNonceQueue /\ UNCHANGED sent) \/ UNCHANGED <<count, sent>>
    <3>1. CASE UNCHANGED vars
      BY <3>1
    <3>2. CASE RoutineReadFromTUN \/ SendKeepAlive
      BY <3>2 DEF RoutineReadFromTUN, SendKeepAlive, ReadFromTUN, AddToNonceQueue, KeepAliveCheck,
         KeepAliveSend
    <3>3. CASE RoutineNonce
      BY <3>3 DEF RoutineNonce, TakeNonce, AssignNonce, AwaitKeyPair, NewKeyPairSignalled,
         FlushSignalled, FlushNonceQueue, AddToEncryptionQueue, EvictFromEncryptionQueue,
         ReleaseEvicted, AddToOutboundQueue
    <3>4. CASE (\E w \in Workers : RoutineEncryption(w)) \/ RoutineSequentialSender
      BY <3>4 DEF RoutineEncryption, TakeEncryption, Seal, RoutineSequentialSender, TakeOutbound,
         LockElement
    <3>5. CASE Handshake
      BY <3>5 DEF Handshake, KeyPairDerived, KeyPairLost, InitiatorSignals
    <3> QED BY <3>1, <3>2, <3>3, <3>4, <3>5 DEF Next
  <2> QED BY <2>1, <2>2, <2>3, <2>4
<1> QED BY <1>1, <1>2, OutboundInvariant, PTL DEF Spec, OrderMaintained, Fifo!Spec

=============================================================================

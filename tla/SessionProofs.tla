---------------------------- MODULE SessionProofs ----------------------------
(***************************************************************************)
(* Proofs about module Session, for every set of indices, number of        *)
(* messages and message size, whether or not crypto/rand fails: every      *)
(* safety property of its run.                                             *)
(*                                                                         *)
(* IndexTableSound is inductive together with TypeOK.  Its proof rests on  *)
(* three facts about the index table: NewIndex hands out an entry that was *)
(* free (NewIndexSound), NewKeyPair turns the handshake entry into that of *)
(* the pair (RemapSound), and deleting a pair touches no entry of another  *)
(* since each is found under its own index (DeletePairSound).  NoIndexLeak *)
(* needs that an entry of a pair is under the pair's own index.            *)
(*                                                                         *)
(* OneKeyPairPerHandshake and UnracedKeysAgree share KeysInv: the chain    *)
(* key of the handshake, and the one RoutineHandshake is about to store,   *)
(* are of a handshake without a pair, and as long as no other goroutine    *)
(* wrote the handshake RoutineHandshake finds what it left there.          *)
(***************************************************************************)
EXTENDS Session, TLAPS

\* A sequence over a set is one over a larger set.
LEMMA SeqMonotone ==
    ASSUME NEW S, NEW T, S \subseteq T, NEW s \in Seq(S)
    PROVE  s \in Seq(T)
  OBVIOUS

\* IndexTable.Delete keeps the type of the table.
LEMMA DeleteType ==
    ASSUME NEW E, NoEntry \in E, NEW t \in [AllIndices -> E], NEW i \in AllIndices
    PROVE  Delete(t, i) \in [AllIndices -> E]
  BY DEF Delete

USE DEF vars, hsVars, kpVars, rhVars, timerVars, netVars

\* The index of a key pair is an index.
LEMMA PairFacts ==
    ASSUME TypeOK, NEW q \in 1..Len(pairs)
    PROVE  pairs[q] \in KeyPair /\ pairs[q].localIndex \in AllIndices
<1>1. pairs[q] \in KeyPair
  BY DEF TypeOK
<1> QED BY <1>1 DEF KeyPair, AllIndices

\* What a slot of KeyPairs holds exists.
LEMMA SlotFacts ==
    ASSUME TypeOK, NEW q \in Slots, q # Nil
    PROVE  q \in 1..Len(pairs) /\ pairs[q].localIndex \in AllIndices
<1>1. q \in 1..Len(pairs)
  BY DEF TypeOK, Nil
<1> QED BY <1>1, PairFacts

\* NewDevice and NewPeer leave a typed state.
LEMMA InitTypeOK == Init => TypeOK
  BY IndexAssumption DEF Init, TypeOK, HandshakeStates, ZeroKey, Chain, ChainKeys, AllIndices,
     NoEntry, HandshakeEntry, Slots, Nil, KeyPair

\* CreateMessageInitiation and its two failures keep the types.
LEMMA InitiatorTypeOK ==
    ASSUME TypeOK, InitiatorStep
    PROVE  TypeOK'
<1>1. CASE CreateMessageInitiation
  <2>1. PICK i \in Index : /\ table' = Insert(Delete(table, localIndex), i, HandshakeEntry)
                           /\ localIndex' = i
                           /\ initiations' = Append(initiations, i)
    BY <1>1 DEF CreateMessageInitiation, FreeIndices
  <2>2. answers' \in Seq(1..Len(initiations'))
    <3>1. 1..Len(initiations) \subseteq 1..Len(initiations')
      BY <2>1 DEF TypeOK
    <3>2. answers' = answers /\ answers \in Seq(1..Len(initiations))
      BY <1>1 DEF CreateMessageInitiation, TypeOK
    <3> QED BY <3>1, <3>2, SeqMonotone
  <2>3. table' \in [AllIndices -> {HandshakeEntry, NoEntry} \cup (1..Len(pairs))]
    BY <2>1, DeleteType DEF TypeOK, Insert, AllIndices
  <2>4. chainKey' \in ChainKeys /\ state' \in HandshakeStates
    BY <1>1 DEF CreateMessageInitiation, Chain, ChainKeys, HandshakeStates, TypeOK
  <2>5. raced' \in BOOLEAN
    BY <1>1 DEF CreateMessageInitiation, Interferes
  <2> QED BY <1>1, <2>1, <2>2, <2>3, <2>4, <2>5
          DEF CreateMessageInitiation, TypeOK, Slots, AllIndices
<1>2. CASE CreateInitiationKeyFails
  BY <1>2 DEF CreateInitiationKeyFails, TypeOK, Slots, Interferes, InitialChainKey, Chain, ChainKeys
<1>3. CASE CreateInitiationIndexFails
  <2>1. table' \in [AllIndices -> {HandshakeEntry, NoEntry} \cup (1..Len(pairs))]
    BY <1>3, DeleteType DEF TypeOK, CreateInitiationIndexFails
  <2> QED BY <1>3, <2>1 DEF CreateInitiationIndexFails, TypeOK, Slots, Interferes, InitialChainKey,
          Chain, ChainKeys, AllIndices
<1> QED BY <1>1, <1>2, <1>3 DEF InitiatorStep

\* Every step of RoutineHandshake keeps the types.
LEMMA HandshakeTypeOK ==
    ASSUME TypeOK, HandshakeStep
    PROVE  TypeOK'
<1>1. CASE LookupResponse
  <2>1. msg' \in DOMAIN answers /\ msg' \in Nat /\ raced' \in BOOLEAN
    <3>1. PICK r \in DOMAIN answers : msg' = r
      BY <1>1 DEF LookupResponse
    <3>2. DOMAIN answers \subseteq Nat
      BY DEF TypeOK
    <3> QED BY <1>1, <3>1, <3>2 DEF LookupResponse
  <2> QED BY <1>1, <2>1 DEF LookupResponse, TypeOK, Slots
<1>2. CASE AuthenticateResponse
  <2>1. /\ msg' \in Nat /\ raced' \in BOOLEAN
        /\ pc' = "idle" \/ (pc' = "authenticated" /\ msg' \in DOMAIN answers)
    <3>1. msg \in Nat /\ raced \in BOOLEAN /\ msg \in DOMAIN answers
      BY <1>2 DEF AuthenticateResponse, TypeOK
    <3>2. CASE NextMessage
      BY <3>2 DEF NextMessage
    <3>3. CASE pc' = "authenticated" /\ UNCHANGED <<msg, raced>>
      BY <3>1, <3>3
    <3> QED BY <1>2, <3>2, <3>3 DEF AuthenticateResponse
  <2> QED BY <1>2, <2>1 DEF AuthenticateResponse, TypeOK, Slots
<1>3. CASE ConsumeMessageResponse
  <2>1. msg \in Nat /\ answers[msg] \in Nat
    BY <1>3 DEF ConsumeMessageResponse, TypeOK
  <2>2. chainKey' \in ChainKeys /\ remoteIndex' \in Nat
    BY <1>3, <2>1 DEF ConsumeMessageResponse, Chain, ChainKeys
  <2> QED BY <1>3, <2>2 DEF ConsumeMessageResponse, TypeOK, Slots, HandshakeStates
<1>4. CASE CheckInitiation
  <2>1. msg' \in Nat /\ raced' \in BOOLEAN
    <3>1. PICK q \in 1..peerInitiations : msg' = q
      BY <1>4 DEF CheckInitiation
    <3>2. 1..peerInitiations \subseteq Nat
      BY DEF TypeOK
    <3> QED BY <1>4, <3>1, <3>2 DEF CheckInitiation
  <2> QED BY <1>4, <2>1 DEF CheckInitiation, TypeOK, Slots
<1>5. CASE ConsumeMessageInitiation
  BY <1>5 DEF ConsumeMessageInitiation, TypeOK, Slots, Chain, ChainKeys, HandshakeStates
<1>6. CASE CreateMessageResponse
  <2>1. PICK i \in Index :
           /\ table' = Insert(Delete(table, localIndex), i, HandshakeEntry)
           /\ localIndex' = i
           /\ \/ /\ chainKey' = [chainKey EXCEPT !.resp = 1]
                 /\ state' = "ResponseCreated"
                 /\ responses' = responses \cup {[init |-> msg, sender |-> i]}
                 /\ pc' = "responseCreated"
                 /\ UNCHANGED <<msg, raced>>
              \/ /\ NextMessage
                 /\ UNCHANGED <<chainKey, state, responses>>
    BY <1>6 DEF CreateMessageResponse, FreeIndices
  <2>2. table' \in [AllIndices -> {HandshakeEntry, NoEntry} \cup (1..Len(pairs))]
    BY <2>1, DeleteType DEF TypeOK, Insert, AllIndices
  <2>3. chainKey' \in ChainKeys /\ state' \in HandshakeStates
    <3>1. chainKey \in ChainKeys /\ state \in HandshakeStates
      BY DEF TypeOK
    <3>2. [chainKey EXCEPT !.resp = 1] \in ChainKeys
      BY <3>1 DEF ChainKeys
    <3>3. "ResponseCreated" \in HandshakeStates
      BY DEF HandshakeStates
    <3> QED BY <2>1, <3>1, <3>2, <3>3
  <2>4. responses' \subseteq [init : Nat, sender : Index]
    BY <2>1 DEF TypeOK
  <2>5. /\ pc' \in {"responseCreated", "idle"}
        /\ msg' \in Nat /\ raced' \in BOOLEAN
    <3>1. msg \in Nat /\ raced \in BOOLEAN
      BY DEF TypeOK
    <3>2. CASE UNCHANGED <<msg, raced>> /\ pc' = "responseCreated"
      BY <3>1, <3>2
    <3>3. CASE NextMessage
      BY <3>3 DEF NextMessage
    <3> QED BY <2>1, <3>2, <3>3
  <2>6. pairs' = pairs /\ Slots' = Slots
    BY <1>6 DEF CreateMessageResponse, Slots
  <2> QED BY <1>6, <2>1, <2>2, <2>3, <2>4, <2>5, <2>6
          DEF CreateMessageResponse, TypeOK, AllIndices
<1>7. CASE CreateResponseIndexFails
  <2>1. table' \in [AllIndices -> {HandshakeEntry, NoEntry} \cup (1..Len(pairs))]
    BY <1>7, DeleteType DEF TypeOK, CreateResponseIndexFails
  <2> QED BY <1>7, <2>1 DEF CreateResponseIndexFails, NextMessage, TypeOK, Slots, AllIndices
<1>8. CASE CreateResponseRefused
  BY <1>8 DEF CreateResponseRefused, NextMessage, TypeOK, Slots
<1>9. CASE NewKeyPair
  <2> DEFINE p == Len(pairs) + 1
             k == [chainKey |-> chainKey, isInitiator |-> state = "ResponseConsumed",
                   localIndex |-> localIndex, remoteIndex |-> remoteIndex, raced |-> raced]
             E == {HandshakeEntry, NoEntry} \cup (1..p)
  <2>1. pairs' = Append(pairs, k) /\ k \in KeyPair
    BY <1>9 DEF NewKeyPair, KeyPair, TypeOK, AllIndices
  <2>2. pairs' \in Seq(KeyPair) /\ Len(pairs') = p /\ p \in Nat /\ Len(pairs) \in Nat
    BY <2>1 DEF TypeOK
  <2>3. \A q \in Slots : q # Nil => pairs[q].localIndex \in AllIndices
    BY SlotFacts
  <2>4. Insert(table, localIndex, p) \in [AllIndices -> E]
    BY <2>2 DEF TypeOK, Insert
  <2>5. table' \in [AllIndices -> E] /\ {previous', current', next'} \subseteq 0..p
    <3>1. CASE RotateAsInitiator(p)
      <4>1. previous # Nil =>
               Delete(Insert(table, localIndex, p), pairs[previous].localIndex)
                  \in [AllIndices -> E]
        BY <2>3, <2>4, DeleteType DEF Slots
      <4>2. table' \in [AllIndices -> E]
        BY <3>1, <2>4, <4>1 DEF RotateAsInitiator
      <4>3. {previous', current', next'} \subseteq 0..p
        BY <3>1, <2>2 DEF RotateAsInitiator, TypeOK, Slots
      <4> QED BY <4>2, <4>3
    <3>2. CASE RotateAsResponder(p)
      BY <3>2, <2>2, <2>4 DEF RotateAsResponder, TypeOK, Slots, Nil
    <3> QED BY <1>9, <3>1, <3>2 DEF NewKeyPair
  <2>6. chainKey' \in ChainKeys /\ state' \in HandshakeStates /\ localIndex' \in AllIndices
    BY <1>9 DEF NewKeyPair, ZeroKey, Chain, ChainKeys, HandshakeStates, AllIndices
  <2>7. inbound' \subseteq 1..p
    BY <1>9, <2>2 DEF NewKeyPair, TypeOK
  <2> HIDE DEF p, k
  <2> QED BY <1>9, <2>2, <2>5, <2>6, <2>7 DEF NewKeyPair, NextMessage, TypeOK, Slots
<1>10. CASE NewKeyPairRefused
  BY <1>10 DEF NewKeyPairRefused, NextMessage, TypeOK, Slots
<1>11. CASE CookieReplyUnknown
  BY <1>11 DEF CookieReplyUnknown, TypeOK, Slots
<1> QED BY <1>1, <1>2, <1>3, <1>4, <1>5, <1>6, <1>7, <1>8, <1>9, <1>10, <1>11 DEF HandshakeStep

\* The zeroAllKeys case of RoutineTimerHandler keeps the types.
LEMMA TimerTypeOK ==
    ASSUME TypeOK, TimerStep
    PROVE  TypeOK'
<1>1. CASE ZeroAllKeysExpires
  BY <1>1 DEF ZeroAllKeysExpires, TypeOK, Slots
<1>2. CASE ZeroAllKeys
  <2> DEFINE E == {HandshakeEntry, NoEntry} \cup (1..Len(pairs))
  <2>1. ASSUME NEW t \in [AllIndices -> E], NEW q \in Slots
        PROVE  DeleteKeyPair(t, q) \in [AllIndices -> E]
    <3>1. q # Nil => pairs[q].localIndex \in AllIndices
      BY SlotFacts
    <3> QED BY <3>1, DeleteType DEF DeleteKeyPair
  <2>2. table' \in [AllIndices -> E]
    <3> DEFINE t1 == DeleteKeyPair(table, previous)
               t2 == DeleteKeyPair(t1, current)
               t3 == DeleteKeyPair(t2, next)
    <3>1. table' = Delete(t3, localIndex)
      BY <1>2 DEF ZeroAllKeys
    <3>2. t1 \in [AllIndices -> E]
      BY <2>1 DEF TypeOK, Slots
    <3> HIDE DEF t1
    <3>3. t2 \in [AllIndices -> E]
      BY <2>1, <3>2 DEF Slots
    <3> HIDE DEF t2
    <3>4. t3 \in [AllIndices -> E]
      BY <2>1, <3>3 DEF Slots
    <3> HIDE DEF t3
    <3> QED BY <3>1, <3>4, DeleteType DEF TypeOK
  <2>3. raced' \in BOOLEAN /\ tick' \in BOOLEAN
    BY <1>2 DEF ZeroAllKeys, Interferes
  <2>4. chainKey' \in ChainKeys /\ localIndex' \in AllIndices
    BY <1>2 DEF ZeroAllKeys, ZeroKey, Chain, ChainKeys, AllIndices
  <2>5. Slots' \subseteq 0..Len(pairs)
    BY <1>2 DEF ZeroAllKeys, Slots, Nil, TypeOK
  <2> QED BY <1>2, <2>2, <2>3, <2>4, <2>5 DEF ZeroAllKeys, TypeOK
<1> QED BY <1>1, <1>2 DEF TimerStep

\* handleUDP's lookup and the promotion of next keep the types.
LEMMA TransportTypeOK ==
    ASSUME TypeOK, TransportStep
    PROVE  TypeOK'
<1>1. CASE ReceiveTransport
  <2>1. PICK p : /\ p \in {table[i] : i \in Index}
                 /\ p \notin {NoEntry, HandshakeEntry}
                 /\ inbound' = inbound \cup {p}
    <3>1. PICK s \in ServerSessions : LET p == table[s.index] IN
             /\ p \notin {NoEntry, HandshakeEntry}
             /\ inbound' = inbound \cup {p}
      BY <1>1 DEF ReceiveTransport
    <3>2. s.index \in Index
      BY DEF ServerSessions, TypeOK, ReceiverOf
    <3> QED BY <3>1, <3>2
  <2>2. inbound' \subseteq 1..Len(pairs)
    BY <2>1 DEF TypeOK, AllIndices
  <2> QED BY <1>1, <2>2 DEF ReceiveTransport, TypeOK, Slots
<1>2. CASE SequentialReceive
  <2>1. PICK p \in inbound : inbound' = inbound \ {p} /\ ConfirmNext(p)
    BY <1>2 DEF SequentialReceive
  <2>2. table' \in [AllIndices -> {HandshakeEntry, NoEntry} \cup (1..Len(pairs))]
    <3>1. previous # Nil => pairs[previous].localIndex \in AllIndices
      BY SlotFacts DEF Slots
    <3>2. DeleteKeyPair(table, previous)
             \in [AllIndices -> {HandshakeEntry, NoEntry} \cup (1..Len(pairs))]
      BY <3>1, DeleteType DEF DeleteKeyPair, TypeOK
    <3> QED BY <2>1, <3>2 DEF ConfirmNext, TypeOK
  <2>3. {previous', current', next'} \subseteq 0..Len(pairs)
    BY <2>1 DEF ConfirmNext, TypeOK, Slots, Nil
  <2> QED BY <1>2, <2>1, <2>2, <2>3 DEF SequentialReceive, TypeOK, Slots
<1> QED BY <1>1, <1>2 DEF TransportStep

\* The server's messages keep the types.
LEMMA ServerTypeOK ==
    ASSUME TypeOK, ServerStep
    PROVE  TypeOK'
<1>1. CASE ServerAnswers
  <2>1. PICK n \in 1..Len(initiations) : answers' = Append(answers, n)
    BY <1>1 DEF ServerAnswers, TypeOK
  <2>2. answers' \in Seq(1..Len(initiations)) /\ DOMAIN answers \subseteq DOMAIN answers'
    BY <2>1 DEF TypeOK
  <2> QED BY <1>1, <2>2 DEF ServerAnswers, TypeOK, Slots
<1>2. CASE ServerInitiates
  BY <1>2 DEF ServerInitiates, TypeOK, Slots
<1> QED BY <1>1, <1>2 DEF ServerStep

\* Every variable keeps its type, for every set of indices, every message size and every bound.
THEOREM SessionTypeOK == Spec => []TypeOK
<1>1. TypeOK /\ [Next]_vars => TypeOK'
  <2> SUFFICES ASSUME TypeOK, [Next]_vars PROVE TypeOK'
    OBVIOUS
  <2>1. CASE UNCHANGED vars
    BY <2>1 DEF TypeOK, Slots
  <2> QED BY <2>1, InitiatorTypeOK, HandshakeTypeOK, TimerTypeOK, TransportTypeOK, ServerTypeOK
          DEF Next
<1> QED BY <1>1, InitTypeOK, PTL DEF Spec

-----------------------------------------------------------------------------

\* The table after IndexTable.Delete, entry by entry: Delete(0) does nothing.
LEMMA DeleteAt ==
    ASSUME NEW E, NEW t \in [AllIndices -> E], NEW i \in AllIndices, NEW j \in AllIndices
    PROVE  Delete(t, i)[j] = IF i # 0 /\ j = i THEN NoEntry ELSE t[j]
  BY DEF Delete

\* The table after IndexTable.Insert, entry by entry.
LEMMA InsertAt ==
    ASSUME NEW E, NEW t \in [AllIndices -> E], NEW i \in AllIndices, NEW j \in AllIndices, NEW e
    PROVE  Insert(t, i, e)[j] = IF j = i THEN e ELSE t[j]
  BY DEF Insert

\* What IndexTableSound says of the handshake's own entry, and of the slots.
HandshakeFiled(t, li) == \A j \in AllIndices : t[j] = HandshakeEntry <=> (j = li /\ j # 0)

PairsFiled(t, ks, live) ==
    \A p \in live : ks[p].localIndex # 0 => t[ks[p].localIndex] = p

\* IndexTableSound in terms of its parts.
LEMMA SoundParts ==
    IndexTableSound <=>
        /\ HandshakeFiled(table, localIndex)
        /\ PairsFiled(table, pairs, LivePairs)
        /\ previous # Nil => previous \notin {current, next}
        /\ current # Nil => current # next
<1>1. HandshakeFiled(table, localIndex) <=>
         /\ \A i \in Index : table[i] = HandshakeEntry <=> i = localIndex
         /\ table[0] # HandshakeEntry
  BY IndexAssumption DEF HandshakeFiled, AllIndices
<1> QED BY <1>1 DEF IndexTableSound, PairsFiled

\* IndexTableSound in the next state from its parts.
LEMMA SoundPartsNext ==
    ASSUME HandshakeFiled(table', localIndex'), PairsFiled(table', pairs', LivePairs'),
           previous' # Nil => previous' \notin {current', next'},
           current' # Nil => current' # next'
    PROVE  IndexTableSound'
<1>1. /\ \A i \in Index : table'[i] = HandshakeEntry <=> i = localIndex'
      /\ table'[0] # HandshakeEntry
  BY IndexAssumption DEF HandshakeFiled, AllIndices
<1> QED BY <1>1 DEF IndexTableSound, PairsFiled

\* A new index for the handshake: NewIndex after Delete of the old one.
LEMMA NewIndexSound ==
    ASSUME TypeOK, IndexTableSound, NEW i \in FreeIndices(Delete(table, localIndex))
    PROVE  LET t == Insert(Delete(table, localIndex), i, HandshakeEntry) IN
           HandshakeFiled(t, i) /\ PairsFiled(t, pairs, LivePairs)
<1> DEFINE E == {HandshakeEntry, NoEntry} \cup (1..Len(pairs))
           u == Delete(table, localIndex)
           t == Insert(u, i, HandshakeEntry)
<1>1. /\ table \in [AllIndices -> E] /\ localIndex \in AllIndices
      /\ i \in Index /\ i \in AllIndices /\ i # 0 /\ u[i] = NoEntry
  BY IndexAssumption DEF TypeOK, FreeIndices, AllIndices
<1>2. u \in [AllIndices -> E]
  BY <1>1, DeleteType
<1>3. \A j \in AllIndices : u[j] = IF localIndex # 0 /\ j = localIndex THEN NoEntry ELSE table[j]
  BY <1>1, DeleteAt
<1>4. \A j \in AllIndices : t[j] = IF j = i THEN HandshakeEntry ELSE u[j]
  <2> HIDE DEF u, E
  <2> QED BY <1>1, <1>2 DEF Insert
<1>5. HandshakeFiled(table, localIndex) /\ PairsFiled(table, pairs, LivePairs)
  BY SoundParts
<1> HIDE DEF u, t
<1>6. HandshakeFiled(t, i)
  BY <1>1, <1>3, <1>4, <1>5 DEF HandshakeFiled, HandshakeEntry, NoEntry
<1>7. PairsFiled(t, pairs, LivePairs)
  <2>1. SUFFICES ASSUME NEW p \in LivePairs, pairs[p].localIndex # 0
                 PROVE  t[pairs[p].localIndex] = p
    BY DEF PairsFiled
  <2>2. p \in 1..Len(pairs) /\ pairs[p].localIndex \in AllIndices
    BY SlotFacts DEF LivePairs
  <2>3. table[pairs[p].localIndex] = p /\ p # HandshakeEntry /\ p # NoEntry
    BY <1>5, <2>1, <2>2 DEF PairsFiled, HandshakeEntry, NoEntry
  <2>4. pairs[p].localIndex # localIndex
    BY <1>1, <1>5, <2>1, <2>3 DEF HandshakeFiled
  <2>5. u[pairs[p].localIndex] = p
    BY <1>3, <2>2, <2>3, <2>4
  <2>6. pairs[p].localIndex # i
    BY <1>1, <2>3, <2>5
  <2> QED BY <1>4, <2>2, <2>5, <2>6
<1> QED BY <1>6, <1>7 DEF t, u

\* The handshake gives its index up.
LEMMA DropIndexSound ==
    ASSUME TypeOK, IndexTableSound
    PROVE  LET t == Delete(table, localIndex) IN
           HandshakeFiled(t, 0) /\ PairsFiled(t, pairs, LivePairs)
<1> DEFINE E == {HandshakeEntry, NoEntry} \cup (1..Len(pairs))
           t == Delete(table, localIndex)
<1>1. table \in [AllIndices -> E] /\ localIndex \in AllIndices
  BY DEF TypeOK
<1>2. \A j \in AllIndices : t[j] = IF localIndex # 0 /\ j = localIndex THEN NoEntry ELSE table[j]
  BY <1>1, DeleteAt
<1>3. HandshakeFiled(table, localIndex) /\ PairsFiled(table, pairs, LivePairs)
  BY SoundParts
<1> HIDE DEF t
<1>4. HandshakeFiled(t, 0)
  BY <1>1, <1>2, <1>3 DEF HandshakeFiled, HandshakeEntry, NoEntry
<1>5. PairsFiled(t, pairs, LivePairs)
  <2>1. SUFFICES ASSUME NEW p \in LivePairs, pairs[p].localIndex # 0
                 PROVE  t[pairs[p].localIndex] = p
    BY DEF PairsFiled
  <2>2. p \in 1..Len(pairs) /\ pairs[p].localIndex \in AllIndices
    BY SlotFacts DEF LivePairs
  <2>3. table[pairs[p].localIndex] = p /\ p # HandshakeEntry
    BY <1>3, <2>1, <2>2 DEF PairsFiled, HandshakeEntry
  <2>4. pairs[p].localIndex # localIndex
    BY <1>1, <1>3, <2>1, <2>3 DEF HandshakeFiled
  <2> QED BY <1>2, <2>2, <2>3, <2>4
<1> QED BY <1>4, <1>5 DEF t

\* A pair that leaves its slot takes its own entry with it, and no other.
LEMMA DeletePairSound ==
    ASSUME NEW E, NEW t \in [AllIndices -> E], NEW ks, NEW li, NEW live, NEW p \in live,
           \A q \in live : q # HandshakeEntry /\ ks[q].localIndex \in AllIndices,
           HandshakeFiled(t, li), PairsFiled(t, ks, live)
    PROVE  LET u == Delete(t, ks[p].localIndex) IN
           HandshakeFiled(u, li) /\ PairsFiled(u, ks, live \ {p})
<1> DEFINE i == ks[p].localIndex
           u == Delete(t, i)
<1>1. i \in AllIndices
  OBVIOUS
<1>2. \A j \in AllIndices : u[j] = IF i # 0 /\ j = i THEN NoEntry ELSE t[j]
  BY <1>1, DeleteAt
<1>3. i # 0 => t[i] = p
  BY DEF PairsFiled
<1> HIDE DEF u
<1>4. HandshakeFiled(u, li)
  BY <1>1, <1>2, <1>3 DEF HandshakeFiled, HandshakeEntry, NoEntry
<1>5. PairsFiled(u, ks, live \ {p})
  BY <1>1, <1>2, <1>3 DEF PairsFiled
<1> QED BY <1>4, <1>5 DEF u


\* NewKeyPair's remap: the handshake's entry becomes the entry of pair p.
LEMMA RemapSound ==
    ASSUME TypeOK, IndexTableSound, NEW k, k.localIndex = localIndex,
           NEW p, p = Len(pairs) + 1
    PROVE  LET t == Insert(table, localIndex, p)
               ks == Append(pairs, k)
           IN  HandshakeFiled(t, 0) /\ PairsFiled(t, ks, LivePairs \cup {p})
<1> DEFINE E == {HandshakeEntry, NoEntry} \cup (1..Len(pairs))
           t == Insert(table, localIndex, p)
           ks == Append(pairs, k)
<1>1. table \in [AllIndices -> E] /\ localIndex \in AllIndices /\ Len(pairs) \in Nat
  BY DEF TypeOK
<1>2. \A j \in AllIndices : t[j] = IF j = localIndex THEN p ELSE table[j]
  BY <1>1 DEF Insert
<1>3. HandshakeFiled(table, localIndex) /\ PairsFiled(table, pairs, LivePairs)
  BY SoundParts
<1>4. ks[p] = k /\ \A q \in 1..Len(pairs) : ks[q] = pairs[q]
  BY DEF TypeOK
<1>5. p # HandshakeEntry
  BY <1>1 DEF HandshakeEntry
<1> HIDE DEF t, ks, E
<1>6. HandshakeFiled(t, 0)
  BY <1>1, <1>2, <1>3, <1>5 DEF HandshakeFiled
<1>7. PairsFiled(t, ks, LivePairs \cup {p})
  <2>1. ASSUME NEW q \in LivePairs, pairs[q].localIndex # 0
        PROVE  t[pairs[q].localIndex] = q
    <3>1. q \in 1..Len(pairs) /\ pairs[q].localIndex \in AllIndices
      BY SlotFacts DEF LivePairs
    <3>2. table[pairs[q].localIndex] = q /\ q # HandshakeEntry
      BY <1>3, <2>1, <3>1 DEF PairsFiled, HandshakeEntry
    <3>3. pairs[q].localIndex # localIndex
      BY <1>1, <1>3, <2>1, <3>2 DEF HandshakeFiled
    <3> QED BY <1>2, <3>1, <3>2, <3>3
  <2>2. \A q \in LivePairs : ks[q] = pairs[q]
    BY <1>4, SlotFacts DEF LivePairs
  <2>3. t[ks[p].localIndex] = p
    BY <1>1, <1>2, <1>4
  <2> QED BY <2>1, <2>2, <2>3 DEF PairsFiled
<1> QED BY <1>6, <1>7 DEF t, ks

\* A step that leaves the table, the slots and the index alone.
LEMMA FrameSound ==
    ASSUME TypeOK, IndexTableSound,
           UNCHANGED <<table, localIndex, previous, current, next, pairs>>
    PROVE  IndexTableSound'
  BY DEF IndexTableSound, LivePairs, Slots

\* A step of CreateMessageInitiation or CreateMessageResponse: a new index, or none.
LEMMA ReindexSound ==
    ASSUME TypeOK, IndexTableSound, UNCHANGED <<previous, current, next, pairs>>,
           \/ \E i \in FreeIndices(Delete(table, localIndex)) :
                 /\ table' = Insert(Delete(table, localIndex), i, HandshakeEntry)
                 /\ localIndex' = i
           \/ table' = Delete(table, localIndex) /\ localIndex' = 0
    PROVE  IndexTableSound'
<1>1. HandshakeFiled(table', localIndex') /\ PairsFiled(table', pairs, LivePairs)
  <2>1. CASE \E i \in FreeIndices(Delete(table, localIndex)) :
                 /\ table' = Insert(Delete(table, localIndex), i, HandshakeEntry)
                 /\ localIndex' = i
    <3>1. PICK i \in FreeIndices(Delete(table, localIndex)) :
                 /\ table' = Insert(Delete(table, localIndex), i, HandshakeEntry)
                 /\ localIndex' = i
      BY <2>1
    <3> QED BY <3>1, NewIndexSound
  <2>2. CASE table' = Delete(table, localIndex) /\ localIndex' = 0
    BY <2>2, DropIndexSound
  <2> QED BY <2>1, <2>2
<1>2. LivePairs' = LivePairs /\ pairs' = pairs
  BY DEF LivePairs, Slots
<1>3. /\ previous' # Nil => previous' \notin {current', next'}
      /\ current' # Nil => current' # next'
  BY DEF IndexTableSound
<1> QED BY <1>1, <1>2, <1>3, SoundPartsNext


\* NewDevice and NewPeer leave a sound table.
LEMMA InitSound == Init => IndexTableSound
  BY DEF Init, IndexTableSound, LivePairs, Slots, AllIndices, NoEntry, HandshakeEntry, Nil

\* CreateMessageInitiation keeps the table sound, its failures too.
LEMMA InitiatorSound ==
    ASSUME TypeOK, IndexTableSound, InitiatorStep
    PROVE  IndexTableSound'
<1>1. CASE CreateMessageInitiation
  <2>1. \E i \in FreeIndices(Delete(table, localIndex)) :
           /\ table' = Insert(Delete(table, localIndex), i, HandshakeEntry)
           /\ localIndex' = i
    BY <1>1 DEF CreateMessageInitiation
  <2>2. UNCHANGED <<previous, current, next, pairs>>
    BY <1>1 DEF CreateMessageInitiation
  <2> QED BY <2>1, <2>2, ReindexSound
<1>2. CASE CreateInitiationKeyFails
  BY <1>2, FrameSound DEF CreateInitiationKeyFails
<1>3. CASE CreateInitiationIndexFails
  BY <1>3, ReindexSound DEF CreateInitiationIndexFails
<1> QED BY <1>1, <1>2, <1>3 DEF InitiatorStep

\* NewKeyPair: the remap, the deletion of previous, and a rotation in which the new
\* pair cannot meet an old one.
LEMMA NewKeyPairSound ==
    ASSUME TypeOK, IndexTableSound, NewKeyPair
    PROVE  IndexTableSound'
<1> DEFINE p == Len(pairs) + 1
           k == [chainKey |-> chainKey, isInitiator |-> state = "ResponseConsumed",
                 localIndex |-> localIndex, remoteIndex |-> remoteIndex, raced |-> raced]
           E == {HandshakeEntry, NoEntry} \cup (1..p)
           t == Insert(table, localIndex, p)
           live == LivePairs \cup {p}
<1>1. pairs' = Append(pairs, k) /\ localIndex' = 0 /\ k.localIndex = localIndex
  BY DEF NewKeyPair
<1>2. Len(pairs) \in Nat /\ p \in Nat \ {0} /\ \A q \in Slots : q # p
  BY DEF TypeOK
<1> HIDE DEF k
<1>3. HandshakeFiled(t, 0) /\ PairsFiled(t, pairs', live)
  BY <1>1, RemapSound
<1>4. t \in [AllIndices -> E]
  BY <1>2 DEF TypeOK, Insert
<1>5. \A q \in LivePairs : pairs'[q] = pairs[q] /\ q \in 1..Len(pairs)
  BY <1>1, SlotFacts DEF LivePairs, TypeOK
<1>6. \A q \in live : q # HandshakeEntry /\ pairs'[q].localIndex \in AllIndices
  <2>1. pairs'[p].localIndex = localIndex
    BY <1>1 DEF TypeOK
  <2> QED BY <1>2, <1>5, <2>1, SlotFacts DEF LivePairs, HandshakeEntry, TypeOK
<1>7. CASE RotateAsInitiator(p)
  <2>1. HandshakeFiled(table', 0) /\ PairsFiled(table', pairs', live \ {previous})
    <3>1. CASE previous = Nil
      <4>1. table' = t
        BY <1>7, <3>1 DEF RotateAsInitiator
      <4> QED BY <1>3, <4>1 DEF PairsFiled
    <3>2. CASE previous # Nil
      <4>1. previous \in live /\ pairs'[previous] = pairs[previous]
        BY <1>5, <3>2 DEF LivePairs, Slots
      <4>2. table' = Delete(t, pairs'[previous].localIndex)
        BY <1>7, <3>2, <4>1 DEF RotateAsInitiator
      <4> HIDE DEF t, live, E
      <4> QED BY <1>3, <1>4, <1>6, <4>1, <4>2, DeletePairSound
    <3> QED BY <3>1, <3>2
  <2>2. /\ LivePairs' \subseteq live \ {previous}
        /\ previous' # Nil => previous' \notin {current', next'}
        /\ current' # Nil => current' # next'
    BY <1>2, <1>7 DEF RotateAsInitiator, IndexTableSound, LivePairs, Slots, Nil
  <2>3. PairsFiled(table', pairs', LivePairs')
    BY <2>1, <2>2 DEF PairsFiled
  <2> QED BY <1>1, <2>1, <2>2, <2>3, SoundPartsNext
<1>8. CASE RotateAsResponder(p)
  <2>1. /\ LivePairs' \subseteq live
        /\ previous' # Nil => previous' \notin {current', next'}
        /\ current' # Nil => current' # next'
    BY <1>2, <1>8 DEF RotateAsResponder, LivePairs, Slots, Nil
  <2>2. table' = t
    BY <1>8 DEF RotateAsResponder
  <2>3. PairsFiled(table', pairs', LivePairs')
    BY <1>3, <2>1, <2>2 DEF PairsFiled
  <2> QED BY <1>1, <1>3, <2>1, <2>2, <2>3, SoundPartsNext
<1> QED BY <1>7, <1>8 DEF NewKeyPair

\* Every step of RoutineHandshake keeps the table sound.
LEMMA HandshakeSound ==
    ASSUME TypeOK, IndexTableSound, HandshakeStep
    PROVE  IndexTableSound'
<1>1. CASE CreateMessageResponse
  <2>1. \E i \in FreeIndices(Delete(table, localIndex)) :
           /\ table' = Insert(Delete(table, localIndex), i, HandshakeEntry)
           /\ localIndex' = i
    BY <1>1 DEF CreateMessageResponse
  <2>2. UNCHANGED <<previous, current, next, pairs>>
    BY <1>1 DEF CreateMessageResponse
  <2> QED BY <2>1, <2>2, ReindexSound
<1>2. CASE CreateResponseIndexFails
  BY <1>2, ReindexSound DEF CreateResponseIndexFails
<1>3. CASE NewKeyPair
  BY <1>3, NewKeyPairSound
<1>4. ASSUME \/ LookupResponse \/ AuthenticateResponse \/ ConsumeMessageResponse
             \/ CheckInitiation \/ ConsumeMessageInitiation \/ CreateResponseRefused
             \/ NewKeyPairRefused \/ CookieReplyUnknown
      PROVE  IndexTableSound'
  BY <1>4, FrameSound DEF LookupResponse, AuthenticateResponse, ConsumeMessageResponse,
     CheckInitiation, ConsumeMessageInitiation, CreateResponseRefused, NewKeyPairRefused,
     CookieReplyUnknown
<1> QED BY <1>1, <1>2, <1>3, <1>4 DEF HandshakeStep

\* zeroAllKeys keeps the table sound: it only removes entries, and no pair stays in use.
LEMMA TimerSound ==
    ASSUME TypeOK, IndexTableSound, TimerStep
    PROVE  IndexTableSound'
<1>1. CASE ZeroAllKeysExpires
  BY <1>1, FrameSound DEF ZeroAllKeysExpires
<1>2. CASE ZeroAllKeys
  <2> DEFINE E == {HandshakeEntry, NoEntry} \cup (1..Len(pairs))
             Drops(t, u) == \A j \in AllIndices : u[j] \in {t[j], NoEntry}
  <2>1. ASSUME NEW t \in [AllIndices -> E], NEW q \in Slots
        PROVE  DeleteKeyPair(t, q) \in [AllIndices -> E] /\ Drops(t, DeleteKeyPair(t, q))
    <3>1. q # Nil => pairs[q].localIndex \in AllIndices
      BY SlotFacts
    <3>2. DeleteKeyPair(t, q) \in [AllIndices -> E]
      BY <3>1, DeleteType DEF DeleteKeyPair
    <3>3. CASE q = Nil
      BY <3>2, <3>3 DEF DeleteKeyPair
    <3>4. CASE q # Nil
      <4> DEFINE i == pairs[q].localIndex
      <4>1. ASSUME NEW j \in AllIndices PROVE Delete(t, i)[j] \in {t[j], NoEntry}
        <5>1. i \in AllIndices
          BY <3>1, <3>4
        <5> HIDE DEF i, E
        <5>2. Delete(t, i)[j] = IF i # 0 /\ j = i THEN NoEntry ELSE t[j]
          BY <5>1, DeleteAt
        <5> QED BY <5>2
      <4> QED BY <3>2, <3>4, <4>1 DEF DeleteKeyPair
    <3> QED BY <3>3, <3>4
  <2> DEFINE t1 == DeleteKeyPair(table, previous)
             t2 == DeleteKeyPair(t1, current)
             t3 == DeleteKeyPair(t2, next)
  <2>2. table' = Delete(t3, localIndex) /\ localIndex' = 0
    BY <1>2 DEF ZeroAllKeys
  <2>3. t1 \in [AllIndices -> E] /\ Drops(table, t1)
    BY <2>1 DEF TypeOK, Slots
  <2> HIDE DEF t1
  <2>4. t2 \in [AllIndices -> E] /\ Drops(t1, t2)
    BY <2>1, <2>3 DEF Slots
  <2> HIDE DEF t2
  <2>5. t3 \in [AllIndices -> E] /\ Drops(t2, t3)
    BY <2>1, <2>4 DEF Slots
  <2> HIDE DEF t3
  <2>6. \A j \in AllIndices : t3[j] \in {table[j], NoEntry}
    BY <2>3, <2>4, <2>5
  <2>7. \A j \in AllIndices :
           table'[j] = IF localIndex # 0 /\ j = localIndex THEN NoEntry ELSE t3[j]
    BY <2>2, <2>5, DeleteAt DEF TypeOK
  <2>8. HandshakeFiled(table, localIndex)
    BY SoundParts
  <2>9. HandshakeFiled(table', 0)
    BY <2>6, <2>7, <2>8 DEF HandshakeFiled, NoEntry, HandshakeEntry
  <2>10. LivePairs' = {} /\ previous' = Nil /\ current' = Nil
    BY <1>2 DEF ZeroAllKeys, LivePairs, Slots
  <2>11. PairsFiled(table', pairs', LivePairs')
    BY <2>10 DEF PairsFiled
  <2> QED BY <2>2, <2>9, <2>10, <2>11, SoundPartsNext
<1> QED BY <1>1, <1>2 DEF TimerStep

\* The promotion of next keeps the table sound.
LEMMA TransportSound ==
    ASSUME TypeOK, IndexTableSound, TransportStep
    PROVE  IndexTableSound'
<1>1. CASE ReceiveTransport
  BY <1>1, FrameSound DEF ReceiveTransport
<1>2. CASE SequentialReceive
  <2>1. PICK p \in inbound : ConfirmNext(p)
    BY <1>2 DEF SequentialReceive
  <2>2. UNCHANGED <<localIndex, pairs>>
    BY <1>2 DEF SequentialReceive
  <2>3. CASE next # p
    BY <2>1, <2>2, <2>3, FrameSound DEF ConfirmNext
  <2>4. CASE next = p
    <3> DEFINE E == {HandshakeEntry, NoEntry} \cup (1..Len(pairs))
    <3>1. table \in [AllIndices -> E]
      BY DEF TypeOK
    <3>2. HandshakeFiled(table, localIndex) /\ PairsFiled(table, pairs, LivePairs)
      BY SoundParts
    <3>3. \A q \in LivePairs : q # HandshakeEntry /\ pairs[q].localIndex \in AllIndices
      BY SlotFacts DEF LivePairs, HandshakeEntry
    <3>4. /\ HandshakeFiled(table', localIndex)
          /\ PairsFiled(table', pairs, LivePairs \ {previous})
      <4>1. table' = DeleteKeyPair(table, previous)
        BY <2>1, <2>4 DEF ConfirmNext
      <4>2. CASE previous = Nil
        BY <3>2, <4>1, <4>2 DEF DeleteKeyPair, PairsFiled
      <4>3. CASE previous # Nil
        <5>1. previous \in LivePairs
          BY <4>3 DEF LivePairs, Slots
        <5>2. table' = Delete(table, pairs[previous].localIndex)
          BY <4>1, <4>3 DEF DeleteKeyPair
        <5> HIDE DEF E
        <5> QED BY <3>1, <3>2, <3>3, <5>1, <5>2, DeletePairSound
      <4> QED BY <4>2, <4>3
    <3>5. /\ LivePairs' \subseteq LivePairs \ {previous}
          /\ previous' # Nil => previous' \notin {current', next'}
          /\ current' # Nil => current' # next'
      BY <2>1, <2>4 DEF ConfirmNext, IndexTableSound, LivePairs, Slots, Nil
    <3>6. PairsFiled(table', pairs', LivePairs')
      BY <2>2, <3>4, <3>5 DEF PairsFiled
    <3> QED BY <2>2, <3>4, <3>5, <3>6, SoundPartsNext
  <2> QED BY <2>3, <2>4
<1> QED BY <1>1, <1>2 DEF TransportStep

\* The index table never lies about the handshake or a key pair in use, whatever the number of
\* indices, handshakes and messages: NewIndex, NewKeyPair's remap and rotation, zeroAllKeys and
\* the promotion of next keep it so in every interleaving of their critical sections.
THEOREM SessionIndexTableSound == Spec => []IndexTableSound
<1>1. TypeOK /\ IndexTableSound /\ [Next]_vars => IndexTableSound'
  <2> SUFFICES ASSUME TypeOK, IndexTableSound, [Next]_vars PROVE IndexTableSound'
    OBVIOUS
  <2>1. CASE UNCHANGED vars
    BY <2>1, FrameSound
  <2>2. CASE ServerStep
    BY <2>2, FrameSound DEF ServerStep, ServerAnswers, ServerInitiates
  <2> QED BY <2>1, <2>2, InitiatorSound, HandshakeSound, TimerSound, TransportSound DEF Next
<1> QED BY <1>1, InitSound, SessionTypeOK, PTL DEF Spec

-----------------------------------------------------------------------------
(* What the other invariants of the run need beside the index table *)

\* An entry of a key pair is under the pair's own index.
EntriesOwn ==
    \A i \in AllIndices :
        table[i] \notin {NoEntry, HandshakeEntry} => pairs[table[i]].localIndex = i

\* The pair to be confirmed is newer than the one in use.
NextNewer == next # Nil => next > current

\* NewKeyPair acts as responder only after a response was sent.
ResponderAnswered == state = "ResponseCreated" => responses # {}

\* No pair has keys of that initiation.
Unused(by, n) ==
    \A p \in DOMAIN pairs : ~(pairs[p].chainKey.by = by /\ pairs[p].chainKey.init = n)

\* The pairs have keys of different handshakes, all of the past.
PairsDiffer ==
    /\ \A p, q \in DOMAIN pairs :
          /\ pairs[p].chainKey.by \in {"local", "server"}
          /\ pairs[p].chainKey.by = pairs[q].chainKey.by
          /\ pairs[p].chainKey.init = pairs[q].chainKey.init
          => p = q
    /\ \A p \in DOMAIN pairs :
          /\ pairs[p].chainKey.by = "local" => pairs[p].chainKey.init \in 1..Len(initiations)
          /\ pairs[p].chainKey.by = "server" => pairs[p].chainKey.init <= lastTimestamp

\* The handshake's chain key, and the one RoutineHandshake is about to store,
\* are of a handshake without a pair.
KeyUnused ==
    /\ chainKey.by = "local" =>
          chainKey.init \in 1..Len(initiations) /\ Unused("local", chainKey.init)
    /\ chainKey.by = "server" =>
          chainKey.init <= lastTimestamp /\ Unused("server", chainKey.init)
    /\ pc = "authenticated" => Unused("local", answers[msg])
    /\ pc = "initiationChecked" => msg > lastTimestamp

\* The indices the handshake holds are those of its chain key.
KeyIndices ==
    /\ chainKey.by = "local" =>
          IF chainKey.resp = 0 THEN localIndex = initiations[chainKey.init]
                               ELSE remoteIndex = chainKey.resp
    /\ chainKey.by = "server" => remoteIndex = chainKey.init
    /\ state = "InitiationConsumed" => chainKey.by # "local"

\* What RoutineHandshake finds where it left it, unless another goroutine wrote
\* the handshake since.
Unraced ==
    ~raced =>
    /\ pc = "authenticated" => localIndex = initiations[answers[msg]]
    /\ pc = "responseConsumed" =>
          /\ chainKey = Chain("local", answers[msg], msg)
          /\ localIndex = initiations[answers[msg]]
    /\ pc = "initiationConsumed" => chainKey = Chain("server", msg, 0)
    /\ pc = "responseCreated" =>
          /\ chainKey = Chain("server", msg, 1)
          /\ [init |-> msg, sender |-> localIndex] \in responses

KeysInv == PairsDiffer /\ KeyUnused /\ KeyIndices /\ Unraced /\ UnracedKeysAgree


\* A sequence and its extension by one.
LEMMA AppendFacts ==
    ASSUME NEW S, NEW s \in Seq(S), NEW x \in S
    PROVE  /\ Len(s) \in Nat /\ Len(Append(s, x)) = Len(s) + 1
           /\ DOMAIN s = 1..Len(s) /\ DOMAIN Append(s, x) = 1..(Len(s) + 1)
           /\ \A i \in 1..Len(s) : Append(s, x)[i] = s[i]
           /\ Append(s, x)[Len(s) + 1] = x
  OBVIOUS

\* What NewKeyPair does to the list of pairs.
LEMMA NewPairFacts ==
    ASSUME TypeOK, NewKeyPair
    PROVE  /\ Len(pairs) \in Nat /\ Len(pairs') = Len(pairs) + 1
           /\ DOMAIN pairs = 1..Len(pairs) /\ DOMAIN pairs' = 1..(Len(pairs) + 1)
           /\ \A q \in 1..Len(pairs) : pairs'[q] = pairs[q]
           /\ pairs'[Len(pairs) + 1].chainKey = chainKey
           /\ pairs'[Len(pairs) + 1].isInitiator <=> state = "ResponseConsumed"
           /\ pairs'[Len(pairs) + 1].localIndex = localIndex
           /\ pairs'[Len(pairs) + 1].remoteIndex = remoteIndex
           /\ pairs'[Len(pairs) + 1].raced = raced
<1> DEFINE k == [chainKey |-> chainKey, isInitiator |-> state = "ResponseConsumed",
                 localIndex |-> localIndex, remoteIndex |-> remoteIndex, raced |-> raced]
<1>1. pairs' = Append(pairs, k) /\ k \in KeyPair /\ pairs \in Seq(KeyPair)
  BY DEF NewKeyPair, KeyPair, TypeOK, AllIndices
<1>2. /\ k.chainKey = chainKey /\ (k.isInitiator <=> state = "ResponseConsumed")
      /\ k.localIndex = localIndex /\ k.remoteIndex = remoteIndex /\ k.raced = raced
  OBVIOUS
<1> HIDE DEF k
<1> QED BY <1>1, <1>2, AppendFacts

-----------------------------------------------------------------------------
(* The pair to send under *)

\* Steps that leave the slots alone.
LEMMA SlotsKept ==
    ASSUME [Next]_vars
    PROVE  \/ UNCHANGED <<previous, current, next, pairs>>
           \/ NewKeyPair
           \/ ZeroAllKeys
           \/ \E p \in inbound : UNCHANGED pairs /\ UNCHANGED <<state, responses>> /\ ConfirmNext(p)
<1>1. CASE InitiatorStep
  BY <1>1 DEF InitiatorStep, CreateMessageInitiation, CreateInitiationKeyFails,
     CreateInitiationIndexFails
<1>2. CASE HandshakeStep
  BY <1>2 DEF HandshakeStep, LookupResponse, AuthenticateResponse, ConsumeMessageResponse,
     CheckInitiation, ConsumeMessageInitiation, CreateMessageResponse, CreateResponseIndexFails,
     CreateResponseRefused, NewKeyPairRefused, CookieReplyUnknown
<1>3. CASE TimerStep
  BY <1>3 DEF TimerStep, ZeroAllKeysExpires
<1>4. CASE TransportStep
  BY <1>4 DEF TransportStep, ReceiveTransport, SequentialReceive
<1>5. CASE ServerStep
  BY <1>5 DEF ServerStep, ServerAnswers, ServerInitiates
<1>6. CASE UNCHANGED vars
  BY <1>6
<1> QED BY <1>1, <1>2, <1>3, <1>4, <1>5, <1>6 DEF Next

\* What a step does to the slots, and that a pair to be confirmed stays newer.
LEMMA SlotStep ==
    ASSUME TypeOK, NextNewer, [Next]_vars
    PROVE  /\ NextNewer'
           /\ current' \in {current, Nil} \/ current' > current
           /\ {previous', current', next'} \subseteq Slots \cup {Nil, Len(pairs) + 1}
<1>1. /\ previous \in Nat /\ current \in Nat /\ next \in Nat /\ Len(pairs) \in Nat
      /\ current <= Len(pairs)
  BY DEF TypeOK, Slots
<1>2. CASE UNCHANGED <<previous, current, next, pairs>>
  BY <1>2 DEF NextNewer, Slots
<1>3. CASE NewKeyPair
  <2>1. RotateAsInitiator(Len(pairs) + 1) \/ RotateAsResponder(Len(pairs) + 1)
    BY <1>3 DEF NewKeyPair
  <2> QED BY <1>1, <2>1 DEF RotateAsInitiator, RotateAsResponder, NextNewer, Slots, Nil
<1>4. CASE ZeroAllKeys
  BY <1>4 DEF ZeroAllKeys, NextNewer, Nil
<1>5. ASSUME NEW p \in inbound, ConfirmNext(p) PROVE
           /\ NextNewer'
           /\ current' \in {current, Nil} \/ current' > current
           /\ {previous', current', next'} \subseteq Slots \cup {Nil, Len(pairs) + 1}
  <2>1. p # Nil
    BY DEF TypeOK, Nil
  <2> QED BY <1>1, <1>5, <2>1 DEF ConfirmNext, NextNewer, Slots, Nil
<1> QED BY <1>2, <1>3, <1>4, <1>5, SlotsKept

\* The pair that packets are sent under is only replaced by a newer one or
\* removed, and no slot is filled with a pair that had left the slots: neither
\* NewKeyPair's rotation nor the promotion brings back what zeroAllKeys or an
\* earlier rotation removed, in any interleaving.
THEOREM SessionCurrentAdvances == Spec => CurrentAdvances
<1>1. Init => NextNewer
  BY DEF Init, NextNewer
<1>2. TypeOK /\ NextNewer /\ [Next]_vars =>
         [/\ current' \in {current, Nil} \/ current' > current
          /\ {previous', current', next'} \subseteq Slots \cup {Nil, Len(pairs) + 1}]_vars
  BY SlotStep
<1>3. TypeOK /\ NextNewer /\ [Next]_vars => NextNewer'
  BY SlotStep
<1> QED BY <1>1, <1>2, <1>3, SessionTypeOK, PTL DEF Spec, CurrentAdvances

\* A step that answers an initiation, or none.
LEMMA ResponsesGrow ==
    ASSUME [Next]_vars, ResponderAnswered
    PROVE  ResponderAnswered' /\ (responses' = {} => responses = {})
<1>1. CASE InitiatorStep
  BY <1>1 DEF InitiatorStep, CreateMessageInitiation, CreateInitiationKeyFails,
     CreateInitiationIndexFails, ResponderAnswered
<1>2. CASE HandshakeStep
  <2>1. CASE CreateMessageResponse
    BY <2>1 DEF CreateMessageResponse, ResponderAnswered
  <2>2. CASE ~CreateMessageResponse
    BY <1>2, <2>2 DEF HandshakeStep, LookupResponse, AuthenticateResponse, ConsumeMessageResponse,
       CheckInitiation, ConsumeMessageInitiation, CreateResponseIndexFails, CreateResponseRefused,
       NewKeyPair, NewKeyPairRefused, CookieReplyUnknown, ResponderAnswered
  <2> QED BY <2>1, <2>2
<1>3. CASE TimerStep
  BY <1>3 DEF TimerStep, ZeroAllKeysExpires, ZeroAllKeys, ResponderAnswered
<1>4. CASE TransportStep
  BY <1>4 DEF TransportStep, ReceiveTransport, SequentialReceive, ResponderAnswered
<1>5. CASE ServerStep
  BY <1>5 DEF ServerStep, ServerAnswers, ServerInitiates, ResponderAnswered
<1>6. CASE UNCHANGED vars
  BY <1>6 DEF ResponderAnswered
<1> QED BY <1>1, <1>2, <1>3, <1>4, <1>5, <1>6 DEF Next

\* One step keeps the newest pair in use.
LEMMA CurrentIsNewestStep ==
    ASSUME TypeOK, CurrentIsNewest, ResponderAnswered, [Next]_vars
    PROVE  CurrentIsNewest'
<1> SUFFICES ASSUME responses = {}
             PROVE  /\ next' = Nil
                    /\ current' \in {Nil, Len(pairs')}
                    /\ previous' < Len(pairs') \/ pairs' = <<>>
  BY ResponsesGrow DEF CurrentIsNewest
<1>1. /\ previous \in Nat /\ current \in Nat /\ next \in Nat /\ Len(pairs) \in Nat
      /\ current <= Len(pairs)
  BY DEF TypeOK, Slots
<1>2. /\ next = Nil /\ current \in {Nil, Len(pairs)} /\ (previous < Len(pairs) \/ pairs = <<>>)
      /\ state # "ResponseCreated"
  BY DEF CurrentIsNewest, ResponderAnswered
<1>3. CASE UNCHANGED <<previous, current, next, pairs>>
  BY <1>2, <1>3
<1>4. CASE NewKeyPair
  <2>1. RotateAsInitiator(Len(pairs) + 1) /\ Len(pairs') = Len(pairs) + 1
    BY <1>2, <1>4, NewPairFacts DEF NewKeyPair
  <2> QED BY <1>1, <1>2, <2>1 DEF RotateAsInitiator, Nil
<1>5. CASE ZeroAllKeys
  <2>1. Len(pairs) = 0 => pairs = <<>>
    BY DEF TypeOK
  <2> QED BY <1>1, <1>5, <2>1 DEF ZeroAllKeys, Nil
<1>6. ASSUME NEW p \in inbound, ConfirmNext(p), UNCHANGED pairs
      PROVE  /\ next' = Nil
             /\ current' \in {Nil, Len(pairs')}
             /\ previous' < Len(pairs') \/ pairs' = <<>>
  <2>1. p # Nil
    BY DEF TypeOK, Nil
  <2> QED BY <1>2, <1>6, <2>1 DEF ConfirmNext
<1> QED BY <1>3, <1>4, <1>5, <1>6, SlotsKept

\* As long as this side only initiates, packets are sent under the newest pair
\* or under none.
THEOREM SessionCurrentIsNewest == Spec => []CurrentIsNewest
<1>1. Init => CurrentIsNewest /\ ResponderAnswered
  BY DEF Init, CurrentIsNewest, ResponderAnswered
<1>2. TypeOK /\ CurrentIsNewest /\ ResponderAnswered /\ [Next]_vars
         => (CurrentIsNewest /\ ResponderAnswered)'
  BY CurrentIsNewestStep, ResponsesGrow
<1> QED BY <1>1, <1>2, SessionTypeOK, PTL DEF Spec


-----------------------------------------------------------------------------
(* No index outlives its key pair *)

\* The table after DeleteKeyPair, entry by entry.
LEMMA DeleteKeyPairAt ==
    ASSUME TypeOK, NEW t \in [AllIndices -> {HandshakeEntry, NoEntry} \cup (1..Len(pairs))],
           NEW q \in Slots
    PROVE  /\ DeleteKeyPair(t, q) \in [AllIndices -> {HandshakeEntry, NoEntry} \cup (1..Len(pairs))]
           /\ \A j \in AllIndices : DeleteKeyPair(t, q)[j] \in {t[j], NoEntry}
           /\ q # Nil /\ pairs[q].localIndex # 0 =>
                 DeleteKeyPair(t, q)[pairs[q].localIndex] = NoEntry
<1> DEFINE E == {HandshakeEntry, NoEntry} \cup (1..Len(pairs))
<1>1. q # Nil => pairs[q].localIndex \in AllIndices
  BY SlotFacts
<1>2. NoEntry \in E
  OBVIOUS
<1> HIDE DEF E
<1>3. t \in [AllIndices -> E]
  BY DEF E
<1>4. CASE q = Nil
  BY <1>3, <1>4 DEF DeleteKeyPair, E
<1>5. CASE q # Nil
  <2>1. DeleteKeyPair(t, q) = Delete(t, pairs[q].localIndex)
    BY <1>5 DEF DeleteKeyPair
  <2>2. Delete(t, pairs[q].localIndex) \in [AllIndices -> E]
    BY <1>1, <1>2, <1>3, <1>5, DeleteType
  <2>3. \A j \in AllIndices : Delete(t, pairs[q].localIndex)[j] =
           IF pairs[q].localIndex # 0 /\ j = pairs[q].localIndex THEN NoEntry ELSE t[j]
    BY <1>1, <1>3, <1>5, DeleteAt
  <2> QED BY <1>1, <1>5, <2>1, <2>2, <2>3 DEF E
<1> QED BY <1>4, <1>5

\* A step that only removes key pairs from the table.
LEMMA EntriesOwnLess ==
    ASSUME EntriesOwn, UNCHANGED pairs,
           \A j \in AllIndices : table'[j] \in {table[j], NoEntry, HandshakeEntry}
    PROVE  EntriesOwn'
  BY DEF EntriesOwn

\* The same, if every removed pair took its entry with it.
LEMMA NoIndexLeakLess ==
    ASSUME TypeOK, EntriesOwn, NoIndexLeak, UNCHANGED pairs,
           \A j \in AllIndices : table'[j] \in {table[j], NoEntry, HandshakeEntry},
           \A q \in LivePairs : q \in LivePairs' \/ pairs[q].localIndex = 0
                                \/ table'[pairs[q].localIndex] = NoEntry
    PROVE  NoIndexLeak'
<1> SUFFICES ASSUME NEW i \in Index, table'[i] \notin {NoEntry, HandshakeEntry}
             PROVE  \/ table'[i] \in LivePairs'
                    \/ \E q \in DOMAIN pairs' : q > table'[i] /\ ~pairs'[q].isInitiator
  BY DEF NoIndexLeak
<1>1. i \in AllIndices /\ i # 0
  BY IndexAssumption DEF AllIndices
<1>2. table'[i] = table[i]
  BY <1>1
<1>3. pairs[table[i]].localIndex = i
  BY <1>1, <1>2 DEF EntriesOwn
<1>4. CASE table[i] \in LivePairs
  BY <1>1, <1>2, <1>3, <1>4
<1>5. CASE \E q \in DOMAIN pairs : q > table[i] /\ ~pairs[q].isInitiator
  BY <1>2, <1>5
<1> QED BY <1>2, <1>4, <1>5 DEF NoIndexLeak

\* A new index for the handshake, or none.
LEMMA ReindexLeak ==
    ASSUME TypeOK, EntriesOwn, NoIndexLeak, UNCHANGED <<previous, current, next, pairs>>,
           \/ UNCHANGED table
           \/ \E i \in FreeIndices(Delete(table, localIndex)) :
                 table' = Insert(Delete(table, localIndex), i, HandshakeEntry)
           \/ table' = Delete(table, localIndex)
    PROVE  EntriesOwn' /\ NoIndexLeak'
<1> DEFINE E == {HandshakeEntry, NoEntry} \cup (1..Len(pairs))
           u == Delete(table, localIndex)
<1>1. table \in [AllIndices -> E] /\ localIndex \in AllIndices /\ NoEntry \in E
  BY DEF TypeOK
<1>2. u \in [AllIndices -> E]
  BY <1>1, DeleteType
<1>3. ASSUME NEW j \in AllIndices PROVE u[j] \in {table[j], NoEntry}
  <2>1. u[j] = IF localIndex # 0 /\ j = localIndex THEN NoEntry ELSE table[j]
    BY <1>1, DeleteAt
  <2> QED BY <2>1
<1> HIDE DEF E, u
<1>4. \A j \in AllIndices : table'[j] \in {table[j], NoEntry, HandshakeEntry}
  <2>1. ASSUME NEW i \in FreeIndices(u), table' = Insert(u, i, HandshakeEntry)
        PROVE  \A j \in AllIndices : table'[j] \in {table[j], NoEntry, HandshakeEntry}
    <3>1. i \in AllIndices
      BY DEF FreeIndices, AllIndices
    <3>2. \A j \in AllIndices : table'[j] = IF j = i THEN HandshakeEntry ELSE u[j]
      BY <1>2, <2>1, <3>1, InsertAt
    <3> QED BY <1>3, <3>2
  <2> QED BY <1>3, <2>1 DEF u
<1>5. LivePairs' = LivePairs
  BY DEF LivePairs, Slots
<1> QED BY <1>4, <1>5, EntriesOwnLess, NoIndexLeakLess

\* zeroAllKeys: the three pairs leave with their entries.
LEMMA ZeroAllKeysLeak ==
    ASSUME TypeOK, EntriesOwn, NoIndexLeak, ZeroAllKeys
    PROVE  EntriesOwn' /\ NoIndexLeak'
<1> DEFINE E == {HandshakeEntry, NoEntry} \cup (1..Len(pairs))
           t1 == DeleteKeyPair(table, previous)
           t2 == DeleteKeyPair(t1, current)
           t3 == DeleteKeyPair(t2, next)
           Gone(t, q) == q # Nil /\ pairs[q].localIndex # 0 => t[pairs[q].localIndex] = NoEntry
           Less(t, u) == \A j \in AllIndices : u[j] \in {t[j], NoEntry}
<1>1. table' = Delete(t3, localIndex) /\ UNCHANGED pairs
  BY DEF ZeroAllKeys
<1>2. t1 \in [AllIndices -> E] /\ Less(table, t1) /\ Gone(t1, previous)
  BY DeleteKeyPairAt DEF TypeOK, Slots
<1> HIDE DEF t1
<1>3. t2 \in [AllIndices -> E] /\ Less(t1, t2) /\ Gone(t2, current)
  BY <1>2, DeleteKeyPairAt DEF Slots
<1> HIDE DEF t2
<1>4. t3 \in [AllIndices -> E] /\ Less(t2, t3) /\ Gone(t3, next)
  BY <1>3, DeleteKeyPairAt DEF Slots
<1> HIDE DEF t3
<1>5. Less(t3, table')
  <2>1. localIndex \in AllIndices
    BY DEF TypeOK
  <2> HIDE DEF E
  <2> QED BY <1>1, <1>4, <2>1, DeleteAt
<1>6. \A q \in LivePairs : pairs[q].localIndex \in AllIndices
  BY SlotFacts DEF LivePairs
<1>7. \A j \in AllIndices : table'[j] \in {table[j], NoEntry, HandshakeEntry}
  BY <1>2, <1>3, <1>4, <1>5
<1>8. \A q \in LivePairs : pairs[q].localIndex = 0 \/ table'[pairs[q].localIndex] = NoEntry
  BY <1>2, <1>3, <1>4, <1>5, <1>6 DEF LivePairs, Slots
<1> QED BY <1>1, <1>7, <1>8, EntriesOwnLess, NoIndexLeakLess

\* The promotion of next: previous leaves with its entry.
LEMMA ConfirmLeak ==
    ASSUME TypeOK, EntriesOwn, NoIndexLeak, NEW p \in inbound, ConfirmNext(p), UNCHANGED pairs
    PROVE  EntriesOwn' /\ NoIndexLeak'
<1>1. CASE next # p
  BY <1>1, ReindexLeak DEF ConfirmNext
<1>2. CASE next = p
  <2>1. /\ table' = DeleteKeyPair(table, previous)
        /\ previous' = current /\ current' = next
    BY <1>2 DEF ConfirmNext
  <2>2. /\ \A j \in AllIndices : table'[j] \in {table[j], NoEntry}
        /\ previous # Nil /\ pairs[previous].localIndex # 0 =>
              table'[pairs[previous].localIndex] = NoEntry
    BY <2>1, DeleteKeyPairAt DEF TypeOK, Slots
  <2>3. \A q \in LivePairs : q \in LivePairs' \/ pairs[q].localIndex = 0
                             \/ table'[pairs[q].localIndex] = NoEntry
    BY <2>1, <2>2 DEF LivePairs, Slots
  <2> QED BY <2>2, <2>3, EntriesOwnLess, NoIndexLeakLess
<1> QED BY <1>1, <1>2

\* NewKeyPair: as initiator previous leaves with its entry; as responder what
\* is forgotten is older than the new pair.
LEMMA NewKeyPairLeak ==
    ASSUME TypeOK, IndexTableSound, EntriesOwn, NoIndexLeak, NewKeyPair
    PROVE  EntriesOwn' /\ NoIndexLeak'
<1> DEFINE p == Len(pairs) + 1
           E == {HandshakeEntry, NoEntry} \cup (1..p)
           t == Insert(table, localIndex, p)
<1>1. /\ Len(pairs) \in Nat /\ DOMAIN pairs = 1..Len(pairs) /\ DOMAIN pairs' = 1..p
      /\ \A q \in 1..Len(pairs) : pairs'[q] = pairs[q]
      /\ pairs'[p].localIndex = localIndex
      /\ pairs'[p].isInitiator <=> state = "ResponseConsumed"
  BY NewPairFacts
<1>2. /\ table \in [AllIndices -> {HandshakeEntry, NoEntry} \cup (1..Len(pairs))]
      /\ localIndex \in AllIndices
      /\ \A q \in LivePairs : q \in 1..Len(pairs) /\ pairs[q].localIndex \in AllIndices
  BY SlotFacts DEF TypeOK, LivePairs
<1>3. t \in [AllIndices -> E] /\ \A j \in AllIndices : t[j] = IF j = localIndex THEN p ELSE table[j]
  <2>1. table \in [AllIndices -> E] /\ p \in E
    BY <1>1, <1>2
  <2> HIDE DEF E, p
  <2> QED BY <1>2, <2>1 DEF Insert
<1>4. p \in 1..p /\ p \notin {NoEntry, HandshakeEntry} /\ \A q \in 1..Len(pairs) : p > q /\ q # p
  BY <1>1 DEF NoEntry, HandshakeEntry
<1>5. \A j \in AllIndices : table[j] \notin {NoEntry, HandshakeEntry} =>
         table[j] \in 1..Len(pairs) /\ pairs[table[j]].localIndex = j
  BY <1>2 DEF EntriesOwn
<1>6. (state = "ResponseConsumed" /\ RotateAsInitiator(p)) \/ (state # "ResponseConsumed" /\ RotateAsResponder(p))
  BY DEF NewKeyPair
<1>7. /\ \A j \in AllIndices : table'[j] \in {t[j], NoEntry}
      /\ \A q \in LivePairs : state = "ResponseConsumed" /\ q = previous =>
            pairs[q].localIndex = 0 \/ table'[pairs[q].localIndex] = NoEntry
  <2> HIDE DEF E, p, t
  <2>1. CASE state # "ResponseConsumed" /\ RotateAsResponder(p)
    BY <2>1 DEF RotateAsResponder, t
  <2>2. CASE RotateAsInitiator(p)
    <3>1. CASE previous = Nil
      BY <2>2, <3>1 DEF RotateAsInitiator, LivePairs, t
    <3>2. CASE previous # Nil
      <4>1. table' = Delete(t, pairs[previous].localIndex)
        BY <2>2, <3>2 DEF RotateAsInitiator, t
      <4>2. pairs[previous].localIndex \in AllIndices
        BY <1>2, <3>2 DEF LivePairs, Slots
      <4>3. \A j \in AllIndices : table'[j] =
               IF pairs[previous].localIndex # 0 /\ j = pairs[previous].localIndex
               THEN NoEntry ELSE t[j]
        BY <1>3, <4>1, <4>2, DeleteAt
      <4> QED BY <4>2, <4>3
    <3> QED BY <3>1, <3>2
  <2> QED BY <1>6, <2>1, <2>2
<1> HIDE DEF E, t
<1>8. EntriesOwn'
  <2> SUFFICES ASSUME NEW j \in AllIndices, table'[j] \notin {NoEntry, HandshakeEntry}
               PROVE  pairs'[table'[j]].localIndex = j
    BY DEF EntriesOwn
  <2>1. table'[j] = IF j = localIndex THEN p ELSE table[j]
    BY <1>3, <1>7
  <2>2. CASE j = localIndex
    BY <1>1, <2>1, <2>2
  <2>3. CASE j # localIndex
    BY <1>1, <1>5, <2>1, <2>3
  <2> QED BY <2>2, <2>3
<1>9. NoIndexLeak'
  <2> SUFFICES ASSUME NEW i \in Index, table'[i] \notin {NoEntry, HandshakeEntry}
               PROVE  \/ table'[i] \in LivePairs'
                      \/ \E q \in DOMAIN pairs' : q > table'[i] /\ ~pairs'[q].isInitiator
    BY DEF NoIndexLeak
  <2>1. i \in AllIndices /\ i # 0
    BY IndexAssumption DEF AllIndices
  <2>2. table'[i] = IF i = localIndex THEN p ELSE table[i]
    BY <1>3, <1>7, <2>1
  <2>3. CASE i = localIndex
    <3>1. p \in LivePairs'
      BY <1>4, <1>6 DEF RotateAsInitiator, RotateAsResponder, LivePairs, Slots, Nil, NoEntry
    <3> QED BY <2>2, <2>3, <3>1
  <2>4. CASE i # localIndex
    <3>1. table'[i] = table[i] /\ table[i] \in 1..Len(pairs) /\ pairs[table[i]].localIndex = i
      BY <1>5, <2>1, <2>2, <2>4
    <3>2. CASE state # "ResponseConsumed"
      BY <1>1, <1>4, <3>1, <3>2
    <3>3. CASE \E q \in DOMAIN pairs : q > table[i] /\ ~pairs[q].isInitiator
      <4>1. PICK q \in DOMAIN pairs : q > table[i] /\ ~pairs[q].isInitiator
        BY <3>3
      <4>2. q \in DOMAIN pairs' /\ pairs'[q] = pairs[q]
        BY <1>1
      <4> QED BY <3>1, <4>1, <4>2
    <3>4. CASE state = "ResponseConsumed" /\ table[i] \in LivePairs
      <4>1. RotateAsInitiator(p)
        BY <1>6, <3>4
      <4>2. table[i] # previous
        BY <1>7, <2>1, <3>1, <3>4, <4>1
      <4> QED BY <3>1, <3>4, <4>1, <4>2 DEF RotateAsInitiator, LivePairs, Slots
    <3> QED BY <3>1, <3>2, <3>3, <3>4 DEF NoIndexLeak
  <2> QED BY <2>3, <2>4
<1> QED BY <1>8, <1>9

\* The other steps give the handshake an index, take it, or leave the table.
LEMMA TableSteps ==
    ASSUME [Next]_vars
    PROVE  \/ NewKeyPair \/ ZeroAllKeys \/ \E p \in inbound : ConfirmNext(p) /\ UNCHANGED pairs
           \/ /\ UNCHANGED <<previous, current, next, pairs>>
              /\ \/ UNCHANGED table
                 \/ \E i \in FreeIndices(Delete(table, localIndex)) :
                       table' = Insert(Delete(table, localIndex), i, HandshakeEntry)
                 \/ table' = Delete(table, localIndex)
<1>1. CASE InitiatorStep
  BY <1>1 DEF InitiatorStep, CreateMessageInitiation, CreateInitiationKeyFails,
     CreateInitiationIndexFails
<1>2. CASE HandshakeStep
  <2>1. CASE CreateMessageResponse
    BY <2>1 DEF CreateMessageResponse
  <2>2. CASE ~CreateMessageResponse
    BY <1>2, <2>2 DEF HandshakeStep, LookupResponse, AuthenticateResponse, ConsumeMessageResponse,
       CheckInitiation, ConsumeMessageInitiation, CreateResponseIndexFails, CreateResponseRefused,
       NewKeyPairRefused, CookieReplyUnknown
  <2> QED BY <2>1, <2>2
<1>3. CASE TimerStep
  BY <1>3 DEF TimerStep, ZeroAllKeysExpires
<1>4. CASE TransportStep
  BY <1>4 DEF TransportStep, ReceiveTransport, SequentialReceive
<1>5. CASE ServerStep
  BY <1>5 DEF ServerStep, ServerAnswers, ServerInitiates
<1>6. CASE UNCHANGED vars
  BY <1>6
<1> QED BY <1>1, <1>2, <1>3, <1>4, <1>5, <1>6 DEF Next

\* No index outlives its key pair, but for the pairs that a rotation as
\* responder forgets.
THEOREM SessionNoIndexLeak == Spec => []NoIndexLeak
<1>1. Init => EntriesOwn /\ NoIndexLeak
  BY DEF Init, EntriesOwn, NoIndexLeak, AllIndices
<1>2. TypeOK /\ IndexTableSound /\ EntriesOwn /\ NoIndexLeak /\ [Next]_vars
         => (EntriesOwn /\ NoIndexLeak)'
  BY TableSteps, ReindexLeak, ZeroAllKeysLeak, ConfirmLeak, NewKeyPairLeak
<1> QED BY <1>1, <1>2, SessionTypeOK, SessionIndexTableSound, PTL DEF Spec


-----------------------------------------------------------------------------
(* Which handshake a pair's keys come from *)

\* The pairs of before have different keys and the right indices still.
LEMMA PairsKept ==
    ASSUME TypeOK, PairsDiffer, UnracedKeysAgree, UNCHANGED pairs,
           Len(initiations') \in Nat, Len(initiations) <= Len(initiations'),
           \A n \in 1..Len(initiations) : initiations'[n] = initiations[n],
           lastTimestamp' \in Nat, lastTimestamp <= lastTimestamp', responses \subseteq responses'
    PROVE  PairsDiffer' /\ UnracedKeysAgree'
<1>1. \A p \in DOMAIN pairs : /\ p \in 1..Len(pairs) /\ pairs[p].chainKey \in ChainKeys
                              /\ pairs[p].chainKey.init \in Nat
  <2>1. \A p \in DOMAIN pairs : p \in 1..Len(pairs) /\ pairs[p] \in KeyPair
    BY DEF TypeOK
  <2>2. \A k \in KeyPair : k.chainKey \in ChainKeys
    BY DEF KeyPair
  <2>3. \A c \in ChainKeys : c.init \in Nat
    BY DEF ChainKeys
  <2> QED BY <2>1, <2>2, <2>3
<1>2. Len(initiations) \in Nat /\ lastTimestamp \in Nat
  BY DEF TypeOK
<1>3. PairsDiffer'
  BY <1>1, <1>2 DEF PairsDiffer
<1>4. ASSUME NEW p \in DOMAIN pairs, Complete(pairs[p].chainKey), AgreedIndices(pairs[p])
      PROVE  AgreedIndices(pairs[p])'
  <2>1. CASE pairs[p].chainKey.by = "local"
    BY <1>4, <2>1 DEF PairsDiffer, AgreedIndices
  <2>2. CASE pairs[p].chainKey.by # "local"
    BY <1>4, <2>2 DEF AgreedIndices
  <2> QED BY <2>1, <2>2
<1>5. UnracedKeysAgree'
  <2> SUFFICES ASSUME NEW p \in DOMAIN pairs
               PROVE  /\ Complete(pairs[p].chainKey) =>
                            pairs[p].remoteIndex = IF pairs[p].chainKey.by = "local"
                                                   THEN pairs[p].chainKey.resp
                                                   ELSE pairs[p].chainKey.init
                      /\ ~pairs[p].raced => Complete(pairs[p].chainKey) /\ AgreedIndices(pairs[p])'
    BY DEF UnracedKeysAgree, Complete, AgreedIndices
  <2> QED BY <1>4 DEF UnracedKeysAgree
<1> QED BY <1>3, <1>5

\* Nothing of this invariant changes.
LEMMA KeysKept ==
    ASSUME TypeOK, KeysInv,
           UNCHANGED <<state, chainKey, localIndex, remoteIndex, lastTimestamp, pairs, pc, msg, raced,
                       initiations, answers, responses>>
    PROVE  KeysInv'
<1>1. PairsDiffer' /\ UnracedKeysAgree'
  BY PairsKept DEF KeysInv, TypeOK
<1>2. KeyUnused' /\ KeyIndices' /\ Unraced'
  BY DEF KeysInv, KeyUnused, KeyIndices, Unraced, Unused
<1> QED BY <1>1, <1>2 DEF KeysInv

\* Another goroutine wrote the handshake: RoutineHandshake, if it holds an
\* authenticated message, is raced.
LEMMA InterferesUnraced ==
    ASSUME Interferes, UNCHANGED <<pc, msg>>
    PROVE  Unraced'
  BY DEF Interferes, Unraced

\* CreateMessageInitiation starts a handshake that has no pair; its failures
\* leave a chain key of no handshake.
LEMMA InitiatorKeys ==
    ASSUME TypeOK, KeysInv, InitiatorStep
    PROVE  KeysInv'
<1>1. UNCHANGED <<remoteIndex, lastTimestamp, pairs, pc, msg, answers, responses>> /\ Unraced'
  BY InterferesUnraced DEF InitiatorStep, CreateMessageInitiation, CreateInitiationKeyFails,
     CreateInitiationIndexFails
<1>2. Len(initiations) \in Nat /\ lastTimestamp \in Nat /\ initiations \in Seq(Index)
  BY DEF TypeOK
<1>3. CASE CreateMessageInitiation
  <2>1. PICK i \in Index : localIndex' = i /\ initiations' = Append(initiations, i)
    BY <1>3 DEF CreateMessageInitiation, FreeIndices
  <2>2. /\ Len(initiations') = Len(initiations) + 1 /\ initiations'[Len(initiations) + 1] = i
        /\ \A n \in 1..Len(initiations) : initiations'[n] = initiations[n]
    BY <1>2, <2>1, AppendFacts
  <2>3. /\ chainKey'.by = "local" /\ chainKey'.init = Len(initiations) + 1 /\ chainKey'.resp = 0
        /\ state' = "InitiationCreated"
    BY <1>3 DEF CreateMessageInitiation, Chain
  <2>4. PairsDiffer' /\ UnracedKeysAgree'
    BY <1>1, <1>2, <2>2, PairsKept DEF KeysInv
  <2>5. Unused("local", Len(initiations) + 1)
    BY <1>2 DEF KeysInv, PairsDiffer, Unused
  <2>6. KeyUnused'
    BY <1>1, <1>2, <2>2, <2>3, <2>5 DEF KeysInv, KeyUnused, Unused
  <2>7. KeyIndices'
    BY <2>1, <2>2, <2>3 DEF KeyIndices
  <2> QED BY <1>1, <2>4, <2>6, <2>7 DEF KeysInv
<1>4. CASE CreateInitiationKeyFails \/ CreateInitiationIndexFails
  <2>1. chainKey'.by = "initial" /\ UNCHANGED <<state, initiations>>
    BY <1>4 DEF CreateInitiationKeyFails, CreateInitiationIndexFails, InitialChainKey, Chain
  <2>2. PairsDiffer' /\ UnracedKeysAgree'
    BY <1>1, <1>2, <2>1, PairsKept DEF KeysInv
  <2>3. KeyUnused' /\ KeyIndices'
    BY <1>1, <2>1 DEF KeysInv, KeyUnused, KeyIndices, Unused
  <2> QED BY <1>1, <2>2, <2>3 DEF KeysInv
<1> QED BY <1>3, <1>4 DEF InitiatorStep

\* zeroAllKeys leaves a chain key of no handshake.
LEMMA TimerKeys ==
    ASSUME TypeOK, KeysInv, TimerStep
    PROVE  KeysInv'
<1>1. CASE ZeroAllKeysExpires
  BY <1>1, KeysKept DEF ZeroAllKeysExpires
<1>2. CASE ZeroAllKeys
  <2>1. /\ UNCHANGED <<state, remoteIndex, lastTimestamp, pairs, pc, msg, answers, initiations, responses>>
        /\ Unraced' /\ chainKey'.by = "zero"
    BY <1>2, InterferesUnraced DEF ZeroAllKeys, ZeroKey, Chain
  <2>2. PairsDiffer' /\ UnracedKeysAgree'
    BY <2>1, PairsKept DEF KeysInv, TypeOK
  <2>3. KeyUnused' /\ KeyIndices'
    BY <2>1 DEF KeysInv, KeyUnused, KeyIndices, Unused
  <2> QED BY <2>1, <2>2, <2>3 DEF KeysInv
<1> QED BY <1>1, <1>2 DEF TimerStep

\* RoutineHandshake looks a message up, refuses it, or ends.
LEMMA NextMessageKeys ==
    ASSUME TypeOK, KeysInv,
           UNCHANGED <<lastTimestamp, pairs, initiations, answers, responses>>,
           UNCHANGED <<chainKey, remoteIndex, state>>,
           UNCHANGED localIndex \/ state = "InitiationConsumed",
           pc' \in {"idle", "lookedUp", "returned"}
    PROVE  KeysInv'
<1>1. PairsDiffer' /\ UnracedKeysAgree'
  BY PairsKept DEF KeysInv, TypeOK
<1>2. KeyUnused' /\ KeyIndices' /\ Unraced'
  BY DEF KeysInv, KeyUnused, KeyIndices, Unraced, Unused
<1> QED BY <1>1, <1>2 DEF KeysInv

\* A response authenticates under the chain key of its initiation only, and
\* that is of a handshake without a pair.
LEMMA AuthenticateKeys ==
    ASSUME TypeOK, KeysInv, AuthenticateResponse
    PROVE  KeysInv'
<1>1. CASE NextMessage
  BY <1>1, NextMessageKeys DEF AuthenticateResponse, NextMessage
<1>2. CASE /\ state = "InitiationCreated" /\ chainKey = Chain("local", answers[msg], 0)
           /\ pc' = "authenticated" /\ UNCHANGED <<msg, raced>>
  <2>1. chainKey.by = "local" /\ chainKey.init = answers[msg] /\ chainKey.resp = 0
    BY <1>2 DEF Chain
  <2>2. UNCHANGED <<hsVars, pairs, initiations, answers, responses>>
    BY DEF AuthenticateResponse
  <2>3. PairsDiffer' /\ UnracedKeysAgree'
    BY <2>2, PairsKept DEF KeysInv, TypeOK
  <2>4. KeyUnused' /\ KeyIndices'
    BY <1>2, <2>1, <2>2 DEF KeysInv, KeyUnused, KeyIndices, Unused
  <2>5. Unraced'
    BY <1>2, <2>1, <2>2 DEF KeysInv, KeyIndices, Unraced
  <2> QED BY <2>3, <2>4, <2>5 DEF KeysInv
<1> QED BY <1>1, <1>2 DEF AuthenticateResponse

\* The response is stored: its chain key has no pair yet, however the handshake
\* was written in between.
LEMMA ConsumeResponseKeys ==
    ASSUME TypeOK, KeysInv, ConsumeMessageResponse
    PROVE  KeysInv'
<1>1. /\ UNCHANGED <<localIndex, lastTimestamp, pairs, msg, raced, initiations, answers, responses>>
      /\ pc = "authenticated" /\ pc' = "responseConsumed" /\ state' = "ResponseConsumed"
      /\ remoteIndex' = msg /\ chainKey' = Chain("local", answers[msg], msg)
  BY DEF ConsumeMessageResponse
<1>2. /\ chainKey'.by = "local" /\ chainKey'.init = answers[msg] /\ chainKey'.resp = msg
      /\ msg # 0 /\ answers[msg] \in 1..Len(initiations)
  BY <1>1 DEF Chain, TypeOK
<1>3. PairsDiffer' /\ UnracedKeysAgree'
  BY <1>1, PairsKept DEF KeysInv, TypeOK
<1>4. Unused("local", answers[msg])
  BY <1>1 DEF KeysInv, KeyUnused
<1>5. KeyUnused' /\ KeyIndices'
  BY <1>1, <1>2, <1>4 DEF KeyUnused, KeyIndices, Unused
<1>6. Unraced'
  BY <1>1 DEF KeysInv, Unraced
<1> QED BY <1>3, <1>5, <1>6 DEF KeysInv

\* An initiation passes the timestamp test and is stored: the test and the
\* store are one goroutine's, so it is newer than every pair.
LEMMA InitiationKeys ==
    ASSUME TypeOK, KeysInv, CheckInitiation \/ ConsumeMessageInitiation
    PROVE  KeysInv'
<1>1. CASE CheckInitiation
  <2>1. UNCHANGED <<hsVars, pairs, initiations, answers, responses>> /\ pc' = "initiationChecked"
    BY <1>1 DEF CheckInitiation
  <2>2. msg' > lastTimestamp
    BY <1>1 DEF CheckInitiation
  <2>3. PairsDiffer' /\ UnracedKeysAgree'
    BY <2>1, PairsKept DEF KeysInv, TypeOK
  <2>4. KeyUnused' /\ KeyIndices' /\ Unraced'
    BY <2>1, <2>2 DEF KeysInv, KeyUnused, KeyIndices, Unraced, Unused
  <2> QED BY <2>3, <2>4 DEF KeysInv
<1>2. CASE ConsumeMessageInitiation
  <2>1. /\ UNCHANGED <<localIndex, pairs, msg, raced, initiations, answers, responses>>
        /\ pc = "initiationChecked" /\ pc' = "initiationConsumed" /\ state' = "InitiationConsumed"
        /\ remoteIndex' = msg /\ lastTimestamp' = msg /\ chainKey' = Chain("server", msg, 0)
    BY <1>2 DEF ConsumeMessageInitiation
  <2>2. msg \in Nat /\ lastTimestamp \in Nat /\ msg > lastTimestamp
    BY <2>1 DEF TypeOK, KeysInv, KeyUnused
  <2>3. chainKey'.by = "server" /\ chainKey'.init = msg /\ chainKey'.resp = 0
    BY <2>1 DEF Chain
  <2>4. PairsDiffer' /\ UnracedKeysAgree'
    BY <2>1, <2>2, PairsKept DEF KeysInv, TypeOK
  <2>5. Unused("server", msg)
    BY <2>2 DEF KeysInv, PairsDiffer, Unused
  <2>6. KeyUnused' /\ KeyIndices' /\ Unraced'
    BY <2>1, <2>2, <2>3, <2>5 DEF KeyUnused, KeyIndices, Unraced, Unused
  <2> QED BY <2>4, <2>6 DEF KeysInv
<1> QED BY <1>1, <1>2

\* A response is created: it carries the index the pair will be filed under.
LEMMA CreateResponseKeys ==
    ASSUME TypeOK, KeysInv, CreateMessageResponse
    PROVE  KeysInv'
<1>1. /\ UNCHANGED <<remoteIndex, lastTimestamp, pairs, initiations, answers>>
      /\ pc = "initiationConsumed" /\ state = "InitiationConsumed"
  BY DEF CreateMessageResponse
<1>2. PICK i \in Index :
         /\ localIndex' = i
         /\ \/ /\ chainKey' = [chainKey EXCEPT !.resp = 1]
               /\ state' = "ResponseCreated"
               /\ responses' = responses \cup {[init |-> msg, sender |-> i]}
               /\ pc' = "responseCreated"
               /\ UNCHANGED <<msg, raced>>
            \/ NextMessage /\ UNCHANGED <<chainKey, state, responses>>
  BY DEF CreateMessageResponse, FreeIndices
<1>3. CASE NextMessage /\ UNCHANGED <<chainKey, state, responses>>
  BY <1>1, <1>3, NextMessageKeys DEF NextMessage
<1>4. CASE /\ chainKey' = [chainKey EXCEPT !.resp = 1]
           /\ state' = "ResponseCreated"
           /\ responses' = responses \cup {[init |-> msg, sender |-> i]}
           /\ pc' = "responseCreated"
           /\ UNCHANGED <<msg, raced>>
  <2>1. /\ chainKey \in ChainKeys
        /\ chainKey'.by = chainKey.by /\ chainKey'.init = chainKey.init /\ chainKey'.resp = 1
        /\ chainKey.by # "local"
    BY <1>1, <1>4 DEF TypeOK, ChainKeys, KeysInv, KeyIndices
  <2>2. PairsDiffer' /\ UnracedKeysAgree'
    BY <1>1, <1>4, PairsKept DEF KeysInv, TypeOK
  <2>3. KeyUnused' /\ KeyIndices'
    BY <1>1, <1>4, <2>1 DEF KeysInv, KeyUnused, KeyIndices, Unused
  <2>4. chainKey = Chain("server", msg, 0) => chainKey' = Chain("server", msg, 1)
    BY <1>4 DEF Chain
  <2>5. Unraced'
    BY <1>1, <1>2, <1>4, <2>4 DEF KeysInv, Unraced
  <2> QED BY <2>2, <2>3, <2>5 DEF KeysInv
<1> QED BY <1>2, <1>3, <1>4

\* The pair takes the chain key, and the handshake gives it up.
LEMMA NewKeyPairKeys ==
    ASSUME TypeOK, KeysInv, NewKeyPair
    PROVE  KeysInv'
<1> DEFINE n == Len(pairs) + 1
<1>1. /\ UNCHANGED <<remoteIndex, lastTimestamp, initiations, answers, responses>>
      /\ pc \in {"responseConsumed", "responseCreated"}
      /\ pc' = "idle" /\ chainKey'.by = "zero" /\ state' = "Zeroed"
  BY DEF NewKeyPair, NextMessage, ZeroKey, Chain
<1>2. /\ Len(pairs) \in Nat /\ DOMAIN pairs = 1..Len(pairs) /\ DOMAIN pairs' = 1..n
      /\ \A q \in 1..Len(pairs) : pairs'[q] = pairs[q]
      /\ pairs'[n].chainKey = chainKey
      /\ pairs'[n].localIndex = localIndex
      /\ pairs'[n].remoteIndex = remoteIndex
      /\ pairs'[n].raced = raced
  BY NewPairFacts
<1>3. \A q \in DOMAIN pairs' : q \in DOMAIN pairs \/ q = n
  BY <1>2
<1> HIDE DEF n
<1>4. PairsDiffer'
  <2>1. \A q \in DOMAIN pairs' :
           /\ pairs'[q].chainKey.by = "local" => pairs'[q].chainKey.init \in 1..Len(initiations)
           /\ pairs'[q].chainKey.by = "server" => pairs'[q].chainKey.init <= lastTimestamp
    BY <1>2, <1>3 DEF KeysInv, PairsDiffer, KeyUnused
  <2>2. ASSUME NEW p \in DOMAIN pairs', NEW q \in DOMAIN pairs', p # q,
               pairs'[p].chainKey.by \in {"local", "server"},
               pairs'[p].chainKey.by = pairs'[q].chainKey.by,
               pairs'[p].chainKey.init = pairs'[q].chainKey.init
        PROVE  FALSE
    <3>1. \A r \in DOMAIN pairs : chainKey.by \in {"local", "server"} =>
             ~(pairs[r].chainKey.by = chainKey.by /\ pairs[r].chainKey.init = chainKey.init)
      BY DEF KeysInv, KeyUnused, Unused
    <3>2. CASE p \in DOMAIN pairs /\ q \in DOMAIN pairs
      BY <1>2, <2>2, <3>2 DEF KeysInv, PairsDiffer
    <3>3. CASE p = n /\ q \in DOMAIN pairs
      BY <1>2, <2>2, <3>1, <3>3
    <3>4. CASE p \in DOMAIN pairs /\ q = n
      BY <1>2, <2>2, <3>1, <3>4
    <3> QED BY <1>3, <2>2, <3>2, <3>3, <3>4
  <2> QED BY <1>1, <2>1, <2>2 DEF PairsDiffer
<1>5. UnracedKeysAgree'
  <2> DEFINE Agrees(k) ==
               /\ Complete(k.chainKey) =>
                     k.remoteIndex = IF k.chainKey.by = "local" THEN k.chainKey.resp
                                                                ELSE k.chainKey.init
               /\ ~k.raced => Complete(k.chainKey) /\ AgreedIndices(k)
  <2>1. \A q \in DOMAIN pairs : Agrees(pairs[q])
    BY DEF KeysInv, UnracedKeysAgree
  <2>2. Agrees(pairs'[n])
    <3>1. Complete(chainKey) =>
             remoteIndex = IF chainKey.by = "local" THEN chainKey.resp ELSE chainKey.init
      BY DEF KeysInv, KeyIndices, Complete
    <3>2. CASE ~raced /\ pc = "responseConsumed"
      <4>1. /\ chainKey.by = "local" /\ chainKey.init = answers[msg] /\ chainKey.resp = msg
            /\ localIndex = initiations[answers[msg]] /\ msg # 0
        BY <3>2 DEF KeysInv, Unraced, Chain, TypeOK
      <4> QED BY <1>2, <3>1, <4>1 DEF Complete, AgreedIndices
    <3>3. CASE ~raced /\ pc = "responseCreated"
      <4>1. /\ chainKey.by = "server" /\ chainKey.init = msg /\ chainKey.resp = 1
            /\ [init |-> msg, sender |-> localIndex] \in responses
        BY <3>3 DEF KeysInv, Unraced, Chain
      <4> QED BY <1>2, <3>1, <4>1 DEF Complete, AgreedIndices
    <3>4. CASE raced
      BY <1>2, <3>1, <3>4
    <3> QED BY <1>1, <3>2, <3>3, <3>4
  <2>3. \A q \in DOMAIN pairs' : Agrees(pairs'[q])
    <3> HIDE DEF Agrees
    <3> QED BY <1>2, <1>3, <2>1, <2>2
  <2> QED BY <1>1, <2>3 DEF UnracedKeysAgree, AgreedIndices
<1>6. KeyUnused' /\ KeyIndices' /\ Unraced'
  BY <1>1 DEF KeyUnused, KeyIndices, Unraced
<1> QED BY <1>4, <1>5, <1>6 DEF KeysInv

\* The server's answers are added at the end.
LEMMA ServerKeys ==
    ASSUME TypeOK, KeysInv, ServerStep
    PROVE  KeysInv'
<1>1. CASE ServerAnswers
  <2>1. UNCHANGED <<hsVars, pairs, pc, msg, raced, initiations, responses>>
    BY <1>1 DEF ServerAnswers
  <2>2. pc \in {"authenticated", "responseConsumed"} => answers'[msg] = answers[msg]
    <3>1. PICK a \in 1..Len(initiations) : answers' = Append(answers, a)
      BY <1>1 DEF ServerAnswers, TypeOK
    <3>2. \A r \in DOMAIN answers : answers'[r] = answers[r]
      <4>1. answers \in Seq(1..Len(initiations))
        BY DEF TypeOK
      <4>2. /\ DOMAIN answers = 1..Len(answers)
            /\ \A r \in 1..Len(answers) : Append(answers, a)[r] = answers[r]
        BY <4>1, AppendFacts
      <4> QED BY <3>1, <4>2
    <3> QED BY <3>2 DEF TypeOK
  <2>3. PairsDiffer' /\ UnracedKeysAgree'
    BY <2>1, PairsKept DEF KeysInv, TypeOK
  <2>4. KeyUnused' /\ KeyIndices'
    BY <2>1, <2>2 DEF KeysInv, KeyUnused, KeyIndices, Unused
  <2>5. Unraced'
    BY <2>1, <2>2 DEF KeysInv, Unraced
  <2> QED BY <2>3, <2>4, <2>5 DEF KeysInv
<1>2. CASE ServerInitiates
  BY <1>2, KeysKept DEF ServerInitiates
<1> QED BY <1>1, <1>2 DEF ServerStep

\* Every step preserves it.
LEMMA KeysStep == TypeOK /\ KeysInv /\ [Next]_vars => KeysInv'
<1> SUFFICES ASSUME TypeOK, KeysInv, [Next]_vars PROVE KeysInv'
  OBVIOUS
<1>1. CASE HandshakeStep
  <2>1. ASSUME \/ LookupResponse \/ CreateResponseIndexFails \/ CreateResponseRefused
               \/ NewKeyPairRefused \/ CookieReplyUnknown
        PROVE  KeysInv'
    BY <2>1, NextMessageKeys DEF LookupResponse, CreateResponseIndexFails, CreateResponseRefused,
       NewKeyPairRefused, CookieReplyUnknown, NextMessage
  <2> QED BY <1>1, <2>1, AuthenticateKeys, ConsumeResponseKeys, InitiationKeys, CreateResponseKeys,
             NewKeyPairKeys DEF HandshakeStep
<1>2. CASE TransportStep
  BY <1>2, KeysKept DEF TransportStep, ReceiveTransport, SequentialReceive
<1>3. CASE UNCHANGED vars
  BY <1>3, KeysKept
<1> QED BY <1>1, <1>2, <1>3, InitiatorKeys, TimerKeys, ServerKeys DEF Next

\* It holds in every reachable state.
LEMMA SessionKeys == Spec => []KeysInv
<1>1. Init => KeysInv
  BY DEF Init, KeysInv, PairsDiffer, KeyUnused, KeyIndices, Unraced, UnracedKeysAgree, ZeroKey, Chain
<1> QED BY <1>1, KeysStep, SessionTypeOK, PTL DEF Spec

\* A handshake yields at most one key pair: no message delivered late or again,
\* and no goroutine that writes the handshake in between, makes NewKeyPair
\* derive the keys of a handshake twice.
THEOREM SessionOneKeyPair == Spec => []OneKeyPairPerHandshake
<1>1. KeysInv => OneKeyPairPerHandshake
  BY DEF KeysInv, PairsDiffer, OneKeyPairPerHandshake, Complete
<1> QED BY <1>1, SessionKeys, PTL

\* A pair's remote index belongs to its keys, and a pair derived without a race
\* has the keys of a completed handshake and the index advertised in it.
THEOREM SessionUnracedKeysAgree == Spec => []UnracedKeysAgree
<1>1. KeysInv => UnracedKeysAgree
  BY DEF KeysInv
<1> QED BY <1>1, SessionKeys, PTL


=============================================================================

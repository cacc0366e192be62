------------------------------- MODULE GateProofs -------------------------------
(***************************************************************************)
(* Proofs about modules Gate and Ratelimiter: the rate limiter keeps its   *)
(* rate although Allow may lose its entry to the collector, and what is    *)
(* admitted under load proves a cookie that was given out, for every size  *)
(* of the bucket and of the queue and for every duration.                  *)
(***************************************************************************)
EXTENDS Gate, TLAPS

(***************************************************************************)
(* The rate limiter.  The history bucket is never further behind the entry *)
(* in the table than the cost of one packet, and it is full when the       *)
(* collector takes an entry away from Allow.                               *)
(***************************************************************************)
RateInv ==
    /\ RateTypeOK
    /\ bucket <= MaxTokens
    /\ allow = "make" => table = NoEntry
    /\ allow = "use" => table # NoEntry \/ orphan # NoEntry
    /\ orphan # NoEntry => allow = "use" /\ table = NoEntry /\ bucket = MaxTokens
    /\ table = NoEntry /\ orphan = NoEntry => bucket >= MaxTokens - PacketCost
    /\ table # NoEntry =>
          /\ table.tokens > 0
          /\ bucket >= Capped(table.tokens + table.age - PacketCost, MaxTokens)

\* The empty tables of Ratelimiter.Init satisfy the invariant.
LEMMA RateInitInv == RateInit => RateInv
  BY RatelimiterAssumption DEF RateInit, RateInv, RateTypeOK, NoEntry, Entry

\* An entry, in the table or not, is a record of the right type.
LEMMA EntryShape ==
    ASSUME NEW e \in Entry
    PROVE  /\ e # NoEntry
           /\ e.tokens \in 0..MaxTokens
           /\ e.age \in 0..MaxAge
  BY RatelimiterAssumption DEF Entry, NoEntry, MaxAge

\* Allow finds an entry or none under the read lock.
LEMMA LookupEntryInv == RateInv /\ LookupEntry => RateInv'
  BY DEF RateInv, RateTypeOK, LookupEntry

\* Allow makes an entry and lets the first packet pass.
LEMMA MakeEntryInv == RateInv /\ MakeEntry => RateInv'
<1>  SUFFICES ASSUME RateInv, MakeEntry PROVE RateInv'
  OBVIOUS
<1>1. table = NoEntry /\ orphan = NoEntry
  BY DEF RateInv, MakeEntry
<1>2. /\ table' \in Entry
      /\ table'.tokens = MaxTokens - PacketCost
      /\ table'.age = 0
  BY RatelimiterAssumption DEF MakeEntry, Entry, MaxAge
<1>3. table' # NoEntry
  BY <1>2, EntryShape
<1>4. bucket' \in Int /\ bucket' = bucket - PacketCost /\ bucket' <= MaxTokens
  BY RatelimiterAssumption DEF MakeEntry, RateInv, RateTypeOK
<1>5. bucket' >= Capped(table'.tokens + table'.age - PacketCost, MaxTokens)
  BY <1>1, <1>2, <1>4, RatelimiterAssumption DEF RateInv, RateTypeOK, Capped
<1>  QED
  BY <1>1, <1>2, <1>3, <1>4, <1>5, RatelimiterAssumption DEF MakeEntry, RateInv, RateTypeOK

\* Allow refills the entry it holds and pays from it.
LEMMA UseEntryInv ==
    ASSUME NEW v \in BOOLEAN, RateInv, UseEntry(v)
    PROVE  RateInv'
<1>1. CASE orphan # NoEntry
  <2>1. table = NoEntry /\ bucket = MaxTokens
    BY <1>1 DEF RateInv
  <2>2. /\ table' = NoEntry
        /\ orphan' = NoEntry
        /\ allow' = "off"
        /\ bucket' = MaxTokens - (IF v THEN PacketCost ELSE 0)
    BY <1>1, <2>1 DEF UseEntry
  <2>  QED
    BY <2>2, RatelimiterAssumption DEF RateInv, RateTypeOK
<1>2. CASE orphan = NoEntry
  <2>1. table # NoEntry /\ table \in Entry
    BY <1>2 DEF RateInv, RateTypeOK, UseEntry
  <2>2. table.tokens \in 1..MaxTokens /\ table.age \in 0..MaxAge
    BY <2>1, EntryShape DEF RateInv
  <2>  DEFINE t == Refilled(table)
              c == IF v THEN PacketCost ELSE 0
  <2>3. /\ v = Enough(t)
        /\ table' = [tokens |-> t - c, age |-> 0]
        /\ orphan' = NoEntry
        /\ allow' = "off"
        /\ bucket' = bucket - c
    BY <1>2 DEF UseEntry
  <2>4. t \in 1..MaxTokens /\ t - c \in 1..MaxTokens /\ c \in {0, PacketCost}
    <3>1. t \in 1..MaxTokens
      BY <2>2, RatelimiterAssumption DEF Refilled, Capped, MaxAge
    <3>  HIDE DEF t
    <3>2. CASE v
      <4>1. t > PacketCost
        BY <2>3, <3>2 DEF Enough
      <4>  QED
        BY <3>1, <3>2, <4>1, RatelimiterAssumption
    <3>3. CASE ~v
      BY <3>1, <3>3, RatelimiterAssumption
    <3>  QED
      BY <3>2, <3>3
  <2>5. table' \in Entry /\ table'.tokens = t - c /\ table'.age = 0
    BY <2>3, <2>4, RatelimiterAssumption DEF Entry, MaxAge
  <2>6. bucket \in Int /\ bucket >= Capped(table.tokens + table.age - PacketCost, MaxTokens)
    BY <2>1 DEF RateInv, RateTypeOK
  <2>7. bucket' >= Capped(t - c - PacketCost, MaxTokens)
    <3>1. bucket >= t - PacketCost
      BY <2>2, <2>6, RatelimiterAssumption DEF Refilled, Capped, MaxAge
    <3>  HIDE DEF t, c
    <3>  QED
      BY <3>1, <2>3, <2>4, <2>6, RatelimiterAssumption DEF Capped
  <2>8. table' # NoEntry
    BY <2>5, EntryShape
  <2>  HIDE DEF t, c
  <2>9. table'.tokens + table'.age - PacketCost = t - c - PacketCost
    BY <2>4, <2>5, RatelimiterAssumption
  <2>10. bucket' \in Int /\ bucket' <= MaxTokens
    BY <2>3, <2>4, <2>6, RatelimiterAssumption DEF RateInv
  <2>  QED
    BY <2>3, <2>4, <2>5, <2>7, <2>8, <2>9, <2>10 DEF RateInv, RateTypeOK
<1>  QED
  BY <1>1, <1>2

\* The collector deletes an old entry, possibly the one that Allow holds: the
\* bucket has been full for longer than that.
LEMMA CollectInv == RateInv /\ GarbageCollectEntries => RateInv'
<1>  SUFFICES ASSUME RateInv, GarbageCollectEntries PROVE RateInv'
  OBVIOUS
<1>1. table # NoEntry /\ table \in Entry /\ table.age > GarbageCollectTime
  BY DEF RateInv, RateTypeOK, GarbageCollectEntries, Collectable
<1>2. table.tokens \in 0..MaxTokens /\ table.age \in 0..MaxAge
  BY <1>1, EntryShape
<1>3. bucket = MaxTokens
  BY <1>1, <1>2, RatelimiterAssumption DEF RateInv, RateTypeOK, Capped, MaxAge
<1>4. orphan = NoEntry
  BY <1>1 DEF RateInv
<1>  QED
  BY <1>1, <1>3, <1>4, RatelimiterAssumption DEF GarbageCollectEntries, RateInv, RateTypeOK

\* Time refills the entry and the bucket alike.
LEMMA RateTickInv == RateInv /\ RateTick => RateInv'
<1>  SUFFICES ASSUME RateInv, RateTick PROVE RateInv'
  OBVIOUS
<1>1. ASSUME NEW e \in Entry
      PROVE  /\ Older(e) \in Entry
             /\ Older(e) # NoEntry
             /\ Older(e).tokens = e.tokens
             /\ Older(e).age = Capped(e.age + 1, MaxAge)
  <2>1. e.age \in 0..MaxAge /\ e.tokens \in 0..MaxTokens /\ e # NoEntry
    BY EntryShape
  <2>2. Older(e) = [tokens |-> e.tokens, age |-> Capped(e.age + 1, MaxAge)]
    BY <2>1 DEF Older, Entry
  <2>3. Capped(e.age + 1, MaxAge) \in 0..MaxAge
    BY <2>1, RatelimiterAssumption DEF Capped, MaxAge
  <2>4. Older(e) \in Entry
    BY <2>1, <2>2, <2>3 DEF Entry
  <2>  QED
    BY <2>2, <2>4, EntryShape
<1>2. Older(NoEntry) = NoEntry
  BY DEF Older
<1>3. /\ table' \in Entry \cup {NoEntry}
      /\ orphan' \in Entry \cup {NoEntry}
      /\ (table' = NoEntry) <=> (table = NoEntry)
      /\ (orphan' = NoEntry) <=> (orphan = NoEntry)
  BY <1>1, <1>2 DEF RateInv, RateTypeOK, RateTick
<1>4. bucket' \in Int /\ bucket' <= MaxTokens /\ bucket' >= bucket
      /\ bucket' = Capped(bucket + 1, MaxTokens)
  BY RatelimiterAssumption DEF RateInv, RateTypeOK, RateTick, Capped
<1>5. ASSUME table' # NoEntry
      PROVE  /\ table'.tokens > 0
             /\ bucket' >= Capped(table'.tokens + table'.age - PacketCost, MaxTokens)
  <2>1. table \in Entry /\ table # NoEntry
    BY <1>3, <1>5 DEF RateInv, RateTypeOK
  <2>2. table'.tokens = table.tokens /\ table'.age = Capped(table.age + 1, MaxAge)
    BY <1>1, <2>1 DEF RateTick
  <2>3. table.tokens \in 0..MaxTokens /\ table.age \in 0..MaxAge
    BY <2>1, EntryShape
  <2>4. bucket \in Int /\ bucket >= Capped(table.tokens + table.age - PacketCost, MaxTokens)
        /\ table.tokens > 0
    BY <2>1 DEF RateInv, RateTypeOK
  <2>  QED
    BY <1>4, <2>2, <2>3, <2>4, RatelimiterAssumption DEF Capped, MaxAge
<1>6. orphan' # NoEntry => bucket' = MaxTokens
  BY <1>3, <1>4, RatelimiterAssumption DEF RateInv, Capped
<1>7. table' = NoEntry /\ orphan' = NoEntry => bucket' >= MaxTokens - PacketCost
  BY <1>3, <1>4, RatelimiterAssumption DEF RateInv, RateTypeOK
<1>  QED
  BY <1>3, <1>4, <1>5, <1>6, <1>7 DEF RateInv, RateTypeOK, RateTick

\* Nothing else touches the rate limiter.
LEMMA RateUnchanged == RateInv /\ UNCHANGED rateVars => RateInv'
  BY DEF RateInv, RateTypeOK, rateVars

-----------------------------------------------------------------------------
(***************************************************************************)
(* The cookies.  Proven is what a message may carry: no cookie, the zero   *)
(* secret, or a secret whose cookie went out.                              *)
(***************************************************************************)
Proven == {m \in Messages : m.mac2 \in given \cup {NoCookie, 0}}

MessageInv ==
    /\ queue \in Seq(Proven)
    /\ Len(queue) <= QueueHandshakeSize
    /\ sent \subseteq Proven
    /\ message \in Messages
    /\ routine \in {"select", "reply", "seal", "allow", "sleep", "ended"}
    /\ routine \in {"reply", "seal"} => message.mac1 # Forged
    /\ routine = "seal" => secret # 0
    /\ routine = "allow" => message.mac2 = secret /\ secret \in given
    /\ loadLeft \in 0..UnderLoadTime

CookieInv ==
    /\ secret \in 0..MaxSecrets
    /\ secretAge \in 0..Expired
    /\ secret = 0 => secretAge = Expired
    /\ given \subseteq 1..secret
    /\ replies \subseteq Replies
    /\ \A r \in replies : r.cookie \in given
    /\ lastMAC1 \in 0..MaxMessages
    /\ cookie \in given \cup {0}
    /\ cookieAge \in 0..Expired
    /\ cookie = secret /\ secretAge # Expired => cookieAge <= secretAge

GateInv == RateInv /\ MessageInv /\ CookieInv

\* Sequences are monotonic in the set of their elements.
LEMMA SeqMonotonic ==
    ASSUME NEW S, NEW T, S \subseteq T, NEW q \in Seq(S)
    PROVE  q \in Seq(T)
  OBVIOUS

\* The bounds and the clocks are numbers.
LEMMA GateConstants ==
    /\ QueueHandshakeSize \in Nat \ {0}
    /\ UnderLoadTime \in Nat
    /\ CookieRefreshTime \in Nat
    /\ Expired \in Nat
    /\ MaxMessages \in Nat
    /\ MaxSecrets \in Nat
  BY GateAssumption DEF Expired

\* NoMessage is a message that proves nothing.
LEMMA NoMessageProven == NoMessage \in Proven /\ NoMessage \in Messages
  BY GateConstants DEF Proven, NoMessage, Messages, Forged, NoCookie

\* The checker and the generator start without secret and without cookie.
LEMMA GateInitInv == Init => GateInv
<1>  SUFFICES ASSUME Init PROVE GateInv
  OBVIOUS
<1>1. RateInv
  BY RateInitInv DEF Init
<1>2. [mac1 |-> 0, mac2 |-> 0] \in Proven
  BY GateConstants DEF Proven, Messages
<1>3. MessageInv
  BY <1>2, NoMessageProven, GateConstants DEF Init, MessageInv
<1>4. CookieInv
  BY GateConstants DEF Init, CookieInv, Expired
<1>  QED
  BY <1>1, <1>3, <1>4 DEF GateInv

\* addToHandshakeQueue keeps the queue within its size.
LEMMA EnqueueInv ==
    ASSUME NEW S, NEW q \in Seq(S), Len(q) <= QueueHandshakeSize, NEW m \in S
    PROVE  Enqueue(q, m) \in Seq(S) /\ Len(Enqueue(q, m)) <= QueueHandshakeSize
<1>1. CASE Len(q) < QueueHandshakeSize
  BY <1>1, GateConstants DEF Enqueue
<1>2. CASE ~(Len(q) < QueueHandshakeSize)
  <2>1. q # <<>> /\ Len(q) = QueueHandshakeSize
    BY <1>2, GateConstants
  <2>2. Tail(q) \in Seq(S) /\ Len(Tail(q)) = Len(q) - 1
    BY <2>1
  <2>  QED
    BY <1>2, <2>1, <2>2, GateConstants DEF Enqueue
<1>  QED
  BY <1>1, <1>2

\* RoutineHandshake takes a message: under load it goes on to the rate limiter
\* only with a cookie of the secret in force, which was given out.
LEMMA TakeMessageInv == GateInv /\ TakeMessage => GateInv'
<1>  SUFFICES ASSUME GateInv, TakeMessage PROVE GateInv'
  OBVIOUS
<1>  DEFINE m == Head(queue)
            loaded == QueueLoaded(Tail(queue)) \/ loadLeft > 0
<1>1. m \in Proven /\ Tail(queue) \in Seq(Proven) /\ Len(Tail(queue)) <= QueueHandshakeSize
  BY GateConstants DEF GateInv, MessageInv, TakeMessage
<1>2. /\ routine' = CASE m.mac1 = Forged                            -> "ended"
                      [] m.mac1 # Forged /\ ~loaded                 -> "select"
                      [] m.mac1 # Forged /\ loaded /\ CheckMAC2(m)  -> "allow"
                      [] m.mac1 # Forged /\ loaded /\ ~CheckMAC2(m) -> "reply"
      /\ loadLeft' \in {loadLeft, UnderLoadTime}
      /\ message' = IF m.mac1 # Forged /\ loaded THEN m ELSE NoMessage
      /\ queue' = Tail(queue)
      /\ UNCHANGED <<rateVars, checkerVars, generatorVars>>
  BY DEF TakeMessage
<1>3. Proven' = Proven
  BY <1>2 DEF Proven, checkerVars
<1>4. m \in Messages
  BY <1>1 DEF Proven
<1>5. routine' \in {"ended", "select", "allow", "reply"} /\ message' \in Messages
  BY <1>2, <1>4, NoMessageProven
<1>6. routine' = "reply" => message'.mac1 # Forged
  BY <1>2
<1>7. ASSUME routine' = "allow" PROVE message'.mac2 = secret /\ secret \in given
  <2>1. m.mac1 # Forged /\ loaded /\ CheckMAC2(m)
    BY <1>2, <1>7
  <2>2. secret # 0 /\ secret \in Nat
    BY <2>1, GateConstants DEF CheckMAC2, GateInv, CookieInv
  <2>3. message' = m /\ m.mac2 = secret
    BY <1>2, <2>1 DEF CheckMAC2
  <2>  QED
    BY <1>1, <2>2, <2>3 DEF Proven, NoCookie
<1>  HIDE DEF m, loaded
<1>8. MessageInv'
  BY <1>1, <1>2, <1>3, <1>5, <1>6, <1>7, GateConstants
     DEF GateInv, MessageInv, checkerVars, generatorVars
<1>  QED
  BY <1>2, <1>8, RateUnchanged DEF GateInv, CookieInv, checkerVars, generatorVars

\* CreateReply draws a secret that no one has a cookie of.
LEMMA RefreshSecretInv == GateInv /\ RefreshSecret => GateInv'
<1>  SUFFICES ASSUME GateInv, RefreshSecret PROVE GateInv'
  OBVIOUS
<1>1. Proven' = Proven
  BY DEF Proven, RefreshSecret
<1>2. MessageInv'
  BY <1>1, GateConstants
     DEF GateInv, MessageInv, CookieInv, RefreshSecret, generatorVars
<1>3. CookieInv'
  BY GateConstants DEF GateInv, CookieInv, RefreshSecret, generatorVars
<1>  QED
  BY <1>2, <1>3, RateUnchanged DEF GateInv, RefreshSecret

\* A reply puts the cookie of the secret on the network, or is not sent.
LEMMA SendReplyInv == GateInv /\ SendReply => GateInv'
<1>  SUFFICES ASSUME GateInv, SendReply PROVE GateInv'
  OBVIOUS
<1>1. secret \in 1..MaxSecrets
  BY GateConstants DEF GateInv, CookieInv, MessageInv, SendReply
<1>2. given \subseteq given' /\ given' \subseteq given \cup {secret}
  BY DEF SendReply
<1>3. Proven \subseteq Proven'
  BY <1>2 DEF Proven
<1>4. queue \in Seq(Proven')
  BY <1>3, SeqMonotonic DEF GateInv, MessageInv
<1>5. MessageInv'
  BY <1>3, <1>4, NoMessageProven DEF GateInv, MessageInv, SendReply, generatorVars
<1>6. [mac1 |-> message.mac1, cookie |-> secret] \in Replies
  BY <1>1, GateConstants DEF SendReply, GateInv, MessageInv, Messages, Replies, Forged
<1>7. replies' \subseteq Replies /\ \A r \in replies' : r.cookie \in given'
  BY <1>6 DEF GateInv, CookieInv, SendReply
<1>8. CookieInv'
  BY <1>1, <1>2, <1>7, GateConstants DEF GateInv, CookieInv, SendReply, generatorVars
<1>  QED
  BY <1>5, <1>8, RateUnchanged DEF GateInv, SendReply

\* The clocks of the checker and of the generator advance together.
LEMMA TickInv == GateInv /\ Tick => GateInv'
<1>  SUFFICES ASSUME GateInv, Tick PROVE GateInv'
  OBVIOUS
<1>1. Proven' = Proven
  BY DEF Proven, Tick
<1>2. MessageInv'
  BY <1>1, GateConstants DEF GateInv, MessageInv, Tick
<1>3. CookieInv'
  BY GateConstants DEF GateInv, CookieInv, Tick, Capped
<1>  QED
  BY <1>2, <1>3, RateTickInv DEF GateInv, Tick

\* Every step of the gate and of its peer keeps the invariant.
LEMMA GateNextInv == GateInv /\ [Next]_vars => GateInv'
<1>  SUFFICES ASSUME GateInv, [Next]_vars PROVE GateInv'
  OBVIOUS
<1>  USE DEF GateInv
<1>1. CASE AddMacs
  <2>1. Proven' = Proven
    BY <1>1 DEF Proven, AddMacs, checkerVars
  <2>2. [mac1 |-> lastMAC1 + 1,
         mac2 |-> IF cookieAge = Expired THEN NoCookie ELSE cookie] \in Proven
    BY <1>1, GateConstants DEF AddMacs, Proven, Messages, CookieInv
  <2>3. MessageInv'
    BY <1>1, <2>1, <2>2 DEF AddMacs, MessageInv, queueVars, checkerVars
  <2>4. CookieInv'
    BY <1>1, GateConstants DEF AddMacs, CookieInv, checkerVars
  <2>  QED
    BY <1>1, <2>3, <2>4, RateUnchanged DEF AddMacs
<1>2. CASE Deliver
  <2>1. Proven' = Proven
    BY <1>2 DEF Proven, Deliver, checkerVars
  <2>2. PICK m \in sent : queue' = Enqueue(queue, m)
    BY <1>2 DEF Deliver
  <2>3. m \in Proven
    BY <2>2 DEF MessageInv
  <2>4. queue' \in Seq(Proven) /\ Len(queue') <= QueueHandshakeSize
    BY <2>2, <2>3, EnqueueInv DEF MessageInv
  <2>5. MessageInv'
    BY <1>2, <2>1, <2>4 DEF Deliver, MessageInv, generatorVars, checkerVars
  <2>6. CookieInv'
    BY <1>2 DEF Deliver, CookieInv, generatorVars, checkerVars
  <2>  QED
    BY <1>2, <2>5, <2>6, RateUnchanged DEF Deliver
<1>3. ASSUME NEW r \in replies, ConsumeReply(r) PROVE GateInv'
  <2>1. Proven' = Proven
    BY <1>3 DEF Proven, ConsumeReply, checkerVars
  <2>2. MessageInv'
    BY <1>3, <2>1 DEF ConsumeReply, MessageInv, queueVars, checkerVars
  <2>3. CookieInv'
    BY <1>3, GateConstants DEF ConsumeReply, CookieInv, checkerVars
  <2>  QED
    BY <1>3, <2>2, <2>3, RateUnchanged DEF ConsumeReply
<1>4. CASE TakeMessage
  BY <1>4, TakeMessageInv
<1>5. CASE RefreshSecret
  BY <1>5, RefreshSecretInv
<1>6. CASE SendReply
  BY <1>6, SendReplyInv
<1>7. CASE ReplyFails
  <2>1. Proven' = Proven
    BY <1>7 DEF Proven, ReplyFails, checkerVars
  <2>  QED
    BY <1>7, <2>1, RateUnchanged, NoMessageProven
       DEF ReplyFails, MessageInv, CookieInv, checkerVars, generatorVars
<1>8. CASE ChangeNetwork
  <2>1. Proven' = Proven
    BY <1>8 DEF Proven, ChangeNetwork, checkerVars
  <2>  QED
    BY <1>8, <2>1, RateUnchanged
       DEF ChangeNetwork, MessageInv, CookieInv, checkerVars, generatorVars
<1>9. CASE CallAllow \/ Collect
  <2>1. Proven' = Proven
    BY <1>9 DEF Proven, CallAllow, Collect, checkerVars
  <2>2. RateInv'
    BY <1>9, LookupEntryInv, CollectInv DEF CallAllow, Collect
  <2>  QED
    BY <1>9, <2>1, <2>2
       DEF CallAllow, Collect, MessageInv, CookieInv, queueVars, checkerVars, generatorVars
<1>10. CASE Admit \/ Refuse
  <2>1. Proven' = Proven
    BY <1>10 DEF Proven, Admit, Refuse, checkerVars
  <2>2. RateInv'
    BY <1>10, MakeEntryInv, UseEntryInv DEF Admit, Refuse
  <2>  QED
    BY <1>10, <2>1, <2>2, NoMessageProven
       DEF Admit, Refuse, MessageInv, CookieInv, checkerVars, generatorVars
<1>11. CASE Tick
  BY <1>11, TickInv
<1>12. CASE UNCHANGED vars
  <2>1. Proven' = Proven
    BY <1>12 DEF Proven, vars, checkerVars
  <2>  QED
    BY <1>12, <2>1, RateUnchanged
       DEF vars, MessageInv, CookieInv, queueVars, checkerVars, generatorVars
<1>  QED
  BY <1>1, <1>2, <1>3, <1>4, <1>5, <1>6, <1>7, <1>8, <1>9, <1>10, <1>11, <1>12 DEF Next

\* The inductive invariant holds in every state that Gate reaches.
LEMMA GateInvHolds == Spec => []GateInv
  BY GateInitInv, GateNextInv, PTL DEF Spec

-----------------------------------------------------------------------------
\* Every variable of the gate keeps its type; in particular the handshake
\* queue never exceeds its size (receive.go, cookie.go, ratelimiter.go).
THEOREM GateTypeOK == Spec => []TypeOK
<1>1. GateInv => TypeOK
  <2>  SUFFICES ASSUME GateInv PROVE TypeOK
    OBVIOUS
  <2>1. Proven \subseteq Messages
    BY DEF Proven
  <2>2. queue \in Seq(Messages)
    BY <2>1, SeqMonotonic DEF GateInv, MessageInv
  <2>  QED
    BY <2>1, <2>2, GateConstants DEF GateInv, RateInv, MessageInv, CookieInv, TypeOK
<1>  QED
  BY <1>1, GateInvHolds, PTL

\* The packets that Allow lets pass exceed rate and burst by less than one
\* packet, wherever the collector strikes (ratelimiter.go:115).
THEOREM GateRateBounded == Spec => []RateBounded
<1>1. GateInv => RateBounded
  <2>  SUFFICES ASSUME RateInv PROVE RateBounded
    BY DEF GateInv
  <2>1. CASE table = NoEntry
    BY <2>1, RatelimiterAssumption DEF RateInv, RateTypeOK, RateBounded
  <2>2. CASE table # NoEntry
    <3>1. table.tokens \in 0..MaxTokens /\ table.age \in 0..MaxAge
      BY <2>2, EntryShape DEF RateInv, RateTypeOK
    <3>  QED
      BY <2>2, <3>1, RatelimiterAssumption DEF RateInv, RateTypeOK, RateBounded, Capped, MaxAge
  <2>  QED
    BY <2>1, <2>2
<1>  QED
  BY <1>1, GateInvHolds, PTL

\* A peer that holds the cookie in force always uses it (cookie.go:239).
THEOREM GateCookieInForceUsed == Spec => []CookieInForceUsed
<1>1. GateInv => CookieInForceUsed
  BY GateConstants DEF GateInv, CookieInv, CookieInForceUsed
<1>  QED
  BY <1>1, GateInvHolds, PTL

\* Under load only a message with a cookie of the secret in force, which was
\* given out, is consumed (receive.go:326, cookie.go:82).
THEOREM GateAdmittedProven == Spec => AdmittedProven
<1>1. GateInv /\ [Next]_vars => [Admit => message.mac2 = secret /\ secret \in given]_vars
  BY DEF GateInv, MessageInv, Admit
<1>  QED
  BY <1>1, GateInvHolds, PTL DEF Spec, AdmittedProven

=============================================================================

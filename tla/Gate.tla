--------------------------------- MODULE Gate ---------------------------------
(***************************************************************************)
(* What RoutineHandshake (receive.go) does with an initiation or a         *)
(* response before it looks at the content: mac1, the load test of         *)
(* device.go, mac2, the cookie reply and the rate limiter; and both halves *)
(* of cookie.go: the CookieChecker of this device and the CookieGenerator  *)
(* of the peer that talks to it, which runs the same code.                 *)
(*                                                                         *)
(* A mac is symbolic: mac1 is the number of the message or Forged, and     *)
(* mac2 the number of the secret its cookie was derived from, or NoCookie. *)
(* Secret 0 is the array of zeros that a checker starts with.  The network *)
(* loses, repeats and reorders messages and replies.  Every clock counts   *)
(* up to the first value its test tells apart.                             *)
(*                                                                         *)
(* Go refuses WriteToUDP on a socket made by DialUDP, so that today every  *)
(* reply fails; both outcomes are modelled, and the properties hold with   *)
(* and without the replies.                                                *)
(***************************************************************************)
EXTENDS Ratelimiter, Sequences

CONSTANTS
    QueueHandshakeSize,     \* 20
    UnderLoadQueueSize,     \* QueueHandshakeSize / 4
    UnderLoadTime,          \* 1 s
    CookieRefreshTime,      \* 120 s
    MaxMessages,            \* bound: messages of the peer
    MaxSecrets              \* bound: secrets the checker draws

ASSUME GateAssumption ==
    /\ {QueueHandshakeSize, UnderLoadQueueSize, UnderLoadTime, CookieRefreshTime} \subseteq Nat \ {0}
    /\ {MaxMessages, MaxSecrets} \subseteq Nat

VARIABLES
    queue,          \* queue.handshake
    routine,        \* RoutineHandshake
    message,        \* elem: the message it works on
    loadLeft,       \* the time until underLoadUntil
    secret,         \* mac2.secret of the checker
    secretAge,      \* and the time since secretSet
    given,          \* history: the secrets whose cookies went out
    sent,           \* the messages on the network
    replies,        \* the cookie replies on the network
    lastMAC1,       \* the generator of the peer
    cookie,
    cookieAge

queueVars     == <<queue, routine, message, loadLeft>>
checkerVars   == <<secret, secretAge, given, replies>>
generatorVars == <<sent, lastMAC1, cookie, cookieAge>>
vars == <<rateVars, queueVars, checkerVars, generatorVars>>

NoCookie  == -1
Forged    == -1
Expired   == CookieRefreshTime + 1
Messages  == [mac1 : {Forged} \cup 0..MaxMessages, mac2 : {NoCookie} \cup 0..MaxSecrets]
NoMessage == [mac1 |-> Forged, mac2 |-> NoCookie]
Replies   == [mac1 : 0..MaxMessages, cookie : 1..MaxSecrets]

TypeOK ==
    /\ RateTypeOK
    /\ queue \in Seq(Messages)
    /\ Len(queue) <= QueueHandshakeSize
    /\ routine \in {"select", "reply", "seal", "allow", "sleep", "ended"}
    /\ message \in Messages
    /\ loadLeft \in 0..UnderLoadTime
    /\ secret \in 0..MaxSecrets
    /\ secretAge \in 0..Expired
    /\ given \subseteq 1..MaxSecrets
    /\ sent \subseteq Messages
    /\ replies \subseteq Replies
    /\ lastMAC1 \in 0..MaxMessages
    /\ cookie \in 0..MaxSecrets
    /\ cookieAge \in 0..Expired

\* Messages that no generator made may arrive as well: one with a wrong mac1
\* and one with a mac2 of the zero secret.
Init ==
    /\ RateInit
    /\ queue = <<>>
    /\ routine = "select"
    /\ message = NoMessage
    /\ loadLeft = 0
    /\ secret = 0
    /\ secretAge = Expired
    /\ given = {}
    /\ sent = {NoMessage, [mac1 |-> 0, mac2 |-> 0]}
    /\ replies = {}
    /\ lastMAC1 = 0
    /\ cookie = 0
    /\ cookieAge = Expired

-----------------------------------------------------------------------------
(* CookieGenerator *)

\* AddMacs: mac2 stays empty when the cookie is too old or there is none.
AddMacs ==
    /\ lastMAC1 < MaxMessages
    /\ lastMAC1' = lastMAC1 + 1
    /\ sent' = sent \cup {[mac1 |-> lastMAC1 + 1,
                           mac2 |-> IF cookieAge = Expired THEN NoCookie ELSE cookie]}
    /\ UNCHANGED <<rateVars, queueVars, checkerVars, cookie, cookieAge>>

\* Faulty: the time of the cookie is not set.
ConsumeReplyUndated(r) ==
    /\ lastMAC1 # 0
    /\ r.mac1 = lastMAC1
    /\ cookie' = r.cookie
    /\ UNCHANGED <<rateVars, queueVars, checkerVars, sent, lastMAC1, cookieAge>>

\* A reply is bound to the mac1 it answers and opens for the last one only.
ConsumeReply(r) ==
    /\ lastMAC1 # 0
    /\ r.mac1 = lastMAC1
    /\ cookie' = r.cookie
    /\ cookieAge' = 0
    /\ UNCHANGED <<rateVars, queueVars, checkerVars, sent, lastMAC1>>

-----------------------------------------------------------------------------
(* handleUDP *)

\* Faulty: the oldest message is kept.
EnqueueKeeping(q, m) == Append(q, m)

\* addToHandshakeQueue drops the oldest message when the queue is full.
Enqueue(q, m) == IF Len(q) < QueueHandshakeSize THEN Append(q, m) ELSE Append(Tail(q), m)

Deliver ==
    /\ \E m \in sent : queue' = Enqueue(queue, m)
    /\ UNCHANGED <<rateVars, routine, message, loadLeft, checkerVars, generatorVars>>

-----------------------------------------------------------------------------
(* RoutineHandshake *)

\* IsUnderLoad, with the message itself already taken from the queue.
QueueLoaded(q) == Len(q) >= UnderLoadQueueSize

\* Faulty: the age of the secret is not tested.
CheckMAC2Undated(m) == m.mac2 = secret

CheckMAC2(m) == secretAge # Expired /\ m.mac2 = secret

\* A wrong mac1 makes the routine return; without load the message is consumed.
TakeMessage ==
    /\ routine = "select"
    /\ queue # <<>>
    /\ LET m      == Head(queue)
           loaded == QueueLoaded(Tail(queue)) \/ loadLeft > 0
       IN  /\ routine' = CASE m.mac1 = Forged                            -> "ended"
                           [] m.mac1 # Forged /\ ~loaded                 -> "select"
                           [] m.mac1 # Forged /\ loaded /\ CheckMAC2(m)  -> "allow"
                           [] m.mac1 # Forged /\ loaded /\ ~CheckMAC2(m) -> "reply"
           /\ loadLeft' = IF m.mac1 # Forged /\ QueueLoaded(Tail(queue)) THEN UnderLoadTime
                          ELSE loadLeft
           /\ message' = IF m.mac1 # Forged /\ loaded THEN m ELSE NoMessage
    /\ queue' = Tail(queue)
    /\ UNCHANGED <<rateVars, checkerVars, generatorVars>>

\* CreateReply draws a new secret when the old one has expired.
RefreshSecret ==
    /\ routine = "reply"
    /\ secretAge = Expired
    /\ secret < MaxSecrets
    /\ secret' = secret + 1
    /\ secretAge' = 0
    /\ routine' = "seal"
    /\ UNCHANGED <<rateVars, queue, message, loadLeft, given, replies, generatorVars>>

\* The reply is written to the socket; an error means 2 s of sleep and a
\* change of the network.
SendReply ==
    /\ routine = "seal" \/ (routine = "reply" /\ secretAge # Expired)
    /\ \/ /\ replies' = replies \cup {[mac1 |-> message.mac1, cookie |-> secret]}
          /\ given' = given \cup {secret}
          /\ routine' = "select"
       \/ /\ routine' = "sleep"
          /\ UNCHANGED <<replies, given>>
    /\ message' = NoMessage
    /\ UNCHANGED <<rateVars, queue, loadLeft, secret, secretAge, generatorVars>>

\* rand.Read fails, for the secret or for the nonce: the routine returns.
ReplyFails ==
    /\ routine \in {"reply", "seal"}
    /\ routine' = "ended"
    /\ message' = NoMessage
    /\ UNCHANGED <<rateVars, queue, loadLeft, checkerVars, generatorVars>>

ChangeNetwork ==
    /\ routine = "sleep"
    /\ routine' = "select"
    /\ UNCHANGED <<rateVars, queue, message, loadLeft, checkerVars, generatorVars>>

CallAllow ==
    /\ routine = "allow"
    /\ LookupEntry
    /\ UNCHANGED <<queueVars, checkerVars, generatorVars>>

\* Allow returns TRUE and the content of the message is consumed.
Admit ==
    /\ routine = "allow"
    /\ MakeEntry \/ UseEntry(TRUE)
    /\ routine' = "select"
    /\ message' = NoMessage
    /\ UNCHANGED <<queue, loadLeft, checkerVars, generatorVars>>

Refuse ==
    /\ routine = "allow"
    /\ UseEntry(FALSE)
    /\ routine' = "select"
    /\ message' = NoMessage
    /\ UNCHANGED <<queue, loadLeft, checkerVars, generatorVars>>

-----------------------------------------------------------------------------
Collect ==
    /\ GarbageCollectEntries
    /\ UNCHANGED <<queueVars, checkerVars, generatorVars>>

Tick ==
    /\ RateTick
    /\ secretAge' = Capped(secretAge + 1, Expired)
    /\ cookieAge' = Capped(cookieAge + 1, Expired)
    /\ loadLeft' = IF loadLeft = 0 THEN 0 ELSE loadLeft - 1
    /\ UNCHANGED <<queue, routine, message, secret, given, replies, sent, lastMAC1, cookie>>

Next ==
    \/ AddMacs \/ Deliver \/ \E r \in replies : ConsumeReply(r)
    \/ TakeMessage \/ RefreshSecret \/ SendReply \/ ReplyFails \/ ChangeNetwork
    \/ CallAllow \/ Admit \/ Refuse
    \/ Collect \/ Tick

Spec == Init /\ [][Next]_vars

-----------------------------------------------------------------------------
(* Properties *)

\* Under load nothing is consumed whose sender did not receive a cookie of the
\* secret in force (cookie.go, receive.go:329): in particular not what was
\* made with the zero secret of a checker that never gave one out, nor with
\* a cookie of an earlier secret.
AdmittedProven ==
    [][Admit => message.mac2 = secret /\ secret \in given]_vars

\* The two ends measure the age of a cookie from different moments, the
\* checker from the drawing of the secret and the generator from the arrival
\* of the reply (cookie.go:82, cookie.go:239).  A peer that holds the cookie
\* in force nevertheless always uses it: it is never asked for it again.
CookieInForceUsed ==
    secretAge # Expired /\ cookie = secret => cookieAge # Expired

=============================================================================

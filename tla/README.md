# A TLA+ model of the bt-windows tunnel

bt-windows is a VPN client: an early wireguard-go cut down to one peer (the
server), with a few fields added to the initiation message. `main.go` exports
`Init`, `Start`, `GetDomain` and `GetPriAndPubKey` to a host application; the
tunnel itself is in `controller/`. It is a set of goroutines around one `Device`
and one `Peer`, which share key material under mutexes and otherwise talk
through bounded channels: data queues that drop their oldest element when full
and signals of capacity 1 that are set and cleared without blocking.

This directory holds TLA+ modules for the parts that carry the protocol, TLC
configurations, and proofs checked by TLAPS.

## Inventory

| component | source | state | operations | what makes it correct |
|---|---|---|---|---|
| session | `noise_protocol.go`, `index.go`, `keypair.go` | `Handshake`, `IndexTable`, `KeyPairs` | create and consume initiation and response, `NewKeyPair`, `zeroAllKeys`, promotion of `next` | table and slots agree; one pair per handshake; keys, indices and roles of a pair belong together; the current pair only advances |
| replay filter | `replay.go` | `counter`, ring `backtrack` | `ValidateCounter` | no counter passes twice; fresh counters in the window pass |
| outbound pipeline | `send.go` | nonce, encryption and outbound queues, element mutexes, `sendNonce` | `RoutineReadFromTUN`, `SendKeepAlive`, `RoutineNonce`, `RoutineEncryption`, `RoutineSequentialSender` | order kept; only sealed packets leave; nonces fresh; nobody waits forever |
| initiator | `timers.go`, `misc.go` | signals, `timeout` and `deadline` | `RoutineHandshakeInitiator`, the `zeroAllKeys` case of `RoutineTimerHandler` | initiations spaced; a packet that waits is served |
| peer timers, silence report | `timers.go`, `constants.go`, `init.go` | keep-alive and `newHandshake` timers, flags, `IntervalStartTime` | `RoutineTimerHandler`, the `Timer...` events, `KeepKeyFresh...`, `checkIntervalTime` | never quiet for longer than the keep-alive interval; silence is noticed |
| inbound path | `receive.go` | handshake, decryption and inbound queues | `handleUDP`, `RoutineDecryption`, `RoutineHandshake`, `RoutineSequentialReceiver` | each packet delivered once, in order; routines survive bad input |
| lifecycle | `device.go`, `peer.go`, `uapi.go`, `main.go` | stop channels, `peers`, private key | `Init`, `SetOperation`, `NewDevice`, `SetPublicKey`, `NewPeer`, `Start`, `StartConnection`, `Close` | no call of the app crashes the process; after `Close` every goroutine ends |
| UDP connection | `conn.go`, `uapi.go`, `init.go`, `monitor_wifi.go` | `net.conn`, `newUDPConn` | `createUDPConn`, `changeNetwork`, `RoutineReceiveIncomming` | the newest connection is used and read by one routine |
| cookies, rate limit | `cookie.go`, `ratelimiter.go` | cookie secret, cookie, buckets | `CheckMAC1/2`, `CreateReply`, `ConsumeReply`, `AddMacs`, `Allow`, collector | under load only proven senders are served; a cookie in force is used; no more packets than rate and burst |
| routing | `trie.go`, `routing.go` | trie | `Insert`, `Lookup`, `RemovePeer` | longest prefix |
| timestamps | `tai64.go` | none | `Timestamp`, `After` | later instants compare greater |
| domain lookup | `main.go`, `qt.go`, `common/aes_cbc.go` | `qtMsg`, `err`, `msgChan` | `GetDomain`, `SendDNSReq` | an answer that arrives is returned; no goroutine is left behind |
| status | `init.go`, `main.go` | `StatusChan` | `sendStatus`, `status` | numbers reach the app |

How they interact. `RoutineReadFromTUN` and `SendKeepAlive` feed the nonce queue.
`RoutineNonce` reads `keyPairs.current`; without a usable pair it sets
`handshakeBegin` and waits for `newKeyPair` or `flushNonceQueue`.
`RoutineHandshakeInitiator` answers `handshakeBegin` with initiations until
`handshakeCompleted`. `handleUDP` sorts what arrives into the handshake queue
(`RoutineHandshake`) and the decryption and inbound queues. `RoutineHandshake`
works on a response in several locked sections and ends with `NewKeyPair`, which
sets `newKeyPair`. `RoutineTimerHandler` zeroes everything when `zeroAllKeys`
fires. A send that fails makes its routine call `changeNetwork`, which replaces
`net.conn` and signals the receiver to start a reader; three routines may do so at
once. The hard part is that three goroutines write the handshake, each in short
critical sections, while timers and signals carry facts that may be stale when
they are read. `PROJECT.json` lists the hazards line by line.

## Modules

**Session** (`Session.tla`). One action is one critical section of the handshake
mutex (`kp.mutex` for the promotion). `RoutineHandshake` keeps its position in
`pc` and the message in `msg`; between its actions `CreateMessageInitiation`
(the initiator's retries) and `ZeroAllKeys` may run. A chain key is the
transcript `[by, init, resp]` it was mixed from, so a response authenticates
exactly when the handshake still has the transcript of the initiation it
answers. `remoteIndex` is the number of the server's message that brought it.
The index table maps an index to nothing, to the handshake or to a pair. Network
and server are external: nothing that was sent is removed, so everything may be
lost, late, reordered or repeated. `raced` is a history variable: it records
that another goroutine wrote the handshake since the message in hand was
authenticated. Two constants stand for the message sizes. `handleUDP` accepts
initiations of 173 bytes, and `MessageInitiation` marshals to 176, so the
responder's half of the code cannot be reached as deployed; the run
`session` sets them equal, so that both halves are checked as they are written;
the violations are found with the deployed sizes.

**ReplayFilter** (`ReplayFilter.tla`) with **ReplayWindow**. The ring is a
function from slots to sets of one bits; the three actions are the three paths
through `ValidateCounter`. `ReplayWindow` is the promise: a counter passes once,
if it is below the limit and at most `Window` behind the highest.
`IdealWindow` is the refinement, `highest` being `counter`.

**OutboundPipeline** (`OutboundPipeline.tla`) with **LossyFifo**. One action is
one non-blocking channel operation or one mutex operation, so `Drop` and
`Unlock` of an evicted element are two steps. An element is its number of
arrival with its flags, pair and nonce. The handshake is seen as pairs that
appear, expire or vanish and signals that come. `LossyFifo` states that packets
come out in order, each at most once; `OrderMaintained` is the refinement. The
padding loop of `RoutineEncryption` is left out: `tun.mtu` is never set, so it
never runs. `StartConnection` starts one encryption worker, although the comment
at `send.go:271` has one per core; the module takes a set of workers, and the run
has two.

**InboundPipeline** (`InboundPipeline.tla`). `handleUDP`, one instance per
connection since an old one may still run beside the new, the decryption worker
(one, as `StartConnection` starts it), `RoutineSequentialReceiver` and the
handshake queue. The replay filter is the window of `ReplayWindow`, which
`ReplayFilter` is proved to implement. A buffer belongs to the message read into it
until `PutMessageBuffer`, which `puts` counts. `Open` may panic (`OpenPanics`): its
destination `elem.buffer[:0]` overlaps the ciphertext at offset 16, which current
versions of the AEAD refuse; `recover` sits in the outermost function, so the
goroutine ends.

**Initiator** (`Initiator.tla`). `RoutineHandshakeInitiator` with its two timers,
the five signals, `RoutineNonce`'s wait, and the steps of `RoutineHandshake`
from authentication to `NewKeyPair` and `SendKeepAlive`. Time is not counted: a
running timer may fire at any step. The Noise state is cut down to `state` and
whether the transcript of the last initiation can still be answered. Two
constants choose the setting: `RandomFails` (may creating an initiation fail),
and `Punctual` (nothing that takes minutes, that is expiry of the pair and
`zeroAllKeys`, happens in the seconds between a response and the initiator's
rest). The history variable `lapsed` says that a handshake ended without a pair
to send under; `spaced` that `RekeyTimeout` passed since the last initiation.
`KeepKeyFresh...` and the `newHandshake` timer are a request at any moment, the
keep-alive timers a keep-alive at any moment.

**PeerTimers** (`PeerTimers.tla`). The same goroutines seen over minutes: the two
keep-alive timers, `newHandshake`, the flags `pendingNewHandshake` and
`sendLastMinuteHandshake`, the age of the current pair with the two `KeepKeyFresh...`
tests, the attempts of the initiator with their deadline, the work of
`RoutineHandshake` on a response, and `checkIntervalTime`. Time passes in steps of
5 s (`RekeyTimeout`), and all that is due happens before the next step. Within a step
`RoutineHandshake` and the initiator interleave as in `Initiator`: when the timeout of
an attempt fires, a response may be anywhere between its authentication and
`NewKeyPair`, and the retry may replace its handshake, take its completion, both or
neither. A pair of mixed keys (`session_mixed_pair`) is a pair here: packets go out
under it, and whether any come in is left open as always. What else interleaves within a step (the queues, `newKeyPair`) is left to the
modules above. Three variables are history: `quiet`, the time since something was sent
or accepted; `broken`, whether a send failed since; and `lapsed`, whether the initiator
came to rest without a usable pair and neither an initiation was sent nor a pair
derived since.

**Gate** (`Gate.tla`) with **Ratelimiter**. What `RoutineHandshake` does before it
looks at a message: `mac1`, the load test, `mac2`, the cookie reply, the rate limiter.
The `CookieChecker` is this device's; the `CookieGenerator` is that of the peer at
the other end, which runs the same code. A `mac2` is the number of the secret its
cookie comes from. The network loses, repeats and reorders messages and replies,
and messages that no generator made arrive as well. Clocks count up to the first
value that a test tells apart. `Ratelimiter` has the two sections of `Allow` and the
collector between them; `bucket` is history, an ideal bucket that pays for every
packet that passed. Go refuses `WriteToUDP` on a socket made by `DialUDP`, so today
every reply fails and the routine replaces the connection; both outcomes are
modelled.

**Host** (`Host.tla`) composes **GetDomain** and **UdpConn** and adds the calls of the
app. `GetDomain` has the goroutines that ask the name servers and assign the
variables `qtMsg` and `err` of the caller; a slice is assigned word by word, since
nothing orders the accesses. `UdpConn` has `createUDPConn`, the "endpoint" case of
`SetOperation` with its second, unlocked assignment of `net.conn` (a read and a
write), the routines that call it through `changeNetwork`, and
`RoutineReceiveIncomming` with its `handleUDP` goroutines. `Host` has every case of
`SetOperation`, `NewDevice` with its empty peer, `SetPublicKey`, which removes that
peer, `NewPeer`, `StartConnection` with its half second of sleep, and `Close`, which
panics at `handshakeDeadline` after the peer was removed. A panic in a goroutine
that does not recover ends the process (`Crashed`), and then nothing happens any
more. `stale`, `refused` and `closedEarly` are history: the ways out that the code has.

The `MC...` modules instantiate these for TLC. The definitions whose comment says
"Faulty" are plausible mistakes in the code; each is used to confirm that the
property it is meant to break does break, and none is part of a specification.

## Runs

| run | checks | bounds |
|---|---|---|
| `session` | `TypeOK`, `IndexTableSound`, `NoIndexLeak`, `OneKeyPairPerHandshake`, `UnracedKeysAgree`, `CurrentIsNewest`, `CurrentAdvances` | 3 indices, 2 initiations, 2 responses, 1 initiation of the server, equal sizes, random failures |
| `replay` | `TypeOK`, `RingExact`, `NoReplay`, `IdealWindow` | 3 words of 2 bits, window 4, counters to 14, limit 13 |
| `outbound` | `TypeOK`, `SentSealed`, `NoncesIncrease`, `UnlockOnce`, `SenderServed`, `OrderMaintained`, `SenderProceeds` | 3 packets, a keep-alive caller, 2 workers, queues of 2, 2 nonces per pair, 2 pairs |
| `inbound` | `TypeOK`, `DeliveredOnce`, `OnlyAuthenticRemembered`, `UnlockOnce`, `ReceiverServed`, `BuffersExclusive` | 3 messages, 2 connections, queues of 1, 2 counters |
| `initiator` | `TypeOK`, `InitiationsSpaced`, `AwaitWatched`, `InitiatorProceeds` | none: the state is finite |
| `timers` | `TypeOK`, `NeverQuiet`, `SilenceNoticed` | none but the durations, in steps of 5 s |
| `gate` | `TypeOK`, `RateBounded`, `CookieInForceUsed`, `AdmittedProven` | 2 messages, 2 secrets, a queue of 2, refresh after 2, cost 2, burst 4, collection after 6 |
| `host` | `TypeOK`, `LookupKept`, `LookupsEnd`, `ConnectionServed`, `NoCrash` | 3 servers with a channel of 2, 3 sockets, 3 routines and the app |
| `session_index_zero`, `session_mixed_pair`, `session_cookie_late`, `initiator_await` | what comments say and the code does not do, below | two initiations and responses; none |

The bounds suffice for the cases of interest. Two initiations with two responses
give a retry during an authentication and a response that comes twice or late;
with the server's initiation there are three rotations, in both roles, so that
`previous` is filled, deleted and filled again; three indices force reuse. In the
ring of three words, fourteen counters go around twice, and a counter may jump over
the whole ring. Queues of two with three packets and keep-alives fill and evict from
each queue and still leave a packet behind the evicted one. Three messages over two
connections with queues of one evict from both inbound queues and repeat a counter.
The keep-alive, `newHandshake` and rekey durations and `IntervalTime` of `timers` are
those of the code in steps of 5 s; the later ages and the deadline are shortened in
their order (`RekeyAfterTimeReceiving` 9, `RekeyAfterTime` 11, `RejectAfterTime` 13,
`RekeyAttemptTime` 3), so that there still are several attempts before the deadline, a
pair in its last minute and one that has expired. In `gate` two secrets give a cookie that crosses the
refresh of its secret, and the collector strikes between the sections of `Allow`. In
`host` a channel of one less than the servers is the code's 3 for 4, and three sockets
let two routines replace the connection of the third. What the bounds cut off in
`timers`, `gate` and `host` is covered by the proofs, which leave them open.

Deadlock is checked in every passing run but `host`: there the process may have died,
or the app have been refused, or the bound on sockets be used up.

Fairness. `OutboundPipeline!FairSpec` has weak fairness of `RoutineNonce`, of each
worker and of the sender: Go's scheduler runs every goroutine that stays
runnable. Nothing is assumed of the environment (packets, keys, signals).
`Initiator!FairSpec` has the same for its goroutines and for running timers,
which do fire. `AnsweredSpec`, used only for the violation `initiator_await`, adds
strong fairness of sending and of the server's answer, so that the
counterexample cannot be blamed on a silent network.

## What does not hold

* `session_index_zero`: `index.go:9` reserves index 0, but `zeroAllKeys` resets
  `localIndex` and not `state`, so `NewKeyPair` may file a pair under 0, where
  `Delete` never removes it.
* `session_mixed_pair`: `ConsumeMessageResponse` tests under one lock and writes
  under another. With a retry in between, the pair gets the keys of the answered
  handshake and the index of the new one, and the server's packets find nothing.
* `session_cookie_late`: a cookie reply for an index that is gone ends
  `RoutineHandshake` (`receive.go:312`).
* `initiator_await`: the completion is signalled before `NewKeyPair`. If
  `RekeyTimeout` fires in between, the retry makes `NewKeyPair` return nil, the
  initiator takes the completion, rests and clears `handshakeBegin`; if the
  retry's response is lost, `RoutineNonce` waits for ever. `AwaitWatched` says that
  such an ending without a pair is the only way this can happen.

## What the other runs show

* *Connection.* The lock and the signal of capacity 1 do their work: the connection
  in `net.conn` is open, and one or two goroutines read it or are about to. There are
  two ways out. `uapi.go:76` assigns `net.conn` once more without the lock; a routine
  that is slow there brings back a connection that another has closed. And
  `handleUDP` returns on any read error, such as an ICMP "unreachable", although the
  connection stays open: from then on nothing is received. Both last until the next
  send fails.
* *Lifecycle.* The process dies in three cases: a lookup in which a request failed or
  brought something else, a private key of zeros, and an app that ends the session in
  the first half second. `Close` ends in a panic that `Start` recovers, so no stop
  channel is ever closed and all goroutines go on.
* *Lookup.* The unsynchronised assignments do no harm while no request fails, because
  everyone assigns the record. After one failure a good answer may be replaced by
  nil between the test of its length and its decryption (a panic), or dropped because
  `err` was assigned between the decryption and its test.
* *Gate.* The race between `Allow` and the collector costs less than one packet,
  because an entry that is collected would have been full. A generator never lets a
  cookie expire before the secret does, since it counts from a later moment.
* *Timers.* There are two ways for the tunnel to be quiet for longer than the
  keep-alive interval, and then for ever. A send fails: it sets no timer. Or a retry
  overtakes the response that is being worked on, as in `initiator_await`: the initiator
  rests without a pair, and every keep-alive after that joins the packets that wait.
  Otherwise the tunnel is never quiet for longer. The
  `newHandshake` timer is armed once in the life of a peer; that the initiator is
  nevertheless at work when the app is told of a silent server is due to the 30 s
  after which this program rekeys, and would not hold for the 120 s of the protocol.

## Proofs

| theorem | statement | argument |
|---|---|---|
| `SessionTypeOK` | `Session!Spec => []TypeOK` | inductive |
| `SessionIndexTableSound` | `Session!Spec => []IndexTableSound` | inductive with `TypeOK` |
| `SessionNoIndexLeak`, `SessionCurrentAdvances`, `SessionCurrentIsNewest` | `Session!Spec => []NoIndexLeak`, `=> CurrentAdvances`, `=> []CurrentIsNewest` | `EntriesOwn`, `NextNewer`, `ResponderAnswered` |
| `SessionOneKeyPair`, `SessionUnracedKeysAgree` | `Session!Spec => []OneKeyPairPerHandshake`, `=> []UnracedKeysAgree` | the conjunction `KeysInv` |
| `OutboundTypeOK`, `OutboundUnlockOnce`, `OutboundSenderServed`, `OutboundSentSealed`, `OutboundNoncesIncrease` | the invariants of `OutboundPipeline!Spec` | `OutboundInv` |
| `OutboundOrderMaintained` | `OutboundPipeline!Spec => Fifo!Spec` | step simulation under `OutboundInv` |
| `InboundTypeOK`, `InboundUnlockOnce`, `InboundReceiverServed`, `InboundDeliveredOnce`, `InboundOnlyAuthentic`, `InboundBuffersExclusive` | the invariants of `InboundPipeline!Spec` | `InboundInv` |
| `FilterTypeOK`, `FilterRingExact`, `FilterNoReplay` | the invariants of `ReplayFilter` | the conjunction `Inv` |
| `FilterIdealWindow` | `ReplayFilter!Spec => Ideal!Spec` | step simulation under `Inv` |
| `InitiatorTypeOK` | `Initiator!Spec => []TypeOK` | inductive |
| `InitiatorAwaitWatched`, `InitiatorSpaced` | `Initiator!Spec => []AwaitWatched`, `=> []InitiationsSpaced` | the conjunction `Inv` |
| `TimersTypeOK`, `TimersNeverQuiet`, `TimersSilenceNoticed` | `PeerTimers!Spec => []TypeOK`, `=> []NeverQuiet`, `=> SilenceNoticed` | `TimersInv` |
| `GateTypeOK`, `GateRateBounded`, `GateCookieInForceUsed`, `GateAdmittedProven` | `Gate!Spec => []TypeOK`, `=> []RateBounded`, `=> []CookieInForceUsed`, `=> AdmittedProven` | `GateInv` |
| `HostTypeOK`, `HostLookupKept`, `HostConnectionServed`, `HostNoCrash` | the same invariants of `Host!Spec` | `HostInv` |
| `HostLookupsEnd` | `Host!Spec => []LookupsEnd` | `SentOnce`, under `HostInv` |

They hold for every value of the constants that the named assumptions allow:
indices are non-zero naturals, bounds are naturals, and the window plus one word
fits the ring (1984 <= 255 * 64 in the code; `BacktrackWords` is 256);
`RekeyAfterTimeChange + KeepaliveInterval < IntervalTime` (30 s + 15 s < 50 s, the
default; the app may set a smaller `IntervalTime`, `main.go:169`, and nothing is claimed
for that); the
collection time is at least the burst and one packet (1 s >= 300 ms); queues have
room for one element at least; and there is at most one name server more than
`msgChan` has room for (4 and 3 in the code). Together the theorems state every
safety property that the passing runs check.

*Session.* The key is that every writer keeps "exactly the handshake's own index
maps to the handshake, and each pair in a slot is found under its own index".
`NewIndex` takes an entry that was free, so it overwrites no pair; `NewKeyPair`
turns the handshake's entry into the pair's; deleting a pair frees only its own
entry, because two pairs found under their own indices cannot share one. That
indices may be 0 is covered: pairs under 0 are exempt, and `Delete(0)` is a no-op.
`NoIndexLeak` needs the converse too, that an entry of a pair is under the pair's
index (`EntriesOwn`). `CurrentAdvances` needs that a pair to be confirmed is newer
than the one in use (`NextNewer`), `CurrentIsNewest` that `NewKeyPair` acts as
responder only after a response was sent (`ResponderAnswered`).

`KeysInv` follows the chain key. The pairs have keys of different handshakes, all
of the past (`PairsDiffer`); the handshake's chain key, and the one `RoutineHandshake`
is about to store without another look, have no pair yet (`KeyUnused`), because
`CreateMessageInitiation` numbers afresh, `NewKeyPair` clears what it used, and the
timestamp of a consumed initiation is newer than all before. `UnracedKeysAgree`
holds of the pair that `NewKeyPair` makes because the indices go with the chain key
(`KeyIndices`) and because, unless `raced`, each section of `RoutineHandshake` finds
what the one before it left (`Unraced`). The races that remain are what
`session_mixed_pair` shows.

*Outbound pipeline.* Elements are numbered as they enter the nonce queue. `InOrder`
says that the line formed by the wire, the sender, the outbound queue, `RoutineNonce`
and the nonce queue is increasing, and that the encryption queue is too; eviction
takes from the front and nobody inserts. Hence the refinement: under the mapping
the steps of the workers and of the queues are stutters, sends and losses of
`LossyFifo`. `HeldOnce`: the encryption queue, the workers and the element that
`RoutineNonce` is about to release are disjoint and locked, so an unlock never meets
an unlocked mutex. `Served` is the other direction: what the sender has still to
lock is held, or unlocked and then sealed or dropped; an evicted element is marked
dropped before it is unlocked, so nothing unsealed is sent. `NonceOrder`: a nonce of
the current pair is below `sendNonce`, and numbers later in the line carry later
nonces or pairs.

*Inbound pipeline.* With two `handleUDP` goroutines the two queues need not agree on
an order, so that `InOrder` has no counterpart. `Apart` says instead in how few
places an element can be: once in each queue, with one `handleUDP` only, and not at
once with those whose holders would both unlock it or return its buffer. `Locking`
and `Served` are as before, except that the only worker may have ended after a
panic. `Delivered` ties the TUN device to the filter: every counter written there,
and the one about to be written, is remembered, and they all differ. With `Apart`,
`BuffersExclusive` is inductive as it stands.

*Replay filter.* `NoReplay` alone says nothing about the ring. `RingExact` ties each
bit the ring covers to whether its counter passed; `HighestRemembered` says that
nothing beyond `counter` passed, so cleared slots stand for words in which
nothing has passed yet. In the window the ring then decides exactly as the ideal
window does.

*Initiator.* When the initiator rests it clears `handshakeBegin`, so `AwaitWatched`
needs to know that the completion it acted on brought a pair (`CompletionGood`)
and that a waiting `RoutineNonce` was told of it (`PairSignalled`).
`InitiationsSpaced` needs `TimeoutRuns`: while `RekeyTimeout` is not over the
initiator sits in one of the three places that wait for it.

*Peer timers.* `Watched` says who will end the quiet, unless `broken` or `lapsed`: the
persistent timer, which has no more left than the interval allows, or a step that is due
now (`WillSend`). For that the timer's keep-alive must not wait for a pair nobody asked
for (`IdleAsks`), and the timer must be fresh while the initiator waits (`AwaitFresh`).
`Answered`: a response has just been heard when it is worked on and when the initiator
takes its completion, so that the initiator is not resting on an old answer when the
app is told.
`SilenceKnown` bounds the silence by the quiet plus the rekey age: the last packet
sent under an older pair has asked for a new one.

*Gate.* `RateInv`: the ideal bucket is at most one packet behind the entry in the
table, and full when an entry is old enough to be collected. `MessageInv`: every
cookie on a message comes from a secret whose reply went out, or is the zero one.
`CookieInv`: the generator's clock is never ahead of the checker's for the cookie in
force.

*Host.* `LookupInv`: while all is undisturbed, each word of `qtMsg` that a goroutine
has written is the record's. `ConnInv`: unused sockets have no readers, so that the
reader counts of a new connection start at zero. `ConfigInv` and `StartInv` follow
the peer through the configuration: with a private key it is made by `NewPeer`
before the endpoint is set, and it is there until the app returns. `SentOnce`
counts: what is in `msgChan` and what `GetDomain` has received are at most as many
as the goroutines past their send, so that whoever is still at it finds room once
`GetDomain` has received.

Only model-checked are the two liveness properties, `SenderProceeds` and
`InitiatorProceeds`: they need fairness, which is out of the prover's reach.
`OutboundSenderServed` is the safety half of the first. The four violations are
counterexamples and need no proof.

## Not modelled

* Cryptographic primitives (`noise_helpers.go`, `xchacha20.go`): symbolic in `Session`
  and `Gate`.
* The routing trie: the program inserts one prefix, 0.0.0.0/0, so that the trie is
  empty or one leaf, and the code that splits and merges nodes is never reached.
* `tai64.go`: a conversion of the clock; initiations are seconds apart.
* The status pipe, the descriptor that is passed to the app, the TUN device, logging
  and packet contents: input and output without state of their own. `ping.go` and `domain.go` are commented out.
* `monitorWifi`, a fourth goroutine that calls `changeNetwork`, and that reads
  `net.conn` without the lock and without a `recover`. It is compiled in and started
  (`device.go:147`) but returns at once unless the app sets `IsiOS` (`main.go:160`):
  `UdpConn` and `Host` are about a process in which that flag is not set.
* The stop signal in the selects of the routines: `Host` shows that no stop channel is
  ever closed. `closeUDPConn` is therefore never reached.
* A second session of the same process, and goroutines of the first that go on
  beside it.
* The zero-secret error of `CreateMessageInitiation` in `Session`: the secret is
  computed once, in `NewPeer`.
* `zeroAllKeys` after an initiation that is never answered: `TimerEphemeralKeyCreated`
  is called when a response was created or consumed, although its comment
  (`timers.go:134`) lists `CreateMessageInitiation`; `Initiator` and `Session` let the timer fire at any moment.

## Plan

Every safety property of the passing runs is proved. What is left:

* an abstract specification of the key-pair slots and of the index table, refined
  by `Session`, from which `CurrentAdvances` and `NoIndexLeak` would follow;
* the inbound counterpart of `LossyFifo`: with one connection the receiver delivers
  in the order of arrival;
* the exact conditions under which the four disagreements above cannot happen, as
  invariants with their proofs (`session_mixed_pair` has one in `UnracedKeysAgree`,
  `initiator_await` one in `AwaitWatched`).

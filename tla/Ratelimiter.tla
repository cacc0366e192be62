------------------------------ MODULE Ratelimiter ------------------------------
(***************************************************************************)
(* The rate limiter of ratelimiter.go for one source address: the device's *)
(* socket has one remote end.  Allow, called by RoutineHandshake only,     *)
(* looks the entry up and uses it in two sections; RoutineGarbageCollector *)
(* may delete the entry in between, so that Allow goes on with an entry    *)
(* that is in no table any more.                                           *)
(*                                                                         *)
(* Time is counted in the unit of the tokens (nanoseconds in the code).    *)
(* An entry keeps its age instead of lastTime, counted up to the first     *)
(* value that makes it collectable; a full bucket needs less.              *)
(***************************************************************************)
EXTENDS Integers

CONSTANTS
    PacketCost,         \* RatelimiterPacketCost: 50 ms
    MaxTokens,          \* RatelimiterMaxTokens: 250 ms
    GarbageCollectTime  \* RatelimiterGarbageCollectTime: 1 s

ASSUME RatelimiterAssumption ==
    /\ PacketCost \in Nat \ {0}
    /\ MaxTokens \in Nat
    /\ MaxTokens > PacketCost
    /\ GarbageCollectTime \in Nat
    /\ GarbageCollectTime >= MaxTokens + PacketCost

VARIABLES
    table,      \* the entry of the address in the table
    allow,      \* where Allow is: not called, without or with an entry
    orphan,     \* the entry Allow holds after the collector deleted it
    bucket      \* history: a bucket that pays for every packet allowed

rateVars == <<table, allow, orphan, bucket>>

MaxAge == GarbageCollectTime + 1

Capped(n, limit) == IF n > limit THEN limit ELSE n

Entry   == [tokens : 0..MaxTokens, age : 0..MaxAge]
NoEntry == [tokens |-> 0, age |-> -1]

RateTypeOK ==
    /\ table \in Entry \cup {NoEntry}
    /\ allow \in {"off", "make", "use"}
    /\ orphan \in Entry \cup {NoEntry}
    /\ bucket \in Int

RateInit ==
    /\ table = NoEntry
    /\ allow = "off"
    /\ orphan = NoEntry
    /\ bucket = MaxTokens

-----------------------------------------------------------------------------
(* Allow *)

LookupEntry ==
    /\ allow = "off"
    /\ allow' = IF table = NoEntry THEN "make" ELSE "use"
    /\ UNCHANGED <<table, orphan, bucket>>

\* The first packet always passes.
MakeEntry ==
    /\ allow = "make"
    /\ table' = [tokens |-> MaxTokens - PacketCost, age |-> 0]
    /\ allow' = "off"
    /\ bucket' = bucket - PacketCost
    /\ UNCHANGED orphan

Refilled(e) == Capped(e.tokens + e.age, MaxTokens)

Enough(t) == t > PacketCost

\* tokens are added for the time since lastTime; the entry is written where
\* it is, in the table or outside.
UseEntry(verdict) ==
    /\ allow = "use"
    /\ LET held   == IF orphan = NoEntry THEN table ELSE orphan
           tokens == Refilled(held)
           cost   == IF verdict THEN PacketCost ELSE 0
           used   == [tokens |-> tokens - cost, age |-> 0]
       IN  /\ verdict = Enough(tokens)
           /\ table' = IF orphan = NoEntry THEN used ELSE table
           /\ bucket' = bucket - cost
    /\ orphan' = NoEntry
    /\ allow' = "off"

-----------------------------------------------------------------------------
(* RoutineGarbageCollector, and time *)

\* Faulty: entries are collected whatever their age.
CollectAnyAge == table # NoEntry

Collectable == table # NoEntry /\ table.age > GarbageCollectTime

GarbageCollectEntries ==
    /\ Collectable
    /\ table' = NoEntry
    /\ orphan' = IF allow = "use" THEN table ELSE orphan
    /\ UNCHANGED <<allow, bucket>>

Older(e) == IF e = NoEntry THEN e ELSE [e EXCEPT !.age = Capped(@ + 1, MaxAge)]

RateTick ==
    /\ table' = Older(table)
    /\ orphan' = Older(orphan)
    /\ bucket' = Capped(bucket + 1, MaxTokens)
    /\ UNCHANGED allow

-----------------------------------------------------------------------------
(* Properties *)

\* Although Allow may lose its entry to the collector between its two
\* sections (ratelimiter.go:115), the packets it lets pass never exceed the
\* rate and the burst by as much as one packet: a bucket that pays for all of
\* them is never overdrawn by the cost of one.
RateBounded == bucket > -PacketCost

=============================================================================

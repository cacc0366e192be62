---------------------------- MODULE ReplayFilter ----------------------------
(***************************************************************************)
(* replay.go: the sliding window over the nonces of one key pair, a ring   *)
(* of BacktrackWords machine words of WordBits bits each, of which the     *)
(* words up to that of the highest counter are in use.  A word is the set  *)
(* of its one bits.  RoutineSequentialReceiver is the only caller.         *)
(***************************************************************************)
EXTENDS Integers

CONSTANTS
    WordBits,             \* CounterRedundantBits: 64, or 32
    BacktrackWords,       \* words of the ring
    CounterWindowSize,    \* CounterBitsTotal - CounterRedundantBits
    RejectAfterMessages,  \* counters from here on are refused
    MaxCounter            \* bound: the largest counter a message carries

\* The window and one word more fit the ring: 1984 <= 255 * 64.
ASSUME WindowAssumption ==
    /\ WordBits \in Nat \ {0} /\ BacktrackWords \in Nat \ {0}
    /\ CounterWindowSize \in Nat /\ RejectAfterMessages \in Nat /\ MaxCounter \in Nat
    /\ CounterWindowSize <= (BacktrackWords - 1) * WordBits

VARIABLES
    counter,    \* ReplayFilter.counter
    backtrack,  \* ReplayFilter.backtrack
    verdict,    \* history: the last call and what it returned
    passed      \* history: how often it returned true for each counter

vars == <<counter, backtrack, verdict, passed>>

Counters == 0..MaxCounter
Ring == 0..BacktrackWords - 1
Bits == 0..WordBits - 1

WordOf(c) == c \div WordBits

\* Faulty: the mask is one bit too wide.
BitOfUnmasked(c) == c % (WordBits + 1)

BitOf(c) == c % WordBits

\* Faulty: one word too few is cleared when the window moves.
minUint64Short(a, b) == IF a > b THEN b - 1 ELSE IF a > 0 THEN a - 1 ELSE a

minUint64(a, b) == IF a > b THEN b ELSE a

Init ==
    /\ counter = 0
    /\ backtrack = [w \in Ring |-> {}]
    /\ verdict = [counter |-> -1, ok |-> FALSE]
    /\ passed = [c \in Counters |-> 0]

\* The words the window moves over are cleared, at most once around the ring.
Cleared(c) ==
    LET diff == minUint64(WordOf(c) - WordOf(counter), BacktrackWords) IN
    {(WordOf(counter) + i) % BacktrackWords : i \in 1..diff}

Return(c, ok) ==
    /\ verdict' = [counter |-> c, ok |-> ok]
    /\ passed' = [passed EXCEPT ![c] = IF ok THEN @ + 1 ELSE @]

\* Faulty: the bit is tested and not set.
CheckOnly(c, bt) ==
    LET w == WordOf(c) % BacktrackWords IN
    /\ backtrack' = bt
    /\ Return(c, BitOf(c) \notin bt[w])

\* Sets the counter's bit in the ring bt; answers whether it was clear.
CheckAndSet(c, bt) ==
    LET w == WordOf(c) % BacktrackWords IN
    /\ backtrack' = [bt EXCEPT ![w] = @ \cup {BitOf(c)}]
    /\ Return(c, BitOf(c) \notin bt[w])

Advance(c) ==
    /\ c < RejectAfterMessages
    /\ c > counter
    /\ counter' = c
    /\ CheckAndSet(c, [w \in Ring |-> IF w \in Cleared(c) THEN {} ELSE backtrack[w]])

\* Faulty: the window is one word wider than the ring supports.
WithinTooWide(c) ==
    /\ c < RejectAfterMessages
    /\ c <= counter
    /\ counter - c <= CounterWindowSize + WordBits
    /\ UNCHANGED counter
    /\ CheckAndSet(c, backtrack)

Within(c) ==
    /\ c < RejectAfterMessages
    /\ c <= counter
    /\ counter - c <= CounterWindowSize
    /\ UNCHANGED counter
    /\ CheckAndSet(c, backtrack)

Reject(c) ==
    /\ c >= RejectAfterMessages \/ (c <= counter /\ counter - c > CounterWindowSize)
    /\ Return(c, FALSE)
    /\ UNCHANGED <<counter, backtrack>>

ValidateCounter(c) == Advance(c) \/ Within(c) \/ Reject(c)

Next == \E c \in Counters : ValidateCounter(c)

Spec == Init /\ [][Next]_vars

-----------------------------------------------------------------------------
(* Properties *)

\* Every variable has its type.
TypeOK ==
    /\ counter \in Counters
    /\ backtrack \in [Ring -> SUBSET Bits]
    /\ verdict \in [counter : Counters \cup {-1}, ok : BOOLEAN]
    /\ passed \in [Counters -> Nat]

\* The ring is exact on every word it covers: the bit of a counter whose word
\* is one of the last BacktrackWords is set just when ValidateCounter returned
\* true for it, although a slot stands for many words in turn.
RingExact ==
    \A c \in Counters :
        /\ WordOf(c) <= WordOf(counter)
        /\ WordOf(counter) < WordOf(c) + BacktrackWords
        => (BitOf(c) \in backtrack[WordOf(c) % BacktrackWords] <=> passed[c] > 0)

\* The highest counter that passed is remembered, and is below the limit.
HighestRemembered ==
    /\ \A c \in Counters : passed[c] > 0 => c <= counter /\ c < RejectAfterMessages
    /\ counter # 0 => passed[counter] > 0

\* No counter passes twice: a transport message delivered again is discarded
\* by RoutineSequentialReceiver, however long the history between the two.
NoReplay == \A c \in Counters : passed[c] <= 1

\* The inductive invariant.
Inv == TypeOK /\ RingExact /\ HighestRemembered /\ NoReplay

\* The filter is the ideal window: beyond refusing replays it lets every fresh
\* counter pass that is new or at most CounterWindowSize late.
Ideal == INSTANCE ReplayWindow
         WITH Limit <- RejectAfterMessages, Window <- CounterWindowSize, highest <- counter

IdealWindow == Ideal!Spec

=============================================================================

------------------------- MODULE ReplayFilterProofs -------------------------
(***************************************************************************)
(* ValidateCounter (replay.go) proved for every word size, ring size, window *)
(* and limit that satisfy WindowAssumption, 64-bit words and 1984 counters *)
(* included.  The argument: two words a full ring apart share a slot and no *)
(* closer ones do (SameSlot); moving the window clears exactly the slots of *)
(* the words it moves over (ClearedExact); so the ring stays exact on the  *)
(* words it covers, the window lies within those (WindowCovered), and the  *)
(* bit test answers whether the counter has passed before.                 *)
(***************************************************************************)
EXTENDS ReplayFilter, TLAPS

\* Division with remainder.
LEMMA DivMod ==
    ASSUME NEW a \in Nat, NEW d \in Nat \ {0}
    PROVE  /\ a \div d \in Nat
           /\ a % d \in 0..d - 1
           /\ a = d * (a \div d) + (a % d)
  BY SMTT(30)

\* A product grows with its factor.
LEMMA ProductMonotone ==
    ASSUME NEW d \in Nat \ {0}, NEW x \in Nat, NEW y \in Nat, x < y
    PROVE  d * x + d <= d * y
<1>1. PICK k \in Nat : y = x + 1 + k
  <2>1. y - x - 1 \in Nat /\ y = x + 1 + (y - x - 1)
    OBVIOUS
  <2> QED BY <2>1
<1>2. d * y = d * x + d + d * k
  BY <1>1, SMTT(30)
<1>3. d * k >= 0
  BY SMTT(30)
<1> QED BY <1>2, <1>3, SMTT(30)

\* A larger counter does not have a smaller word number.
LEMMA DivMonotone ==
    ASSUME NEW d \in Nat \ {0}, NEW a \in Nat, NEW b \in Nat, a <= b
    PROVE  a \div d <= b \div d
<1> DEFINE p == a \div d
           q == b \div d
<1>1. p \in Nat /\ q \in Nat /\ a = d * p + (a % d) /\ b = d * q + (b % d)
      /\ a % d \in 0..d-1 /\ b % d \in 0..d-1
  BY DivMod
<1>2. SUFFICES ASSUME q < p PROVE FALSE
  BY <1>1
<1>3. d * q + d <= d * p
  BY <1>1, <1>2, ProductMonotone
<1>4. d * q \in Int /\ d * p \in Int
  BY <1>1, SMTT(30)
<1> HIDE DEF p, q
<1> QED BY <1>1, <1>3, <1>4

\* Two words less than a ring apart that share a slot are one word.
LEMMA SameSlot ==
    ASSUME NEW d \in Nat \ {0}, NEW x \in Nat, NEW y \in Nat, x % d = y % d, x < y
    PROVE  x + d <= y
<1> DEFINE p == x \div d
           q == y \div d
<1>1. p \in Nat /\ q \in Nat /\ x = d * p + (x % d) /\ y = d * q + (y % d)
      /\ x % d \in 0..d-1 /\ y % d \in 0..d-1
  BY DivMod
<1>2. d * q \in Int /\ d * p \in Int
  BY <1>1, SMTT(30)
<1> HIDE DEF p, q
<1>3. p < q
  <2>1. CASE q = p
    BY <2>1, <1>1, <1>2
  <2>2. CASE q < p
    <3>1. d * q + d <= d * p
      BY <1>1, <2>2, ProductMonotone
    <3> QED BY <1>1, <1>2, <3>1
  <2> QED BY <2>1, <2>2, <1>1
<1>4. d * p + d <= d * q
  BY <1>1, <1>3, ProductMonotone
<1> QED BY <1>1, <1>2, <1>4

\* Word and bit together determine the counter.
LEMMA DivModInjective ==
    ASSUME NEW d \in Nat \ {0}, NEW a \in Nat, NEW b \in Nat,
           a \div d = b \div d, a % d = b % d
    PROVE  a = b
  BY DivMod

\* A counter within the window lies in one of the last words of the ring.
LEMMA WindowCovered ==
    ASSUME NEW d \in Nat \ {0}, NEW n \in Nat \ {0}, NEW c \in Nat, NEW k \in Nat,
           k <= c + (n - 1) * d
    PROVE  k \div d < c \div d + n
<1> DEFINE p == c \div d
           q == k \div d
<1>1. p \in Nat /\ q \in Nat /\ c = d * p + (c % d) /\ k = d * q + (k % d)
      /\ c % d \in 0..d-1 /\ k % d \in 0..d-1
  BY DivMod
<1> HIDE DEF p, q
<1>2. SUFFICES ASSUME p + n <= q PROVE FALSE
  BY <1>1 DEF p, q
<1>3. d * (p + n) <= d * q
  <2>1. CASE p + n = q
    BY <2>1, <1>1, SMTT(30)
  <2>2. CASE p + n < q
    BY <2>2, <1>1, ProductMonotone, SMTT(30)
  <2> QED BY <2>1, <2>2, <1>2, <1>1
<1>4. d * (p + n) = d * p + d + (n - 1) * d
  BY <1>1, SMTT(30)
<1>5. d * p \in Int /\ d * q \in Int /\ (n - 1) * d \in Int
  BY <1>1, SMTT(30)
<1> QED BY <1>1, <1>3, <1>4, <1>5

\* Of several consecutive words no more than a ring long, one has a given slot.
LEMMA ModUnique ==
    ASSUME NEW d \in Nat \ {0}, NEW a \in Nat, NEW k \in Nat, NEW r \in 0..d - 1,
           a = d * k + r
    PROVE  a % d = r
<1> DEFINE q == a \div d
<1>1. q \in Nat /\ a % d \in 0..d - 1 /\ a = d * q + (a % d)
  BY DivMod
<1>2. d * q \in Int /\ d * k \in Int
  BY <1>1, SMTT(30)
<1> HIDE DEF q
<1>3. CASE q < k
  BY <1>1, <1>2, <1>3, ProductMonotone
<1>4. CASE k < q
  BY <1>1, <1>2, <1>4, ProductMonotone
<1>5. CASE q = k
  BY <1>1, <1>2, <1>5
<1> QED BY <1>1, <1>3, <1>4, <1>5

\* Moving on by a ring or more reaches every slot.
LEMMA SlotReached ==
    ASSUME NEW d \in Nat \ {0}, NEW x \in Nat, NEW y \in Nat
    PROVE  \E j \in 1..d : (x + j) % d = y % d
<1> DEFINE a == x % d
           b == y % d
           k == x \div d
<1>1. k \in Nat /\ a \in 0..d - 1 /\ b \in 0..d - 1 /\ x = d * k + a
  BY DivMod
<1>2. d * k \in Int /\ d * (k + 1) = d * k + d
  BY <1>1, SMTT(30)
<1> HIDE DEF a, b, k
<1>3. CASE a < b
  <2>1. x + (b - a) = d * k + b /\ b - a \in 1..d /\ x + (b - a) \in Nat
    BY <1>1, <1>2, <1>3
  <2>2. (x + (b - a)) % d = b
    BY <1>1, <2>1, ModUnique
  <2> QED BY <2>1, <2>2 DEF b
<1>4. CASE b <= a
  <2>1. x + (b - a + d) = d * (k + 1) + b /\ b - a + d \in 1..d /\ x + (b - a + d) \in Nat
    BY <1>1, <1>2, <1>4
  <2>2. (x + (b - a + d)) % d = b
    BY <1>1, <2>1, ModUnique
  <2> QED BY <2>1, <2>2 DEF b
<1> QED BY <1>1, <1>3, <1>4

-----------------------------------------------------------------------------
Slot(w) == w % BacktrackWords

Covered(d, h) == WordOf(d) <= WordOf(h) /\ WordOf(h) < WordOf(d) + BacktrackWords

ExactFor(bt, h) ==
    \A d \in Counters :
        Covered(d, h) => (BitOf(d) \in bt[Slot(WordOf(d))] <=> passed[d] > 0)

\* WordOf and BitOf (replay.go's >> and &) are word numbers and bit numbers.
LEMMA WordFacts ==
    ASSUME NEW c \in Counters
    PROVE  WordOf(c) \in Nat /\ BitOf(c) \in Bits
<1>1. c \in Nat /\ WordBits \in Nat \ {0}
  BY WindowAssumption DEF Counters
<1>2. c \div WordBits \in Nat /\ c % WordBits \in 0..WordBits - 1
  BY <1>1, DivMod
<1> QED BY <1>2 DEF WordOf, BitOf, Bits

\* A word's slot is an index of the ring.
LEMMA SlotFacts ==
    ASSUME NEW w \in Nat
    PROVE  Slot(w) \in Ring
  BY WindowAssumption, DivMod DEF Slot, Ring

\* DivMonotone for counters.
LEMMA WordMonotone ==
    ASSUME NEW c \in Counters, NEW d \in Counters, c <= d
    PROVE  WordOf(c) <= WordOf(d)
  BY WindowAssumption, DivMonotone DEF Counters, WordOf

\* SameSlot for the ring of the filter.
LEMMA SlotsApart ==
    ASSUME NEW x \in Nat, NEW y \in Nat, Slot(x) = Slot(y), x < y
    PROVE  x + BacktrackWords <= y
  BY WindowAssumption, SameSlot DEF Slot

\* Two counters of covered words with the same slot and bit are equal.
LEMMA PositionUnique ==
    ASSUME NEW c \in Counters, NEW d \in Counters,
           WordOf(c) = WordOf(d), BitOf(c) = BitOf(d)
    PROVE  c = d
<1>1. c \in Nat /\ d \in Nat /\ WordBits \in Nat \ {0}
  BY WindowAssumption DEF Counters
<1>2. c \div WordBits = d \div WordBits /\ c % WordBits = d % WordBits
  BY DEF WordOf, BitOf
<1> QED BY <1>1, <1>2, DivModInjective

\* WindowCovered for the counters ValidateCounter does not call too late.
LEMMA WithinCovered ==
    ASSUME NEW c \in Counters, NEW k \in Counters, c <= k, k - c <= CounterWindowSize
    PROVE  Covered(c, k)
<1>1. k <= c + (BacktrackWords - 1) * WordBits
  <2>1. (BacktrackWords - 1) * WordBits \in Int
    BY WindowAssumption, SMTT(30)
  <2> QED BY <2>1, WindowAssumption DEF Counters
<1>2. WordOf(k) < WordOf(c) + BacktrackWords
  BY <1>1, WindowAssumption, WindowCovered DEF Counters, WordOf
<1> QED BY <1>2, WordMonotone DEF Covered

\* The bit test and set at the end of ValidateCounter keep the ring exact.
LEMMA CheckAndSetExact ==
    ASSUME TypeOK, NEW c \in Counters, NEW h \in Counters, Covered(c, h),
           NEW bt \in [Ring -> SUBSET Bits], ExactFor(bt, h), NoReplay,
           CheckAndSet(c, bt)
    PROVE  /\ backtrack' \in [Ring -> SUBSET Bits]
           /\ verdict' = [counter |-> c, ok |-> passed[c] = 0]
           /\ passed' = [passed EXCEPT ![c] = 1]
           /\ \A d \in Counters :
                 Covered(d, h) => (BitOf(d) \in backtrack'[Slot(WordOf(d))] <=> passed'[d] > 0)
<1> DEFINE w == Slot(WordOf(c))
<1>1. w \in Ring /\ BitOf(c) \in Bits
  BY WordFacts, SlotFacts
<1>2. backtrack' = [bt EXCEPT ![w] = @ \cup {BitOf(c)}]
  BY DEF CheckAndSet, Slot
<1>3. BitOf(c) \notin bt[w] <=> passed[c] = 0
  BY DEF ExactFor, TypeOK
<1>4. passed[c] \in {0, 1}
  BY DEF TypeOK, NoReplay
<1>5. verdict' = [counter |-> c, ok |-> passed[c] = 0]
  BY <1>3 DEF CheckAndSet, Return, Slot
<1>6. passed' = [passed EXCEPT ![c] = 1]
  <2>1. passed' = [passed EXCEPT ![c] = IF BitOf(c) \notin bt[w] THEN passed[c] + 1 ELSE passed[c]]
    BY DEF CheckAndSet, Return, Slot
  <2>2. (IF BitOf(c) \notin bt[w] THEN passed[c] + 1 ELSE passed[c]) = 1
    BY <1>3, <1>4
  <2> QED BY <2>1, <2>2
<1>7. ASSUME NEW d \in Counters, Covered(d, h)
      PROVE  BitOf(d) \in backtrack'[Slot(WordOf(d))] <=> passed'[d] > 0
  <2>1. Slot(WordOf(d)) \in Ring
    BY WordFacts, SlotFacts
  <2>2. CASE d = c
    BY <1>1, <1>2, <1>6, <2>2 DEF TypeOK
  <2>3. CASE d # c /\ Slot(WordOf(d)) # w
    BY <1>1, <1>2, <1>6, <1>7, <2>1, <2>3 DEF TypeOK, ExactFor
  <2>4. CASE d # c /\ Slot(WordOf(d)) = w
    <3>1. WordOf(d) \in Nat /\ WordOf(c) \in Nat /\ WordOf(h) \in Nat
      BY WordFacts
    <3>2. WordOf(d) = WordOf(c)
      BY <1>7, <2>4, <3>1, SlotsApart, WindowAssumption DEF Covered
    <3>3. BitOf(d) # BitOf(c)
      BY <2>4, <3>2, PositionUnique
    <3> QED BY <1>1, <1>2, <1>6, <1>7, <2>1, <2>4, <3>3 DEF TypeOK, ExactFor
  <2> QED BY <2>2, <2>3, <2>4
<1>8. backtrack' \in [Ring -> SUBSET Bits]
  BY <1>1, <1>2
<1> QED BY <1>5, <1>6, <1>7, <1>8

\* The clearing loop of ValidateCounter makes the ring exact for the new position.
LEMMA ClearedExact ==
    ASSUME Inv, NEW c \in Counters, c > counter
    PROVE  ExactFor([w \in Ring |-> IF w \in Cleared(c) THEN {} ELSE backtrack[w]], c)
<1> DEFINE bt == [w \in Ring |-> IF w \in Cleared(c) THEN {} ELSE backtrack[w]]
           cur == WordOf(counter)
           diff == minUint64(WordOf(c) - cur, BacktrackWords)
<1>1. counter \in Counters /\ cur \in Nat /\ WordOf(c) \in Nat /\ cur <= WordOf(c)
  BY WordFacts, WordMonotone DEF Inv, TypeOK, Counters
<1>2. diff \in Nat /\ diff <= WordOf(c) - cur
      /\ (diff = WordOf(c) - cur \/ diff = BacktrackWords)
  BY <1>1, WindowAssumption DEF minUint64
<1>3. \A w : w \in Cleared(c) <=> \E i \in 1..diff : w = Slot(cur + i)
  BY DEF Cleared, Slot
<1> HIDE DEF diff, cur
<1>4. ASSUME NEW d \in Counters, Covered(d, c)
      PROVE  BitOf(d) \in bt[Slot(WordOf(d))] <=> passed[d] > 0
  <2>1. WordOf(d) \in Nat /\ Slot(WordOf(d)) \in Ring
    BY WordFacts, SlotFacts
  <2>2. CASE WordOf(d) <= cur
    <3>1. Slot(WordOf(d)) \notin Cleared(c)
      <4>1. SUFFICES ASSUME NEW i \in 1..diff, Slot(WordOf(d)) = Slot(cur + i)
                     PROVE  FALSE
        BY <1>3
      <4>2. cur + i \in Nat /\ WordOf(d) < cur + i
        BY <1>1, <1>2, <2>1, <2>2
      <4>3. WordOf(d) + BacktrackWords <= cur + i
        BY <2>1, <4>1, <4>2, SlotsApart
      <4> QED BY <1>1, <1>2, <1>4, <2>1, <4>3, WindowAssumption DEF Covered
    <3>2. Covered(d, counter)
      BY <1>1, <1>4, <2>1, <2>2, WindowAssumption DEF Covered, cur
    <3> QED BY <2>1, <3>1, <3>2 DEF Inv, RingExact, Covered, Slot
  <2>3. CASE WordOf(d) > cur
    <3>1. ~(passed[d] > 0)
      BY <1>1, <2>1, <2>3, WordMonotone DEF Inv, HighestRemembered, cur
    <3>2. Slot(WordOf(d)) \in Cleared(c)
      <4>1. CASE diff = WordOf(c) - cur
        <5>1. WordOf(d) - cur \in 1..diff /\ cur + (WordOf(d) - cur) = WordOf(d)
          BY <1>1, <1>4, <2>1, <2>3, <4>1 DEF Covered
        <5> QED BY <1>3, <5>1
      <4>2. CASE diff = BacktrackWords
        <5>1. \E j \in 1..BacktrackWords : Slot(cur + j) = Slot(WordOf(d))
          BY <1>1, <2>1, WindowAssumption, SlotReached DEF Slot
        <5> QED BY <1>3, <4>2, <5>1
      <4> QED BY <1>2, <4>1, <4>2
    <3> QED BY <2>1, <3>1, <3>2
  <2> QED BY <1>1, <2>1, <2>2, <2>3
<1> QED BY <1>4 DEF ExactFor

\* A counter above the highest: Inv is kept and the ideal window makes the same step.
LEMMA AdvanceStep ==
    ASSUME Inv, NEW c \in Counters, Advance(c)
    PROVE  /\ Inv'
           /\ Ideal!Validate(c)
<1> DEFINE bt == [w \in Ring |-> IF w \in Cleared(c) THEN {} ELSE backtrack[w]]
<1>1. c < RejectAfterMessages /\ c > counter /\ counter' = c /\ CheckAndSet(c, bt)
  BY DEF Advance
<1>2. counter \in Counters /\ c \in Nat /\ counter \in Nat
  BY DEF Inv, TypeOK, Counters
<1>3. passed[c] = 0
  BY <1>1, <1>2 DEF Inv, HighestRemembered, TypeOK
<1>4. bt \in [Ring -> SUBSET Bits] /\ ExactFor(bt, c)
  BY <1>1, ClearedExact DEF Inv, TypeOK
<1>5. Covered(c, c)
  BY WordFacts, WindowAssumption DEF Covered
<1> HIDE DEF bt
<1>6. /\ backtrack' \in [Ring -> SUBSET Bits]
      /\ verdict' = [counter |-> c, ok |-> passed[c] = 0]
      /\ passed' = [passed EXCEPT ![c] = 1]
      /\ \A d \in Counters :
            Covered(d, c) => (BitOf(d) \in backtrack'[Slot(WordOf(d))] <=> passed'[d] > 0)
  BY <1>1, <1>4, <1>5, CheckAndSetExact DEF Inv
<1>7. TypeOK'
  BY <1>1, <1>6 DEF Inv, TypeOK
<1>8. RingExact'
  BY <1>1, <1>6 DEF RingExact, Covered, Slot
<1>9. HighestRemembered'
  BY <1>1, <1>2, <1>6 DEF Inv, HighestRemembered, TypeOK, Counters
<1>10. NoReplay'
  BY <1>6 DEF Inv, NoReplay, TypeOK
<1>11. Ideal!Validate(c)
  BY <1>1, <1>2, <1>3, <1>6 DEF Ideal!Validate, Ideal!Passes, Ideal!InWindow
<1> QED BY <1>7, <1>8, <1>9, <1>10, <1>11 DEF Inv

\* A counter in the window: Inv is kept and the ideal window makes the same step.
LEMMA WithinStep ==
    ASSUME Inv, NEW c \in Counters, Within(c)
    PROVE  /\ Inv'
           /\ Ideal!Validate(c)
<1>1. /\ c < RejectAfterMessages /\ c <= counter /\ counter - c <= CounterWindowSize
      /\ counter' = counter /\ CheckAndSet(c, backtrack)
  BY DEF Within
<1>2. counter \in Counters /\ c \in Nat /\ counter \in Nat
  BY DEF Inv, TypeOK, Counters
<1>3. ExactFor(backtrack, counter)
  BY DEF Inv, RingExact, ExactFor, Covered, Slot
<1>4. Covered(c, counter)
  BY <1>1, <1>2, WithinCovered
<1>5. /\ backtrack' \in [Ring -> SUBSET Bits]
      /\ verdict' = [counter |-> c, ok |-> passed[c] = 0]
      /\ passed' = [passed EXCEPT ![c] = 1]
      /\ \A d \in Counters :
            Covered(d, counter) =>
               (BitOf(d) \in backtrack'[Slot(WordOf(d))] <=> passed'[d] > 0)
  BY <1>1, <1>2, <1>3, <1>4, CheckAndSetExact DEF Inv, TypeOK
<1>6. TypeOK'
  BY <1>1, <1>5 DEF Inv, TypeOK
<1>7. RingExact'
  BY <1>1, <1>5 DEF RingExact, Covered, Slot
<1>8. HighestRemembered'
  BY <1>1, <1>2, <1>5 DEF Inv, HighestRemembered, TypeOK, Counters
<1>9. NoReplay'
  BY <1>5 DEF Inv, NoReplay, TypeOK
<1>10. Ideal!Validate(c)
  <2>1. passed[c] \in {0, 1}
    BY DEF Inv, TypeOK, NoReplay
  <2>2. CASE passed[c] = 0
    <3>1. Ideal!Passes(c) = TRUE
      BY <1>1, <1>2, <2>2 DEF Ideal!Passes, Ideal!InWindow
    <3>2. verdict' = [counter |-> c, ok |-> TRUE]
      BY <1>5, <2>2
    <3>3. counter' = IF c > counter THEN c ELSE counter
      BY <1>1, <1>2
    <3>4. passed' = [passed EXCEPT ![c] = 1]
      BY <1>5
    <3> QED BY <3>1, <3>2, <3>3, <3>4 DEF Ideal!Validate
  <2>3. CASE passed[c] = 1
    <3>1. Ideal!Passes(c) = FALSE
      BY <2>3 DEF Ideal!Passes
    <3>2. verdict' = [counter |-> c, ok |-> FALSE]
      <4>1. (passed[c] = 0) = FALSE
        BY <2>3
      <4> QED BY <1>5, <4>1
    <3>3. passed' = passed
      BY <1>5, <2>3 DEF Inv, TypeOK
    <3> QED BY <1>1, <3>1, <3>2, <3>3 DEF Ideal!Validate
  <2> QED BY <2>1, <2>2, <2>3
<1> QED BY <1>6, <1>7, <1>8, <1>9, <1>10 DEF Inv

\* A counter at the limit or too late: likewise.
LEMMA RejectStep ==
    ASSUME Inv, NEW c \in Counters, Reject(c)
    PROVE  /\ Inv'
           /\ Ideal!Validate(c)
<1>1. /\ c >= RejectAfterMessages \/ (c <= counter /\ counter - c > CounterWindowSize)
      /\ verdict' = [counter |-> c, ok |-> FALSE]
      /\ passed' = [passed EXCEPT ![c] = passed[c]]
      /\ counter' = counter /\ backtrack' = backtrack
  BY DEF Reject, Return
<1>2. counter \in Nat /\ c \in Nat /\ passed' = passed
  BY <1>1 DEF Inv, TypeOK, Counters
<1>3. Inv'
  BY <1>1, <1>2 DEF Inv, TypeOK, RingExact, HighestRemembered, NoReplay
<1>4. Ideal!Passes(c) = FALSE
  BY <1>1, <1>2, WindowAssumption DEF Ideal!Passes, Ideal!InWindow
<1> QED BY <1>1, <1>2, <1>3, <1>4 DEF Ideal!Validate

\* ReplayFilter.Init gives Inv.
LEMMA InitInv == Init => Inv
<1> SUFFICES ASSUME Init PROVE Inv
  OBVIOUS
<1>1. TypeOK
  BY WindowAssumption DEF Init, TypeOK, Counters
<1>2. RingExact
  <2>1. \A c \in Counters : WordOf(c) % BacktrackWords \in Ring
    BY WordFacts, SlotFacts DEF Slot
  <2> QED BY <2>1 DEF Init, RingExact
<1> QED BY <1>1, <1>2 DEF Init, Inv, HighestRemembered, NoReplay

\* Every call of ValidateCounter keeps Inv and is a step of the ideal window.
LEMMA NextInv ==
    ASSUME Inv, [Next]_vars
    PROVE  Inv' /\ [Ideal!Next]_(Ideal!vars)
<1>1. CASE Next
  <2>1. PICK c \in Counters : ValidateCounter(c)
    BY <1>1 DEF Next
  <2>2. Inv' /\ Ideal!Validate(c)
    BY <2>1, AdvanceStep, WithinStep, RejectStep DEF ValidateCounter
  <2> QED BY <2>1, <2>2 DEF Ideal!Next
<1>2. CASE UNCHANGED vars
  BY <1>2 DEF vars, Inv, TypeOK, RingExact, HighestRemembered, NoReplay, Ideal!vars
<1> QED BY <1>1, <1>2

\* The inductive invariant of ValidateCounter holds at all times.
THEOREM FilterInvariant == Spec => []Inv
  BY InitInv, NextInv, PTL DEF Spec

\* counter and the backtrack words keep their types: no slot or bit out of range.
THEOREM FilterTypeOK == Spec => []TypeOK
<1>1. Inv => TypeOK
  BY DEF Inv
<1> QED BY <1>1, FilterInvariant, PTL

\* A bit of the backtrack ring is set just when ValidateCounter let that counter pass, on every
\* word the ring covers, for every ring and word size.
THEOREM FilterRingExact == Spec => []RingExact
<1>1. Inv => RingExact
  BY DEF Inv
<1> QED BY <1>1, FilterInvariant, PTL

\* ValidateCounter lets no counter pass twice, for every window that fits the ring.
THEOREM FilterNoReplay == Spec => []NoReplay
<1>1. Inv => NoReplay
  BY DEF Inv
<1> QED BY <1>1, FilterInvariant, PTL

\* ValidateCounter implements the ideal window: it answers every call, of any history, as
\* ReplayWindow does.
THEOREM FilterIdealWindow == Spec => IdealWindow
<1>1. Init => Ideal!Init
  BY DEF Init, Ideal!Init
<1> QED BY <1>1, InitInv, NextInv, PTL DEF Spec, IdealWindow, Ideal!Spec

=============================================================================

-------------------------- MODULE FreshnessProofs ---------------------------
(***************************************************************************)
(* How old a snapshot gets, for every number of targets, every limit,      *)
(* interval and timeout.                                                   *)
(*                                                                         *)
(* The argument is the one for list scheduling: a target waits for a slot  *)
(* only while every slot is taken.  If the deadline of some target ends    *)
(* after r rounds of Timeout then more than r * Limit targets have been    *)
(* launched before; and there are not that many when r is Rounds.  Of the  *)
(* length of the cycle the state only tells by how much the snapshot has   *)
(* outlived the interval (Overdue), which is less.                         *)
(***************************************************************************)
EXTENDS Freshness, FiniteSetTheorems, TLAPS

Launched == Targets - queued
Remaining(k) == IF slot[k] = Idle THEN 0 ELSE slot[k]
Overdue == age - Interval

(* Slots that are, or can be, taken until r rounds after the interval.     *)
Late(r) == {k \in Slots : /\ slot[k] # Idle \/ queued > 0
                          /\ Overdue + Remaining(k) > r * Timeout}

(* Only a launch beyond the r * Limit-th one can be that late.             *)
InRounds ==
    collecting /\ age # Never =>
        \A r \in Nat : Cardinality(Late(r)) = 0 \/ Cardinality(Late(r)) <= Launched - r * Limit

(* Between cycles the snapshot is younger than an interval, and when a     *)
(* cycle begins it is at most that old.                                    *)
Punctual ==
    age # Never =>
        /\ untilTick > 0
        /\ ~collecting => IF tickReady THEN age <= Interval ELSE age + untilTick <= Interval

Inv == TypeOK /\ Punctual /\ InRounds /\ AgeIsBounded

-----------------------------------------------------------------------------
(* Rounding up: a to a round, n fit into the rounds there are.             *)
LEMMA Ceiling ==
    ASSUME NEW n \in Nat \ {0}, NEW a \in Nat \ {0}
    PROVE  /\ (n + a - 1) \div a \in Nat
           /\ n <= ((n + a - 1) \div a) * a
<1> DEFINE m == n + a - 1
           q == m \div a
<1>1. m \in Nat
    OBVIOUS
<1>2. q \in Nat /\ m = a * q + (m % a) /\ m % a \in 0..(a - 1)
    BY <1>1
<1>3. QED
    BY <1>1, <1>2

(* Limit is what the operator asked for, and Rounds of it are enough.      *)
LEMMA Enough ==
    ASSUME TypeOK
    PROVE  /\ Limit \in Nat \ {0} /\ Slots = 1..Limit
           /\ IsFiniteSet(Slots) /\ Cardinality(Slots) = Limit
           /\ Rounds \in Nat /\ Targets <= Rounds * Limit
<1>1. Limit \in Nat \ {0} /\ AtOnce = Limit
    BY PositiveAssumption DEF TypeOK, Limit, AtOnce
<1>2. IsFiniteSet(Slots) /\ Cardinality(Slots) = Limit
    BY <1>1, FS_Interval DEF Slots
<1>3. QED
    BY <1>1, <1>2, Ceiling, PositiveAssumption DEF Rounds, Slots

(* What a step is told by the type of the state it starts in.              *)
LEMMA Types ==
    ASSUME TypeOK
    PROVE  /\ Targets \in Nat /\ Interval \in Nat \ {0} /\ Timeout \in Nat \ {0}
           /\ Idle \in Nat /\ Idle = Timeout + 1
           /\ Oldest \in Nat /\ Never = Oldest + 1
           /\ age \in 0..Never /\ queued \in 0..Targets /\ untilTick \in 0..Interval
           /\ \A k \in Slots : /\ slot[k] \in 0..Idle
                               /\ Remaining(k) \in 0..Timeout
<1>1. /\ Targets \in Nat /\ Interval \in Nat \ {0} /\ Timeout \in Nat \ {0}
    BY PositiveAssumption
<1>2. Idle \in Nat /\ Idle = Timeout + 1
    BY <1>1 DEF Idle
<1>3. Oldest \in Nat /\ Never = Oldest + 1
    <2>1. (Targets + 1) * Timeout \in Nat
        BY <1>1
    <2>2. QED
        BY <1>1, <2>1 DEF Oldest, Never
<1>4. \A k \in Slots : slot[k] \in 0..Idle
    BY DEF TypeOK
<1>5. \A k \in Slots : Remaining(k) \in 0..Timeout
    BY <1>1, <1>2, <1>4 DEF Remaining
<1>6. QED
    BY <1>1, <1>2, <1>3, <1>4, <1>5 DEF TypeOK

(* Late slots are counted, and all of them make Limit.                     *)
LEMMA LateCount ==
    ASSUME TypeOK, NEW r \in Nat
    PROVE  /\ IsFiniteSet(Late(r)) /\ Cardinality(Late(r)) \in Nat
           /\ Cardinality(Late(r)) = 0 <=> Late(r) = {}
           /\ Slots \subseteq Late(r) => Cardinality(Late(r)) = Limit
<1>1. Late(r) \in SUBSET Slots
    BY DEF Late
<1>2. IsFiniteSet(Late(r))
    BY <1>1, Enough, FS_Subset
<1>3. Slots \subseteq Late(r) => Late(r) = Slots
    BY <1>1
<1>4. QED
    BY <1>2, <1>3, Enough, FS_CardinalityType, FS_EmptySet

(* A set of late slots that does not grow stays within the bound.          *)
LEMMA NoMoreLate ==
    ASSUME NEW S, NEW T \in SUBSET S, IsFiniteSet(S), NEW b \in Int,
           Cardinality(S) = 0 \/ Cardinality(S) <= b
    PROVE  Cardinality(T) = 0 \/ Cardinality(T) <= b
<1>1. Cardinality(T) <= Cardinality(S) /\ Cardinality(S) \in Nat /\ Cardinality(T) \in Nat
    BY FS_Subset, FS_CardinalityType
<1>2. QED
    BY <1>1

-----------------------------------------------------------------------------
(* The first cycle, and no snapshot yet.                                   *)
LEMMA InitInv == Init => Inv
<1> SUFFICES ASSUME Init
             PROVE  Inv
    OBVIOUS
<1>1. TypeOK
    <2>1. Targets \in Nat /\ Interval \in Nat /\ Timeout \in Nat /\ Idle \in Nat
        BY PositiveAssumption DEF Idle
    <2>2. (Targets + 1) * Timeout \in Nat
        BY <2>1
    <2>3. Oldest \in Nat /\ Never \in 0..Never
        BY <2>1, <2>2 DEF Oldest, Never
    <2>4. Idle \in 0..Idle /\ 0 \in 0..Interval /\ Targets \in 0..Targets
        BY <2>1
    <2>5. QED
        BY <2>3, <2>4 DEF Init, TypeOK
<1>2. QED
    BY <1>1 DEF Init, Inv, Punctual, InRounds, AgeIsBounded

(* What a tick of the clock does: it adds one to a snapshot's age and no   *)
(* more, takes one from every slot, and fires the ticker.                  *)
LEMMA ClockAges ==
    ASSUME TypeOK, Clock
    PROVE  /\ age' # Never <=> age # Never
           /\ age' <= age + 1
           /\ age' \in 0..Never /\ age \in 0..Never
           /\ untilTick' \in 0..Interval /\ tickReady' \in BOOLEAN
           /\ ~tickReady \/ collecting
           /\ untilTick > 0 =>
                \/ untilTick = 1 /\ untilTick' = Interval /\ tickReady' = TRUE
                \/ untilTick > 1 /\ untilTick' = untilTick - 1 /\ tickReady' = tickReady
           /\ \A k \in Slots : slot[k] # 0
           /\ ~Done
           /\ queued > 0 => \A k \in Slots : slot[k] # Idle
           /\ slot' = [k \in Slots |-> IF slot[k] = Idle THEN Idle ELSE slot[k] - 1]
           /\ UNCHANGED <<maxConcurrent, collecting, queued>>
           /\ Slots' = Slots /\ Limit' = Limit
<1>1. /\ Interval \in Nat \ {0} /\ age \in 0..Never /\ untilTick \in 0..Interval
      /\ Oldest \in Nat /\ Never = Oldest + 1 /\ tickReady \in BOOLEAN
    BY Types DEF TypeOK
<1>2. /\ \A k \in Slots : slot[k] # 0
      /\ ~Done /\ (~tickReady \/ collecting)
      /\ queued > 0 => \A k \in Slots : slot[k] # Idle
    BY DEF Clock, Quiet
<1>3. /\ slot' = [k \in Slots |-> IF slot[k] = Idle THEN Idle ELSE slot[k] - 1]
      /\ UNCHANGED <<maxConcurrent, collecting, queued>>
      /\ age' = Older(age)
    BY DEF Clock
<1>4. /\ age' # Never <=> age # Never
      /\ age' <= age + 1
      /\ age' \in 0..Never
    BY <1>1, <1>3 DEF Older
<1>5. \/ untilTick = 0 /\ untilTick' = untilTick /\ tickReady' = tickReady
      \/ untilTick = 1 /\ untilTick' = Interval /\ tickReady' = TRUE
      \/ untilTick \notin {0, 1} /\ untilTick' = untilTick - 1 /\ tickReady' = tickReady
    <2>1. CASE untilTick = 0
        BY <2>1 DEF Clock
    <2>2. CASE untilTick = 1
        BY <2>2 DEF Clock
    <2>3. CASE untilTick # 0 /\ untilTick # 1
        BY <2>3 DEF Clock
    <2>4. QED
        BY <2>1, <2>2, <2>3
<1>6. /\ untilTick' \in 0..Interval /\ tickReady' \in BOOLEAN
      /\ untilTick > 0 =>
           \/ untilTick = 1 /\ untilTick' = Interval /\ tickReady' = TRUE
           \/ untilTick > 1 /\ untilTick' = untilTick - 1 /\ tickReady' = tickReady
    <2>1. CASE untilTick = 0
        <3>1. untilTick' \in 0..Interval /\ ~(untilTick > 0)
            BY <1>1, <1>5, <2>1
        <3>2. tickReady' = tickReady
            BY <1>5, <2>1
        <3>3. QED
            BY <1>1, <3>1, <3>2
    <2>2. CASE untilTick = 1
        <3>1. untilTick' = Interval /\ tickReady' = TRUE
            BY <1>5, <2>2
        <3>2. untilTick' \in 0..Interval
            BY <1>1, <3>1
        <3>3. QED
            BY <2>2, <3>1, <3>2
    <2>3. CASE untilTick \notin {0, 1}
        <3>1. untilTick' = untilTick - 1 /\ tickReady' = tickReady
            BY <1>5, <2>3
        <3>2. untilTick' \in 0..Interval /\ untilTick > 1
            BY <1>1, <2>3, <3>1
        <3>3. QED
            BY <1>1, <3>1, <3>2
    <2>4. QED
        BY <2>1, <2>2, <2>3
<1>7. Slots' = Slots /\ Limit' = Limit
    BY <1>3 DEF Slots, Limit
<1>8. QED
    BY <1>1, <1>2, <1>3, <1>4, <1>6, <1>7

(* The types.                                                              *)
LEMMA TypeStep == TypeOK /\ [Next]_vars => TypeOK'
<1> SUFFICES ASSUME TypeOK, [Next]_vars
             PROVE  TypeOK'
    OBVIOUS
<1>0. /\ Targets \in Nat /\ Interval \in Nat \ {0} /\ Timeout \in Nat \ {0}
      /\ Idle \in Nat /\ Idle = Timeout + 1 /\ Oldest \in Nat /\ Never = Oldest + 1
      /\ age \in 0..Never /\ queued \in 0..Targets /\ untilTick \in 0..Interval
      /\ slot \in [Slots -> 0..Idle]
      /\ maxConcurrent' = maxConcurrent => Slots' = Slots
    BY Types DEF TypeOK, Slots, Limit
<1>1. CASE Begin
    <2>1. /\ queued' \in 0..Targets /\ collecting' = TRUE /\ tickReady' = FALSE
          /\ UNCHANGED <<maxConcurrent, slot, untilTick, age>>
        BY <1>0, <1>1 DEF Begin
    <2>2. QED
        BY <1>0, <2>1 DEF TypeOK
<1>2. ASSUME NEW k \in Slots, Launch(k)
      PROVE  TypeOK'
    <2>1. Timeout \in 0..Idle /\ queued - 1 \in 0..Targets /\ collecting
        BY <1>0, <1>2 DEF Launch, TypeOK
    <2>2. QED
        BY <1>0, <1>2, <2>1 DEF Launch, TypeOK
<1>3. ASSUME NEW k \in Slots, TargetReturns(k)
      PROVE  TypeOK'
    <2>1. Idle \in 0..Idle
        BY <1>0
    <2>2. QED
        BY <1>0, <1>3, <2>1 DEF TargetReturns, TypeOK
<1>4. CASE Publish
    <2>1. /\ untilTick' \in 0..Interval /\ age' = 0 /\ collecting' = FALSE
          /\ queued = 0 /\ \A k \in Slots : slot[k] = Idle
          /\ UNCHANGED <<maxConcurrent, queued, slot, tickReady>>
        BY <1>0, <1>4 DEF Publish, Done
    <2>2. age' \in 0..Never
        BY <1>0, <2>1
    <2>3. QED
        BY <1>0, <2>1, <2>2 DEF TypeOK
<1>5. CASE Clock
    <2>1. \A k \in Slots : (IF slot[k] = Idle THEN Idle ELSE slot[k] - 1) \in 0..Idle
        BY <1>0, <1>5, ClockAges
    <2>2. slot' \in [Slots -> 0..Idle]
        BY <1>5, <2>1, ClockAges
    <2>3. ~collecting => \A k \in Slots : slot'[k] = Idle
        BY <1>5, ClockAges DEF TypeOK
    <2>4. QED
        BY <1>0, <1>5, <2>2, <2>3, ClockAges DEF TypeOK
<1>6. CASE UNCHANGED vars
    BY <1>0, <1>6 DEF vars, TypeOK
<1>7. QED
    BY <1>1, <1>2, <1>3, <1>4, <1>5, <1>6 DEF Next

-----------------------------------------------------------------------------
(* An age and the ticks to the next cycle, one tick later.                 *)
LEMMA TickDown ==
    ASSUME NEW i \in Nat, NEW a \in Nat, NEW b \in Nat, NEW u \in Nat, NEW v,
           b <= a + 1, u > 1, v = u - 1, a + u <= i
    PROVE  v > 0 /\ b <= i /\ b + v <= i
    OBVIOUS

(* The time from the ticker to the next cycle.                             *)
LEMMA PunctualStep == Inv /\ [Next]_vars => Punctual'
<1> SUFFICES ASSUME TypeOK, Punctual, [Next]_vars
             PROVE  Punctual'
    BY DEF Inv
<1>0. /\ Interval \in Nat \ {0} /\ Never \in Nat /\ age \in Nat /\ untilTick \in Nat
      /\ untilTick <= Interval
    BY Types
<1>1. CASE Begin
    BY <1>0, <1>1 DEF Begin, Punctual
<1>2. ASSUME NEW k \in Slots, Launch(k)
      PROVE  Punctual'
    BY <1>2 DEF Launch, Punctual, TypeOK
<1>3. ASSUME NEW k \in Slots, TargetReturns(k)
      PROVE  Punctual'
    BY <1>3 DEF TargetReturns, Punctual
<1>4. CASE Publish
    BY <1>0, <1>4 DEF Publish, Punctual
<1>5. CASE Clock
    <2>1. CASE age = Never
        BY <1>5, <2>1, ClockAges DEF Punctual
    <2>2. CASE collecting /\ age # Never
        <3>0. untilTick > 0
            BY <2>2 DEF Punctual
        <3>1. untilTick > 0 /\ collecting'
            <4>1. collecting' = collecting
                BY <1>5, ClockAges
            <4>2. QED
                BY <2>2, <3>0, <4>1, Zenon
        <3>2. untilTick' > 0
            <4>1. CASE untilTick' = Interval
                BY <1>0, <4>1
            <4>2. CASE untilTick > 1 /\ untilTick' = untilTick - 1
                BY <1>0, <4>2
            <4>3. QED
                BY <1>5, <3>1, <4>1, <4>2, ClockAges
        <3>3. QED
            BY <3>1, <3>2 DEF Punctual
    <2>3. CASE ~collecting /\ age # Never
        <3>1. untilTick > 0 /\ age + untilTick <= Interval
            BY <1>5, <2>3, ClockAges DEF Punctual
        <3>2. age \in Nat /\ age' \in Nat /\ age' <= age + 1
            BY <1>5, ClockAges, Types
        <3>3. CASE untilTick = 1 /\ untilTick' = Interval /\ tickReady' = TRUE
            <4>1. untilTick' > 0 /\ age' <= Interval
                BY <1>0, <3>1, <3>2, <3>3
            <4>2. QED
                BY <3>3, <4>1 DEF Punctual
        <3>4. CASE untilTick > 1 /\ untilTick' = untilTick - 1
            <4>1. untilTick' > 0 /\ age' <= Interval /\ age' + untilTick' <= Interval
                BY <1>0, <3>1, <3>2, <3>4, TickDown
            <4>2. QED
                BY <4>1 DEF Punctual
        <3>5. QED
            BY <1>5, <3>1, <3>3, <3>4, ClockAges
    <2>4. QED
        BY <2>1, <2>2, <2>3
<1>6. CASE UNCHANGED vars
    BY <1>6 DEF vars, Punctual
<1>7. QED
    BY <1>1, <1>2, <1>3, <1>4, <1>5, <1>6 DEF Next

-----------------------------------------------------------------------------
(* A launch beyond a round's last has all slots late for the round before. *)
LEMMA LaunchInRounds ==
    ASSUME TypeOK, InRounds, collecting, age # Never, NEW k \in Slots, Launch(k), NEW r \in Nat
    PROVE  Cardinality(Late(r)') = 0 \/ Cardinality(Late(r)') <= Launched + 1 - r * Limit
<1>0. /\ Timeout \in Nat \ {0} /\ Limit \in Nat \ {0} /\ age \in Nat /\ Interval \in Nat
      /\ Idle = Timeout + 1
      /\ queued \in Nat /\ queued > 0 /\ Launched \in Nat /\ Overdue \in Int
      /\ slot[k] = Idle /\ Remaining(k) = 0
      /\ \A j \in Slots : Remaining(j) \in Nat
      /\ UNCHANGED <<age, maxConcurrent>> /\ Slots' = Slots /\ Overdue' = Overdue
    <2>1. /\ Timeout \in Nat \ {0} /\ Interval \in Nat /\ Idle = Timeout + 1
          /\ Limit \in Nat \ {0}
        BY Types, Enough
    <2>2. age \in Nat /\ queued \in Nat /\ Launched \in Nat /\ Overdue \in Int
        BY Types DEF Launched, Overdue
    <2>3. /\ queued > 0 /\ slot[k] = Idle
          /\ UNCHANGED <<age, maxConcurrent>>
        BY DEF Launch
    <2>4. Slots' = Slots /\ Overdue' = Overdue
        BY <2>3 DEF Slots, Limit, Overdue
    <2>5. Remaining(k) = 0 /\ \A j \in Slots : Remaining(j) \in Nat
        BY <2>3, Types DEF Remaining
    <2>6. QED
        BY <2>1, <2>2, <2>3, <2>4, <2>5
<1>1. r * Timeout \in Nat /\ r * Limit \in Nat
    BY <1>0
<1>2. ASSUME NEW j \in Slots, j # k, j \in Late(r)'
      PROVE  j \in Late(r)
    <2>1. slot'[j] = slot[j] /\ Remaining(j)' = Remaining(j)
        BY <1>2 DEF Launch, TypeOK, Remaining
    <2>2. QED
        BY <1>0, <1>2, <2>1 DEF Late
<1>3. Remaining(k)' = Timeout
    BY <1>0 DEF Launch, TypeOK, Remaining
<1>4. /\ Late(r)' \in SUBSET (Late(r) \cup {k})
      /\ IsFiniteSet(Late(r)) /\ Cardinality(Late(r)) \in Nat
      /\ Cardinality(Late(r)) = 0 \/ Cardinality(Late(r)) <= Launched - r * Limit
    <2>1. Late(r)' \subseteq Slots
        BY <1>0 DEF Late
    <2>2. QED
        BY <1>2, <2>1, LateCount DEF InRounds
<1>5. CASE k \in Late(r) \/ k \notin Late(r)'
    <2>1. Late(r)' \in SUBSET Late(r)
        BY <1>4, <1>5
    <2>2. Launched + 1 - r * Limit \in Int /\ Launched - r * Limit <= Launched + 1 - r * Limit
        BY <1>0, <1>1
    <2>3. Cardinality(Late(r)) = 0 \/ Cardinality(Late(r)) <= Launched + 1 - r * Limit
        BY <1>0, <1>1, <1>4
    <2>4. QED
        BY <1>4, <2>1, <2>2, <2>3, NoMoreLate
<1>6. CASE k \notin Late(r) /\ k \in Late(r)'
    <2>1. Overdue <= r * Timeout /\ Overdue + Timeout > r * Timeout
        BY <1>0, <1>1, <1>3, <1>6 DEF Late
    <2>2. Launched >= r * Limit
        <3>1. CASE r = 0
            BY <1>0, <3>1
        <3>2. CASE r # 0
            <4> DEFINE q == r - 1
            <4>1. q \in Nat /\ r = q + 1
                BY <3>2
            <4> HIDE DEF q
            <4>2. r * Timeout = q * Timeout + Timeout /\ r * Limit = q * Limit + Limit
                BY <1>0, <4>1
            <4>3. q * Timeout \in Nat /\ q * Limit \in Nat
                BY <1>0, <4>1
            <4>4. Overdue > q * Timeout
                BY <1>0, <2>1, <4>2, <4>3
            <4>5. \A j \in Slots : j \in Late(q)
                BY <1>0, <4>3, <4>4 DEF Late
            <4>6. Cardinality(Late(q)) = Limit
                BY <4>1, <4>5, LateCount
            <4>7. Limit <= Launched - q * Limit
                BY <1>0, <4>1, <4>6 DEF InRounds
            <4>8. QED
                BY <1>0, <4>2, <4>3, <4>7
        <3>3. QED
            BY <3>1, <3>2
    <2>3. /\ IsFiniteSet(Late(r) \cup {k})
          /\ Cardinality(Late(r) \cup {k}) = Cardinality(Late(r)) + 1
        BY <1>4, <1>6, FS_AddElement
    <2>4. Cardinality(Late(r)) + 1 <= Launched + 1 - r * Limit
        BY <1>0, <1>1, <1>4, <2>2
    <2>5. Launched + 1 - r * Limit \in Int
        BY <1>0, <1>1
    <2>6. QED
        BY <1>4, <2>3, <2>4, <2>5, NoMoreLate
<1>7. QED
    BY <1>5, <1>6

(* Time that passes is taken from what remains to each slot.               *)
LEMMA ClockInRounds ==
    ASSUME TypeOK, collecting, age # Never, Clock, NEW r \in Nat
    PROVE  Late(r)' \in SUBSET Late(r)
<1>0. /\ Timeout \in Nat \ {0} /\ Interval \in Nat /\ age \in Nat /\ age' \in Nat /\ age' <= age + 1
      /\ Idle = Timeout + 1 /\ queued \in Nat /\ queued' = queued
      /\ Slots' = Slots /\ r * Timeout \in Nat
    <2>1. Timeout \in Nat \ {0} /\ Interval \in Nat /\ Idle = Timeout + 1 /\ queued \in Nat
        BY Types
    <2>2. r * Timeout \in Nat
        BY <2>1
    <2>3. /\ age \in Nat /\ age' \in Nat /\ age' <= age + 1 /\ queued' = queued /\ Slots' = Slots
        BY Types, ClockAges
    <2>4. QED
        BY <2>1, <2>2, <2>3
<1>1. ASSUME NEW k \in Slots, k \in Late(r)'
      PROVE  k \in Late(r)
    <2>1. slot[k] # Idle
        BY <1>0, <1>1, ClockAges DEF Late
    <2>2. slot[k] \in 1..Timeout /\ slot'[k] = slot[k] - 1 /\ slot'[k] # Idle
        BY <1>0, <2>1, Types, ClockAges
    <2>3. Remaining(k)' = Remaining(k) - 1 /\ Remaining(k) \in Nat
        BY <2>1, <2>2 DEF Remaining
    <2>4. Overdue + Remaining(k) >= Overdue' + Remaining(k)' /\ Overdue \in Int /\ Overdue' \in Int
        BY <1>0, <2>3 DEF Overdue
    <2>5. QED
        BY <1>0, <1>1, <2>1, <2>3, <2>4 DEF Late
<1>2. QED
    BY <1>0, <1>1 DEF Late

(* InRounds is kept by every step.                                         *)
LEMMA RoundsStep == Inv /\ [Next]_vars => InRounds'
<1> SUFFICES ASSUME Inv, [Next]_vars, collecting', (age # Never)', NEW r \in Nat
             PROVE  Cardinality(Late(r)') = 0 \/ Cardinality(Late(r)') <= Launched' - r * Limit'
    BY DEF InRounds
<1>0. /\ TypeOK /\ InRounds /\ Punctual
      /\ Timeout \in Nat \ {0} /\ Interval \in Nat \ {0} /\ Limit \in Nat \ {0} /\ Launched \in Nat
      /\ r * Limit \in Nat /\ r * Timeout \in Nat /\ Launched - r * Limit \in Int
      /\ IsFiniteSet(Late(r))
      /\ maxConcurrent' = maxConcurrent => Limit' = Limit /\ Slots' = Slots
    <2>1. TypeOK
        BY DEF Inv
    <2>2. /\ Timeout \in Nat \ {0} /\ Interval \in Nat \ {0} /\ Limit \in Nat \ {0}
          /\ Launched \in Nat /\ IsFiniteSet(Late(r))
        <3>1. Launched \in Nat
            BY <2>1, Types DEF Launched
        <3>2. IsFiniteSet(Late(r))
            BY <2>1, LateCount
        <3>3. QED
            BY <2>1, <3>1, <3>2, Types, Enough
    <2>3. r * Limit \in Nat /\ r * Timeout \in Nat
        BY <2>2
    <2>4. QED
        BY <2>1, <2>2, <2>3 DEF Inv, Limit, Slots
<1>1. CASE Begin
    <2>1. /\ age \in Nat /\ age <= Interval /\ age' = age /\ slot' = slot /\ Slots' = Slots
          /\ \A k \in Slots : slot[k] = Idle
        BY <1>0, <1>1, Types DEF Begin, Punctual, TypeOK
    <2>2. \A k \in Slots : Remaining(k)' = 0
        BY <2>1 DEF Remaining
    <2>3. Overdue' <= 0 /\ Overdue' \in Int
        BY <1>0, <2>1 DEF Overdue
    <2>4. \A k \in Slots : ~(Overdue' + Remaining(k)' > r * Timeout)
        BY <1>0, <2>2, <2>3
    <2>5. Late(r)' = {}
        BY <2>1, <2>4 DEF Late
    <2>6. QED
        BY <2>5, FS_EmptySet
<1>2. ASSUME NEW k \in Slots, Launch(k)
      PROVE  Cardinality(Late(r)') = 0 \/ Cardinality(Late(r)') <= Launched' - r * Limit'
    <2>1. collecting /\ age # Never /\ Launched' = Launched + 1 /\ Limit' = Limit
        BY <1>0, <1>2, Types DEF Launch, Launched
    <2>2. QED
        BY <1>0, <1>2, <2>1, LaunchInRounds
<1>3. ASSUME NEW k \in Slots, TargetReturns(k)
      PROVE  Cardinality(Late(r)') = 0 \/ Cardinality(Late(r)') <= Launched' - r * Limit'
    <2>1. /\ collecting /\ age # Never /\ Launched' = Launched /\ Limit' = Limit /\ Slots' = Slots
          /\ Overdue' = Overdue /\ queued' = queued
        BY <1>0, <1>3 DEF TargetReturns, Launched, Overdue
    <2>2. ASSUME NEW j \in Slots, j \in Late(r)'
          PROVE  j \in Late(r)
        <3>1. CASE j # k
            <4>1. slot'[j] = slot[j] /\ Remaining(j)' = Remaining(j)
                BY <1>0, <1>3, <3>1 DEF TargetReturns, TypeOK, Remaining
            <4>2. QED
                BY <2>1, <2>2, <4>1 DEF Late
        <3>2. CASE j = k
            <4>1. slot[k] # Idle /\ Remaining(k)' = 0 /\ Remaining(k) \in Nat
                BY <1>0, <1>3, Types DEF TargetReturns, TypeOK, Remaining
            <4>2. Overdue + 0 > r * Timeout /\ Overdue \in Int
                BY <1>0, <2>1, <2>2, <3>2, <4>1, Types DEF Late, Overdue
            <4>3. Overdue + Remaining(k) > r * Timeout
                BY <1>0, <4>1, <4>2
            <4>4. QED
                BY <3>2, <4>1, <4>3 DEF Late
        <3>3. QED
            BY <3>1, <3>2
    <2>3. Late(r)' \in SUBSET Late(r)
        BY <2>1, <2>2 DEF Late
    <2>4. QED
        BY <1>0, <2>1, <2>3, NoMoreLate DEF InRounds
<1>4. CASE Publish
    BY <1>4 DEF Publish
<1>5. CASE Clock
    <2>1. collecting /\ age # Never /\ Launched' = Launched /\ Limit' = Limit
        BY <1>0, <1>5, ClockAges DEF Clock, Launched
    <2>2. QED
        BY <1>0, <1>5, <2>1, ClockInRounds, NoMoreLate DEF InRounds
<1>6. CASE UNCHANGED vars
    <2>1. Late(r)' = Late(r) /\ Launched' = Launched /\ Limit' = Limit
        BY <1>6 DEF vars, Late, Slots, Limit, Launched, Remaining, Overdue
    <2>2. QED
        BY <1>0, <1>6, <2>1 DEF vars, InRounds
<1>7. QED
    BY <1>1, <1>2, <1>3, <1>4, <1>5, <1>6 DEF Next

(* While a cycle is under way some slot is late for the round it is in, so *)
(* that round is not yet beyond the last one.                              *)
LEMMA AgeStep == Inv /\ [Next]_vars => AgeIsBounded'
<1> SUFFICES ASSUME Inv, [Next]_vars
             PROVE  AgeIsBounded'
    OBVIOUS
<1>0. /\ TypeOK /\ InRounds /\ Punctual /\ AgeIsBounded
      /\ Targets \in Nat /\ Interval \in Nat \ {0} /\ age \in 0..Never
      /\ Limit \in Nat \ {0} /\ Rounds \in Nat /\ Targets <= Rounds * Limit
      /\ Rounds * Timeout \in Nat /\ Rounds * Limit \in Nat
    <2>1. TypeOK
        BY DEF Inv
    <2>2. Rounds * Timeout \in Nat /\ Rounds * Limit \in Nat
        BY <2>1, Enough, Types
    <2>3. QED
        BY <2>1, <2>2, Enough, Types DEF Inv
<1>1. maxConcurrent' = maxConcurrent => Rounds' = Rounds
    BY DEF Rounds, AtOnce
<1>2. CASE Clock
    <2>1. CASE age = Never
        BY <1>2, <2>1, ClockAges, TypeStep, Types DEF AgeIsBounded, Inv
    <2>2. ASSUME age # Never, collecting
          PROVE  age < Interval + Rounds * Timeout
        <3>1. PICK k \in Slots : slot[k] # Idle
            <4>1. 1 \in Slots
                BY <1>0, Enough
            <4>2. queued \in Nat
                BY <1>0, Types
            <4>3. QED
                BY <1>2, <2>2, <4>1, <4>2 DEF Clock, Quiet, Done
        <3>2. Remaining(k) \in Nat \ {0}
            BY <1>0, <1>2, <3>1, Types DEF Clock, Quiet, Remaining
        <3>3. SUFFICES ASSUME age >= Interval + Rounds * Timeout
                       PROVE  FALSE
            BY <1>0
        <3>4. Overdue \in Int /\ Overdue >= Rounds * Timeout
            BY <1>0, <3>3 DEF Overdue
        <3>5. Overdue + Remaining(k) > Rounds * Timeout
            BY <1>0, <3>2, <3>4
        <3>6. k \in Late(Rounds)
            BY <3>1, <3>5 DEF Late
        <3>7. Cardinality(Late(Rounds)) \in Nat \ {0}
            BY <1>0, <3>6, LateCount
        <3>8. Cardinality(Late(Rounds)) <= Launched - Rounds * Limit
            BY <1>0, <2>2, <3>7 DEF InRounds
        <3>9. Launched \in Int /\ Launched <= Targets
            BY <1>0, Types DEF Launched
        <3>10. QED
            BY <1>0, <3>7, <3>8, <3>9
    <2>3. ASSUME age # Never, ~collecting
          PROVE  age < Interval + Rounds * Timeout
        <3>1. untilTick \in Nat \ {0} /\ age + untilTick <= Interval
            BY <1>0, <1>2, <2>3, Types DEF Clock, Quiet, Punctual
        <3>2. QED
            BY <1>0, <3>1
    <2>4. CASE age # Never
        <3>1. age < Interval + Rounds * Timeout
            BY <2>2, <2>3, <2>4
        <3>2. age' \in Nat /\ age' <= age + 1 /\ Rounds' = Rounds
            BY <1>0, <1>1, <1>2, ClockAges
        <3>3. age' \in 0..(Interval + Rounds * Timeout)
            BY <1>0, <3>1, <3>2
        <3>4. QED
            BY <3>2, <3>3 DEF AgeIsBounded
    <2>5. QED
        BY <2>1, <2>4
<1>3. CASE Publish
    BY <1>0, <1>1, <1>3 DEF Publish, AgeIsBounded
<1>4. CASE UNCHANGED <<age, maxConcurrent>>
    BY <1>0, <1>1, <1>4 DEF AgeIsBounded
<1>5. QED
    BY <1>2, <1>3, <1>4 DEF Next, Begin, Launch, TargetReturns, vars

-----------------------------------------------------------------------------
(* The inductive invariant holds in every reachable state.                 *)
THEOREM Invariance == Spec => []Inv
<1>1. Inv /\ [Next]_vars => Inv'
    BY TypeStep, PunctualStep, RoundsStep, AgeStep DEF Inv
<1>2. QED
    BY <1>1, InitInv, PTL DEF Spec

(* The cycle, its slots and the clocks stay within their types.            *)
THEOREM TypeCorrect == Spec => []TypeOK
<1>1. Inv => TypeOK
    BY DEF Inv
<1>2. QED
    BY <1>1, Invariance, PTL

(* Run and CollectOnce: with any number of targets and any limit, the      *)
(* published snapshot is never older than one interval and the rounds of   *)
(* timeouts that the limit makes of the targets.                           *)
THEOREM SnapshotAge == Spec => []AgeIsBounded
<1>1. Inv => AgeIsBounded
    BY DEF Inv
<1>2. QED
    BY <1>1, Invariance, PTL

(* healthBody: while the rounds fit into an interval and a timeout, a loop *)
(* that works is never called stale, however slow its targets are.         *)
THEOREM HealthIsFair == Spec => []LivelyLoopIsNotStale
<1>1. Inv => LivelyLoopIsNotStale
    <2> SUFFICES ASSUME Inv, Rounds * Timeout <= Interval + Timeout, age # Never
                 PROVE  ~(age > 2 * Interval + Timeout)
        BY DEF LivelyLoopIsNotStale, Stale, MaxAge
    <2>1. /\ Interval \in Nat /\ Timeout \in Nat /\ age \in Nat
          /\ Rounds \in Nat /\ age <= Interval + Rounds * Timeout
        BY Types, Enough DEF Inv, AgeIsBounded
    <2>2. Rounds * Timeout \in Nat
        BY <2>1
    <2>3. QED
        BY <2>1, <2>2
<1>2. QED
    BY <1>1, Invariance, PTL
=============================================================================

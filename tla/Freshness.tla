----------------------------- MODULE Freshness ------------------------------
(***************************************************************************)
(* How old the published snapshot can get: CollectionLoop.Run's ticker,    *)
(* CollectOnce's fan-out under MaxConcurrent and the timeout of each       *)
(* target (internal/kemp/collector.go), against the age at which /health   *)
(* calls it stale (main.go).                                               *)
(*                                                                         *)
(* Time is discrete.  It passes for a target on the wire and for a loop    *)
(* that waits for the ticker; a goroutine that can go on does so at once.  *)
(* A target answers at any moment up to its deadline, and the deadline     *)
(* runs from when the target got its slot.  The ticker's channel holds one *)
(* tick, later ones are dropped.                                           *)
(***************************************************************************)
EXTENDS Integers

CONSTANTS
    Targets,         \* number of configured systems
    Limits,          \* what Collection.MaxConcurrent may be
    Interval,        \* Collection.Interval
    Timeout          \* Collection.Timeout

ASSUME PositiveAssumption ==
    /\ Targets \in Nat \ {0} /\ Limits \subseteq Int
    /\ Interval \in Nat \ {0} /\ Timeout \in Nat \ {0}

Idle == Timeout + 1

VARIABLES
    maxConcurrent,   \* CollectionLoop.cc.MaxConcurrent, which never changes
    collecting,   \* Run is in CollectOnce
    queued,       \* targets of this cycle that have no slot yet
    slot,         \* ticks left to the target in each slot, Idle if there is none
    untilTick,    \* ticks until the ticker fires, 0 before it is created
    tickReady,    \* the ticker's channel holds a tick
    age           \* ticks since BuiltAt of the published snapshot, Never before

vars == <<maxConcurrent, collecting, queued, slot, untilTick, tickReady, age>>

(* errgroup's limit: CollectOnce never passes it anything but a positive   *)
(* number, for with 0 it would wait for a slot forever.                    *)
LimitUnclamped == maxConcurrent

LimitMisread == IF maxConcurrent >= 0 THEN 1 ELSE maxConcurrent

Limit == IF maxConcurrent <= 0 THEN 1 ELSE maxConcurrent

Slots == 1..Limit

(* healthBody's maxAge.                                                    *)
MaxAgeTwoIntervals == 2 * Interval

MaxAge == 2 * Interval + Timeout

(* Ages are told apart up to a bound beyond every limit of interest.       *)
Oldest == 2 * Interval + (Targets + 1) * Timeout
Never == Oldest + 1

TypeOK == /\ maxConcurrent \in Limits
          /\ collecting \in BOOLEAN
          /\ queued \in 0..Targets
          /\ slot \in [Slots -> 0..Idle]
          /\ untilTick \in 0..Interval
          /\ tickReady \in BOOLEAN
          /\ age \in 0..Never
          /\ ~collecting => queued = 0 /\ \A k \in Slots : slot[k] = Idle

(* Run collects at once, before it makes its ticker.                       *)
Init == /\ maxConcurrent \in Limits
        /\ collecting = TRUE
        /\ queued = Targets
        /\ slot = [k \in Slots |-> Idle]
        /\ untilTick = 0
        /\ tickReady = FALSE
        /\ age = Never

-----------------------------------------------------------------------------
Begin == /\ ~collecting
         /\ tickReady
         /\ tickReady' = FALSE
         /\ collecting' = TRUE
         /\ queued' = Targets
         /\ UNCHANGED <<maxConcurrent, slot, untilTick, age>>

(* errgroup.Go found a slot: the target's own deadline starts here.        *)
Launch(k) == /\ queued > 0
             /\ slot[k] = Idle
             /\ queued' = queued - 1
             /\ slot' = [slot EXCEPT ![k] = Timeout]
             /\ UNCHANGED <<maxConcurrent, collecting, untilTick, tickReady, age>>

(* collectSystem returns, with an answer or because its deadline passed.   *)
TargetReturns(k) == /\ slot[k] # Idle
                    /\ slot' = [slot EXCEPT ![k] = Idle]
                    /\ UNCHANGED <<maxConcurrent, collecting, queued, untilTick, tickReady, age>>

Done == collecting /\ queued = 0 /\ \A k \in Slots : slot[k] = Idle

Publish == /\ Done
           /\ collecting' = FALSE
           /\ age' = 0
           /\ untilTick' = IF untilTick = 0 THEN Interval ELSE untilTick
           /\ UNCHANGED <<maxConcurrent, queued, slot, tickReady>>

(* Nothing can go on without time passing.                                 *)
Quiet == /\ ~(~collecting /\ tickReady)
         /\ ~Done
         /\ queued > 0 => \A k \in Slots : slot[k] # Idle
         /\ \A k \in Slots : slot[k] # 0

Older(a) == IF a < Oldest THEN a + 1 ELSE a

Clock == /\ Quiet
         /\ slot' = [k \in Slots |-> IF slot[k] = Idle THEN Idle ELSE slot[k] - 1]
         /\ CASE untilTick = 0 -> UNCHANGED <<untilTick, tickReady>>
              [] untilTick = 1 -> untilTick' = Interval /\ tickReady' = TRUE
              [] OTHER -> untilTick' = untilTick - 1 /\ UNCHANGED tickReady
         /\ age' = Older(age)
         /\ UNCHANGED <<maxConcurrent, collecting, queued>>

Next == \/ Begin \/ Publish \/ Clock
        \/ \E k \in Slots : Launch(k) \/ TargetReturns(k)

Spec == Init /\ [][Next]_vars

(* Time passes, goroutines run, and a target returns at its deadline       *)
(* because every request carries the context.                              *)
FairSpec == Spec /\ WF_vars(Next)

-----------------------------------------------------------------------------
(* Rounds of Timeout that a cycle should take: as many targets at a time   *)
(* as the operator asked for.                                              *)
AtOnce == IF maxConcurrent > 0 THEN maxConcurrent ELSE 1
Rounds == (Targets + AtOnce - 1) \div AtOnce

(* healthBody: a snapshot that is past its age.                            *)
Stale == age # Never /\ age > MaxAge

(* /health speaks of a stale snapshot only when the loop has stopped: not  *)
(* while every target takes its whole timeout, in as many rounds as fit in *)
(* an interval and a timeout.  More rounds than that and a loop that works *)
(* as configured is called stale.                                          *)
LivelyLoopIsNotStale == Rounds * Timeout <= Interval + Timeout => ~Stale

(* The published snapshot is never older than an interval and a cycle in   *)
(* which every target in every round hangs to its deadline.                *)
AgeIsBounded == age \in 0..(Interval + Rounds * Timeout) \cup {Never}

(* Snapshots keep coming even if every target hangs until its deadline,    *)
(* whatever MaxConcurrent is.                                              *)
KeepsPublishing == []<>(age = 0)
=============================================================================

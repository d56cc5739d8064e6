-------------------------- MODULE ExportersProofs ---------------------------
(***************************************************************************)
(* The two readers for every set of snapshots, any number of scrapes and   *)
(* however the exports fall between the cycles: both show the same         *)
(* survivor of every collision, each drop is logged once by each of them,  *)
(* and nothing stale is pushed.                                            *)
(*                                                                         *)
(* A scrape walks its snapshot sample by sample.  What it has emitted so   *)
(* far is what the part it has walked shows, and every sample it has       *)
(* walked is shown or its loss is known to the limiter.  That each series  *)
(* walked has a survivor among the emitted ones is part of the invariant:  *)
(* it is what makes the code's lookup in the emitted series the same as    *)
(* the definition, which looks at all earlier samples.                     *)
(***************************************************************************)
EXTENDS Exporters, SequenceTheorems, FiniteSetTheorems, TLAPS

(* What the first k samples of a content show.                             *)
Seen(c, k) == {x \in Samples : \E i \in 1..k :
                 c[i] = x /\ ~\E j \in 1..(i - 1) : Series(c[j]) = Series(x)}

(* Of snapshot p, with content c, the first k samples are walked: out is   *)
(* what they show, and told knows of those it does not.                    *)
Progress(c, p, k, out, told) ==
    /\ k \in 0..Len(c)
    /\ out = {[sample |-> x, snap |-> p] : x \in Seen(c, k)}
    /\ \A j \in 1..k : \E x \in Seen(c, k) : Series(x) = Series(c[j])
    /\ \A j \in 1..k : c[j] \in Seen(c, k) \/ ReasonOf(c[j]) \in told

Walks == \A s \in Scrapers :
    Progress(stored[scrape[s].snap], scrape[s].snap, scrape[s].next - 1, scrape[s].out,
             warned["scrape"])

(* A reason that is known has been logged, or one scrape is about to.      *)
Unlogged(r) == logged["scrape"][r] = 0 /\ \A s \in Scrapers : scrape[s].line # r
Logged(r) == logged["scrape"][r] = 1 /\ \A s \in Scrapers : scrape[s].line # r
Logging(r) == /\ logged["scrape"][r] = 0
              /\ \E s \in Scrapers : {t \in Scrapers : scrape[t].line = r} = {s}

ScrapeLog ==
    /\ \A s \in Scrapers :
         IF scrape[s].at = "log" THEN scrape[s].line \in warned["scrape"]
                                 ELSE scrape[s].line = NoReason
    /\ \A r \in Reasons : IF r \in warned["scrape"] THEN Logged(r) \/ Logging(r) ELSE Unlogged(r)

(* An export: what is to come is not there yet, and what is there is what  *)
(* its snapshot shows, of no snapshot older than the export.               *)
Pushed ==
    /\ export.on \/ (export.out = {} /\ export.todo = {})
    /\ \A o \in export.out : o.sample.name \notin export.todo
    /\ \A o \in export.out :
         {q.sample : q \in {q \in export.out : q.sample.name = o.sample.name}}
            = {x \in Shown(stored[o.snap]) : x.name = o.sample.name}
    /\ ExportIsCurrent

PushLog ==
    /\ \A r \in Reasons : logged["push"][r] = IF r \in warned["push"] THEN 1 ELSE 0
    /\ \A o \in export.out, r \in Reasons :
         r \in Lost(stored[o.snap]) /\ r.metric = o.sample.name => r \in warned["push"]

Inv == TypeOK /\ Walks /\ ScrapeLog /\ Pushed /\ PushLog

-----------------------------------------------------------------------------
(* A snapshot is a sequence of samples, the empty one included.            *)
LEMMA StoredContent ==
  ASSUME TypeOK, NEW p \in 1..Current
  PROVE  /\ stored[p] \in Seq(Samples)
         /\ Len(stored[p]) \in Nat /\ DOMAIN stored[p] = 1..Len(stored[p])
         /\ \A i \in 1..Len(stored[p]) : stored[p][i] \in Samples
<1>1. stored[p] \in Contents \cup {<<>>}
  BY ElementOfSeq DEF TypeOK, Current
<1>2. stored[p] \in Seq(Samples)
  BY <1>1, ContentsAssumption, EmptySeq
<1> QED
  BY <1>2, LenProperties, ElementOfSeq

(* One sample further: it is shown unless its series is among those shown. *)
LEMMA SeenNext ==
  ASSUME NEW c \in Seq(Samples), NEW k \in Nat, k < Len(c),
         \A j \in 1..k : \E x \in Seen(c, k) : Series(x) = Series(c[j])
  PROVE  Seen(c, k + 1) = IF \E x \in Seen(c, k) : Series(x) = Series(c[k + 1])
                            THEN Seen(c, k) ELSE Seen(c, k) \cup {c[k + 1]}
<1> DEFINE First(i) == ~\E j \in 1..(i - 1) : Series(c[j]) = Series(c[i])
<1>1. c[k + 1] \in Samples
  BY ElementOfSeq, LenProperties
<1>2. \A n \in Nat : \A x : x \in Seen(c, n) <=> x \in Samples /\ \E i \in 1..n : c[i] = x /\ First(i)
  BY DEF Seen
<1>3. First(k + 1) <=> ~\E x \in Seen(c, k) : Series(x) = Series(c[k + 1])
  <2>1. ASSUME NEW x \in Seen(c, k), Series(x) = Series(c[k + 1])
        PROVE  ~First(k + 1)
    <3>1. PICK i \in 1..k : c[i] = x
      BY <2>1, <1>2
    <3> QED
      BY <2>1, <3>1
  <2>2. ASSUME NEW j \in 1..((k + 1) - 1), Series(c[j]) = Series(c[k + 1])
        PROVE  \E x \in Seen(c, k) : Series(x) = Series(c[k + 1])
    <3>1. j \in 1..k
      OBVIOUS
    <3> QED
      BY <2>2, <3>1
  <2> QED
    BY <2>1, <2>2
<1>4. \A i : i \in 1..(k + 1) <=> i \in 1..k \/ i = k + 1
  OBVIOUS
<1>5. \A x : x \in Seen(c, k + 1) <=> x \in Seen(c, k) \/ (x = c[k + 1] /\ First(k + 1))
  <2> HIDE DEF First
  <2> QED
    BY <1>1, <1>2, <1>4
<1> HIDE DEF First
<1>6. CASE First(k + 1)
  <2>1. Seen(c, k + 1) = Seen(c, k) \cup {c[k + 1]}
    BY <1>5, <1>6
  <2> QED
    BY <1>3, <1>6, <2>1
<1>7. CASE ~First(k + 1)
  <2>1. Seen(c, k + 1) = Seen(c, k)
    BY <1>5, <1>7
  <2> QED
    BY <1>3, <1>7, <2>1
<1> QED
  BY <1>6, <1>7

(* A sample that is shown joins what was emitted; one that is not is told. *)
LEMMA ProgressNext ==
  ASSUME NEW c \in Seq(Samples), NEW p, NEW k, NEW out, NEW told,
         Progress(c, p, k, out, told), k < Len(c)
  PROVE  /\ (\E o \in out : Series(o.sample) = Series(c[k + 1])) =>
              Progress(c, p, k + 1, out, told \cup {ReasonOf(c[k + 1])})
         /\ ~(\E o \in out : Series(o.sample) = Series(c[k + 1])) =>
              Progress(c, p, k + 1, out \cup {[sample |-> c[k + 1], snap |-> p]}, told)
<1>0. k \in Nat /\ k + 1 \in 0..Len(c) /\ Len(c) \in Nat
  BY LenProperties DEF Progress
<1> DEFINE Emitted(x) == [sample |-> x, snap |-> p]
<1>1. out = {Emitted(x) : x \in Seen(c, k)}
  <2>1. out = {[sample |-> x, snap |-> p] : x \in Seen(c, k)}
    BY DEF Progress
  <2> QED
    BY <2>1, Zenon
<1>2. \A x : Emitted(x).sample = x
  OBVIOUS
<1>3. (\E o \in out : Series(o.sample) = Series(c[k + 1]))
        <=> \E x \in Seen(c, k) : Series(x) = Series(c[k + 1])
  <2> HIDE DEF Emitted
  <2> QED
    BY <1>1, <1>2
<1>4. Seen(c, k + 1) = IF \E x \in Seen(c, k) : Series(x) = Series(c[k + 1])
                         THEN Seen(c, k) ELSE Seen(c, k) \cup {c[k + 1]}
  BY <1>0, SeenNext DEF Progress
<1>5. \A j : j \in 1..(k + 1) <=> j \in 1..k \/ j = k + 1
  BY <1>0
<1>6. CASE \E x \in Seen(c, k) : Series(x) = Series(c[k + 1])
  <2>1. Seen(c, k + 1) = Seen(c, k)
    BY <1>4, <1>6
  <2>2. Progress(c, p, k + 1, out, told \cup {ReasonOf(c[k + 1])})
    BY <1>0, <1>5, <1>6, <2>1 DEF Progress
  <2> QED
    BY <1>3, <1>6, <2>2
<1>7. CASE ~\E x \in Seen(c, k) : Series(x) = Series(c[k + 1])
  <2>1. Seen(c, k + 1) = Seen(c, k) \cup {c[k + 1]}
    BY <1>4, <1>7
  <2>2. out \cup {[sample |-> c[k + 1], snap |-> p]}
          = {[sample |-> x, snap |-> p] : x \in Seen(c, k + 1)}
    <3>1. out \cup {Emitted(c[k + 1])} = {Emitted(x) : x \in Seen(c, k + 1)}
      <4> HIDE DEF Emitted
      <4> QED
        BY <1>1, <2>1
    <3> QED
      BY <3>1
  <2>3. Progress(c, p, k + 1, out \cup {[sample |-> c[k + 1], snap |-> p]}, told)
    BY <1>0, <1>5, <2>1, <2>2 DEF Progress
  <2> QED
    BY <1>3, <1>7, <2>3
<1> QED
  BY <1>6, <1>7

(* A limiter that learns more knows what it knew.                          *)
LEMMA ProgressKept ==
  ASSUME NEW c, NEW p, NEW k, NEW out, NEW told, NEW more,
         Progress(c, p, k, out, told), told \subseteq more
  PROVE  Progress(c, p, k, out, more)
BY DEF Progress

(* Nothing is walked yet.                                                  *)
LEMMA ProgressBegins ==
  ASSUME NEW c \in Seq(Samples), NEW p, NEW told
  PROVE  Progress(c, p, 0, {}, told)
<1>1. 1..0 = {} /\ Len(c) \in Nat
  BY LenProperties
<1>2. Seen(c, 0) = {}
  BY <1>1 DEF Seen
<1> QED
  BY <1>1, <1>2 DEF Progress

(* A content that is walked to its end shows what Shown says.              *)
LEMMA SeenAll ==
  ASSUME NEW c \in Seq(Samples)
  PROVE  Seen(c, Len(c)) = Shown(c)
<1>1. DOMAIN c = 1..Len(c)
  BY LenProperties
<1> QED
  BY <1>1 DEF Seen, Shown

(* What a callback keeps of its metric is what the content shows of it.    *)
LEMMA FirstWinsShown ==
  ASSUME NEW c \in Seq(Samples), NEW n
  PROVE  FirstWins(c, n) = {x \in Shown(c) : x.name = n}
<1>1. \A i \in DOMAIN c : c[i] \in Samples
  BY ElementOfSeq, LenProperties
<1>2. \A x : x \in FirstWins(c, n) <=>
         \E i \in DOMAIN c : /\ c[i] = x /\ c[i].name = n
                             /\ \A j \in 1..(i - 1) : Series(c[j]) # Series(c[i])
  BY DEF FirstWins
<1>3. \A x : x \in {y \in Shown(c) : y.name = n} <=>
         /\ x \in Samples /\ x.name = n
         /\ \E i \in DOMAIN c : c[i] = x /\ ~\E j \in 1..(i - 1) : Series(c[j]) = Series(x)
  BY DEF Shown
<1> QED
  BY <1>1, <1>2, <1>3

-----------------------------------------------------------------------------
(* A new snapshot leaves the earlier ones as they are.                     *)
LEMMA StoreAppends ==
  ASSUME TypeOK, Store
  PROVE  /\ stored' \in Seq(Contents \cup {<<>>})
         /\ Current' = Current + 1 /\ Current \in Nat \ {0} /\ Current' \in 1..MaxSnapshots
         /\ \A p \in 1..Current : stored'[p] = stored[p]
<1>1. PICK c \in Contents : stored' = Append(stored, c)
  BY DEF Store
<1>2. stored \in Seq(Contents \cup {<<>>}) /\ Current \in 1..MaxSnapshots /\ Current < MaxSnapshots
  BY DEF TypeOK, Store
<1>3. c \in Contents \cup {<<>>}
  BY <1>1
<1> QED
  BY <1>1, <1>2, <1>3, AppendProperties, BoundAssumption DEF Current

(* The steps of a scrape keep the types.                                   *)
LEMMA ScrapeTypeStep ==
  ASSUME TypeOK, NEW s \in Scrapers,
         ScrapeLoads(s) \/ Emit(s) \/ Drop(s) \/ Log(s) \/ ScrapeEnds(s)
  PROVE  TypeOK'
<1> DEFINE Places == [at : {"idle", "walk", "log"}, snap : 1..Current, next : Nat \ {0},
                      out : SUBSET Observed, line : Reasons \cup {NoReason}]
<1>0. /\ scrape \in [Scrapers -> Places] /\ scrape[s] \in Places
      /\ Current \in 1..MaxSnapshots /\ Current \in Nat \ {0}
      /\ warned \in [Readers -> SUBSET Reasons] /\ logged \in [Readers -> [Reasons -> Nat]]
  BY BoundAssumption DEF TypeOK
<1>1. UNCHANGED <<stored, registered, ensuring, export>> /\ Current' = Current /\ Observed' = Observed
  BY DEF ScrapeLoads, Emit, Drop, Log, ScrapeEnds, Current, Observed
<1>2. SUFFICES /\ scrape' \in [Scrapers -> Places]
               /\ warned' \in [Readers -> SUBSET Reasons]
               /\ logged' \in [Readers -> [Reasons -> Nat]]
  BY <1>1 DEF TypeOK
<1>3. Idle \in Places
  BY <1>0 DEF Idle
<1>4. CASE ScrapeLoads(s)
  <2>1. \A r \in Places : [r EXCEPT !.at = "walk", !.snap = Current] \in Places
    <3> SUFFICES ASSUME NEW r \in Places
                 PROVE  [r EXCEPT !.at = "walk", !.snap = Current] \in Places
      OBVIOUS
    <3>1. Current \in 1..Current
      BY <1>0
    <3> QED
      BY ONLY <3>1, r \in Places
  <2> QED
    BY <1>0, <1>3, <1>4, <2>1 DEF ScrapeLoads
<1>5. CASE Emit(s)
  <2>1. [sample |-> Sample(s), snap |-> scrape[s].snap] \in Observed
    BY <1>0, <1>5, StoredContent DEF Emit, Walking, Sample, Content, Observed
  <2> DEFINE out == scrape[s].out \cup {[sample |-> Sample(s), snap |-> scrape[s].snap]}
  <2>2. /\ scrape' = [scrape EXCEPT ![s].next = @ + 1, ![s].out = out]
        /\ UNCHANGED <<warned, logged>>
    BY <1>5 DEF Emit
  <2>3. out \in SUBSET Observed /\ scrape[s].next + 1 \in Nat \ {0}
    BY <1>0, <2>1
  <2> HIDE DEF out
  <2>4. scrape' \in [Scrapers -> Places]
    <3> DEFINE moved == [scrape[s] EXCEPT !.next = @ + 1, !.out = out]
    <3>1. moved \in Places
      BY <1>0, <2>3
    <3>2. scrape' = [scrape EXCEPT ![s] = moved]
      BY <2>2
    <3> HIDE DEF moved
    <3> QED
      BY <1>0, <3>1, <3>2
  <2> QED
    BY <1>0, <2>2, <2>4
<1>6. CASE Drop(s)
  <2> DEFINE reason == ReasonOf(Sample(s))
             new == reason \notin warned["scrape"]
  <2>1. reason \in Reasons
    BY <1>0, <1>6, StoredContent DEF Drop, Walking, Sample, Content, Reasons, ReasonOf
  <2>2. /\ warned' = [warned EXCEPT !["scrape"] = @ \cup {reason}]
        /\ scrape' = [scrape EXCEPT ![s].next = @ + 1, ![s].at = IF new THEN "log" ELSE @,
                                    ![s].line = IF new THEN reason ELSE @]
        /\ logged' = logged
    BY <1>6 DEF Drop
  <2> DEFINE at == IF new THEN "log" ELSE scrape[s].at
             line == IF new THEN reason ELSE scrape[s].line
  <2> HIDE DEF reason
  <2>3. /\ scrape[s].next + 1 \in Nat \ {0} /\ at \in {"idle", "walk", "log"}
        /\ line \in Reasons \cup {NoReason}
    BY <1>0, <2>1
  <2>5. scrape' = [scrape EXCEPT ![s].next = @ + 1, ![s].at = at, ![s].line = line]
    BY <2>2
  <2> HIDE DEF at, line
  <2>4. scrape' \in [Scrapers -> Places]
    BY <1>0, <2>3, <2>5
  <2> QED
    BY <1>0, <2>1, <2>2, <2>4 DEF Readers
<1>7. CASE Log(s)
  <2>1. scrape' \in [Scrapers -> Places]
    BY <1>0, <1>7 DEF Log
  <2>2. logged' \in [Readers -> [Reasons -> Nat]]
    <3> DEFINE l == scrape[s].line
    <3>1. logged' = [logged EXCEPT !["scrape"][l] = @ + 1]
      BY <1>7 DEF Log
    <3>2. logged["scrape"] \in [Reasons -> Nat]
      BY <1>0 DEF Readers
    <3> HIDE DEF l
    <3>3. [logged["scrape"] EXCEPT ![l] = @ + 1] \in [Reasons -> Nat]
      <4>1. CASE l \in Reasons
        BY <3>2, <4>1
      <4>2. CASE l \notin Reasons
        BY <3>2, <4>2
      <4> QED
        BY <4>1, <4>2
    <3> QED
      BY <1>0, <3>1, <3>3
  <2> QED
    BY <1>0, <1>7, <2>1, <2>2 DEF Log
<1>8. CASE ScrapeEnds(s)
  BY <1>0, <1>3, <1>8 DEF ScrapeEnds
<1> QED
  BY <1>4, <1>5, <1>6, <1>7, <1>8

(* So do all others.                                                       *)
LEMMA TypeStep ==
  ASSUME TypeOK, [Next]_vars
  PROVE  TypeOK'
<1>0. Current \in 1..MaxSnapshots /\ Current \in Nat \ {0}
  BY BoundAssumption DEF TypeOK
<1>1. CASE Store
  <2>1. Current' = Current + 1
    BY <1>1, StoreAppends
  <2>2. 1..Current \subseteq 1..Current' /\ Observed \subseteq Observed'
    BY <1>0, <2>1 DEF Observed
  <2>3. \A o \in SUBSET Observed : o \in SUBSET Observed'
    BY <2>2
  <2>4. UNCHANGED <<scrape, warned, logged, registered, ensuring, export>>
    BY <1>1 DEF Store
  <2>5. scrape' \in [Scrapers -> [at : {"idle", "walk", "log"}, snap : 1..Current', next : Nat \ {0},
                                  out : SUBSET Observed', line : Reasons \cup {NoReason}]]
    BY <2>2, <2>3, <2>4 DEF TypeOK
  <2>6. export' \in [on : BOOLEAN, since : 1..Current', todo : SUBSET Names, out : SUBSET Observed']
    BY <2>2, <2>3, <2>4 DEF TypeOK
  <2> QED
    BY <1>1, StoreAppends, <2>4, <2>5, <2>6 DEF TypeOK
<1>2. ASSUME NEW s \in Scrapers,
             ScrapeLoads(s) \/ Emit(s) \/ Drop(s) \/ Log(s) \/ ScrapeEnds(s)
      PROVE  TypeOK'
  BY <1>2, ScrapeTypeStep
<1>3. CASE EnsureLoads \/ Register
  <2>1. /\ UNCHANGED <<stored, scrape, warned, logged, export>>
        /\ Current' = Current /\ Observed' = Observed
    BY <1>3 DEF EnsureLoads, Register, Current, Observed
  <2>2. NameSet(stored[Current]) \subseteq Names
    <3>1. stored[Current] \in Contents \cup {<<>>}
      BY <1>0, ElementOfSeq DEF TypeOK, Current
    <3> QED
      BY <3>1 DEF NameSet, Names
  <2>3. registered' \in SUBSET Names /\ ensuring' \in SUBSET Names
    BY <1>3, <2>2 DEF TypeOK, EnsureLoads, Register
  <2> QED
    BY <2>1, <2>3 DEF TypeOK
<1>4. CASE ExportBegins \/ ExportEnds
  <2>1. /\ UNCHANGED <<stored, scrape, warned, logged, registered, ensuring>>
        /\ Current' = Current /\ Observed' = Observed
    BY <1>4 DEF ExportBegins, ExportEnds, Current, Observed
  <2>2. export' \in [on : BOOLEAN, since : 1..Current, todo : SUBSET Names, out : SUBSET Observed]
    <3>1. /\ registered \in SUBSET Names /\ {} \in SUBSET Names /\ {} \in SUBSET Observed
          /\ 1 \in 1..Current /\ Current \in 1..Current
      BY <1>0 DEF TypeOK
    <3>2. \/ export' = [on |-> TRUE, since |-> Current, todo |-> registered, out |-> {}]
          \/ export' = [on |-> FALSE, since |-> 1, todo |-> {}, out |-> {}]
      BY <1>4 DEF ExportBegins, ExportEnds, NoExport
    <3>3. CASE export' = [on |-> TRUE, since |-> Current, todo |-> registered, out |-> {}]
      BY ONLY <3>1, <3>3
    <3>4. CASE export' = [on |-> FALSE, since |-> 1, todo |-> {}, out |-> {}]
      BY ONLY <3>1, <3>4
    <3> QED
      BY <3>2, <3>3, <3>4
  <2> QED
    BY <2>1, <2>2 DEF TypeOK
<1>5. CASE Callback
  <2>1. /\ UNCHANGED <<stored, scrape, registered, ensuring>>
        /\ Current' = Current /\ Observed' = Observed
    BY <1>5 DEF Callback, Current, Observed
  <2>2. PICK n \in export.todo :
          LET kept == FirstWins(stored[Current], n)
              dropped == {ReasonOf(x) : x \in {stored[Current][i] : i \in DOMAIN stored[Current]} \ kept}
              new == {r \in dropped : r.metric = n} \ warned["push"]
          IN /\ export' = [export EXCEPT !.todo = @ \ {n},
                             !.out = @ \cup {[sample |-> x, snap |-> Current] : x \in kept}]
             /\ warned' = [warned EXCEPT !["push"] = @ \cup new]
             /\ logged' = [logged EXCEPT !["push"] =
                             [r \in Reasons |-> IF r \in new THEN @[r] + 1 ELSE @[r]]]
    BY <1>5 DEF Callback, CallbackLoads
  <2> DEFINE c == stored[Current]
             kept == FirstWins(c, n)
             dropped == {ReasonOf(x) : x \in {c[i] : i \in DOMAIN c} \ kept}
             new == {r \in dropped : r.metric = n} \ warned["push"]
  <2>3. \A i \in DOMAIN c : c[i] \in Samples
    BY <1>0, StoredContent
  <2>4. kept \subseteq Samples
    BY <2>3 DEF FirstWins
  <2>5. new \subseteq Reasons
    BY <2>3 DEF Reasons, ReasonOf
  <2> HIDE DEF kept, new, c
  <2>6. export' \in [on : BOOLEAN, since : 1..Current, todo : SUBSET Names, out : SUBSET Observed]
    <3>1. {[sample |-> x, snap |-> Current] : x \in kept} \subseteq Observed
      BY <1>0, <2>4 DEF Observed
    <3> QED
      BY <2>2, <3>1 DEF TypeOK, kept, c
  <2>7. warned' \in [Readers -> SUBSET Reasons]
    BY <2>2, <2>5 DEF TypeOK, new, dropped, kept, c, Readers
  <2>8. logged' \in [Readers -> [Reasons -> Nat]]
    <3>1. [r \in Reasons |-> IF r \in new THEN logged["push"][r] + 1 ELSE logged["push"][r]]
            \in [Reasons -> Nat]
      BY DEF TypeOK, Readers
    <3>2. logged' = [logged EXCEPT !["push"] =
                       [r \in Reasons |-> IF r \in new THEN logged["push"][r] + 1 ELSE logged["push"][r]]]
      BY <2>2 DEF new, kept, c
    <3> QED
      BY <3>1, <3>2 DEF TypeOK
  <2> QED
    BY <2>1, <2>6, <2>7, <2>8 DEF TypeOK
<1>6. CASE UNCHANGED vars
  <2>1. Current' = Current /\ Observed' = Observed
    BY <1>6 DEF vars, Current, Observed
  <2> QED
    BY <1>6, <2>1 DEF vars, TypeOK
<1> QED
  BY <1>1, <1>2, <1>3, <1>4, <1>5, <1>6 DEF Next

-----------------------------------------------------------------------------
(* What a step of one scrape does to where the scrapes are: the others     *)
(* stay where they are.                                                    *)
LEMMA ScrapeMoves ==
  ASSUME TypeOK, NEW s \in Scrapers
  PROVE  /\ ScrapeLoads(s) =>
              /\ scrape'[s].snap = Current /\ scrape'[s].next = 1 /\ scrape'[s].out = {}
              /\ scrape'[s].at = "walk" /\ scrape'[s].line = NoReason
         /\ ScrapeEnds(s) =>
              /\ scrape'[s].snap = 1 /\ scrape'[s].next = 1 /\ scrape'[s].out = {}
              /\ scrape'[s].at = "idle" /\ scrape'[s].line = NoReason
         /\ Emit(s) =>
              /\ scrape'[s].snap = scrape[s].snap /\ scrape'[s].next = scrape[s].next + 1
              /\ scrape'[s].out = scrape[s].out \cup {[sample |-> Sample(s), snap |-> scrape[s].snap]}
              /\ scrape'[s].at = "walk" /\ scrape'[s].line = scrape[s].line
         /\ Drop(s) =>
              /\ scrape'[s].snap = scrape[s].snap /\ scrape'[s].next = scrape[s].next + 1
              /\ scrape'[s].out = scrape[s].out
              /\ IF ReasonOf(Sample(s)) \in warned["scrape"]
                   THEN scrape'[s].at = "walk" /\ scrape'[s].line = scrape[s].line
                   ELSE scrape'[s].at = "log" /\ scrape'[s].line = ReasonOf(Sample(s))
         /\ Log(s) =>
              /\ scrape'[s].snap = scrape[s].snap /\ scrape'[s].next = scrape[s].next
              /\ scrape'[s].out = scrape[s].out
              /\ scrape'[s].at = "walk" /\ scrape'[s].line = NoReason
         /\ ScrapeLoads(s) \/ Emit(s) \/ Drop(s) \/ Log(s) \/ ScrapeEnds(s) =>
              \A t \in Scrapers \ {s} : scrape'[t] = scrape[t]
<1>0. DOMAIN scrape = Scrapers /\ DOMAIN scrape[s] = {"at", "snap", "next", "out", "line"}
  BY DEF TypeOK
<1>1. ASSUME ScrapeLoads(s)
      PROVE  /\ scrape'[s].snap = Current /\ scrape'[s].next = 1 /\ scrape'[s].out = {}
             /\ scrape'[s].at = "walk" /\ scrape'[s].line = NoReason
             /\ \A t \in Scrapers \ {s} : scrape'[t] = scrape[t]
  BY <1>0, <1>1 DEF ScrapeLoads, Idle
<1>2. ASSUME ScrapeEnds(s)
      PROVE  /\ scrape'[s].snap = 1 /\ scrape'[s].next = 1 /\ scrape'[s].out = {}
             /\ scrape'[s].at = "idle" /\ scrape'[s].line = NoReason
             /\ \A t \in Scrapers \ {s} : scrape'[t] = scrape[t]
  BY <1>0, <1>2 DEF ScrapeEnds, Idle
<1>3. ASSUME Emit(s)
      PROVE  /\ scrape'[s].snap = scrape[s].snap /\ scrape'[s].next = scrape[s].next + 1
             /\ scrape'[s].out = scrape[s].out \cup {[sample |-> Sample(s), snap |-> scrape[s].snap]}
             /\ scrape'[s].at = "walk" /\ scrape'[s].line = scrape[s].line
             /\ \A t \in Scrapers \ {s} : scrape'[t] = scrape[t]
  BY <1>0, <1>3 DEF Emit, Walking
<1>4. ASSUME Drop(s)
      PROVE  /\ scrape'[s].snap = scrape[s].snap /\ scrape'[s].next = scrape[s].next + 1
             /\ scrape'[s].out = scrape[s].out
             /\ IF ReasonOf(Sample(s)) \in warned["scrape"]
                  THEN scrape'[s].at = "walk" /\ scrape'[s].line = scrape[s].line
                  ELSE scrape'[s].at = "log" /\ scrape'[s].line = ReasonOf(Sample(s))
             /\ \A t \in Scrapers \ {s} : scrape'[t] = scrape[t]
  BY <1>0, <1>4 DEF Drop, Walking
<1>5. ASSUME Log(s)
      PROVE  /\ scrape'[s].snap = scrape[s].snap /\ scrape'[s].next = scrape[s].next
             /\ scrape'[s].out = scrape[s].out
             /\ scrape'[s].at = "walk" /\ scrape'[s].line = NoReason
             /\ \A t \in Scrapers \ {s} : scrape'[t] = scrape[t]
  BY <1>0, <1>5 DEF Log
<1> QED
  BY <1>1, <1>2, <1>3, <1>4, <1>5

(* A scrape walks on, and knows of every sample it leaves out.             *)
LEMMA WalksStep ==
  ASSUME Inv, [Next]_vars
  PROVE  Walks'
<1> DEFINE Walked(s) == Progress(stored[scrape[s].snap], scrape[s].snap, scrape[s].next - 1,
                                 scrape[s].out, warned["scrape"])
<1>0. /\ TypeOK /\ \A s \in Scrapers : Walked(s)
      /\ \A s \in Scrapers : scrape[s].snap \in 1..Current /\ scrape[s].next \in Nat \ {0}
      /\ Current \in Nat \ {0}
  BY BoundAssumption DEF Inv, Walks, TypeOK
<1>1. CASE Store
  <2>1. \A s \in Scrapers : stored'[scrape[s].snap] = stored[scrape[s].snap]
    BY <1>0, <1>1, StoreAppends
  <2>2. UNCHANGED <<scrape, warned>>
    BY <1>1 DEF Store
  <2> QED
    BY <1>0, <2>1, <2>2 DEF Walks
<1>2. ASSUME NEW s \in Scrapers,
             ScrapeLoads(s) \/ Emit(s) \/ Drop(s) \/ Log(s) \/ ScrapeEnds(s)
      PROVE  Walks'
  <2>1. stored' = stored /\ warned["scrape"] \subseteq warned'["scrape"]
    BY <1>0, <1>2 DEF ScrapeLoads, Emit, Drop, Log, ScrapeEnds, TypeOK, Readers
  <2>2. ASSUME NEW t \in Scrapers \ {s}
        PROVE  Walked(t)'
    <3>1. scrape'[t] = scrape[t]
      BY <1>0, <1>2, ScrapeMoves
    <3>2. Walked(t)
      BY <1>0
    <3> QED
      BY <2>1, <3>1, <3>2, ProgressKept
  <2>3. Walked(s)'
    <3> DEFINE p == scrape[s].snap
               k == scrape[s].next - 1
               told == warned["scrape"]
    <3>1. stored[p] \in Seq(Samples) /\ stored[Current] \in Seq(Samples) /\ stored[1] \in Seq(Samples)
      BY <1>0, StoredContent
    <3>2. CASE ScrapeLoads(s)
      <4>1. Progress(stored[Current], Current, 0, {}, warned'["scrape"])
        BY <3>1, ProgressBegins
      <4>2. scrape'[s].snap = Current /\ scrape'[s].next - 1 = 0 /\ scrape'[s].out = {}
        BY <1>0, <3>2, ScrapeMoves
      <4> QED
        BY <2>1, <4>1, <4>2
    <3>3. CASE ScrapeEnds(s)
      <4>1. Progress(stored[1], 1, 0, {}, warned'["scrape"])
        BY <3>1, ProgressBegins
      <4>2. scrape'[s].snap = 1 /\ scrape'[s].next - 1 = 0 /\ scrape'[s].out = {}
        BY <1>0, <3>3, ScrapeMoves
      <4> QED
        BY <2>1, <4>1, <4>2
    <3>4. CASE Log(s)
      <4>1. Progress(stored[p], p, k, scrape[s].out, warned'["scrape"])
        BY <1>0, <2>1, ProgressKept
      <4> QED
        BY <1>0, <2>1, <3>4, <4>1, ScrapeMoves
    <3>5. CASE Emit(s) \/ Drop(s)
      <4>1. /\ Progress(stored[p], p, k, scrape[s].out, told) /\ k < Len(stored[p])
            /\ k + 1 = scrape[s].next /\ stored[p][k + 1] = Sample(s)
            /\ scrape'[s].next - 1 = k + 1 /\ scrape'[s].snap = p
        <5>1. scrape[s].next <= Len(stored[p]) /\ Sample(s) = stored[p][scrape[s].next]
          BY <3>5 DEF Emit, Drop, Walking, Sample, Content
        <5>2. scrape'[s].next = scrape[s].next + 1 /\ scrape'[s].snap = p
          BY <1>0, <3>5, ScrapeMoves
        <5>3. Len(stored[p]) \in Nat
          BY <3>1, LenProperties
        <5> QED
          BY <1>0, <5>1, <5>2, <5>3
      <4>2. CASE Emit(s)
        <5>1. ~\E o \in scrape[s].out : Series(o.sample) = Series(stored[p][k + 1])
          BY <4>1, <4>2 DEF Emit, Duplicate
        <5> HIDE DEF p, k, told
        <5>2. Progress(stored[p], p, k + 1,
                       scrape[s].out \cup {[sample |-> stored[p][k + 1], snap |-> p]}, told)
          BY <3>1, <4>1, <5>1, ProgressNext
        <5>3. scrape'[s].out = scrape[s].out \cup {[sample |-> stored[p][k + 1], snap |-> p]}
          BY <1>0, <4>1, <4>2, ScrapeMoves DEF p
        <5>4. warned' = warned
          BY <4>2 DEF Emit
        <5> QED
          BY <2>1, <4>1, <5>2, <5>3, <5>4 DEF told
      <4>3. CASE Drop(s)
        <5>1. \E o \in scrape[s].out : Series(o.sample) = Series(stored[p][k + 1])
          BY <4>1, <4>3 DEF Drop, Duplicate
        <5> HIDE DEF p, k
        <5>2. Progress(stored[p], p, k + 1, scrape[s].out, told \cup {ReasonOf(stored[p][k + 1])})
          BY <3>1, <4>1, <5>1, ProgressNext
        <5>3. scrape'[s].out = scrape[s].out
          BY <1>0, <4>3, ScrapeMoves
        <5>4. warned'["scrape"] = told \cup {ReasonOf(stored[p][k + 1])}
          BY <1>0, <4>1, <4>3 DEF Drop, TypeOK, Readers
        <5> QED
          BY <2>1, <4>1, <5>2, <5>3, <5>4
      <4> QED
        BY <3>5, <4>2, <4>3
    <3> QED
      BY <1>2, <3>2, <3>3, <3>4, <3>5
  <2> QED
    BY <2>2, <2>3 DEF Walks
<1>3. CASE EnsureLoads \/ Register \/ ExportBegins \/ ExportEnds \/ UNCHANGED vars
  <2>1. UNCHANGED <<stored, scrape, warned>>
    BY <1>3 DEF EnsureLoads, Register, ExportBegins, ExportEnds, vars
  <2> QED
    BY <1>0, <2>1 DEF Walks
<1>4. CASE Callback
  <2>1. UNCHANGED <<stored, scrape>> /\ warned'["scrape"] = warned["scrape"]
    BY <1>0, <1>4 DEF Callback, TypeOK, Readers
  <2> QED
    BY <1>0, <2>1 DEF Walks
<1> QED
  BY <1>1, <1>2, <1>3, <1>4 DEF Next

(* The lookup and the mark are one step: whoever marks a reason is the     *)
(* only one about to log it.                                               *)
LEMMA ScrapeLogStep ==
  ASSUME Inv, [Next]_vars
  PROVE  ScrapeLog'
<1>0. /\ TypeOK
      /\ \A s \in Scrapers : IF scrape[s].at = "log" THEN scrape[s].line \in warned["scrape"]
                                                     ELSE scrape[s].line = NoReason
      /\ \A r \in Reasons : IF r \in warned["scrape"] THEN Logged(r) \/ Logging(r) ELSE Unlogged(r)
      /\ warned["scrape"] \subseteq Reasons /\ NoReason \notin Reasons
      /\ logged["scrape"] \in [Reasons -> Nat]
  BY ReasonsAssumption DEF Inv, ScrapeLog, TypeOK, Readers
<1>1. ASSUME \A t \in Scrapers : scrape'[t].line = scrape[t].line,
             \A t \in Scrapers : scrape'[t].at = "log" <=> scrape[t].at = "log",
             warned'["scrape"] = warned["scrape"], logged'["scrape"] = logged["scrape"]
      PROVE  ScrapeLog'
  <2>1. \A r \in Reasons : /\ Logged(r)' <=> Logged(r)
                           /\ Logging(r)' <=> Logging(r)
                           /\ Unlogged(r)' <=> Unlogged(r)
    BY <1>1 DEF Logged, Logging, Unlogged
  <2> QED
    BY <1>0, <1>1, <2>1 DEF ScrapeLog
<1>2. CASE Store \/ EnsureLoads \/ Register \/ ExportBegins \/ ExportEnds \/ UNCHANGED vars
  <2>1. UNCHANGED <<scrape, warned, logged>>
    BY <1>2 DEF Store, EnsureLoads, Register, ExportBegins, ExportEnds, vars
  <2> QED
    BY <1>1, <2>1
<1>3. CASE Callback
  <2>1. /\ UNCHANGED scrape /\ warned'["scrape"] = warned["scrape"]
        /\ logged'["scrape"] = logged["scrape"]
    BY <1>0, <1>3 DEF Callback, TypeOK, Readers
  <2> QED
    BY <1>1, <2>1
<1>4. ASSUME NEW s \in Scrapers, ScrapeLoads(s) \/ Emit(s) \/ ScrapeEnds(s)
      PROVE  ScrapeLog'
  <2>1. UNCHANGED <<warned, logged>> /\ scrape[s].at # "log"
    BY <1>4 DEF ScrapeLoads, Emit, ScrapeEnds, Walking, Scraped
  <2>2. scrape[s].line = NoReason /\ scrape'[s].line = NoReason /\ scrape'[s].at # "log"
    BY <1>0, <1>4, <2>1, ScrapeMoves
  <2>3. \A t \in Scrapers \ {s} : scrape'[t] = scrape[t]
    BY <1>0, <1>4, ScrapeMoves
  <2> QED
    BY <1>1, <2>1, <2>2, <2>3
<1>5. ASSUME NEW s \in Scrapers, Drop(s)
      PROVE  ScrapeLog'
  <2>0. PICK r : r = ReasonOf(Sample(s))
    OBVIOUS
  <2>1. /\ scrape[s].at # "log" /\ logged' = logged
        /\ warned'["scrape"] = warned["scrape"] \cup {r}
    BY <1>0, <1>5, <2>0 DEF Drop, Walking, TypeOK, Readers
  <2>2. scrape[s].line = NoReason
    BY <1>0, <2>1
  <2>3. \A t \in Scrapers \ {s} : scrape'[t] = scrape[t]
    BY <1>0, <1>5, ScrapeMoves
  <2>4. IF r \in warned["scrape"]
          THEN scrape'[s].at = "walk" /\ scrape'[s].line = scrape[s].line
          ELSE scrape'[s].at = "log" /\ scrape'[s].line = r
    BY <1>0, <1>5, <2>0, ScrapeMoves
  <2>5. CASE r \in warned["scrape"]
    <3>1. warned'["scrape"] = warned["scrape"] /\ scrape'[s].at # "log"
      BY <2>1, <2>4, <2>5
    <3> QED
      BY <1>1, <2>1, <2>2, <2>3, <2>4, <2>5, <3>1
  <2>6. CASE r \notin warned["scrape"]
    <3>1. scrape'[s].at = "log" /\ scrape'[s].line = r
      BY <2>4, <2>6
    <3>2. r \in Reasons
      <4>1. warned'["scrape"] \in SUBSET Reasons
        BY <1>0, <1>5, ScrapeTypeStep DEF TypeOK, Readers
      <4> QED
        BY <2>1, <4>1
    <3>3. Unlogged(r)
      BY <1>0, <2>6, <3>2
    <3>4. Logging(r)'
      BY <2>1, <2>3, <3>1, <3>3 DEF Unlogged, Logging
    <3>5. ASSUME NEW q \in Reasons \ {r}
          PROVE  /\ Logged(q)' <=> Logged(q)
                 /\ Logging(q)' <=> Logging(q)
                 /\ Unlogged(q)' <=> Unlogged(q)
      <4>1. \A t \in Scrapers : scrape'[t].line = q <=> scrape[t].line = q
        BY <1>0, <2>2, <2>3, <3>1
      <4> QED
        BY <2>1, <4>1 DEF Logged, Logging, Unlogged
    <3>6. \A q \in Reasons : IF q \in warned'["scrape"] THEN Logged(q)' \/ Logging(q)' ELSE Unlogged(q)'
      BY <1>0, <2>1, <3>4, <3>5
    <3>7. \A t \in Scrapers : IF scrape'[t].at = "log" THEN scrape'[t].line \in warned'["scrape"]
                                                       ELSE scrape'[t].line = NoReason
      BY <1>0, <2>1, <2>3, <3>1
    <3> QED
      BY <3>6, <3>7 DEF ScrapeLog
  <2> QED
    BY <2>5, <2>6
<1>6. ASSUME NEW s \in Scrapers, Log(s)
      PROVE  ScrapeLog'
  <2>0. PICK r : r = scrape[s].line
    OBVIOUS
  <2>1. /\ scrape[s].at = "log" /\ warned' = warned
        /\ logged' = [logged EXCEPT !["scrape"][r] = @ + 1]
    BY <1>6, <2>0 DEF Log
  <2>2. r \in warned["scrape"] /\ r \in Reasons /\ r # NoReason
    BY <1>0, <2>0, <2>1
  <2>3. /\ \A t \in Scrapers \ {s} : scrape'[t] = scrape[t]
        /\ scrape'[s].line = NoReason /\ scrape'[s].at = "walk"
    BY <1>0, <1>6, ScrapeMoves
  <2>4. /\ logged'["scrape"][r] = logged["scrape"][r] + 1
        /\ \A q \in Reasons \ {r} : logged'["scrape"][q] = logged["scrape"][q]
    BY <1>0, <2>1, <2>2 DEF TypeOK, Readers
  <2>5. Logging(r)
    BY <1>0, <2>0, <2>2 DEF Logged
  <2>6. Logged(r)'
    <3>1. \A t \in Scrapers : scrape[t].line = r => t = s
      BY <2>0, <2>5 DEF Logging
    <3>2. logged["scrape"][r] = 0
      BY <2>5 DEF Logging
    <3>3. \A t \in Scrapers : scrape'[t].line # r
      BY <2>2, <2>3, <3>1
    <3> QED
      BY <2>4, <3>2, <3>3 DEF Logged
  <2>7. ASSUME NEW q \in Reasons \ {r}
        PROVE  /\ Logged(q)' <=> Logged(q)
               /\ Logging(q)' <=> Logging(q)
               /\ Unlogged(q)' <=> Unlogged(q)
    <3>1. \A t \in Scrapers : scrape'[t].line = q <=> scrape[t].line = q
      BY <1>0, <2>0, <2>3
    <3> QED
      BY <2>4, <3>1 DEF Logged, Logging, Unlogged
  <2>8. \A q \in Reasons : IF q \in warned'["scrape"] THEN Logged(q)' \/ Logging(q)' ELSE Unlogged(q)'
    BY <1>0, <2>1, <2>2, <2>6, <2>7
  <2>9. \A t \in Scrapers : IF scrape'[t].at = "log" THEN scrape'[t].line \in warned'["scrape"]
                                                     ELSE scrape'[t].line = NoReason
    BY <1>0, <2>1, <2>3
  <2> QED
    BY <2>8, <2>9 DEF ScrapeLog
<1> QED
  BY <1>2, <1>3, <1>4, <1>5, <1>6 DEF Next

-----------------------------------------------------------------------------
(* One callback: of its metric it keeps what the current content shows,    *)
(* and marks and logs what it has not marked before.                       *)
LEMMA CallbackStep ==
  ASSUME TypeOK, Callback
  PROVE  \E n \in export.todo, new \in SUBSET Reasons :
           /\ new = {r \in {ReasonOf(x) : x \in {stored[Current][i] : i \in DOMAIN stored[Current]}
                                                  \ FirstWins(stored[Current], n)} : r.metric = n}
                      \ warned["push"]
           /\ export'.on = export.on /\ export'.since = export.since
           /\ export'.todo = export.todo \ {n}
           /\ export'.out = export.out \cup
                {[sample |-> x, snap |-> Current] : x \in {y \in Shown(stored[Current]) : y.name = n}}
           /\ warned'["push"] = warned["push"] \cup new
           /\ logged'["push"] = [r \in Reasons |-> IF r \in new THEN logged["push"][r] + 1
                                                               ELSE logged["push"][r]]
           /\ UNCHANGED stored
<1>1. PICK n \in export.todo :
        LET kept == FirstWins(stored[Current], n)
            dropped == {ReasonOf(x) : x \in {stored[Current][i] : i \in DOMAIN stored[Current]} \ kept}
            new == {r \in dropped : r.metric = n} \ warned["push"]
        IN /\ export' = [export EXCEPT !.todo = @ \ {n},
                           !.out = @ \cup {[sample |-> x, snap |-> Current] : x \in kept}]
           /\ warned' = [warned EXCEPT !["push"] = @ \cup new]
           /\ logged' = [logged EXCEPT !["push"] =
                           [r \in Reasons |-> IF r \in new THEN @[r] + 1 ELSE @[r]]]
           /\ UNCHANGED stored
  BY DEF Callback, CallbackLoads
<1> DEFINE c == stored[Current]
           kept == FirstWins(c, n)
           new == {r \in {ReasonOf(x) : x \in {c[i] : i \in DOMAIN c} \ kept} : r.metric = n}
                    \ warned["push"]
<1>2. c \in Seq(Samples) /\ \A i \in DOMAIN c : c[i] \in Samples
  BY StoredContent, BoundAssumption DEF TypeOK
<1>3. kept = {y \in Shown(c) : y.name = n}
  BY <1>2, FirstWinsShown
<1>4. new \in SUBSET Reasons
  BY <1>2 DEF Reasons, ReasonOf
<1>5. /\ export' = [export EXCEPT !.todo = @ \ {n},
                      !.out = @ \cup {[sample |-> x, snap |-> Current] : x \in kept}]
      /\ warned' = [warned EXCEPT !["push"] = @ \cup new]
      /\ logged' = [logged EXCEPT !["push"] =
                      [r \in Reasons |-> IF r \in new THEN logged["push"][r] + 1
                                                      ELSE logged["push"][r]]]
      /\ UNCHANGED stored
  BY <1>1
<1> HIDE DEF new, kept
<1>6. /\ export'.on = export.on /\ export'.since = export.since
      /\ export'.todo = export.todo \ {n}
      /\ export'.out = export.out \cup {[sample |-> x, snap |-> Current] : x \in kept}
  BY <1>5 DEF TypeOK
<1>7. /\ warned'["push"] = warned["push"] \cup new
      /\ logged'["push"] = [r \in Reasons |-> IF r \in new THEN logged["push"][r] + 1
                                                          ELSE logged["push"][r]]
  BY <1>5 DEF TypeOK, Readers
<1>8. UNCHANGED stored
  BY <1>5
<1> QED
  BY <1>3, <1>4, <1>6, <1>7, <1>8 DEF new, kept

(* An export gathers, metric by metric, what the snapshot shows that was   *)
(* current at the time.                                                    *)
LEMMA PushedStep ==
  ASSUME Inv, [Next]_vars
  PROVE  Pushed'
<1>0. /\ TypeOK /\ Pushed
      /\ \A o \in export.out : o.snap \in 1..Current
      /\ Current \in Nat \ {0} /\ export.since \in 1..Current
  BY BoundAssumption DEF Inv, TypeOK, Observed
<1>1. CASE Store
  <2>1. \A o \in export.out : stored'[o.snap] = stored[o.snap]
    BY <1>0, <1>1, StoreAppends
  <2>2. UNCHANGED export
    BY <1>1 DEF Store
  <2>3. \A o \in export.out :
          {q.sample : q \in {q \in export.out : q.sample.name = o.sample.name}}
            = {x \in Shown(stored'[o.snap]) : x.name = o.sample.name}
    BY <1>0, <2>1 DEF Pushed
  <2> QED
    BY <1>0, <2>2, <2>3 DEF Pushed, ExportIsCurrent
<1>2. CASE UNCHANGED <<stored, export>>
  BY <1>0, <1>2 DEF Pushed, ExportIsCurrent
<1>3. CASE ExportBegins \/ ExportEnds
  <2>1. export'.out = {} /\ (export'.on \/ export'.todo = {})
    BY <1>3 DEF ExportBegins, ExportEnds, NoExport
  <2> QED
    BY <2>1 DEF Pushed, ExportIsCurrent
<1>4. CASE Callback
  <2>1. PICK n \in export.todo :
           /\ export'.on = export.on /\ export'.since = export.since
           /\ export'.todo = export.todo \ {n}
           /\ export'.out = export.out \cup
                {[sample |-> x, snap |-> Current] : x \in {y \in Shown(stored[Current]) : y.name = n}}
           /\ UNCHANGED stored
    BY <1>0, <1>4, CallbackStep
  <2>2. PICK kept : kept = {y \in Shown(stored[Current]) : y.name = n}
    OBVIOUS
  <2>3. \A o : o \in export'.out <=>
           o \in export.out \/ \E x \in kept : o = [sample |-> x, snap |-> Current]
    BY <2>1, <2>2
  <2>4. \A x \in kept : x.name = n
    BY <2>2
  <2>5. \A o \in export.out : o.sample.name # n
    BY <1>0, <2>1 DEF Pushed
  <2>6. export'.on \/ (export'.out = {} /\ export'.todo = {})
    BY <1>0, <2>1 DEF Pushed
  <2>7. \A o \in export'.out : o.sample.name \notin export'.todo
    BY <1>0, <2>1, <2>3, <2>4 DEF Pushed
  <2>8. ASSUME NEW o \in export'.out
        PROVE  {q.sample : q \in {q \in export'.out : q.sample.name = o.sample.name}}
                 = {x \in Shown(stored'[o.snap]) : x.name = o.sample.name}
    <3>1. CASE o \in export.out
      <4>1. \A q : q \in export'.out /\ q.sample.name = o.sample.name
                     <=> q \in export.out /\ q.sample.name = o.sample.name
        BY <2>3, <2>4, <2>5, <3>1
      <4>2. {q \in export'.out : q.sample.name = o.sample.name}
              = {q \in export.out : q.sample.name = o.sample.name}
        BY <4>1
      <4>3. {q.sample : q \in {q \in export.out : q.sample.name = o.sample.name}}
              = {x \in Shown(stored[o.snap]) : x.name = o.sample.name}
        BY <1>0, <3>1 DEF Pushed
      <4>4. stored' = stored
        BY <2>1
      <4> QED
        BY <4>2, <4>3, <4>4
    <3>2. CASE o \notin export.out
      <4>1. o.snap = Current /\ o.sample.name = n
        BY <2>3, <2>4, <3>2
      <4>2. \A q : q \in export'.out /\ q.sample.name = n
                     <=> \E x \in kept : q = [sample |-> x, snap |-> Current]
        BY <2>3, <2>4, <2>5
      <4>3. {q.sample : q \in {q \in export'.out : q.sample.name = n}} = kept
        <5> DEFINE Kept(x) == [sample |-> x, snap |-> Current]
        <5>1. \A x : Kept(x).sample = x
          OBVIOUS
        <5>2. \A q : q \in export'.out /\ q.sample.name = n <=> \E x \in kept : q = Kept(x)
          BY <4>2
        <5> HIDE DEF Kept
        <5>3. \A q \in export'.out : q.sample.name = n => q.sample \in kept
          BY <5>1, <5>2
        <5>4. \A x \in kept : \E q \in export'.out : q.sample.name = n /\ q.sample = x
          BY <5>1, <5>2
        <5> QED
          BY <5>3, <5>4
      <4> QED
        BY <2>1, <2>2, <4>1, <4>3
    <3> QED
      BY <3>1, <3>2
  <2>9. \A o \in export'.out : o.snap >= export'.since
    BY <1>0, <2>1, <2>3 DEF Pushed, ExportIsCurrent
  <2> QED
    BY <2>6, <2>7, <2>8, <2>9 DEF Pushed, ExportIsCurrent
<1> QED
  BY <1>1, <1>2, <1>3, <1>4
     DEF Next, ScrapeLoads, Emit, Drop, Log, ScrapeEnds, EnsureLoads, Register, vars

(* The exporter's limiter knows of every loss of what was pushed.          *)
LEMMA PushLogStep ==
  ASSUME Inv, [Next]_vars
  PROVE  PushLog'
<1>0. /\ TypeOK /\ PushLog
      /\ \A o \in export.out : o.snap \in 1..Current
      /\ warned["push"] \subseteq Reasons
  BY DEF Inv, TypeOK, Observed, Readers
<1>1. CASE Store
  <2>1. \A o \in export.out : stored'[o.snap] = stored[o.snap]
    BY <1>0, <1>1, StoreAppends
  <2>2. UNCHANGED <<export, warned, logged>>
    BY <1>1 DEF Store
  <2>3. \A o \in export.out : Lost(stored'[o.snap]) = Lost(stored[o.snap])
    BY <2>1
  <2> QED
    BY <1>0, <2>2, <2>3 DEF PushLog
<1>2. ASSUME UNCHANGED stored, export'.out \subseteq export.out,
             warned'["push"] = warned["push"], logged'["push"] = logged["push"]
      PROVE  PushLog'
  BY <1>0, <1>2 DEF PushLog
<1>3. ASSUME NEW s \in Scrapers,
             ScrapeLoads(s) \/ Emit(s) \/ Drop(s) \/ Log(s) \/ ScrapeEnds(s)
      PROVE  PushLog'
  <2>1. /\ UNCHANGED <<stored, export>> /\ warned'["push"] = warned["push"]
        /\ logged'["push"] = logged["push"]
    BY <1>0, <1>3 DEF ScrapeLoads, Emit, Drop, Log, ScrapeEnds, TypeOK, Readers
  <2> QED
    BY <1>2, <2>1
<1>4. CASE EnsureLoads \/ Register \/ ExportBegins \/ ExportEnds \/ UNCHANGED vars
  <2>1. /\ UNCHANGED <<stored, warned, logged>> /\ export'.out \subseteq export.out
    BY <1>4 DEF EnsureLoads, Register, ExportBegins, ExportEnds, NoExport, vars
  <2> QED
    BY <1>2, <2>1
<1>5. CASE Callback
  <2>1. PICK n \in export.todo, new \in SUBSET Reasons :
           /\ new = {r \in {ReasonOf(x) : x \in {stored[Current][i] : i \in DOMAIN stored[Current]}
                                                  \ FirstWins(stored[Current], n)} : r.metric = n}
                      \ warned["push"]
           /\ export'.out = export.out \cup
                {[sample |-> x, snap |-> Current] : x \in {y \in Shown(stored[Current]) : y.name = n}}
           /\ warned'["push"] = warned["push"] \cup new
           /\ logged'["push"] = [r \in Reasons |-> IF r \in new THEN logged["push"][r] + 1
                                                               ELSE logged["push"][r]]
           /\ UNCHANGED stored
    BY <1>0, <1>5, CallbackStep
  <2> DEFINE c == stored[Current]
  <2>2. FirstWins(c, n) = {x \in Shown(c) : x.name = n}
    BY <1>0, StoredContent, FirstWinsShown, BoundAssumption DEF TypeOK
  <2>3. \A r \in new : r \notin warned["push"]
    BY <2>1
  <2>4. \A r \in Reasons : logged'["push"][r] = IF r \in warned'["push"] THEN 1 ELSE 0
    <3> SUFFICES ASSUME NEW r \in Reasons
                 PROVE  logged'["push"][r] = IF r \in warned'["push"] THEN 1 ELSE 0
      OBVIOUS
    <3>1. logged["push"][r] = IF r \in warned["push"] THEN 1 ELSE 0
      BY <1>0 DEF PushLog
    <3>2. logged'["push"][r] = IF r \in new THEN logged["push"][r] + 1 ELSE logged["push"][r]
      BY <2>1
    <3>3. r \in warned'["push"] <=> r \in warned["push"] \/ r \in new
      BY <2>1
    <3> QED
      BY <2>3, <3>1, <3>2, <3>3
  <2>5. ASSUME NEW r \in Lost(c), r.metric = n
        PROVE  r \in warned'["push"]
    <3>1. PICK x \in {c[i] : i \in DOMAIN c} \ Shown(c) : r = [metric |-> x.name, system |-> x.system]
      BY DEF Lost
    <3>2. r = ReasonOf(x) /\ x \notin FirstWins(c, n)
      BY <2>2, <3>1 DEF ReasonOf
    <3>3. r \in {q \in {ReasonOf(y) : y \in {c[i] : i \in DOMAIN c} \ FirstWins(c, n)} : q.metric = n}
      BY <2>5, <3>1, <3>2
    <3> QED
      BY <2>1, <3>3
  <2>6. ASSUME NEW o \in export'.out, NEW r \in Reasons,
               r \in Lost(stored'[o.snap]), r.metric = o.sample.name
        PROVE  r \in warned'["push"]
    <3>1. CASE o \in export.out
      BY <1>0, <2>1, <2>6, <3>1 DEF PushLog
    <3>2. CASE o \notin export.out
      <4>1. PICK x \in {y \in Shown(c) : y.name = n} : o = [sample |-> x, snap |-> Current]
        BY <2>1, <3>2
      <4>2. o.snap = Current /\ o.sample.name = n
        BY <4>1
      <4> QED
        BY <2>1, <2>5, <2>6, <4>2
    <3> QED
      BY <3>1, <3>2
  <2> QED
    BY <2>4, <2>6 DEF PushLog
<1> QED
  BY <1>1, <1>3, <1>4, <1>5 DEF Next

-----------------------------------------------------------------------------
(* The store starts with the empty snapshot, the readers with nothing.     *)
LEMMA InitInv == Init => Inv
<1> SUFFICES ASSUME Init
             PROVE  Inv
  OBVIOUS
<1>1. /\ stored \in Seq(Contents \cup {<<>>}) /\ Len(stored) = 1 /\ stored[1] = <<>>
      /\ Current = 1 /\ 1 \in 1..MaxSnapshots
  BY BoundAssumption DEF Init, Current
<1>2. Idle \in [at : {"idle", "walk", "log"}, snap : 1..Current, next : Nat \ {0},
                out : SUBSET Observed, line : Reasons \cup {NoReason}]
  BY <1>1 DEF Idle
<1>3. TypeOK
  <2>1. scrape \in [Scrapers -> [at : {"idle", "walk", "log"}, snap : 1..Current, next : Nat \ {0},
                                 out : SUBSET Observed, line : Reasons \cup {NoReason}]]
    BY <1>2 DEF Init
  <2>2. /\ warned \in [Readers -> SUBSET Reasons] /\ logged \in [Readers -> [Reasons -> Nat]]
        /\ registered \in SUBSET Names /\ ensuring \in SUBSET Names
    BY DEF Init
  <2>3. export \in [on : BOOLEAN, since : 1..Current, todo : SUBSET Names, out : SUBSET Observed]
    BY <1>1 DEF Init, NoExport
  <2> QED
    BY <1>1, <2>1, <2>2, <2>3 DEF TypeOK
<1>4. Walks
  <2>1. \A s \in Scrapers : scrape[s].snap = 1 /\ scrape[s].next - 1 = 0 /\ scrape[s].out = {}
    BY DEF Init, Idle
  <2>2. Progress(<<>>, 1, 0, {}, warned["scrape"])
    BY ProgressBegins, EmptySeq
  <2> QED
    BY <1>1, <2>1, <2>2 DEF Walks
<1>5. ScrapeLog
  <2>1. \A s \in Scrapers : scrape[s].at = "idle" /\ scrape[s].line = NoReason
    BY DEF Init, Idle
  <2>2. \A r \in Reasons : r \notin warned["scrape"] /\ logged["scrape"][r] = 0
    BY DEF Init, Readers
  <2> QED
    BY <2>1, <2>2, ReasonsAssumption DEF ScrapeLog, Unlogged
<1>6. Pushed /\ PushLog
  BY DEF Init, NoExport, Pushed, PushLog, ExportIsCurrent, Readers
<1> QED
  BY <1>3, <1>4, <1>5, <1>6 DEF Inv

(* Inv is inductive.                                                       *)
LEMMA StepInv == Inv /\ [Next]_vars => Inv'
BY TypeStep, WalksStep, ScrapeLogStep, PushedStep, PushLogStep DEF Inv

(* The invariant holds in every reachable state.                           *)
THEOREM Invariance == Spec => []Inv
BY InitInv, StepInv, PTL DEF Spec

(* The variables keep their types.                                         *)
THEOREM TypeCorrect == Spec => []TypeOK
<1>1. Inv => TypeOK
  BY DEF Inv
<1> QED
  BY <1>1, Invariance, PTL

(* Nothing stale is ever pushed.                                           *)
THEOREM NothingStale == Spec => []ExportIsCurrent
<1>1. Inv => ExportIsCurrent
  BY DEF Inv, Pushed
<1> QED
  BY <1>1, Invariance, PTL

(* A finished scrape has walked all of its snapshot.                       *)
LEMMA ScrapedAll ==
  ASSUME Inv, NEW s \in Scrapers, Scraped(s)
  PROVE  /\ Content(s) \in Seq(Samples)
         /\ DOMAIN Content(s) = 1..(scrape[s].next - 1)
         /\ Seen(Content(s), scrape[s].next - 1) = Shown(Content(s))
         /\ Progress(Content(s), scrape[s].snap, scrape[s].next - 1, scrape[s].out, warned["scrape"])
<1>1. /\ Content(s) \in Seq(Samples) /\ Len(Content(s)) \in Nat
      /\ DOMAIN Content(s) = 1..Len(Content(s)) /\ scrape[s].next \in Nat \ {0}
  BY StoredContent DEF Inv, TypeOK, Content
<1>2. Progress(Content(s), scrape[s].snap, scrape[s].next - 1, scrape[s].out, warned["scrape"])
  BY DEF Inv, Walks, Content
<1>3. scrape[s].next - 1 = Len(Content(s))
  BY <1>1, <1>2 DEF Progress, Scraped
<1> QED
  BY <1>1, <1>2, <1>3, SeenAll

(* Both readers pick the same survivor of every collision.                 *)
THEOREM SameSurvivors == Spec => []ReadersAgree
<1>1. Inv => ReadersAgree
  <2> SUFFICES ASSUME Inv
               PROVE  ReadersAgree
    OBVIOUS
  <2>1. ASSUME NEW s \in Scrapers, Scraped(s)
        PROVE  scrape[s].out = {[sample |-> x, snap |-> scrape[s].snap] : x \in Shown(Content(s))}
    BY <2>1, ScrapedAll DEF Progress
  <2>2. ASSUME NEW o \in export.out
        PROVE  {p.sample : p \in {q \in export.out : q.sample.name = o.sample.name}}
                 = {x \in Shown(stored[o.snap]) : x.name = o.sample.name}
    BY DEF Inv, Pushed
  <2> QED
    BY <2>1, <2>2 DEF ReadersAgree
<1> QED
  BY <1>1, Invariance, PTL

(* How many scrapes are about to log a reason.                             *)
LEMMA AboutToLogCounts ==
  ASSUME NEW r
  PROVE  /\ (\A s \in Scrapers : scrape[s].line # r) => AboutToLog(r) = 0
         /\ (\E s \in Scrapers : {t \in Scrapers : scrape[t].line = r} = {s}) => AboutToLog(r) = 1
<1>1. (\A s \in Scrapers : scrape[s].line # r) => {s \in Scrapers : scrape[s].line = r} = {}
  OBVIOUS
<1> QED
  BY <1>1, FS_EmptySet, FS_Singleton DEF AboutToLog

(* However many scrapes meet a drop and however often, it is logged once.  *)
THEOREM OneLinePerDrop == Spec => []DropsAreLoggedOnce
<1>1. Inv => DropsAreLoggedOnce
  <2> SUFFICES ASSUME Inv
               PROVE  DropsAreLoggedOnce
    OBVIOUS
  <2>1. \A r \in Reasons : logged["scrape"][r] + AboutToLog(r) = IF r \in warned["scrape"] THEN 1 ELSE 0
    BY AboutToLogCounts DEF Inv, ScrapeLog, Logged, Logging, Unlogged
  <2>2. \A r \in Reasons : logged["push"][r] = IF r \in warned["push"] THEN 1 ELSE 0
    BY DEF Inv, PushLog
  <2>3. ASSUME NEW s \in Scrapers, Scraped(s), NEW r \in Lost(Content(s))
        PROVE  r \in Reasons /\ r \in warned["scrape"]
    <3>1. PICK x \in {Content(s)[i] : i \in DOMAIN Content(s)} \ Shown(Content(s)) :
            r = [metric |-> x.name, system |-> x.system]
      BY DEF Lost
    <3>2. PICK i \in DOMAIN Content(s) : x = Content(s)[i]
      BY <3>1
    <3>3. x \notin Seen(Content(s), scrape[s].next - 1) /\ i \in 1..(scrape[s].next - 1)
      BY <2>3, <3>1, <3>2, ScrapedAll
    <3>4. ReasonOf(x) \in warned["scrape"]
      BY <2>3, <3>2, <3>3, ScrapedAll DEF Progress
    <3> QED
      BY <3>1, <3>4 DEF ReasonOf, Inv, TypeOK, Readers
  <2>4. ASSUME NEW o \in export.out, NEW r \in Reasons,
               r \in Lost(stored[o.snap]), r.metric = o.sample.name
        PROVE  logged["push"][r] = 1
    BY <2>2, <2>4 DEF Inv, PushLog
  <2> QED
    BY <2>1, <2>2, <2>3, <2>4 DEF DropsAreLoggedOnce
<1> QED
  BY <1>1, Invariance, PTL
=============================================================================

----------------------------- MODULE Exporters ------------------------------
(***************************************************************************)
(* The two readers of the snapshot store.  A Prometheus scrape             *)
(* (prometheus.go) loads the store once and walks the snapshot; several    *)
(* scrapes run at once.  The OTLP exporter (otlp.go) registers one         *)
(* instrument per metric name, and in each export every instrument's       *)
(* callback loads the store by itself.  Both drop all but the first of the *)
(* samples that agree in name and labels, and log each such drop once      *)
(* (dropwarn.go).  The collection loop replaces the snapshot meanwhile.    *)
(*                                                                         *)
(* A snapshot is the sequence of its systems' samples and is named by its  *)
(* position in stored.  A sample's labels are its system and its series.   *)
(* The samples of one name carry the same label keys: that is              *)
(* Polling!OneKeySetPerName, so the readers' guard against key drift never *)
(* fires and is left out, as are labels that Prometheus cannot render      *)
(* (cleanValue has replaced those).                                        *)
(***************************************************************************)
EXTENDS Naturals, Sequences, FiniteSets

CONSTANTS
    Contents,       \* what a cycle may publish: sequences of samples
    Scrapers,       \* HTTP requests for /metrics that may overlap
    MaxSnapshots    \* bound: snapshots stored, the empty one included

Samples == UNION {{c[i] : i \in DOMAIN c} : c \in Contents}

ASSUME SamplesAssumption ==
    \A s \in Samples : DOMAIN s = {"name", "system", "series", "value"}

ASSUME ContentsAssumption == \A c \in Contents : c \in Seq(Samples)

ASSUME BoundAssumption == MaxSnapshots \in Nat \ {0}

VARIABLES
    stored,      \* every snapshot, in order; the store holds the last one
    scrape,      \* per scraper: where it is, its snapshot, the next sample,
                 \*   what it has sent to the registry, what it is about to log
    warned,      \* per reader, its dropWarnings.seen
    logged,      \* history: per reader and reason, the lines written
    registered,  \* OTLPExporter.registered
    ensuring,    \* names EnsureInstruments has still to look at
    export       \* an OTLP export: is one running, the instruments whose
                 \*   callbacks are still to come, what the others observed

vars == <<stored, scrape, warned, logged, registered, ensuring, export>>

Current == Len(stored)
NameSet(content) == {content[i].name : i \in DOMAIN content}
Names == UNION {NameSet(c) : c \in Contents}
Readers == {"scrape", "push"}
Reasons == {[metric |-> s.name, system |-> s.system] : s \in Samples}
NoReason == [metric |-> "", system |-> ""]

(* Every metric has a name.                                                *)
ASSUME ReasonsAssumption == NoReason \notin Reasons

Idle == [at |-> "idle", snap |-> 1, next |-> 1, out |-> {}, line |-> NoReason]
NoExport == [on |-> FALSE, since |-> 1, todo |-> {}, out |-> {}]

(* What a reader has exported, and which snapshot it had it from.          *)
Observed == [sample : Samples, snap : 1..Current]

TypeOK ==
    /\ stored \in Seq(Contents \cup {<<>>}) /\ Current \in 1..MaxSnapshots
    /\ scrape \in [Scrapers -> [at : {"idle", "walk", "log"}, snap : 1..Current, next : Nat \ {0},
                                out : SUBSET Observed, line : Reasons \cup {NoReason}]]
    /\ warned \in [Readers -> SUBSET Reasons]
    /\ logged \in [Readers -> [Reasons -> Nat]]
    /\ registered \in SUBSET Names
    /\ ensuring \in SUBSET Names
    /\ export \in [on : BOOLEAN, since : 1..Current, todo : SUBSET Names, out : SUBSET Observed]

Init ==
    /\ stored = <<<<>>>>
    /\ scrape = [s \in Scrapers |-> Idle]
    /\ warned = [reader \in Readers |-> {}]
    /\ logged = [reader \in Readers |-> [r \in Reasons |-> 0]]
    /\ registered = {}
    /\ ensuring = {}
    /\ export = NoExport

-----------------------------------------------------------------------------
(* SnapshotStore.Store.                                                    *)
Store == /\ Current < MaxSnapshots
         /\ \E c \in Contents : stored' = Append(stored, c)
         /\ UNCHANGED <<scrape, warned, logged, registered, ensuring, export>>

(* The key of one series: the label values, under one name.                *)
Series(sample) == <<sample.name, sample.system, sample.series>>

-----------------------------------------------------------------------------
(* PromCollector.Collect: load, then one step per sample.                  *)
ScrapeLoads(s) ==
    /\ scrape[s].at = "idle"
    /\ scrape' = [scrape EXCEPT ![s] = [Idle EXCEPT !.at = "walk", !.snap = Current]]
    /\ UNCHANGED <<stored, warned, logged, registered, ensuring, export>>

Content(s) == stored[scrape[s].snap]
Walking(s) == scrape[s].at = "walk" /\ scrape[s].next <= Len(Content(s))
Sample(s) == Content(s)[scrape[s].next]
Duplicate(s) == \E o \in scrape[s].out : Series(o.sample) = Series(Sample(s))

Emit(s) ==
    /\ Walking(s) /\ ~Duplicate(s)
    /\ scrape' = [scrape EXCEPT ![s].next = @ + 1,
                                ![s].out = @ \cup {[sample |-> Sample(s), snap |-> scrape[s].snap]}]
    /\ UNCHANGED <<stored, warned, logged, registered, ensuring, export>>

(* dropWarnings.warn: the lookup and the mark are one critical section,    *)
(* the line is written after it.                                           *)
ReasonByMetric(sample) == CHOOSE r \in Reasons : r.metric = sample.name

ReasonOf(sample) == [metric |-> sample.name, system |-> sample.system]

Drop(s) ==
    /\ Walking(s) /\ Duplicate(s)
    /\ LET reason == ReasonOf(Sample(s))
           new == reason \notin warned["scrape"]
       IN /\ warned' = [warned EXCEPT !["scrape"] = @ \cup {reason}]
          /\ scrape' = [scrape EXCEPT ![s].next = @ + 1,
                                      ![s].at = IF new THEN "log" ELSE @,
                                      ![s].line = IF new THEN reason ELSE @]
    /\ UNCHANGED <<stored, logged, registered, ensuring, export>>

Log(s) ==
    /\ scrape[s].at = "log"
    /\ logged' = [logged EXCEPT !["scrape"][scrape[s].line] = @ + 1]
    /\ scrape' = [scrape EXCEPT ![s].at = "walk", ![s].line = NoReason]
    /\ UNCHANGED <<stored, warned, registered, ensuring, export>>

Scraped(s) == scrape[s].at = "walk" /\ scrape[s].next > Len(Content(s))

ScrapeEnds(s) ==
    /\ Scraped(s)
    /\ scrape' = [scrape EXCEPT ![s] = Idle]
    /\ UNCHANGED <<stored, warned, logged, registered, ensuring, export>>

-----------------------------------------------------------------------------
(* EnsureInstruments, which run calls once and then on every tick: the     *)
(* names of the snapshot that is current now, one instrument at a time.    *)
EnsureOnce == registered = {}

EnsureAgain == TRUE

EnsureLoads ==
    /\ ensuring = {}
    /\ EnsureAgain
    /\ ensuring' = NameSet(stored[Current]) \ registered
    /\ UNCHANGED <<stored, scrape, warned, logged, registered, export>>

Register ==
    \E n \in ensuring :
        /\ registered' = registered \cup {n}
        /\ ensuring' = ensuring \ {n}
        /\ UNCHANGED <<stored, scrape, warned, logged, export>>

(* The SDK's reader: an export runs the callback of every instrument that  *)
(* exists when it starts.                                                  *)
ExportBegins ==
    /\ ~export.on
    /\ registered # {}
    /\ export' = [on |-> TRUE, since |-> Current, todo |-> registered, out |-> {}]
    /\ UNCHANGED <<stored, scrape, warned, logged, registered, ensuring>>

(* One callback: load the store, keep the first of each series of its      *)
(* name, log the drops the exporter's own dropWarnings does not know yet.  *)
(* The SDK runs one export at a time, so nobody else is at that limiter.   *)
SnapAtRegistration(n) == CHOOSE p \in 1..Current :
    /\ n \in NameSet(stored[p])
    /\ \A q \in 1..(p - 1) : n \notin NameSet(stored[q])

CallbackLoads(n) == Current

LastWins(c, n) == {c[i] : i \in {i \in DOMAIN c :
    /\ c[i].name = n
    /\ \A j \in (i + 1)..Len(c) : Series(c[j]) # Series(c[i])}}

FirstWins(c, n) == {c[i] : i \in {i \in DOMAIN c :
    /\ c[i].name = n
    /\ \A j \in 1..(i - 1) : Series(c[j]) # Series(c[i])}}

Callback ==
    \E n \in export.todo :
        LET p == CallbackLoads(n)
            kept == FirstWins(stored[p], n)
            dropped == {ReasonOf(x) : x \in {stored[p][i] : i \in DOMAIN stored[p]} \ kept}
            new == {r \in dropped : r.metric = n} \ warned["push"]
        IN
        /\ export' = [export EXCEPT !.todo = @ \ {n},
                                    !.out = @ \cup {[sample |-> x, snap |-> p] : x \in kept}]
        /\ warned' = [warned EXCEPT !["push"] = @ \cup new]
        /\ logged' = [logged EXCEPT !["push"] = [r \in Reasons |-> IF r \in new THEN @[r] + 1 ELSE @[r]]]
        /\ UNCHANGED <<stored, scrape, registered, ensuring>>

Exported == export.on /\ export.todo = {}

ExportEnds ==
    /\ Exported
    /\ export' = NoExport
    /\ UNCHANGED <<stored, scrape, warned, logged, registered, ensuring>>

Next == \/ Store
        \/ \E s \in Scrapers : ScrapeLoads(s) \/ Emit(s) \/ Drop(s) \/ Log(s) \/ ScrapeEnds(s)
        \/ EnsureLoads \/ Register
        \/ ExportBegins \/ Callback \/ ExportEnds

Spec == Init /\ [][Next]_vars

(* The ticker of EnsureInstruments and the SDK's periodic reader go on;    *)
(* nobody has to scrape, and no cycle has to end.                          *)
FairSpec == /\ Spec
            /\ WF_vars(EnsureLoads) /\ WF_vars(Register)
            /\ WF_vars(ExportBegins) /\ WF_vars(Callback) /\ WF_vars(ExportEnds)

-----------------------------------------------------------------------------
(* What a snapshot shows: of samples with the same name and labels, the    *)
(* one that comes first.                                                   *)
Shown(c) == {s \in Samples : \E i \in DOMAIN c :
                c[i] = s /\ ~\E j \in 1..(i - 1) : Series(c[j]) = Series(s)}

(* A finished scrape shows one snapshot, the one that was current when it  *)
(* began, and an export shows of every metric what a scrape of the         *)
(* snapshot it took that metric from would show: the readers pick the same *)
(* survivor of every collision.                                            *)
ReadersAgree ==
    /\ \A s \in Scrapers : Scraped(s) =>
         scrape[s].out = {[sample |-> x, snap |-> scrape[s].snap] : x \in Shown(Content(s))}
    /\ \A o \in export.out :
         {p.sample : p \in {q \in export.out : q.sample.name = o.sample.name}}
            = {x \in Shown(stored[o.snap]) : x.name = o.sample.name}

(* The metrics and systems of which a reader of content c drops something. *)
Lost(c) == {[metric |-> x.name, system |-> x.system] :
              x \in {c[i] : i \in DOMAIN c} \ Shown(c)}

AboutToLog(r) == Cardinality({s \in Scrapers : scrape[s].line = r})

(* Each metric and system whose samples a reader drops is logged exactly   *)
(* once by it, however many scrapes meet the drop and however often, and   *)
(* no scrape loses samples of one that is not.                             *)
DropsAreLoggedOnce ==
    /\ \A r \in Reasons : /\ logged["scrape"][r] + AboutToLog(r) <= 1
                          /\ logged["push"][r] <= 1
    /\ \A s \in Scrapers : Scraped(s) =>
         \A r \in Lost(Content(s)) : logged["scrape"][r] + AboutToLog(r) = 1
    /\ \A o \in export.out, r \in Reasons :
         r \in Lost(stored[o.snap]) /\ r.metric = o.sample.name => logged["push"][r] = 1

(* An instrument outlives the samples of its name, but an export holds     *)
(* only samples of snapshots that were current while it ran: nothing stale *)
(* is ever pushed.                                                         *)
ExportIsCurrent == \A o \in export.out : o.snap >= export.since

(* Every series that stays in the snapshots is pushed: an instrument comes *)
(* for it even when EnsureInstruments first ran on the empty snapshot, or  *)
(* the metric appeared cycles later.                                       *)
EverySeriesIsPushed ==
    \A x \in Samples :
        x \in Shown(stored[Current]) ~>
            \/ Exported /\ \E o \in export.out : o.sample = x
            \/ x \notin Shown(stored[Current])

(* otlp.go's "both export paths therefore render from the same immutable   *)
(* snapshot": one export holds what one snapshot shows.                    *)
ExportIsOneSnapshot ==
    \A o, p \in export.out : o.snap = p.snap
=============================================================================

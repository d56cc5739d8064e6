---------------------------- MODULE SystemClient ----------------------------
(***************************************************************************)
(* One LoadMaster client (internal/kemp/client.go) under the two callers   *)
(* that collectSystem runs against it at once: transport detection, the    *)
(* one re-probe, and the cooldown after a rejected credential.             *)
(*                                                                         *)
(* Client state is indexed by incarnation, because a reload replaces the   *)
(* client while calls on the old one are still running: ClientReload.tla   *)
(* composes several; here there is one.                                    *)
(*                                                                         *)
(* A critical section of c.mu is one action, except the probe, which holds *)
(* the mutex across a network round trip: `mu` is its holder meanwhile.    *)
(* Time is the number of clock ticks left in the cooldown window: only the *)
(* test now - authFailureAt >= authFailureCooldown reads the clock.        *)
(***************************************************************************)
EXTENDS Integers, Sequences, FiniteSets

CONSTANTS
    Incarnations,   \* clients built for this target, one after another
    Credentials,    \* what a target may have credentials for: sets of transports
    Answers,        \* per transport, what an appliance that is not well may answer
    Cooldown        \* authFailureCooldown, in ticks

ASSUME ClientsAssumption == Incarnations # {}
ASSUME CredentialsAssumption ==
    \A has \in Credentials : has \subseteq {"json", "xml"} /\ has # {}
ASSUME CooldownAssumption == Cooldown \in Nat \ {0}

Callers == {"stats", "listvs"}
Transports == {"json", "xml"}
Undetected == "none"
Free == "free"
NoFailure == [via |-> "none", on |-> 0]

VARIABLES
    configured,      \* which of SystemClient.json and .xml are not nil
    active,          \* SystemClient.active
    reprobed,        \* SystemClient.reprobed
    authFailureErr,  \* the rejection that authFailureErr reports, NoFailure for nil
    left,            \* ticks until authFailureAt is a whole cooldown ago
    mu,              \* holder of SystemClient.mu while it probes
    pc,              \* where each call of do is
    on,              \* the incarnation the call runs on
    via,             \* the transport of its latest request
    sent,            \* did that request leave before the cycle's context was done
    err,             \* class of its latest error ("ok" for nil)
    ctxDone,         \* the cycle's context is cancelled or past its deadline
    accepting,       \* the appliance is well, for good
    recent,          \* history: per transport, ticks left on each rejection that the
                     \* appliance answered since it last answered that transport well
    served           \* history: the transports that have been active, in order

client == <<configured, active, reprobed, authFailureErr, left, served>>
calls == <<pc, on, via, sent, err>>
vars == <<configured, active, reprobed, authFailureErr, left, mu, pc, on, via, sent, err, ctxDone,
          accepting, recent, served>>

(* What authFailureErr says, and (history) on which client it happened.     *)
Rejection == [via : Transports, on : Incarnations]

Outcomes == {"ok", "auth", "unsupported", "hard"}
Locations == {"idle", "check", "ensure", "probe", "request", "note", "reprobe", "alternate",
              "switch", "return"}

(* The value of locals that no call is using.                              *)
AnyTransport == "json"

TypeOK ==
    /\ configured \in [Incarnations -> Credentials]
    /\ active \in [Incarnations -> Transports \cup {Undetected}]
    /\ \A i \in Incarnations : active[i] \in configured[i] \cup {Undetected}
    /\ reprobed \in [Incarnations -> BOOLEAN]
    /\ authFailureErr \in [Incarnations -> Rejection \cup {NoFailure}]
    /\ left \in [Incarnations -> 0..Cooldown]
    /\ \A i \in Incarnations : left[i] > 0 => authFailureErr[i] # NoFailure
    /\ mu \in [Incarnations -> Callers \cup {Free}]
    /\ pc \in [Callers -> Locations]
    /\ on \in [Callers -> Incarnations]
    /\ via \in [Callers -> Transports]
    /\ sent \in [Callers -> BOOLEAN]
    /\ err \in [Callers -> Outcomes]
    /\ ctxDone \in BOOLEAN /\ accepting \in BOOLEAN
    /\ recent \in [Incarnations -> [Transports -> Seq(1..Cooldown)]]
    /\ served \in [Incarnations -> Seq(Transports)]

Init == /\ configured \in [Incarnations -> Credentials]
        /\ active = [i \in Incarnations |-> Undetected]
        /\ reprobed = [i \in Incarnations |-> FALSE]
        /\ authFailureErr = [i \in Incarnations |-> NoFailure]
        /\ left = [i \in Incarnations |-> 0]
        /\ mu = [i \in Incarnations |-> Free]
        /\ pc = [c \in Callers |-> "idle"]
        /\ on = [c \in Callers |-> CHOOSE i \in Incarnations : TRUE]
        /\ via = [c \in Callers |-> AnyTransport]
        /\ sent = [c \in Callers |-> FALSE]
        /\ err = [c \in Callers |-> "ok"]
        /\ ctxDone = FALSE
        /\ accepting = FALSE
        /\ recent = [i \in Incarnations |-> [t \in Transports |-> <<>>]]
        /\ served = [i \in Incarnations |-> <<>>]

-----------------------------------------------------------------------------
(* collectSystem starts both calls at once under one context.              *)
BeginCycle(i) == /\ \A c \in Callers : pc[c] = "idle"
                 /\ pc' = [c \in Callers |-> "check"]
                 /\ on' = [c \in Callers |-> i]
                 /\ err' = [c \in Callers |-> "ok"]
                 /\ ctxDone' = FALSE
                 /\ UNCHANGED <<client, mu, via, sent, accepting, recent>>

(* Moving a call on to location l with a request on transport t: nothing   *)
(* leaves the exporter once the context is done.                           *)
Request(c, t, l) == /\ pc' = [pc EXCEPT ![c] = l]
                    /\ via' = [via EXCEPT ![c] = t]
                    /\ sent' = [sent EXCEPT ![c] = ~ctxDone]

Holds(c) == mu[on[c]] = c
CanLock(c) == mu[on[c]] = Free

(* cooldownError.                                                          *)
CheckCooldownWhen(c, rejected) ==
    /\ pc[c] = "check"
    /\ CanLock(c)
    /\ err' = IF rejected THEN [err EXCEPT ![c] = "auth"] ELSE err
    /\ pc' = [pc EXCEPT ![c] = IF rejected THEN "return" ELSE "ensure"]
    /\ UNCHANGED <<client, mu, on, via, sent, ctxDone, accepting, recent>>

CheckNothing(c) == CheckCooldownWhen(c, FALSE)
CheckStickyError(c) == CheckCooldownWhen(c, authFailureErr[on[c]] # NoFailure)

CheckCooldown(c) == CheckCooldownWhen(c, left[on[c]] > 0)

(* ensureTransport up to its first request.                                *)
UseActive(c) ==
    /\ pc[c] = "ensure"
    /\ CanLock(c)
    /\ active[on[c]] # Undetected
    /\ Request(c, active[on[c]], "request")
    /\ UNCHANGED <<client, mu, on, err, ctxDone, accepting, recent>>

Lock(c) == mu' = [mu EXCEPT ![on[c]] = c]

StartProbe(c) ==
    /\ pc[c] = "ensure"
    /\ CanLock(c)
    /\ active[on[c]] = Undetected
    /\ "json" \in configured[on[c]]
    /\ Lock(c)
    /\ Request(c, "json", "probe")
    /\ UNCHANGED <<client, on, err, ctxDone, accepting, recent>>

Activate(i, t) == /\ active' = [active EXCEPT ![i] = t]
                  /\ served' = [served EXCEPT ![i] = Append(@, t)]

(* Without JSON credentials XML is taken as it is, unprobed.               *)
TakeXML(c) ==
    /\ pc[c] = "ensure"
    /\ CanLock(c)
    /\ active[on[c]] = Undetected
    /\ "json" \notin configured[on[c]]
    /\ Activate(on[c], "xml")
    /\ Request(c, "xml", "request")
    /\ UNCHANGED <<configured, reprobed, authFailureErr, left, mu, on, err, ctxDone, accepting, recent>>

-----------------------------------------------------------------------------
(* What a request comes back with, and its mark on the history: a rejection *)
(* adds to it and a success of the same transport ends it at this moment,  *)
(* whenever the call that hears of either gets to note it.                 *)
MayAnswer(c) == IF ~sent[c] THEN {"hard"}
                ELSE IF accepting THEN {"ok"}
                ELSE Answers[via[c]] \cup {"hard"}

Answered(c, r) ==
    /\ r \in MayAnswer(c)
    /\ recent' = CASE r = "auth" -> [recent EXCEPT ![on[c]][via[c]] = Append(@, Cooldown)]
                   [] r = "ok" -> [recent EXCEPT ![on[c]][via[c]] = <<>>]
                   [] OTHER -> recent

ForgetUnlock(c) == UNCHANGED mu

Unlock(c) == mu' = IF Holds(c) THEN [mu EXCEPT ![on[c]] = Free] ELSE mu

(* The probe's answer, still under c.mu.                                   *)
ProbeAccepted(c) ==
    /\ pc[c] = "probe"
    /\ Answered(c, "ok")
    /\ Activate(on[c], "json")
    /\ Unlock(c)
    /\ err' = [err EXCEPT ![c] = "ok"]
    /\ pc' = [pc EXCEPT ![c] = "note"]
    /\ UNCHANGED <<configured, reprobed, authFailureErr, left, on, via, sent, ctxDone, accepting>>

(* errUnsupported and errAuth fall back to XML where there is an API key;  *)
(* any other failure says nothing about the firmware.                      *)
ProbeFallsBack(c) ==
    /\ pc[c] = "probe"
    /\ \E r \in {"auth", "unsupported"} : Answered(c, r)
    /\ "xml" \in configured[on[c]]
    /\ Activate(on[c], "xml")
    /\ Unlock(c)
    /\ Request(c, "xml", "request")
    /\ UNCHANGED <<configured, reprobed, authFailureErr, left, on, err, ctxDone, accepting>>

ProbeFails(c) ==
    /\ pc[c] = "probe"
    /\ \E r \in IF "xml" \in configured[on[c]] THEN {"hard"} ELSE {"auth", "unsupported", "hard"} :
         /\ Answered(c, r)
         /\ err' = [err EXCEPT ![c] = r]
    /\ Unlock(c)
    /\ pc' = [pc EXCEPT ![c] = "note"]
    /\ UNCHANGED <<client, on, via, sent, ctxDone, accepting>>

(* The active transport's answer: success and errAuth are noted, any other *)
(* failure goes to reprobe.                                                *)
ActiveAnswers(c) ==
    /\ pc[c] = "request"
    /\ \E r \in Outcomes :
         /\ Answered(c, r)
         /\ err' = [err EXCEPT ![c] = r]
         /\ pc' = [pc EXCEPT ![c] = IF r \in {"ok", "auth"} THEN "note" ELSE "reprobe"]
    /\ UNCHANGED <<client, mu, on, via, sent, ctxDone, accepting>>

(* noteAuthResult: only errAuth starts the window and only success ends it. *)
ClearFailure(i) ==
    /\ authFailureErr' = [authFailureErr EXCEPT ![i] = NoFailure]
    /\ left' = [left EXCEPT ![i] = 0]

NoteAuthResult(c) ==
    /\ pc[c] = "note"
    /\ CanLock(c)
    /\ \/ /\ err[c] = "auth"
          /\ left' = [left EXCEPT ![on[c]] = Cooldown]
          /\ authFailureErr' = [authFailureErr EXCEPT
                                  ![on[c]] = [via |-> via[c], on |-> on[c]]]
       \/ /\ err[c] = "ok"
          /\ ClearFailure(on[c])
       \/ /\ err[c] \notin {"auth", "ok"}
          /\ UNCHANGED <<left, authFailureErr>>
    /\ pc' = [pc EXCEPT ![c] = "return"]
    /\ UNCHANGED <<configured, active, reprobed, served, mu, on, via, sent, err, ctxDone, accepting,
                   recent>>

-----------------------------------------------------------------------------
(* reprobe, up to the alternate's request: the latch is set and the        *)
(* alternate chosen in one critical section.                               *)
Alternate(i) == {t \in configured[i] : active[i] \in Transports /\ t # active[i]}

ForgetLatch(c) == UNCHANGED reprobed

Latch(c) == reprobed' = [reprobed EXCEPT ![on[c]] = TRUE]

StartAlternate(c) ==
    /\ pc[c] = "reprobe"
    /\ CanLock(c)
    /\ ~reprobed[on[c]]
    /\ Latch(c)
    /\ \E t \in Alternate(on[c]) : Request(c, t, "alternate")
    /\ UNCHANGED <<configured, active, authFailureErr, left, served, mu, on, err, ctxDone,
                   accepting, recent>>

(* The latch is set already, or there is no other transport.               *)
GiveUp(c) ==
    /\ pc[c] = "reprobe"
    /\ CanLock(c)
    /\ reprobed[on[c]] \/ Alternate(on[c]) = {}
    /\ Latch(c)
    /\ pc' = [pc EXCEPT ![c] = "return"]
    /\ UNCHANGED <<configured, active, authFailureErr, left, served, mu, on, via, sent, err, ctxDone,
                   accepting, recent>>

(* The alternate's own failure, whatever its class, is reported (with the  *)
(* cause, which err no longer says) and never noted.                       *)
NoteAlternate == "note"

AfterAlternate == "return"

AlternateFails(c) ==
    /\ pc[c] = "alternate"
    /\ \E r \in Outcomes \ {"ok"} : /\ Answered(c, r)
                                    /\ err' = [err EXCEPT ![c] = r]
    /\ pc' = [pc EXCEPT ![c] = AfterAlternate]
    /\ UNCHANGED <<client, mu, on, via, sent, ctxDone, accepting>>

AlternateAccepted(c) ==
    /\ pc[c] = "alternate"
    /\ Answered(c, "ok")
    /\ pc' = [pc EXCEPT ![c] = "switch"]
    /\ UNCHANGED <<client, mu, on, via, sent, err, ctxDone, accepting>>

(* The swap takes the lock again after the request.                        *)
Switch(c) ==
    /\ pc[c] = "switch"
    /\ CanLock(c)
    /\ Activate(on[c], via[c])
    /\ err' = [err EXCEPT ![c] = "ok"]
    /\ pc' = [pc EXCEPT ![c] = "note"]
    /\ UNCHANGED <<configured, reprobed, authFailureErr, left, mu, on, via, sent, ctxDone, accepting, recent>>

(* A stats error cancels the errgroup's context, a listvs error does not.  *)
(* The call's locals end with it.                                          *)
Return(c) ==
    /\ pc[c] = "return"
    /\ pc' = [pc EXCEPT ![c] = "idle"]
    /\ ctxDone' = (ctxDone \/ (c = "stats" /\ err[c] # "ok"))
    /\ via' = [via EXCEPT ![c] = AnyTransport]
    /\ sent' = [sent EXCEPT ![c] = FALSE]
    /\ err' = [err EXCEPT ![c] = "ok"]
    /\ UNCHANGED <<client, mu, on, accepting, recent>>

-----------------------------------------------------------------------------
(* The per-target timeout, or shutdown, ends the context of a cycle.       *)
Timeout ==
    /\ \E c \in Callers : pc[c] # "idle"
    /\ ~ctxDone /\ ~accepting
    /\ ctxDone' = TRUE
    /\ UNCHANGED <<client, mu, calls, accepting, recent>>

(* What a tick leaves of rejections in the order they were confirmed, so   *)
(* that the ones whose window ends come first.                             *)
Aged(s) == LET ended == Cardinality({k \in DOMAIN s : s[k] = 1})
           IN [k \in 1..(Len(s) - ended) |-> s[k + ended] - 1]

Tick ==
    /\ \/ \E i \in Incarnations : left[i] > 0
       \/ \E i \in Incarnations, t \in Transports : recent[i][t] # <<>>
    /\ left' = [i \in Incarnations |-> IF left[i] > 0 THEN left[i] - 1 ELSE 0]
    /\ recent' = [i \in Incarnations |-> [t \in Transports |-> Aged(recent[i][t])]]
    /\ UNCHANGED <<configured, active, reprobed, authFailureErr, served, mu, calls, ctxDone, accepting>>

(* From here on every request that leaves is accepted, in time.            *)
ApplianceRecovers ==
    /\ ~accepting
    /\ accepting' = TRUE
    /\ UNCHANGED <<client, mu, calls, ctxDone, recent>>

Step(c) ==
    \/ CheckCooldown(c) \/ UseActive(c) \/ StartProbe(c) \/ TakeXML(c)
    \/ ProbeAccepted(c) \/ ProbeFallsBack(c) \/ ProbeFails(c) \/ ActiveAnswers(c)
    \/ NoteAuthResult(c) \/ StartAlternate(c) \/ GiveUp(c)
    \/ AlternateFails(c) \/ AlternateAccepted(c) \/ Switch(c) \/ Return(c)

Environment == Timeout \/ Tick \/ ApplianceRecovers

Next == \/ \E i \in Incarnations : BeginCycle(i)
        \/ \E c \in Callers : Step(c)
        \/ Environment

Spec == Init /\ [][Next]_vars

(* Goroutines run, the clock goes on, the ticker of CollectionLoop.Run     *)
(* starts another cycle.  Nothing makes the appliance recover.             *)
FairSpec == /\ Spec
            /\ \A c \in Callers : WF_vars(Step(c))
            /\ WF_vars(Tick)
            /\ \A i \in Incarnations : WF_vars(BeginCycle(i))

-----------------------------------------------------------------------------
OnTheWire(c) == pc[c] \in {"probe", "request", "alternate"}

(* A client is detected once and switches once: whatever the two calls do  *)
(* to each other, it never goes back to a transport it left.               *)
NoFlapping == \A i \in Incarnations : Len(served[i]) <= 2

(* Between two answers that accept a credential the appliance rejects it   *)
(* at most three times in any cooldown window, however the calls, the      *)
(* probes, the re-probe and the clock interleave: once for each of the two *)
(* concurrent callers, and once more where a success that was answered     *)
(* before a rejection is noted after it and ends the window it started.    *)
LockoutBudget ==
    \A i \in Incarnations, t \in Transports : Len(recent[i][t]) <= 3

(* reprobe's rule: a transport that is not, and does not become, active    *)
(* never starts the cooldown.                                              *)
AlternateNeverPrimes ==
    \A i \in Incarnations :
        authFailureErr[i] # NoFailure /\ active[i] # Undetected =>
            \E k \in DOMAIN served[i] : served[i][k] = authFailureErr[i].via

(* Every call of do returns: neither the mutex held across a probe nor a   *)
(* peer's failure can strand one.                                          *)
CallsReturn == \A c \in Callers : pc[c] # "idle" ~> pc[c] = "idle"

(* No failure is final: once the appliance accepts, stats succeeds again,  *)
(* and for good, whatever detection, re-probe latch and cooldown went      *)
(* through before.                                                         *)
Recovers == accepting ~> [](pc["stats"] = "return" => err["stats"] = "ok")

-----------------------------------------------------------------------------
(* client.go:54-56: "a confirmed credential rejection is retried at most   *)
(* once per cooldown window".  Both calls pass cooldownError before the    *)
(* first rejection is noted, and each then sends its own.                  *)
OneRejectionPerWindow ==
    \A i \in Incarnations, t \in Transports : Len(recent[i][t]) <= 1
=============================================================================

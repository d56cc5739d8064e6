---------------------------- MODULE ClientReload ----------------------------
(***************************************************************************)
(* A hot reload beside the collection loop: CollectionLoop.SetClients      *)
(* (collector.go), carryAuthCooldown (client.go) and the clients they      *)
(* replace.  A reload builds a new incarnation of the target's client and  *)
(* installs it while the calls of a cycle may still run on the old one;    *)
(* the next cycle takes the new one.                                       *)
(*                                                                         *)
(* SetClients holds the loop's mutex while carryAuthCooldown waits for the *)
(* old client's mutex, which a probe holds across its request.  The new    *)
(* client is visible to nobody before it is installed, so the copy to it   *)
(* and the installation are one action.                                    *)
(***************************************************************************)
EXTENDS SystemClient

CONSTANTS
    Configs,        \* what a config may say of the target: its name, its credential,
                    \* and the transports the credential is for
    FirstConfig     \* what it says at start-up

VARIABLES
    current,      \* CollectionLoop.clients: the incarnation the next cycle uses
    loopMu,       \* holder of CollectionLoop.mu
    config,       \* the name and credential each incarnation was built from
    overlapped,   \* history: a client was replaced while calls were running on it
    lapsed        \* history: clients with a rejection, less than a window old, that no
                  \* cooldown of theirs remembers

reload == <<current, loopMu, config, overlapped>>
rvars == <<vars, reload, lapsed>>

ASSUME IncarnationsAssumption ==
    /\ Incarnations \subseteq Nat \ {0}
    /\ 1 \in Incarnations
    /\ \A i \in Incarnations : 1..i \subseteq Incarnations
ASSUME ConfigsAssumption == /\ FirstConfig \in Configs
                           /\ \A k \in Configs : /\ k = [name |-> k.name, cred |-> k.cred, has |-> k.has]
                                                /\ k.has \in Credentials

RTypeOK == /\ TypeOK
           /\ current \in Incarnations
           /\ loopMu \in {Free, "reload"}
           /\ config \in [Incarnations -> Configs]
           /\ overlapped \in BOOLEAN
           /\ lapsed \subseteq Incarnations
           /\ \A c \in Callers : pc[c] # "idle" => on[c] <= current

RInit == /\ Init
         /\ current = 1
         /\ loopMu = Free
         /\ config = [i \in Incarnations |-> FirstConfig]
         /\ configured = [i \in Incarnations |-> FirstConfig.has]
         /\ overlapped = FALSE
         /\ lapsed = {}

-----------------------------------------------------------------------------
(* snapshotClients, and the cycle on what it returned.                     *)
Cycle == /\ loopMu = Free
         /\ BeginCycle(current)
         /\ UNCHANGED <<reload, lapsed>>

(* The config changed or SIGHUP came: buildClients made a client, and      *)
(* SetClients takes the loop's mutex.                                      *)
LockClients == /\ loopMu = Free
               /\ current + 1 \in Incarnations
               /\ \E k \in Configs :
                    /\ config' = [config EXCEPT ![current + 1] = k]
                    /\ configured' = [configured EXCEPT ![current + 1] = k.has]
               /\ loopMu' = "reload"
               /\ UNCHANGED <<active, reprobed, authFailureErr, left, served, mu, calls, ctxDone,
                              accepting, recent, current, overlapped, lapsed>>

(* carryAuthCooldown's test, on the name and on credentialFingerprint.     *)
SameName(i, j) == config[i].name = config[j].name

SameTarget(i, j) == /\ SameName(i, j)
                    /\ config[i].cred = config[j].cred
                    /\ config[i].has = config[j].has

Replace(i) == /\ current' = i
              /\ loopMu' = Free
              /\ overlapped' = (overlapped \/ \E c \in Callers : pc[c] # "idle")
              /\ UNCHANGED <<configured, active, reprobed, served, mu, calls, ctxDone, accepting,
                             recent, config, lapsed>>

CarryNothing == /\ loopMu = "reload"
                /\ SameTarget(current, current + 1)
                /\ mu[current] = Free
                /\ UNCHANGED <<left, authFailureErr>>
                /\ Replace(current + 1)

(* authFailureAt is copied as it is: what is left of the window is left.   *)
CarryCooldown == /\ loopMu = "reload"
                 /\ SameTarget(current, current + 1)
                 /\ mu[current] = Free
                 /\ left' = [left EXCEPT ![current + 1] = left[current]]
                 /\ authFailureErr' = [authFailureErr EXCEPT ![current + 1] = authFailureErr[current]]
                 /\ Replace(current + 1)

(* Another name or credential: the old client is not even locked.          *)
CarryNone == /\ loopMu = "reload"
             /\ ~SameTarget(current, current + 1)
             /\ UNCHANGED <<left, authFailureErr>>
             /\ Replace(current + 1)

SetClients == CarryCooldown \/ CarryNone

-----------------------------------------------------------------------------
(* Two ways in which a rejection that the appliance confirmed is in no     *)
(* cooldown: the answers to the probe that falls back and to a re-probe's  *)
(* alternate are never noted, ...                                          *)
Unrecorded(c) == (ProbeFallsBack(c) \/ AlternateFails(c)) /\ \E t \in Transports :
                    Len(recent'[on[c]][t]) > Len(recent[on[c]][t])

(* ... and a success ends the window whatever it was started by: the other *)
(* transport, or a rejection that was answered after this success.  Unless *)
(* the other call is about to start another.                               *)
NotingRejection(c, i, t) ==
    on[c] = i /\ pc[c] = "note" /\ via[c] = t /\ err[c] = "auth"

Overruled(c) ==
    /\ NoteAuthResult(c)
    /\ err[c] = "ok"
    /\ \E t \in Transports : /\ recent[on[c]][t] # <<>>
                             /\ \A d \in Callers : ~NotingRejection(d, on[c], t)

Lapses(fresh) ==
    lapsed' = {i \in lapsed \cup fresh : \E t \in Transports : recent'[i][t] # <<>>}

Call(c) == /\ Step(c)
           /\ Lapses(IF Unrecorded(c) \/ Overruled(c) THEN {on[c]} ELSE {})
           /\ UNCHANGED reload

Surroundings == /\ Environment
                /\ Lapses({})
                /\ UNCHANGED reload

RNext == \/ Cycle
         \/ LockClients
         \/ SetClients
         \/ \E c \in Callers : Call(c)
         \/ Surroundings

RSpec == RInit /\ [][RNext]_rvars

(* As in SystemClient; the watcher's goroutine runs too.                   *)
RFairSpec == /\ RSpec
             /\ \A c \in Callers : WF_rvars(Call(c))
             /\ WF_rvars(Tick /\ Surroundings)
             /\ WF_rvars(Cycle)
             /\ WF_rvars(SetClients)

-----------------------------------------------------------------------------
(* An operator who corrected a password does not wait for a window that    *)
(* was recorded against the old one, and a window is not moved to another  *)
(* target's name: a cooldown in force was caused by this very credential.  *)
CooldownBelongsToCredential ==
    \A i \in Incarnations : i <= current /\ left[i] > 0 =>
        config[authFailureErr[i].on] = config[i]

(* Rejected within one cooldown window on incarnation i and on an earlier  *)
(* one that remembers it, with no other config in between.                 *)
RejectedAgain(i) ==
    \E j \in (1..(i - 1)) \ lapsed, t \in Transports :
        /\ \A k \in j..i : config[k] = config[i]
        /\ recent[j][t] # <<>>
        /\ recent[i][t] # <<>>

(* What carryAuthCooldown is for: after a rejection that is in the         *)
(* cooldown, reloads between two cycles that leave the credential alone do *)
(* not buy the appliance another login with it.                            *)
QuietReloadCostsNoLogin ==
    ~overlapped => \A i \in Incarnations : ~RejectedAgain(i)

(* The loop's mutex is released although SetClients waits for a mutex that *)
(* a probe holds across the network.                                       *)
ReloadCompletes == loopMu = "reload" ~> loopMu = Free

(* After a reload, too, stats succeeds for good once the appliance accepts. *)
RecoversAfterReload ==
    accepting ~> [](pc["stats"] = "return" /\ on["stats"] = current => err["stats"] = "ok")
=============================================================================

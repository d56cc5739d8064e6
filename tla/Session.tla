------------------------------ MODULE Session ------------------------------
(***************************************************************************)
(* The login session of one jsonTransport (internal/kemp/auth.go) under    *)
(* the concurrent Do calls that use it (internal/kemp/transport_json.go).  *)
(*                                                                         *)
(* Each critical section of s.mu is one action: the mutex is held only for *)
(* the checks and transitions around a login, never across the network.    *)
(* A loginAttempt is a heap object: a waiter keeps its pointer after the   *)
(* leader cleared s.pending, so `attempts` is the heap and a pointer is an *)
(* index into it, with 0 for nil.                                          *)
(*                                                                         *)
(* The code only ever compares a token with "", so a token is named by the *)
(* generation of the login that issued it, and 0 stands for "".  The       *)
(* appliance may answer each request in every way the code tells apart.    *)
(***************************************************************************)
EXTENDS Integers, Sequences

CONSTANTS
    Callers,   \* goroutines that call Do on this transport
    MaxDos     \* bound: Do calls each of them makes

ASSUME MaxDosAssumption == MaxDos \in Nat \ {0}

VARIABLES
    token,     \* session.token
    gen,       \* session.gen
    pending,   \* session.pending
    attempts,  \* every loginAttempt made so far; `stale` is a history field
    pc,        \* where each caller is
    stale,     \* staleGen of the caller's last obtain; NoGen until it refreshes
    mine,      \* the attempt the caller leads or waits for
    held,      \* token the caller posts with
    heldGen,   \* generation it was given with that token
    err,       \* error of the caller's login, then of its Do ("ok" is nil)
    dos        \* Do calls begun

session == <<token, gen, pending, attempts>>
vars == <<token, gen, pending, attempts, pc, stale, mine, held, heldGen, err, dos>>

NoGen == -1
NoToken == 0
Nil == 0

Locations == {"idle", "obtain", "wait", "login", "commit", "publish", "post", "panicked"}

(* The classes the code sorts a failed login or command into.              *)
Errors == {"auth", "unsupported", "hard", "panic"}

Attempt == [done : BOOLEAN, token : Nat, gen : Nat, err : Errors \cup {"ok"},
            stale : Nat \cup {NoGen}]

TypeOK == /\ gen \in Nat
          /\ token \in 0..gen
          /\ pending \in Nat
          /\ attempts \in Seq(Attempt)
          /\ pc \in [Callers -> Locations]
          /\ stale \in [Callers -> Nat \cup {NoGen}]
          /\ mine \in [Callers -> Nat]
          /\ held \in [Callers -> Nat]
          /\ heldGen \in [Callers -> Nat \cup {NoGen}]
          /\ err \in [Callers -> Errors \cup {"ok"}]
          /\ dos \in [Callers -> 0..MaxDos]

Init == /\ token = NoToken
        /\ gen = 0
        /\ pending = Nil
        /\ attempts = <<>>
        /\ pc = [c \in Callers |-> "idle"]
        /\ stale = [c \in Callers |-> NoGen]
        /\ mine = [c \in Callers |-> Nil]
        /\ held = [c \in Callers |-> NoToken]
        /\ heldGen = [c \in Callers |-> NoGen]
        /\ err = [c \in Callers |-> "ok"]
        /\ dos = [c \in Callers |-> 0]

-----------------------------------------------------------------------------
(* Do begins with session.ensure, which is obtain(noGen).                  *)
Do(c) == /\ pc[c] = "idle"
         /\ dos[c] < MaxDos
         /\ dos' = [dos EXCEPT ![c] = @ + 1]
         /\ pc' = [pc EXCEPT ![c] = "obtain"]
         /\ stale' = [stale EXCEPT ![c] = NoGen]
         /\ UNCHANGED <<session, mine, held, heldGen, err>>

(* The three cases of obtainVia.  Case 1: a login past what the caller has *)
(* seen left a token.                                                      *)
HasNewer(c) == gen # stale[c] /\ token # NoToken

UseCached(c) == /\ pc[c] = "obtain"
                /\ HasNewer(c)
                /\ held' = [held EXCEPT ![c] = token]
                /\ heldGen' = [heldGen EXCEPT ![c] = gen]
                /\ err' = [err EXCEPT ![c] = "ok"]
                /\ pc' = [pc EXCEPT ![c] = "post"]
                /\ UNCHANGED <<session, stale, mine, dos>>

(* Case 2: a login is in flight, wait for it.                              *)
Join(c) == /\ pc[c] = "obtain"
           /\ ~HasNewer(c)
           /\ pending # Nil
           /\ mine' = [mine EXCEPT ![c] = pending]
           /\ pc' = [pc EXCEPT ![c] = "wait"]
           /\ UNCHANGED <<session, stale, held, heldGen, err, dos>>

(* Case 3: become the single flight.                                       *)
InAnyCase == TRUE

NoneInFlight == pending = Nil

Lead(c) == /\ pc[c] = "obtain"
           /\ ~HasNewer(c)
           /\ NoneInFlight
           /\ attempts' = Append(attempts, [done |-> FALSE, token |-> NoToken,
                                            gen |-> 0, err |-> "ok", stale |-> stale[c]])
           /\ pending' = Len(attempts) + 1
           /\ mine' = [mine EXCEPT ![c] = Len(attempts) + 1]
           /\ pc' = [pc EXCEPT ![c] = "login"]
           /\ UNCHANGED <<token, gen, stale, held, heldGen, err, dos>>

(* The login round-trip returns a token, fails, or panics.  The deferred   *)
(* function recovers a panic and goes on with it as an error.              *)
Unrecovered(e) == IF e = "panic" THEN "panicked" ELSE "commit"

Recovered(e) == "commit"

LoginReturns(c) == /\ pc[c] = "login"
                   /\ \E e \in Errors \cup {"ok"} : /\ err' = [err EXCEPT ![c] = e]
                                                    /\ pc' = [pc EXCEPT ![c] = Recovered(e)]
                   /\ UNCHANGED <<session, stale, mine, held, heldGen, dos>>

(* The deferred critical section: the generation advances on success and   *)
(* on failure, the token changes on success only.                          *)
GenOfSuccess(c) == IF err[c] = "ok" THEN gen + 1 ELSE gen

NewGen(c) == gen + 1

KeepPending == UNCHANGED pending

ClearPending == pending' = Nil

Commit(c) == /\ pc[c] = "commit"
             /\ gen' = NewGen(c)
             /\ token' = IF err[c] = "ok" THEN gen + 1 ELSE token
             /\ ClearPending
             /\ held' = [held EXCEPT ![c] = IF err[c] = "ok" THEN gen + 1 ELSE NoToken]
             /\ heldGen' = [heldGen EXCEPT ![c] = NewGen(c)]
             /\ pc' = [pc EXCEPT ![c] = "publish"]
             /\ UNCHANGED <<attempts, stale, mine, err, dos>>

(* Where obtain's result sends the caller: on to the command, or back out  *)
(* of Do with the error.                                                   *)
AfterObtain(e) == IF e = "ok" THEN "post" ELSE "idle"

(* p.token, p.gen and p.err are written and p.done is closed after the     *)
(* lock is released; a panic is raised again once that is done.            *)
CurrentGen(c) == gen

LoginGen(c) == heldGen[c]

Publish(c) ==
    /\ pc[c] = "publish"
    /\ attempts' = [attempts EXCEPT ![mine[c]] =
                      [@ EXCEPT !.done = TRUE, !.token = held[c], !.gen = LoginGen(c),
                                !.err = err[c]]]
    /\ pc' = [pc EXCEPT ![c] = IF err[c] = "panic" THEN "panicked" ELSE AfterObtain(err[c])]
    /\ UNCHANGED <<token, gen, pending, stale, mine, held, heldGen, err, dos>>

(* A waiter wakes when done is closed and shares success or failure.       *)
Share(c) == LET p == attempts[mine[c]] IN
            /\ pc[c] = "wait"
            /\ p.done
            /\ held' = [held EXCEPT ![c] = p.token]
            /\ heldGen' = [heldGen EXCEPT ![c] = p.gen]
            /\ err' = [err EXCEPT ![c] = p.err]
            /\ pc' = [pc EXCEPT ![c] = AfterObtain(p.err)]
            /\ UNCHANGED <<session, stale, mine, dos>>

-----------------------------------------------------------------------------
(* The command comes back.  A 401 to the first post of a Do refreshes from *)
(* the generation the caller was given; a 401 after that is errAuth.       *)
Refresh(c) == /\ pc[c] = "post"
              /\ stale[c] = NoGen
              /\ stale' = [stale EXCEPT ![c] = heldGen[c]]
              /\ pc' = [pc EXCEPT ![c] = "obtain"]
              /\ UNCHANGED <<session, mine, held, heldGen, err, dos>>

RejectAfterRefresh(c) == /\ pc[c] = "post"
                         /\ stale[c] # NoGen
                         /\ err' = [err EXCEPT ![c] = "auth"]
                         /\ pc' = [pc EXCEPT ![c] = "idle"]
                         /\ UNCHANGED <<session, stale, mine, held, heldGen, dos>>

(* Every other answer ends the Do: a payload, a 404, another failure, or   *)
(* an envelope whose code is 401 or 403.                                   *)
PostReturns(c) == /\ pc[c] = "post"
                  /\ \E e \in {"ok", "unsupported", "hard", "auth"} :
                       err' = [err EXCEPT ![c] = e]
                  /\ pc' = [pc EXCEPT ![c] = "idle"]
                  /\ UNCHANGED <<session, stale, mine, held, heldGen, dos>>

-----------------------------------------------------------------------------
Step(c) == \/ UseCached(c) \/ Join(c) \/ Lead(c)
           \/ LoginReturns(c) \/ Commit(c) \/ Publish(c) \/ Share(c)
           \/ Refresh(c) \/ RejectAfterRefresh(c) \/ PostReturns(c)

(* Every caller has made its calls (or has crashed): the bound, not the    *)
(* code, ends the behaviour here.                                          *)
Finished == /\ \A c \in Callers : pc[c] = "panicked" \/ (pc[c] = "idle" /\ dos[c] = MaxDos)
            /\ UNCHANGED vars

Next == \/ \E c \in Callers : Do(c) \/ Step(c)
        \/ Finished

Spec == Init /\ [][Next]_vars

(* A goroutine that can run runs, and a request returns: resty's client    *)
(* timeout bounds every round-trip.  No caller has to start a Do.          *)
FairSpec == Spec /\ \A c \in Callers : WF_vars(Step(c))

-----------------------------------------------------------------------------
LoggingIn(c) == pc[c] \in {"login", "commit"}

(* auth.go's singleflight: however many callers find the session without a *)
(* usable token, one login is on the wire at a time.                       *)
AtMostOneLogin == \A c, d \in Callers : LoggingIn(c) /\ LoggingIn(d) => c = d

(* A caller blocked on <-p.done, which no context bounds, always has a     *)
(* leader that is going to close it: its attempt is closed already, or     *)
(* some caller still runs that same attempt.                               *)
NoOrphanWaiter ==
    \A c \in Callers : pc[c] = "wait" =>
        \/ attempts[mine[c]].done
        \/ \E d \in Callers : /\ pc[d] \in {"login", "commit", "publish"}
                              /\ mine[d] = mine[c]

(* No login is wasted on a lockout-guarded account: a login either answers *)
(* the rejection of the newest generation, or is made by a caller without  *)
(* a token while no login has ever succeeded.  Callers that saw one        *)
(* generation rejected therefore cost one login between them, however they *)
(* interleave and whether or not it succeeds.                              *)
LoginsAreJustified ==
    \A i \in 1..Len(attempts) :
        \/ attempts[i].stale = i - 1
        \/ /\ attempts[i].stale = NoGen
           /\ \A j \in 1..(i - 1) : attempts[j].done => attempts[j].err # "ok"

(* obtain "returns a token from a generation newer than staleGen": what a  *)
(* refreshed caller goes on with has a later generation than the one it    *)
(* saw rejected, whichever of the three cases served it.                   *)
RefreshAdvances ==
    \A c \in Callers : pc[c] = "post" /\ stale[c] # NoGen => heldGen[c] > stale[c]

(* Callers that were given the same generation were given the same token,  *)
(* whether from the cache, as leader or as waiter.  Staleness is judged by *)
(* generation alone, so it means nothing otherwise.                        *)
GenerationNamesOneToken ==
    \A c, d \in Callers :
        pc[c] = "post" /\ pc[d] = "post" /\ heldGen[c] = heldGen[d] => held[c] = held[d]

(* Every Do returns: no caller waits forever, even for a leader that       *)
(* panicked.                                                               *)
DoReturns == \A c \in Callers : pc[c] # "idle" ~> pc[c] \in {"idle", "panicked"}

-----------------------------------------------------------------------------
Asking(c) == pc[c] \in {"obtain", "wait", "login", "commit", "publish"}

SF == INSTANCE SingleFlight WITH
        epoch <- gen,
        flight <- \E c \in Callers : LoggingIn(c),
        asking <- {c \in Callers : Asking(c)},
        seen <- [c \in Callers |-> IF Asking(c) THEN stale[c] ELSE heldGen[c]]

(* The session implements the abstract single flight.                      *)
ImplementsSingleFlight == SF!Spec
=============================================================================

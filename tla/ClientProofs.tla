---------------------------- MODULE ClientProofs ----------------------------
(***************************************************************************)
(* Proofs about SystemClient, for every set of incarnations, every choice  *)
(* of credentials and answers, and every length of the cooldown window,    *)
(* and about ClientReload, for every number of reloads and every choice of *)
(* configs.                                                                *)
(*                                                                         *)
(* The client: Inv is the inductive invariant of SystemClient.  Its parts  *)
(* are, in the order in which they rest on each other: the mutex across a  *)
(* probe (Mutex), detection and the one switch (Detection, Calls), and     *)
(* what each call may still add to the rejections that the appliance has   *)
(* confirmed (Budget).  Primed, beside it, is who may start the cooldown.  *)
(* This part uses no assumption of ClientReload.                           *)
(*                                                                         *)
(* Reloads: a step of a client or of a cycle is a step of SystemClient, so *)
(* StepInv keeps Inv; what is left is the reload itself.  RInv adds that a *)
(* client not installed yet is untouched (Fresh), so that the cooldown     *)
(* copied to it meets no history, and that every recorded rejection        *)
(* belongs to the config of the client reporting it (Belongs).  For        *)
(* QuietReloads, Kept says that the rejections of a client that has not    *)
(* lapsed are in its cooldown or about to be, and Held that the installed  *)
(* client is barred for as long as a rejection of an earlier one of the    *)
(* same config is remembered.                                              *)
(***************************************************************************)
EXTENDS ClientReload, FiniteSetTheorems, SequenceTheorems, TLAPS

Other(c) == IF c = "stats" THEN "listvs" ELSE "stats"

(* Both calls of a cycle run on the client that the cycle was started on.  *)
Together == on["stats"] = on["listvs"]

(* The mutex is held by the probing call of that client and by nobody else. *)
Mutex ==
    /\ \A c \in Callers : pc[c] = "probe" =>
         /\ Holds(c)
         /\ active[on[c]] = Undetected
         /\ via[c] = "json"
         /\ "json" \in configured[on[c]]
    /\ \A i \in Incarnations, c \in Callers : mu[i] = c => on[c] = i /\ pc[c] = "probe"

(* The history of a client's transports ends with the active one; it grows *)
(* by detection and, once the latch is set, by one switch.                 *)
Detection ==
    \A i \in Incarnations :
        /\ Len(served[i]) <= 2
        /\ Len(served[i]) = 0 <=> active[i] = Undetected
        /\ active[i] # Undetected => served[i][Len(served[i])] = active[i]
        /\ ~reprobed[i] => Len(served[i]) <= 1

Switching(c) == pc[c] \in {"alternate", "switch"}

(* A call that is past detection, and the one call that re-probes.         *)
Calls ==
    /\ \A c \in Callers :
        /\ \/ pc[c] \in {"request", "reprobe", "alternate", "switch"}
           \/ pc[c] = "note" /\ err[c] = "ok"
           => active[on[c]] # Undetected
        /\ Switching(c) =>
             /\ reprobed[on[c]]
             /\ Len(served[on[c]]) = 1
             /\ via[c] \in configured[on[c]]
             /\ via[c] # active[on[c]]
    /\ ~(Switching("stats") /\ Switching("listvs"))

-----------------------------------------------------------------------------
(* Transports whose rejection may start the cooldown of client i: those    *)
(* that have been active, and JSON when there is nothing to fall back to.  *)
HasServed(i, t) == \E k \in DOMAIN served[i] : served[i][k] = t
Primable(i, t) == HasServed(i, t) \/ (t = "json" /\ "xml" \notin configured[i])

Primed ==
    /\ \A c \in Callers :
        /\ pc[c] = "request" => HasServed(on[c], via[c])
        /\ pc[c] = "note" /\ err[c] = "auth" => Primable(on[c], via[c])
    /\ \A i \in Incarnations :
        authFailureErr[i] # NoFailure => Primable(i, authFailureErr[i].via)

-----------------------------------------------------------------------------
(* Call c may yet send a request on transport t of client i, or has sent   *)
(* one whose answer is not in.                                             *)
MaySend(c, i, t) ==
    /\ on[c] = i
    /\ \/ pc[c] = "ensure" /\ active[i] \in {t, Undetected}
       \/ pc[c] = "probe" /\ t = "json"
       \/ pc[c] \in {"request", "alternate"} /\ via[c] = t

(* The rejections of a history that l ticks of cooldown outlast: all but   *)
(* at most the m latest.                                                   *)
Outlasted(s, m, l) == \A k \in 1..(Len(s) - m) : s[k] <= l
Within(i, t, m) == Outlasted(recent[i][t], m, left[i])

InOrder(s) == Len(s) <= 3 /\ \A j, k \in 1..Len(s) : j <= k => s[j] <= s[k]

Settled(c) == pc[c] \in {"note", "return", "idle"}

(* A call with an answer that accepted its credential: it is about to end  *)
(* the cooldown, whatever was answered since.                              *)
Accepted(c) == pc[c] = "switch" \/ (pc[c] = "note" /\ err[c] = "ok")

(* A call whose transport another one has replaced as the active one.      *)
Stray(c) ==
    /\ active[on[c]] \notin {via[c], Undetected}
    /\ pc[c] = "request" \/ (pc[c] = "note" /\ err[c] = "ok")

(* A call that may send finds at most two rejections, and at most one if   *)
(* the other may send too.                                                 *)
Pending(i, t) ==
    /\ InOrder(recent[i][t])
    /\ \A c \in Callers : MaySend(c, i, t) => Len(recent[i][t]) <= 2
    /\ (\A c \in Callers : MaySend(c, i, t)) => Len(recent[i][t]) <= 1

(* What the next cycle relies on: rejections of the active transport are   *)
(* in the cooldown, but for one that an older success has taken out of it  *)
(* and one that is about to be noted.                                      *)
Covered(i, t) ==
    active[i] \in {t, Undetected} =>
        /\ (\A c \in Callers : ~NotingRejection(c, i, t)) => Within(i, t, 1)
        /\ (\E c \in Callers : ~NotingRejection(c, i, t)) => Within(i, t, 2)

(* Before detection only a JSON login without an alternative is rejected;  *)
(* before the switch the alternate has been tried at most by the probe.    *)
Untouched(i, t) ==
    /\ active[i] = Undetected =>
        /\ t = "xml" => Len(recent[i][t]) = 0
        /\ t = "json" /\ "xml" \in configured[i] => Len(recent[i][t]) = 0
    /\ ~reprobed[i] /\ active[i] \notin {t, Undetected} =>
        /\ Len(recent[i][t]) <= 1
        /\ \A c \in Callers : ~MaySend(c, i, t)

(* A success that is still to be noted is at most one rejection old: the   *)
(* other call's, which then has no more to come.                           *)
Overdue ==
    \A c \in Callers : Accepted(c) =>
        LET n == Len(recent[on[c]][via[c]])
        IN n = 0 \/ (n = 1 /\ Settled(Other(c)))

(* Its success ends the window of the transport that replaced it, when     *)
(* that has been rejected at most once and no call sends on it.            *)
Alone(c) == Settled(Other(c)) /\ Len(recent[on[c]][active[on[c]]]) <= 1

Strays == \A c \in Callers : Stray(c) => Alone(c)

Budget ==
    /\ \A i \in Incarnations, t \in Transports : Pending(i, t) /\ Covered(i, t) /\ Untouched(i, t)
    /\ Overdue
    /\ Strays

Inv == TypeOK /\ Together /\ Mutex /\ Detection /\ Calls /\ Budget

-----------------------------------------------------------------------------
(* A history of at most three rejections, entry by entry.                  *)
LEMMA Entries ==
    ASSUME NEW s \in Seq(1..Cooldown), InOrder(s)
    PROVE  /\ Len(s) \in 0..3
           /\ DOMAIN s = 1..Len(s)
           /\ \A k \in 1..Len(s) : s[k] \in Nat \ {0} /\ s[k] <= Cooldown
<1> DEFINE S == 1..Cooldown
<1>1. \A x \in S : x \in Nat \ {0} /\ x <= Cooldown
    BY CooldownAssumption
<1>2. s \in Seq(S) /\ Len(s) <= 3
    BY DEF InOrder
<1> HIDE DEF S
<1>3. Len(s) \in Nat /\ s \in [1..Len(s) -> S]
    BY <1>2, LenProperties
<1>4. QED
    BY <1>1, <1>2, <1>3

(* The rejections whose window ends with this tick are the first ones.     *)
LEMMA EndedFirst ==
    ASSUME NEW s \in Seq(1..Cooldown), InOrder(s)
    PROVE  \E e \in 0..Len(s) :
              /\ \A k \in 1..Len(s) : s[k] = 1 <=> k <= e
              /\ Aged(s) = [k \in 1..(Len(s) - e) |-> s[k + e] - 1]
<1>1. /\ Len(s) \in 0..3
      /\ DOMAIN s = 1..Len(s)
      /\ \A k \in 1..Len(s) : s[k] \in Nat \ {0}
    BY Entries
<1>2. \A j, k \in 1..Len(s) : j <= k => s[j] <= s[k]
    BY DEF InOrder
<1>3. \E e \in 0..Len(s) : \A k \in 1..Len(s) : s[k] = 1 <=> k <= e
    <2>1. CASE \A k \in 1..Len(s) : s[k] # 1
        <3>1. 0 \in 0..Len(s) /\ \A k \in 1..Len(s) : s[k] = 1 <=> k <= 0
            BY <1>1, <2>1
        <3>2. QED
            BY <3>1
    <2>2. ASSUME NEW j \in 1..Len(s), s[j] = 1, \A k \in 1..Len(s) : k > j => s[k] # 1
          PROVE  \E e \in 0..Len(s) : \A k \in 1..Len(s) : s[k] = 1 <=> k <= e
        <3>1. \A k \in 1..Len(s) : k <= j => s[k] = 1
            BY <1>1, <1>2, <2>2
        <3>2. j \in 0..Len(s) /\ \A k \in 1..Len(s) : s[k] = 1 <=> k <= j
            BY <1>1, <2>2, <3>1
        <3>3. QED
            BY <3>2
    <2>3. \/ \A k \in 1..Len(s) : s[k] # 1
          \/ \E j \in 1..Len(s) : s[j] = 1 /\ \A k \in 1..Len(s) : k > j => s[k] # 1
        <3>0. \A k \in 1..Len(s) : k = 1 \/ k = 2 \/ k = 3
            BY <1>1
        <3>1. CASE 3 \in 1..Len(s) /\ s[3] = 1
            <4>1. \A k \in 1..Len(s) : ~(k > 3)
                BY <3>0
            <4>2. QED
                BY <3>1, <4>1
        <3>2. CASE 2 \in 1..Len(s) /\ s[2] = 1 /\ ~(3 \in 1..Len(s) /\ s[3] = 1)
            <4>1. \A k \in 1..Len(s) : k > 2 => k = 3
                BY <3>0
            <4>2. \A k \in 1..Len(s) : k > 2 => s[k] # 1
                BY <3>2, <4>1
            <4>3. QED
                BY <3>2, <4>2
        <3>3. CASE /\ 1 \in 1..Len(s) /\ s[1] = 1
                   /\ ~(2 \in 1..Len(s) /\ s[2] = 1)
                   /\ ~(3 \in 1..Len(s) /\ s[3] = 1)
            <4>1. \A k \in 1..Len(s) : k > 1 => k = 2 \/ k = 3
                BY <3>0
            <4>2. \A k \in 1..Len(s) : k > 1 => s[k] # 1
                BY <3>3, <4>1
            <4>3. QED
                BY <3>3, <4>2
        <3>4. CASE \A k \in {1, 2, 3} : ~(k \in 1..Len(s) /\ s[k] = 1)
            BY <3>0, <3>4
        <3>5. QED
            BY <3>1, <3>2, <3>3, <3>4
    <2>4. QED
        BY <2>1, <2>2, <2>3
<1>4. PICK e \in 0..Len(s) : \A k \in 1..Len(s) : s[k] = 1 <=> k <= e
    BY <1>3
<1>5. {k \in DOMAIN s : s[k] = 1} = 1..e
    BY <1>1, <1>4
<1>6. Cardinality(1..e) = e
    <2>1. e \in Nat /\ 1 \in Int /\ e \in Int
        BY <1>1, <1>4
    <2>2. Cardinality(1..e) = IF 1 > e THEN 0 ELSE e - 1 + 1
        BY <2>1, FS_Interval
    <2>3. QED
        BY <2>1, <2>2
<1>7. Aged(s) = [k \in 1..(Len(s) - e) |-> s[k + e] - 1]
    BY <1>5, <1>6 DEF Aged
<1>8. QED
    BY <1>4, <1>7

LEMMA Remainder ==
    ASSUME NEW n \in 0..3, NEW e \in 0..n
    PROVE  n - e \in 0..3 /\ n - e <= n
<1> QED
    OBVIOUS

(* What is left of a cooldown that has l ticks to go.                      *)
TickOf(l) == IF l > 0 THEN l - 1 ELSE 0

(* A tick keeps the order, and what a cooldown outlasts it goes on to      *)
(* outlast.                                                                *)
LEMMA AgedInOrder ==
    ASSUME NEW s \in Seq(1..Cooldown), InOrder(s), NEW l \in 0..Cooldown
    PROVE  /\ Aged(s) \in Seq(1..Cooldown)
           /\ InOrder(Aged(s))
           /\ Len(Aged(s)) <= Len(s)
           /\ \A m \in 0..2 : Outlasted(s, m, l) => Outlasted(Aged(s), m, TickOf(l))
<1>0. Cooldown \in Nat /\ l \in Nat
    BY CooldownAssumption
<1>1. /\ Len(s) \in 0..3
      /\ DOMAIN s = 1..Len(s)
      /\ \A k \in 1..Len(s) : s[k] \in Nat \ {0} /\ s[k] <= Cooldown
      /\ \A j, k \in 1..Len(s) : j <= k => s[j] <= s[k]
    BY Entries DEF InOrder
<1>2. PICK e \in 0..Len(s) :
        /\ \A k \in 1..Len(s) : s[k] = 1 <=> k <= e
        /\ Aged(s) = [k \in 1..(Len(s) - e) |-> s[k + e] - 1]
    BY EndedFirst
<1> DEFINE n == Len(s) - e
<1>3. /\ n \in 0..3 /\ n <= Len(s)
      /\ \A k \in 1..n : /\ k + e \in 1..Len(s)
                         /\ s[k + e] - 1 \in 1..Cooldown
                         /\ Aged(s)[k] = s[k + e] - 1
    <2>1. n \in 0..3 /\ n <= Len(s)
        BY <1>1, <1>2, Remainder
    <2>2. ASSUME NEW k \in 1..n
          PROVE  /\ k + e \in 1..Len(s)
                 /\ s[k + e] - 1 \in 1..Cooldown
                 /\ Aged(s)[k] = s[k + e] - 1
        <3>1. k + e \in 1..Len(s) /\ ~(k + e <= e)
            BY <1>1, <1>2, <2>2
        <3>2. s[k + e] # 1 /\ s[k + e] \in Nat \ {0} /\ s[k + e] <= Cooldown
            BY <1>1, <1>2, <3>1
        <3>3. s[k + e] - 1 \in 1..Cooldown
            BY <1>0, <3>2
        <3>4. QED
            BY <1>2, <2>2, <3>1, <3>3
    <2>3. QED
        BY <2>1, <2>2
<1>4. Aged(s) \in [1..n -> 1..Cooldown]
    BY <1>2, <1>3
<1>5. Aged(s) \in Seq(1..Cooldown) /\ Len(Aged(s)) = n
    <2> DEFINE S == 1..Cooldown
    <2>1. Aged(s) \in [1..n -> S] /\ n \in Nat
        BY <1>3, <1>4
    <2> HIDE DEF S, n
    <2>2. Aged(s) \in Seq(S)
        BY <2>1
    <2>3. Len(Aged(s)) = n
        BY <2>1, <2>2
    <2>4. QED
        BY <2>2, <2>3 DEF S
<1>6. InOrder(Aged(s))
    <2>1. ASSUME NEW j \in 1..n, NEW k \in 1..n, j <= k
          PROVE  Aged(s)[j] <= Aged(s)[k]
        <3>1. j + e \in 1..Len(s) /\ k + e \in 1..Len(s) /\ j + e <= k + e
            <4>1. j \in Nat /\ k \in Nat /\ e \in Nat
                BY <1>1, <1>2
            <4>2. j + e <= k + e
                BY <2>1, <4>1
            <4>3. QED
                BY <1>3, <4>2
        <3>2. s[j + e] <= s[k + e] /\ s[j + e] \in Nat /\ s[k + e] \in Nat
            BY <1>1, <3>1
        <3>3. QED
            BY <1>3, <3>2
    <2>2. QED
        BY <1>3, <1>5, <2>1 DEF InOrder
<1>7. ASSUME NEW m \in 0..2, Outlasted(s, m, l)
      PROVE  Outlasted(Aged(s), m, TickOf(l))
    <2>1. ASSUME NEW k \in 1..(n - m)
          PROVE  Aged(s)[k] <= TickOf(l)
        <3>1. k \in 1..n /\ k + e \in 1..(Len(s) - m)
            BY <1>1, <1>2, <1>7, <2>1
        <3>2. s[k + e] <= l /\ Aged(s)[k] = s[k + e] - 1 /\ s[k + e] \in Nat \ {0}
            BY <1>1, <1>3, <1>7, <3>1 DEF Outlasted
        <3>3. QED
            BY <1>0, <3>2 DEF TickOf
    <2>2. QED
        BY <1>5, <2>1 DEF Outlasted
<1>8. QED
    BY <1>3, <1>5, <1>6, <1>7

(* An answer's mark on the history of confirmed rejections.                *)
LEMMA AnswerMarks ==
    ASSUME TypeOK, NEW c \in Callers, NEW r, Answered(c, r)
    PROVE  /\ recent' \in [Incarnations -> [Transports -> Seq(1..Cooldown)]]
           /\ \A i \in Incarnations, t \in Transports :
                recent'[i][t] = IF i # on[c] \/ t # via[c] THEN recent[i][t]
                                ELSE IF r = "auth" THEN Append(recent[i][t], Cooldown)
                                ELSE IF r = "ok" THEN <<>>
                                ELSE recent[i][t]
<1>1. recent \in [Incarnations -> [Transports -> Seq(1..Cooldown)]]
    BY DEF TypeOK
<1>2. CASE r = "auth"
    <2>1. recent' = [recent EXCEPT ![on[c]][via[c]] = Append(@, Cooldown)]
        BY <1>2 DEF Answered
    <2>2. QED
        BY <1>1, <1>2, <2>1, CooldownAssumption DEF TypeOK
<1>3. CASE r = "ok"
    <2>1. recent' = [recent EXCEPT ![on[c]][via[c]] = <<>>]
        BY <1>3 DEF Answered
    <2>2. <<>> \in Seq(1..Cooldown)
        OBVIOUS
    <2>3. QED
        BY <1>1, <1>3, <2>1, <2>2 DEF TypeOK
<1>4. CASE r \notin {"auth", "ok"}
    BY <1>1, <1>4 DEF Answered
<1>5. QED
    BY <1>2, <1>3, <1>4


(* Detection and the switch.                                               *)
LEMMA ActivateExtends ==
    ASSUME TypeOK, NEW i \in Incarnations, NEW t \in configured[i], Activate(i, t)
    PROVE  /\ t \in Transports
           /\ active' \in [Incarnations -> Transports \cup {Undetected}]
           /\ served' \in [Incarnations -> Seq(Transports)]
           /\ \A j \in Incarnations :
                /\ active'[j] = IF j = i THEN t ELSE active[j]
                /\ active'[j] \in configured[j] \cup {Undetected}
                /\ served'[j] = IF j = i THEN Append(served[i], t) ELSE served[j]
<1>1. t \in Transports
    BY CredentialsAssumption DEF TypeOK, Transports
<1>2. Append(served[i], t) \in Seq(Transports)
    BY <1>1, AppendProperties DEF TypeOK
<1>3. QED
    BY <1>1, <1>2 DEF Activate, TypeOK

-----------------------------------------------------------------------------
(* The first state: no transport, no rejection, no call.                   *)
LEMMA InitInv == Init => Inv /\ Primed
<1> SUFFICES ASSUME Init
             PROVE  Inv /\ Primed
    OBVIOUS
<1>0. Cooldown \in Nat /\ (CHOOSE i \in Incarnations : TRUE) \in Incarnations
    BY CooldownAssumption, ClientsAssumption
<1>1. TypeOK
    <2>1. /\ configured \in [Incarnations -> Credentials]
          /\ active \in [Incarnations -> Transports \cup {Undetected}]
          /\ \A i \in Incarnations : active[i] \in configured[i] \cup {Undetected}
          /\ reprobed \in [Incarnations -> BOOLEAN]
          /\ mu \in [Incarnations -> Callers \cup {Free}]
        BY DEF Init
    <2>2. /\ authFailureErr \in [Incarnations -> Rejection \cup {NoFailure}]
          /\ left \in [Incarnations -> 0..Cooldown]
          /\ \A i \in Incarnations : left[i] > 0 => authFailureErr[i] # NoFailure
        BY <1>0 DEF Init
    <2>3. /\ pc \in [Callers -> Locations]
          /\ on \in [Callers -> Incarnations]
          /\ via \in [Callers -> Transports]
          /\ sent \in [Callers -> BOOLEAN]
          /\ err \in [Callers -> Outcomes]
          /\ ctxDone \in BOOLEAN /\ accepting \in BOOLEAN
        BY <1>0 DEF Init, Locations, Transports, AnyTransport, Outcomes
    <2>4. <<>> \in Seq(1..Cooldown) /\ <<>> \in Seq(Transports)
        OBVIOUS
    <2>5. recent \in [Incarnations -> [Transports -> Seq(1..Cooldown)]]
        BY <2>4 DEF Init
    <2>6. served \in [Incarnations -> Seq(Transports)]
        BY <2>4 DEF Init
    <2>7. QED
        BY <2>1, <2>2, <2>3, <2>5, <2>6 DEF TypeOK
<1>2. Together /\ Mutex /\ Detection /\ Calls /\ Primed
    BY <1>0 DEF Init, Together, Mutex, Detection, Calls, Primed, Switching, Callers, Free,
         Undetected
<1>3. \A i \in Incarnations, t \in Transports : Pending(i, t) /\ Covered(i, t) /\ Untouched(i, t)
    BY <1>0 DEF Init, Pending, Covered, Untouched, MaySend, NotingRejection, InOrder, Within,
         Outlasted, Callers, Undetected
<1>4. Overdue /\ Strays
    BY <1>0 DEF Init, Overdue, Accepted, Strays, Stray, Callers, Undetected
<1>5. QED
    BY <1>1, <1>2, <1>3, <1>4 DEF Inv, Budget

(* Every step keeps the types. That a transport becomes active only with   *)
(* credentials for it is Mutex for the probe and Calls for the switch.     *)
LEMMA TypeStep == Inv /\ [Next]_vars => TypeOK'
<1> SUFFICES ASSUME TypeOK, Mutex, Calls, Budget, [Next]_vars
             PROVE  TypeOK'
    BY DEF Inv
<1>0. Cooldown \in Nat \ {0}
    BY CooldownAssumption
<1>1. ASSUME NEW i \in Incarnations, BeginCycle(i)
      PROVE  TypeOK'
    BY <1>1 DEF BeginCycle, TypeOK, client, Locations, Outcomes
<1>2. ASSUME NEW c \in Callers, CheckCooldown(c)
      PROVE  TypeOK'
    BY <1>2 DEF CheckCooldown, CheckCooldownWhen, client, TypeOK, Locations, Outcomes,
         Transports
<1>3. ASSUME NEW c \in Callers, UseActive(c)
      PROVE  TypeOK'
    BY <1>3 DEF UseActive, Request, client, Undetected, TypeOK, Locations, Outcomes, Transports
<1>4. ASSUME NEW c \in Callers, StartProbe(c)
      PROVE  TypeOK'
    BY <1>4 DEF StartProbe, Request, Lock, client, Undetected, TypeOK, Locations, Outcomes,
         Transports
<1>5. ASSUME NEW c \in Callers, TakeXML(c)
      PROVE  TypeOK'
    <2>1. "xml" \in configured[on[c]]
        <3>1. configured[on[c]] \in Credentials
            BY DEF TypeOK
        <3>2. configured[on[c]] \subseteq {"json", "xml"} /\ configured[on[c]] # {}
            BY <3>1, CredentialsAssumption
        <3>3. QED
            BY <1>5, <3>2 DEF TakeXML
    <2>2. QED
        BY <1>5, <2>1, ActivateExtends DEF TakeXML, Request, TypeOK, Locations
<1>6. ASSUME NEW c \in Callers, ProbeAccepted(c)
      PROVE  TypeOK'
    <2>1. "json" \in configured[on[c]]
        BY <1>6 DEF ProbeAccepted, Mutex
    <2>2. recent' \in [Incarnations -> [Transports -> Seq(1..Cooldown)]]
        BY <1>6, AnswerMarks DEF ProbeAccepted
    <2>3. QED
        BY <1>6, <2>1, <2>2, ActivateExtends DEF ProbeAccepted, Unlock, TypeOK, Locations,
             Outcomes
<1>7. ASSUME NEW c \in Callers, ProbeFallsBack(c)
      PROVE  TypeOK'
    <2>1. recent' \in [Incarnations -> [Transports -> Seq(1..Cooldown)]]
        BY <1>7, AnswerMarks DEF ProbeFallsBack
    <2>2. QED
        BY <1>7, <2>1, ActivateExtends DEF ProbeFallsBack, Request, Unlock, TypeOK, Locations
<1>8. ASSUME NEW c \in Callers, ProbeFails(c)
      PROVE  TypeOK'
    <2>1. recent' \in [Incarnations -> [Transports -> Seq(1..Cooldown)]]
        BY <1>8, AnswerMarks DEF ProbeFails
    <2>2. /\ err' \in [Callers -> Outcomes] /\ pc' \in [Callers -> Locations]
          /\ mu' \in [Incarnations -> Callers \cup {Free}]
        BY <1>8 DEF ProbeFails, Unlock, TypeOK, Locations, Outcomes
    <2>3. UNCHANGED <<client, on, via, sent, ctxDone, accepting>>
        BY <1>8 DEF ProbeFails
    <2>4. QED
        BY <2>1, <2>2, <2>3 DEF client, TypeOK
<1>9. ASSUME NEW c \in Callers, ActiveAnswers(c)
      PROVE  TypeOK'
    <2>1. recent' \in [Incarnations -> [Transports -> Seq(1..Cooldown)]]
        BY <1>9, AnswerMarks DEF ActiveAnswers
    <2>2. err' \in [Callers -> Outcomes] /\ pc' \in [Callers -> Locations]
        BY <1>9 DEF ActiveAnswers, TypeOK, Locations, Outcomes
    <2>3. UNCHANGED <<client, mu, on, via, sent, ctxDone, accepting>>
        BY <1>9 DEF ActiveAnswers
    <2>4. QED
        BY <2>1, <2>2, <2>3 DEF client, TypeOK
<1>10. ASSUME NEW c \in Callers, NoteAuthResult(c)
      PROVE  TypeOK'
    <2>0. /\ UNCHANGED <<configured, active, reprobed, served, mu, on, via, sent, err, ctxDone, accepting>>
          /\ pc' \in [Callers -> Locations]
        BY <1>10 DEF NoteAuthResult, TypeOK, Locations
    <2>1. \/ err[c] = "auth" \/ err[c] = "ok" \/ err[c] \notin {"auth", "ok"}
        OBVIOUS
    <2>2. CASE err[c] = "auth"
        <3>1. [via |-> via[c], on |-> on[c]] \in Rejection
            BY DEF Rejection, TypeOK
        <3>2. [via |-> via[c], on |-> on[c]] # NoFailure
            BY DEF NoFailure, TypeOK, Transports
        <3>3. /\ left' = [left EXCEPT ![on[c]] = Cooldown]
              /\ authFailureErr' = [authFailureErr EXCEPT
                                      ![on[c]] = [via |-> via[c], on |-> on[c]]]
              /\ recent' = recent
            BY <1>10, <2>2 DEF NoteAuthResult
        <3>4. /\ left' \in [Incarnations -> 0..Cooldown]
              /\ authFailureErr' \in [Incarnations -> Rejection \cup {NoFailure}]
              /\ \A i \in Incarnations : left'[i] > 0 => authFailureErr'[i] # NoFailure
            BY <1>0, <3>1, <3>2, <3>3 DEF TypeOK
        <3>5. QED
            BY <2>0, <3>3, <3>4 DEF TypeOK
    <2>3. CASE err[c] = "ok"
        <3>1. /\ left' = [left EXCEPT ![on[c]] = 0]
              /\ authFailureErr' = [authFailureErr EXCEPT ![on[c]] = NoFailure]
              /\ recent' = recent
            BY <1>10, <2>3 DEF NoteAuthResult, ClearFailure
        <3>2. /\ left' \in [Incarnations -> 0..Cooldown]
              /\ authFailureErr' \in [Incarnations -> Rejection \cup {NoFailure}]
              /\ \A i \in Incarnations : left'[i] > 0 => authFailureErr'[i] # NoFailure
            BY <1>0, <3>1 DEF TypeOK
        <3>3. QED
            BY <2>0, <3>1, <3>2 DEF TypeOK
    <2>4. CASE err[c] \notin {"auth", "ok"}
        BY <1>10, <2>4 DEF NoteAuthResult, TypeOK, Locations
    <2>5. QED
        BY <2>1, <2>2, <2>3, <2>4
<1>11. ASSUME NEW c \in Callers, StartAlternate(c)
      PROVE  TypeOK'
    <2>1. \A t \in configured[on[c]] : t \in Transports
        BY CredentialsAssumption DEF TypeOK, Transports
    <2>2. PICK t \in Alternate(on[c]) : Request(c, t, "alternate")
        BY <1>11 DEF StartAlternate
    <2>3. QED
        BY <1>11, <2>1, <2>2 DEF StartAlternate, Latch, Alternate, Request, TypeOK, Locations
<1>12. ASSUME NEW c \in Callers, GiveUp(c)
      PROVE  TypeOK'
    BY <1>12 DEF GiveUp, Latch, TypeOK, Locations, Outcomes, Transports
<1>13. ASSUME NEW c \in Callers, AlternateFails(c)
      PROVE  TypeOK'
    BY <1>0, <1>13, AnswerMarks DEF AlternateFails, AfterAlternate, client, TypeOK, Locations,
         Outcomes, Transports
<1>14. ASSUME NEW c \in Callers, AlternateAccepted(c)
      PROVE  TypeOK'
    BY <1>0, <1>14, AnswerMarks DEF AlternateAccepted, client, TypeOK, Locations, Outcomes,
         Transports
<1>15. ASSUME NEW c \in Callers, Switch(c)
      PROVE  TypeOK'
    <2>1. via[c] \in configured[on[c]]
        BY <1>15 DEF Switch, Calls, Switching
    <2>2. QED
        BY <1>15, <2>1, ActivateExtends DEF Switch, TypeOK, Locations, Outcomes
<1>16. ASSUME NEW c \in Callers, Return(c)
      PROVE  TypeOK'
    BY <1>16 DEF Return, client, AnyTransport, TypeOK, Locations, Outcomes, Transports
<1>17. CASE Timeout
    BY <1>17 DEF Timeout, client, calls, TypeOK
<1>18. CASE Tick
    <2>1. left' \in [Incarnations -> 0..Cooldown] /\ \A i \in Incarnations : left'[i] > 0 => left[i] > 0
        BY <1>0, <1>18 DEF Tick, TypeOK
    <2>2. ASSUME NEW i \in Incarnations, NEW t \in Transports
          PROVE  Aged(recent[i][t]) \in Seq(1..Cooldown)
        <3>1. recent[i][t] \in Seq(1..Cooldown) /\ left[i] \in 0..Cooldown
            BY DEF TypeOK
        <3>2. InOrder(recent[i][t])
            BY DEF Budget, Pending
        <3>3. QED
            BY <3>1, <3>2, AgedInOrder
    <2>3. recent' \in [Incarnations -> [Transports -> Seq(1..Cooldown)]]
        BY <1>18, <2>2 DEF Tick
    <2>4. QED
        BY <1>18, <2>1, <2>3 DEF Tick, calls, TypeOK
<1>19. CASE ApplianceRecovers
    BY <1>19 DEF ApplianceRecovers, client, calls, TypeOK
<1>20. CASE UNCHANGED vars
    BY <1>20 DEF vars, TypeOK
<1>21. QED
    BY <1>1, <1>2, <1>3, <1>4, <1>5, <1>6, <1>7, <1>8, <1>9, <1>10, <1>11, <1>12, <1>13,
       <1>14, <1>15, <1>16, <1>17, <1>18, <1>19, <1>20 DEF Next, Step, Environment

(* The probing call releases the mutex in the step that ends the probe,    *)
(* and no other call touches it meanwhile.                                 *)
LEMMA MutexStep == Inv /\ [Next]_vars => Together' /\ Mutex'
<1> SUFFICES ASSUME TypeOK, Together, Mutex, [Next]_vars
             PROVE  Together' /\ Mutex'
    BY DEF Inv
<1>1. ASSUME NEW i \in Incarnations, BeginCycle(i)
      PROVE  Together' /\ Mutex'
    BY <1>1 DEF BeginCycle, client, TypeOK, Together, Mutex, Holds, Callers, Free
<1>2. ASSUME NEW c \in Callers, CheckCooldown(c)
      PROVE  Together' /\ Mutex'
    BY <1>2 DEF CheckCooldown, CheckCooldownWhen, client, CanLock, TypeOK, Together, Mutex,
         Holds, Callers, Free
<1>3. ASSUME NEW c \in Callers, UseActive(c)
      PROVE  Together' /\ Mutex'
    BY <1>3 DEF UseActive, Request, client, CanLock, TypeOK, Together, Mutex, Holds, Callers,
         Free
<1>4. ASSUME NEW c \in Callers, StartProbe(c)
      PROVE  Together' /\ Mutex'
    BY <1>4 DEF StartProbe, Request, Lock, client, CanLock, Holds, TypeOK, Together, Mutex,
         Callers, Free
<1>5. ASSUME NEW c \in Callers, TakeXML(c)
      PROVE  Together' /\ Mutex'
    BY <1>5 DEF TakeXML, Request, CanLock, Activate, TypeOK, Together, Mutex, Holds, Callers,
         Free
<1>6. ASSUME NEW c \in Callers, ProbeAccepted(c)
      PROVE  Together' /\ Mutex'
    BY <1>6 DEF ProbeAccepted, Unlock, Holds, Activate, TypeOK, Together, Mutex, Callers, Free
<1>7. ASSUME NEW c \in Callers, ProbeFallsBack(c)
      PROVE  Together' /\ Mutex'
    BY <1>7 DEF ProbeFallsBack, Request, Unlock, Holds, Activate, TypeOK, Together, Mutex,
         Callers, Free
<1>8. ASSUME NEW c \in Callers, ProbeFails(c)
      PROVE  Together' /\ Mutex'
    BY <1>8 DEF ProbeFails, Unlock, client, Holds, TypeOK, Together, Mutex, Callers, Free
<1>9. ASSUME NEW c \in Callers, ActiveAnswers(c)
      PROVE  Together' /\ Mutex'
    BY <1>9 DEF ActiveAnswers, client, TypeOK, Together, Mutex, Holds, Callers, Free
<1>10. ASSUME NEW c \in Callers, NoteAuthResult(c)
      PROVE  Together' /\ Mutex'
    BY <1>10 DEF NoteAuthResult, CanLock, TypeOK, Together, Mutex, Holds, Callers, Free
<1>11. ASSUME NEW c \in Callers, StartAlternate(c)
      PROVE  Together' /\ Mutex'
    BY <1>11 DEF StartAlternate, Request, Latch, CanLock, TypeOK, Together, Mutex, Holds,
         Callers, Free
<1>12. ASSUME NEW c \in Callers, GiveUp(c)
      PROVE  Together' /\ Mutex'
    BY <1>12 DEF GiveUp, Latch, CanLock, TypeOK, Together, Mutex, Holds, Callers, Free
<1>13. ASSUME NEW c \in Callers, AlternateFails(c)
      PROVE  Together' /\ Mutex'
    BY <1>13 DEF AlternateFails, AfterAlternate, client, TypeOK, Together, Mutex, Holds,
         Callers, Free
<1>14. ASSUME NEW c \in Callers, AlternateAccepted(c)
      PROVE  Together' /\ Mutex'
    BY <1>14 DEF AlternateAccepted, client, TypeOK, Together, Mutex, Holds, Callers, Free
<1>15. ASSUME NEW c \in Callers, Switch(c)
      PROVE  Together' /\ Mutex'
    BY <1>15 DEF Switch, CanLock, Activate, TypeOK, Together, Mutex, Holds, Callers, Free
<1>16. ASSUME NEW c \in Callers, Return(c)
      PROVE  Together' /\ Mutex'
    BY <1>16 DEF Return, client, TypeOK, Together, Mutex, Holds, Callers, Free
<1>17. CASE Timeout
    BY <1>17 DEF Timeout, client, calls, TypeOK, Together, Mutex, Holds, Callers, Free
<1>18. CASE Tick
    BY <1>18 DEF Tick, calls, TypeOK, Together, Mutex, Holds, Callers, Free
<1>19. CASE ApplianceRecovers
    BY <1>19 DEF ApplianceRecovers, client, calls, TypeOK, Together, Mutex, Holds, Callers, Free
<1>20. CASE UNCHANGED vars
    BY <1>20 DEF vars, TypeOK, Together, Mutex, Holds, Callers, Free
<1>21. QED
    BY <1>1, <1>2, <1>3, <1>4, <1>5, <1>6, <1>7, <1>8, <1>9, <1>10, <1>11, <1>12, <1>13,
       <1>14, <1>15, <1>16, <1>17, <1>18, <1>19, <1>20 DEF Next, Step, Environment

(* A client has credentials, so without JSON it has XML.                   *)
LEMMA SomeCredential ==
    ASSUME TypeOK, NEW i \in Incarnations
    PROVE  configured[i] \subseteq {"json", "xml"} /\ configured[i] # {}
<1>1. configured[i] \in Credentials
    BY DEF TypeOK
<1>2. QED
    BY <1>1, CredentialsAssumption

(* Becoming active for the first time, or once more after the latch.       *)
LEMMA ActivateDetects ==
    ASSUME TypeOK, Detection, NEW i \in Incarnations, NEW t \in configured[i], Activate(i, t),
           active[i] = Undetected \/ (reprobed[i] /\ Len(served[i]) = 1),
           UNCHANGED reprobed
    PROVE  Detection'
<1>1. /\ t \in Transports
      /\ \A j \in Incarnations :
           /\ active'[j] = IF j = i THEN t ELSE active[j]
           /\ served'[j] = IF j = i THEN Append(served[i], t) ELSE served[j]
    BY ActivateExtends
<1>2. /\ Len(Append(served[i], t)) = Len(served[i]) + 1
      /\ Append(served[i], t)[Len(served[i]) + 1] = t
    BY <1>1, AppendProperties DEF TypeOK
<1>3. Len(served[i]) = 0 \/ (reprobed[i] /\ Len(served[i]) = 1)
    BY DEF Detection
<1>4. t # Undetected
    BY <1>1 DEF Transports, Undetected
<1>5. ASSUME NEW j \in Incarnations
      PROVE  /\ Len(served'[j]) <= 2
             /\ Len(served'[j]) = 0 <=> active'[j] = Undetected
             /\ active'[j] # Undetected => served'[j][Len(served'[j])] = active'[j]
             /\ ~reprobed'[j] => Len(served'[j]) <= 1
    <2>1. CASE j = i
        <3>1. served'[i] = Append(served[i], t) /\ active'[i] = t
            BY <1>1
        <3>2. Len(served'[i]) = Len(served[i]) + 1 /\ served'[i][Len(served[i]) + 1] = t
            BY <1>2, <3>1
        <3>3. served'[i][Len(served'[i])] = t
            BY <3>2
        <3>4. Len(served'[i]) \in 1..2 /\ (~reprobed'[i] => Len(served'[i]) = 1)
            <4>1. CASE Len(served[i]) = 0
                BY <3>2, <4>1
            <4>2. CASE reprobed[i] /\ Len(served[i]) = 1
                <5>1. Len(served'[i]) \in 1..2
                    BY <3>2, <4>2
                <5>2. reprobed'[i]
                    BY <4>2
                <5>3. QED
                    BY <5>1, <5>2
            <4>3. QED
                BY <1>3, <4>1, <4>2
        <3>5. QED
            BY <1>4, <2>1, <3>1, <3>3, <3>4
    <2>2. CASE j # i
        BY <1>1, <2>2 DEF Detection
    <2>3. QED
        BY <2>1, <2>2
<1>6. QED
    BY <1>5 DEF Detection

(* Detection needs an undetected client, which the mutex keeps undetected  *)
(* while a probe runs; the switch needs a client that has switched never.  *)
LEMMA DetectionStep == Inv /\ [Next]_vars => Detection'
<1> SUFFICES ASSUME TypeOK, Together, Mutex, Detection, Calls, [Next]_vars
             PROVE  Detection'
    BY DEF Inv
<1>0. \A c \in Callers : on[c] \in Incarnations
    BY DEF TypeOK
<1>1. ASSUME NEW i \in Incarnations, BeginCycle(i)
      PROVE  Detection'
    BY <1>1 DEF BeginCycle, client, TypeOK, Detection
<1>2. ASSUME NEW c \in Callers, CheckCooldown(c)
      PROVE  Detection'
    BY <1>2 DEF CheckCooldown, CheckCooldownWhen, client, CanLock, TypeOK, Detection
<1>3. ASSUME NEW c \in Callers, UseActive(c)
      PROVE  Detection'
    BY <1>3 DEF UseActive, Request, client, CanLock, TypeOK, Detection
<1>4. ASSUME NEW c \in Callers, StartProbe(c)
      PROVE  Detection'
    BY <1>4 DEF StartProbe, Request, Lock, client, CanLock, Holds, TypeOK, Detection
<1>5. ASSUME NEW c \in Callers, TakeXML(c)
      PROVE  Detection'
    <2>1. "xml" \in configured[on[c]]
        BY <1>0, <1>5, SomeCredential DEF TakeXML
    <2>2. QED
        BY <1>0, <1>5, <2>1, ActivateDetects DEF TakeXML
<1>6. ASSUME NEW c \in Callers, ProbeAccepted(c)
      PROVE  Detection'
    BY <1>0, <1>6, ActivateDetects DEF ProbeAccepted, Mutex
<1>7. ASSUME NEW c \in Callers, ProbeFallsBack(c)
      PROVE  Detection'
    BY <1>0, <1>7, ActivateDetects DEF ProbeFallsBack, Mutex
<1>8. ASSUME NEW c \in Callers, ProbeFails(c)
      PROVE  Detection'
    BY <1>8 DEF ProbeFails, Unlock, client, Holds, TypeOK, Detection
<1>9. ASSUME NEW c \in Callers, ActiveAnswers(c)
      PROVE  Detection'
    BY <1>9 DEF ActiveAnswers, client, TypeOK, Detection
<1>10. ASSUME NEW c \in Callers, NoteAuthResult(c)
      PROVE  Detection'
    BY <1>10 DEF NoteAuthResult, CanLock, TypeOK, Detection
<1>11. ASSUME NEW c \in Callers, StartAlternate(c)
      PROVE  Detection'
    BY <1>11 DEF StartAlternate, Request, Latch, CanLock, TypeOK, Detection
<1>12. ASSUME NEW c \in Callers, GiveUp(c)
      PROVE  Detection'
    BY <1>12 DEF GiveUp, Latch, CanLock, TypeOK, Detection
<1>13. ASSUME NEW c \in Callers, AlternateFails(c)
      PROVE  Detection'
    BY <1>13 DEF AlternateFails, AfterAlternate, client, TypeOK, Detection
<1>14. ASSUME NEW c \in Callers, AlternateAccepted(c)
      PROVE  Detection'
    BY <1>14 DEF AlternateAccepted, client, TypeOK, Detection
<1>15. ASSUME NEW c \in Callers, Switch(c)
      PROVE  Detection'
    BY <1>0, <1>15, ActivateDetects DEF Switch, Calls, Switching
<1>16. ASSUME NEW c \in Callers, Return(c)
      PROVE  Detection'
    BY <1>16 DEF Return, client, TypeOK, Detection
<1>17. CASE Timeout
    BY <1>17 DEF Timeout, client, calls, TypeOK, Detection
<1>18. CASE Tick
    BY <1>18 DEF Tick, calls, TypeOK, Detection
<1>19. CASE ApplianceRecovers
    BY <1>19 DEF ApplianceRecovers, client, calls, TypeOK, Detection
<1>20. CASE UNCHANGED vars
    BY <1>20 DEF vars, TypeOK, Detection
<1>21. QED
    BY <1>1, <1>2, <1>3, <1>4, <1>5, <1>6, <1>7, <1>8, <1>9, <1>10, <1>11, <1>12, <1>13,
       <1>14, <1>15, <1>16, <1>17, <1>18, <1>19, <1>20 DEF Next, Step, Environment

(* The latch is set and the alternate chosen in one critical section, so   *)
(* that the second call to get there gives up.                             *)
LEMMA CallsStep == Inv /\ [Next]_vars => Calls'
<1> SUFFICES ASSUME TypeOK, Together, Mutex, Detection, Calls, [Next]_vars
             PROVE  Calls'
    BY DEF Inv
<1>1. ASSUME NEW i \in Incarnations, BeginCycle(i)
      PROVE  Calls'
    BY <1>1 DEF BeginCycle, client, TypeOK, Together, Calls, Switching, Callers
<1>2. ASSUME NEW c \in Callers, CheckCooldown(c)
      PROVE  Calls'
    BY <1>2 DEF CheckCooldown, CheckCooldownWhen, client, CanLock, TypeOK, Together, Calls,
         Switching, Callers
<1>3. ASSUME NEW c \in Callers, UseActive(c)
      PROVE  Calls'
    BY <1>3 DEF UseActive, Request, client, CanLock, TypeOK, Together, Calls, Switching, Callers
<1>4. ASSUME NEW c \in Callers, StartProbe(c)
      PROVE  Calls'
    BY <1>4 DEF StartProbe, Request, Lock, client, CanLock, Holds, TypeOK, Together, Calls,
         Switching, Callers
<1>5. ASSUME NEW c \in Callers, TakeXML(c)
      PROVE  Calls'
    BY <1>5 DEF TakeXML, Request, CanLock, Activate, Undetected, TypeOK, Together, Calls,
         Switching, Callers
<1>6. ASSUME NEW c \in Callers, ProbeAccepted(c)
      PROVE  Calls'
    BY <1>6 DEF ProbeAccepted, Unlock, Holds, Activate, Undetected, Mutex, TypeOK, Together,
         Calls, Switching, Callers
<1>7. ASSUME NEW c \in Callers, ProbeFallsBack(c)
      PROVE  Calls'
    BY <1>7 DEF ProbeFallsBack, Request, Unlock, Holds, Activate, Undetected, Mutex, TypeOK,
         Together, Calls, Switching, Callers
<1>8. ASSUME NEW c \in Callers, ProbeFails(c)
      PROVE  Calls'
    BY <1>8 DEF ProbeFails, Unlock, client, Holds, Mutex, TypeOK, Together, Calls, Switching,
         Callers
<1>9. ASSUME NEW c \in Callers, ActiveAnswers(c)
      PROVE  Calls'
    BY <1>9 DEF ActiveAnswers, client, TypeOK, Together, Calls, Switching, Callers
<1>10. ASSUME NEW c \in Callers, NoteAuthResult(c)
      PROVE  Calls'
    BY <1>10 DEF NoteAuthResult, CanLock, TypeOK, Together, Calls, Switching, Callers
<1>11. ASSUME NEW c \in Callers, StartAlternate(c)
      PROVE  Calls'
    <2>1. PICK t \in Alternate(on[c]) : Request(c, t, "alternate")
        BY <1>11 DEF StartAlternate
    <2>2. /\ t \in configured[on[c]] /\ t # active[on[c]]
          /\ pc' = [pc EXCEPT ![c] = "alternate"] /\ via' = [via EXCEPT ![c] = t]
          /\ UNCHANGED <<configured, active, served, on, err>>
        BY <1>11, <2>1 DEF StartAlternate, Request, Alternate
    <2>3. \A d \in Callers : ~Switching(d)
        BY <1>11 DEF StartAlternate, Calls, Together, Callers
    <2>4. reprobed' = [reprobed EXCEPT ![on[c]] = TRUE] /\ reprobed'[on[c]]
        BY <1>11 DEF StartAlternate, Latch, TypeOK
    <2>5. active[on[c]] # Undetected
        BY <1>11 DEF StartAlternate, Calls
    <2>6. Len(served[on[c]]) = 1
        <3>1. Len(served[on[c]]) \in Nat /\ on[c] \in Incarnations
            BY DEF TypeOK
        <3>2. ~reprobed[on[c]]
            BY <1>11 DEF StartAlternate
        <3>3. Len(served[on[c]]) <= 1 /\ Len(served[on[c]]) # 0
            BY <2>5, <3>1, <3>2 DEF Detection
        <3>4. \A n \in Nat : n <= 1 /\ n # 0 => n = 1
            OBVIOUS
        <3>5. QED
            BY <3>1, <3>3, <3>4
    <2>7. QED
        BY <2>2, <2>3, <2>4, <2>5, <2>6 DEF TypeOK, Calls, Switching, Callers
<1>12. ASSUME NEW c \in Callers, GiveUp(c)
      PROVE  Calls'
    BY <1>12 DEF GiveUp, Latch, CanLock, TypeOK, Together, Calls, Switching, Callers
<1>13. ASSUME NEW c \in Callers, AlternateFails(c)
      PROVE  Calls'
    BY <1>13 DEF AlternateFails, AfterAlternate, client, TypeOK, Together, Calls, Switching,
         Callers
<1>14. ASSUME NEW c \in Callers, AlternateAccepted(c)
      PROVE  Calls'
    BY <1>14 DEF AlternateAccepted, client, TypeOK, Together, Calls, Switching, Callers
<1>15. ASSUME NEW c \in Callers, Switch(c)
      PROVE  Calls'
    BY <1>15 DEF Switch, CanLock, Activate, Undetected, Transports, TypeOK, Together, Calls,
         Switching, Callers
<1>16. ASSUME NEW c \in Callers, Return(c)
      PROVE  Calls'
    BY <1>16 DEF Return, client, TypeOK, Together, Calls, Switching, Callers
<1>17. CASE Timeout
    BY <1>17 DEF Timeout, client, calls, TypeOK, Together, Calls, Switching, Callers
<1>18. CASE Tick
    BY <1>18 DEF Tick, calls, TypeOK, Together, Calls, Switching, Callers
<1>19. CASE ApplianceRecovers
    BY <1>19 DEF ApplianceRecovers, client, calls, TypeOK, Together, Calls, Switching, Callers
<1>20. CASE UNCHANGED vars
    BY <1>20 DEF vars, TypeOK, Together, Calls, Switching, Callers
<1>21. QED
    BY <1>1, <1>2, <1>3, <1>4, <1>5, <1>6, <1>7, <1>8, <1>9, <1>10, <1>11, <1>12, <1>13,
       <1>14, <1>15, <1>16, <1>17, <1>18, <1>19, <1>20 DEF Next, Step, Environment

-----------------------------------------------------------------------------
(* The active transport is in the history, and the history only grows.     *)
LEMMA ActiveServed ==
    ASSUME TypeOK, Detection, NEW i \in Incarnations, active[i] # Undetected
    PROVE  HasServed(i, active[i])
<1>1. Len(served[i]) \in Nat /\ DOMAIN served[i] = 1..Len(served[i])
    BY LenProperties DEF TypeOK
<1>2. Len(served[i]) # 0 /\ served[i][Len(served[i])] = active[i]
    BY DEF Detection
<1>3. Len(served[i]) \in DOMAIN served[i]
    BY <1>1, <1>2
<1>4. QED
    BY <1>2, <1>3 DEF HasServed

(* Becoming active extends the history and takes nothing away.             *)
LEMMA ActivateServes ==
    ASSUME TypeOK, NEW i \in Incarnations, NEW t \in configured[i], Activate(i, t)
    PROVE  /\ \A j \in Incarnations, u \in Transports : HasServed(j, u) => HasServed(j, u)'
           /\ HasServed(i, t)'
<1>1. /\ t \in Transports
      /\ \A j \in Incarnations : served'[j] = IF j = i THEN Append(served[i], t) ELSE served[j]
    BY ActivateExtends
<1>2. Len(served[i]) \in Nat /\ DOMAIN served[i] = 1..Len(served[i])
    BY LenProperties DEF TypeOK
<1>3. /\ Append(served[i], t) \in Seq(Transports)
      /\ Len(Append(served[i], t)) = Len(served[i]) + 1
      /\ \A k \in 1..Len(served[i]) : Append(served[i], t)[k] = served[i][k]
      /\ Append(served[i], t)[Len(served[i]) + 1] = t
    BY <1>1, AppendProperties DEF TypeOK
<1>4. DOMAIN Append(served[i], t) = 1..(Len(served[i]) + 1)
    BY <1>3, LenProperties
<1>5. HasServed(i, t)'
    <2>0. \A n \in Nat : n + 1 \in 1..(n + 1)
        OBVIOUS
    <2>1. served'[i] = Append(served[i], t) /\ Len(served[i]) + 1 \in 1..(Len(served[i]) + 1)
        BY <1>1, <1>2, <2>0
    <2>2. Len(served[i]) + 1 \in DOMAIN served'[i] /\ served'[i][Len(served[i]) + 1] = t
        BY <1>3, <1>4, <2>1
    <2>3. QED
        BY <2>2 DEF HasServed
<1>6. ASSUME NEW j \in Incarnations, NEW u \in Transports, HasServed(j, u)
      PROVE  HasServed(j, u)'
    <2>1. PICK k \in DOMAIN served[j] : served[j][k] = u
        BY <1>6 DEF HasServed
    <2>2. CASE j = i
        <3>1. served'[j] = Append(served[i], t)
            BY <1>1, <2>2
        <3>2. k \in 1..Len(served[i]) /\ served[i][k] = u
            BY <1>2, <2>1, <2>2
        <3>3. k \in 1..(Len(served[i]) + 1) /\ Append(served[i], t)[k] = u
            BY <1>2, <1>3, <3>2
        <3>4. k \in DOMAIN served'[j] /\ served'[j][k] = u
            BY <1>4, <3>1, <3>3
        <3>5. QED
            BY <3>4 DEF HasServed
    <2>3. CASE j # i
        BY <1>1, <1>6, <2>3 DEF HasServed
    <2>4. QED
        BY <2>2, <2>3
<1>7. QED
    BY <1>5, <1>6

(* Becoming active keeps who may start the cooldown.                       *)
LEMMA ActivatePrimes ==
    ASSUME TypeOK, Primed, NEW i \in Incarnations, NEW t \in configured[i], Activate(i, t),
           UNCHANGED <<configured, authFailureErr, on>>,
           \A d \in Callers :
             /\ pc'[d] = "request" =>
                  \/ pc[d] = "request" /\ via'[d] = via[d]
                  \/ on[d] = i /\ via'[d] = t
             /\ pc'[d] = "note" /\ err'[d] = "auth" =>
                  pc[d] = "note" /\ err[d] = "auth" /\ via'[d] = via[d]
    PROVE  Primed'
<1>1. \A d \in Callers : on[d] \in Incarnations /\ via[d] \in Transports
    BY DEF TypeOK
<1>2. /\ \A j \in Incarnations, u \in Transports : HasServed(j, u) => HasServed(j, u)'
      /\ HasServed(i, t)'
    BY ActivateServes
<1>3. ASSUME NEW d \in Callers
      PROVE  /\ pc'[d] = "request" => HasServed(on[d], via[d])'
             /\ pc'[d] = "note" /\ err'[d] = "auth" => Primable(on[d], via[d])'
    BY <1>1, <1>2 DEF Primed, Primable, HasServed
<1>4. ASSUME NEW j \in Incarnations, authFailureErr'[j] # NoFailure
      PROVE  Primable(j, authFailureErr[j].via)'
    <2>1. authFailureErr[j] # NoFailure /\ authFailureErr[j].via \in Transports
        BY <1>4 DEF TypeOK, Rejection
    <2>2. QED
        BY <1>2, <2>1 DEF Primed, Primable, HasServed
<1>5. QED
    BY <1>3, <1>4 DEF Primed

(* A rejection that is noted came from the active transport, or from a     *)
(* probe with nothing to fall back to.                                     *)
LEMMA PrimedStep == Inv /\ Primed /\ [Next]_vars => Primed'
<1> SUFFICES ASSUME TypeOK, Mutex, Detection, Calls, Primed, [Next]_vars
             PROVE  Primed'
    BY DEF Inv
<1>0. \A d \in Callers : on[d] \in Incarnations /\ via[d] \in Transports
    BY DEF TypeOK
<1>1. ASSUME NEW i \in Incarnations, BeginCycle(i)
      PROVE  Primed'
    BY <1>1 DEF BeginCycle, client, TypeOK, Primed, Primable, HasServed
<1>2. ASSUME NEW c \in Callers, CheckCooldown(c)
      PROVE  Primed'
    BY <1>2 DEF CheckCooldown, CheckCooldownWhen, client, CanLock, TypeOK, Primed, Primable,
         HasServed
<1>3. ASSUME NEW c \in Callers, UseActive(c)
      PROVE  Primed'
    <2>1. HasServed(on[c], active[on[c]])
        BY <1>0, <1>3, ActiveServed DEF UseActive
    <2>2. QED
        BY <1>3, <2>1 DEF UseActive, Request, client, TypeOK, Primed, Primable, HasServed
<1>4. ASSUME NEW c \in Callers, StartProbe(c)
      PROVE  Primed'
    BY <1>4 DEF StartProbe, Request, Lock, client, CanLock, Holds, TypeOK, Primed, Primable,
         HasServed
<1>5. ASSUME NEW c \in Callers, TakeXML(c)
      PROVE  Primed'
    <2>1. /\ "xml" \in configured[on[c]]
          /\ Activate(on[c], "xml")
          /\ UNCHANGED <<configured, authFailureErr, on>>
        BY <1>0, <1>5, SomeCredential DEF TakeXML
    <2>2. \A d \in Callers :
            /\ pc'[d] = "request" =>
                 \/ pc[d] = "request" /\ via'[d] = via[d]
                 \/ on[d] = on[c] /\ via'[d] = "xml"
            /\ pc'[d] = "note" /\ err'[d] = "auth" =>
                 pc[d] = "note" /\ err[d] = "auth" /\ via'[d] = via[d]
        BY <1>5 DEF TakeXML, Request, TypeOK
    <2>3. QED
        BY <1>0, <2>1, <2>2, ActivatePrimes
<1>6. ASSUME NEW c \in Callers, ProbeAccepted(c)
      PROVE  Primed'
    <2>1. /\ "json" \in configured[on[c]]
          /\ Activate(on[c], "json")
          /\ UNCHANGED <<configured, authFailureErr, on>>
        BY <1>0, <1>6, SomeCredential DEF ProbeAccepted, Mutex
    <2>2. \A d \in Callers :
            /\ pc'[d] = "request" =>
                 \/ pc[d] = "request" /\ via'[d] = via[d]
                 \/ on[d] = on[c] /\ via'[d] = "json"
            /\ pc'[d] = "note" /\ err'[d] = "auth" =>
                 pc[d] = "note" /\ err[d] = "auth" /\ via'[d] = via[d]
        BY <1>6 DEF ProbeAccepted, TypeOK
    <2>3. QED
        BY <1>0, <2>1, <2>2, ActivatePrimes
<1>7. ASSUME NEW c \in Callers, ProbeFallsBack(c)
      PROVE  Primed'
    <2>1. /\ "xml" \in configured[on[c]]
          /\ Activate(on[c], "xml")
          /\ UNCHANGED <<configured, authFailureErr, on>>
        BY <1>0, <1>7, SomeCredential DEF ProbeFallsBack
    <2>2. \A d \in Callers :
            /\ pc'[d] = "request" =>
                 \/ pc[d] = "request" /\ via'[d] = via[d]
                 \/ on[d] = on[c] /\ via'[d] = "xml"
            /\ pc'[d] = "note" /\ err'[d] = "auth" =>
                 pc[d] = "note" /\ err[d] = "auth" /\ via'[d] = via[d]
        BY <1>7 DEF ProbeFallsBack, Request, TypeOK
    <2>3. QED
        BY <1>0, <2>1, <2>2, ActivatePrimes
<1>8. ASSUME NEW c \in Callers, ProbeFails(c)
      PROVE  Primed'
    BY <1>8 DEF ProbeFails, Unlock, client, Holds, Mutex, NoFailure, TypeOK, Primed, Primable,
         HasServed
<1>9. ASSUME NEW c \in Callers, ActiveAnswers(c)
      PROVE  Primed'
    BY <1>9 DEF ActiveAnswers, client, Outcomes, TypeOK, Primed, Primable, HasServed
<1>10. ASSUME NEW c \in Callers, NoteAuthResult(c)
      PROVE  Primed'
    <2>1. /\ UNCHANGED <<configured, served, on, via, err>>
          /\ pc' = [pc EXCEPT ![c] = "return"]
          /\ pc[c] = "note"
        BY <1>10 DEF NoteAuthResult
    <2>2. \/ /\ err[c] = "auth"
             /\ authFailureErr' = [authFailureErr EXCEPT
                                     ![on[c]] = [via |-> via[c], on |-> on[c]]]
          \/ authFailureErr' = [authFailureErr EXCEPT ![on[c]] = NoFailure]
          \/ UNCHANGED authFailureErr
        BY <1>10 DEF NoteAuthResult, ClearFailure
    <2>3. \A d \in Callers :
            /\ pc'[d] = "request" => HasServed(on[d], via[d])'
            /\ pc'[d] = "note" /\ err'[d] = "auth" => Primable(on[d], via[d])'
        BY <2>1 DEF Primed, Primable, HasServed, TypeOK
    <2>4. ASSUME NEW j \in Incarnations, authFailureErr'[j] # NoFailure
          PROVE  \/ authFailureErr'[j] = authFailureErr[j]
                 \/ /\ j = on[c] /\ err[c] = "auth"
                    /\ authFailureErr'[j] = [via |-> via[c], on |-> on[c]]
        BY <2>2, <2>4 DEF TypeOK
    <2>5. ASSUME NEW j \in Incarnations, authFailureErr'[j] # NoFailure
          PROVE  Primable(j, authFailureErr'[j].via)
        BY <2>1, <2>4, <2>5 DEF Primed
    <2>6. QED
        BY <2>1, <2>3, <2>5 DEF Primed, Primable, HasServed
<1>11. ASSUME NEW c \in Callers, StartAlternate(c)
      PROVE  Primed'
    BY <1>11 DEF StartAlternate, Request, Latch, CanLock, TypeOK, Primed, Primable, HasServed
<1>12. ASSUME NEW c \in Callers, GiveUp(c)
      PROVE  Primed'
    BY <1>12 DEF GiveUp, Latch, CanLock, TypeOK, Primed, Primable, HasServed
<1>13. ASSUME NEW c \in Callers, AlternateFails(c)
      PROVE  Primed'
    BY <1>13 DEF AlternateFails, AfterAlternate, client, TypeOK, Primed, Primable, HasServed
<1>14. ASSUME NEW c \in Callers, AlternateAccepted(c)
      PROVE  Primed'
    BY <1>14 DEF AlternateAccepted, client, TypeOK, Primed, Primable, HasServed
<1>15. ASSUME NEW c \in Callers, Switch(c)
      PROVE  Primed'
    <2>1. /\ via[c] \in configured[on[c]]
          /\ Activate(on[c], via[c])
          /\ UNCHANGED <<configured, authFailureErr, on>>
        BY <1>0, <1>15, SomeCredential DEF Switch, Calls, Switching
    <2>2. \A d \in Callers :
            /\ pc'[d] = "request" =>
                 \/ pc[d] = "request" /\ via'[d] = via[d]
                 \/ on[d] = on[c] /\ via'[d] = via[c]
            /\ pc'[d] = "note" /\ err'[d] = "auth" =>
                 pc[d] = "note" /\ err[d] = "auth" /\ via'[d] = via[d]
        BY <1>15 DEF Switch, TypeOK
    <2>3. QED
        BY <1>0, <2>1, <2>2, ActivatePrimes
<1>16. ASSUME NEW c \in Callers, Return(c)
      PROVE  Primed'
    BY <1>16 DEF Return, client, TypeOK, Primed, Primable, HasServed
<1>17. CASE Timeout
    BY <1>17 DEF Timeout, client, calls, TypeOK, Primed, Primable, HasServed
<1>18. CASE Tick
    BY <1>18 DEF Tick, calls, TypeOK, Primed, Primable, HasServed
<1>19. CASE ApplianceRecovers
    BY <1>19 DEF ApplianceRecovers, client, calls, TypeOK, Primed, Primable, HasServed
<1>20. CASE UNCHANGED vars
    BY <1>20 DEF vars, TypeOK, Primed, Primable, HasServed
<1>21. QED
    BY <1>1, <1>2, <1>3, <1>4, <1>5, <1>6, <1>7, <1>8, <1>9, <1>10, <1>11, <1>12, <1>13,
       <1>14, <1>15, <1>16, <1>17, <1>18, <1>19, <1>20 DEF Next, Step, Environment

-----------------------------------------------------------------------------
LEMMA NoneOrOne == \A n : n = 0 \/ n = 1 => n \in Nat /\ n <= 1 /\ n <= 2
<1>1. \A n \in {0, 1} : n \in Nat /\ n <= 1 /\ n <= 2
    OBVIOUS
<1>2. QED
    BY <1>1

(* One more confirmed rejection.                                           *)
LEMMA OneMore ==
    ASSUME NEW s \in Seq(1..Cooldown), InOrder(s), Len(s) <= 2
    PROVE  LET r == Append(s, Cooldown)
           IN  /\ r \in Seq(1..Cooldown)
               /\ Len(r) = Len(s) + 1
               /\ InOrder(r)
               /\ \A k \in 1..Len(s) : r[k] = s[k]
<1> DEFINE S == 1..Cooldown
           n == Len(s)
           r == Append(s, Cooldown)
<1>1. Cooldown \in S /\ s \in Seq(S)
    BY CooldownAssumption
<1>2. n \in 0..2 /\ \A k \in 1..n : s[k] \in Nat \ {0} /\ s[k] <= Cooldown
    <2>1. n \in 0..3 /\ \A k \in 1..n : s[k] \in Nat \ {0} /\ s[k] <= Cooldown
        BY Entries
    <2>2. \A x \in 0..3 : x <= 2 => x \in 0..2
        OBVIOUS
    <2>3. QED
        BY <2>1, <2>2
<1>3. \A j, k \in 1..n : j <= k => s[j] <= s[k]
    BY DEF InOrder
<1>4. /\ r \in Seq(S)
      /\ Len(r) = n + 1
      /\ \A k \in 1..n : r[k] = s[k]
      /\ r[n + 1] = Cooldown
    <2> HIDE DEF S
    <2>1. QED
        BY <1>1, AppendProperties
<1>5. InOrder(r)
    <2>1. n + 1 <= 3 /\ \A k \in 1..(n + 1) : k \in 1..n \/ k = n + 1
        BY <1>2
    <2>2. \A k \in 1..n : ~(n + 1 <= k)
        BY <1>2
    <2>3. Cooldown <= Cooldown
        BY CooldownAssumption
    <2> HIDE DEF n, r
    <2>4. \A j, k \in 1..(n + 1) : j <= k => r[j] <= r[k]
        BY <1>2, <1>3, <1>4, <2>1, <2>2, <2>3
    <2>5. QED
        BY <1>4, <2>1, <2>4 DEF InOrder
<1>6. QED
    BY <1>4, <1>5

(* Once the window is over, what it outlasts is gone.                      *)
LEMMA WindowOver ==
    ASSUME TypeOK, NEW i \in Incarnations, NEW t \in Transports, left[i] = 0,
           InOrder(recent[i][t]), NEW m \in 0..2, Within(i, t, m)
    PROVE  Len(recent[i][t]) <= m
<1> DEFINE s == recent[i][t]
<1>1. s \in Seq(1..Cooldown)
    BY DEF TypeOK
<1>2. Len(s) \in 0..3 /\ \A k \in 1..Len(s) : s[k] \in Nat \ {0}
    BY <1>1, Entries
<1>3. \A k \in 1..(Len(s) - m) : s[k] <= 0
    BY DEF Within, Outlasted
<1> HIDE DEF s
<1>4. SUFFICES ASSUME ~(Len(s) <= m)
               PROVE  FALSE
    BY DEF s
<1>5. 1 \in 1..(Len(s) - m) /\ 1 \in 1..Len(s)
    BY <1>2, <1>4
<1>6. QED
    BY <1>2, <1>3, <1>5

(* What a rejection adds to the history of the transport that reports it. *)
LEMMA RejectionMarks ==
    ASSUME TypeOK, NEW c \in Callers, Answered(c, "auth")
    PROVE  recent'[on[c]][via[c]] = Append(recent[on[c]][via[c]], Cooldown)
<1>1. recent' = [recent EXCEPT ![on[c]][via[c]] = Append(@, Cooldown)]
    BY DEF Answered
<1>2. on[c] \in Incarnations /\ via[c] \in Transports
    BY DEF TypeOK
<1>3. recent \in [Incarnations -> [Transports -> Seq(1..Cooldown)]]
    BY DEF TypeOK
<1>4. QED
    BY <1>1, <1>2, <1>3

LEMMA RejectionAdds ==
    ASSUME TypeOK, NEW c \in Callers, Answered(c, "auth"),
           InOrder(recent[on[c]][via[c]]), Len(recent[on[c]][via[c]]) <= 2
    PROVE  LET old == recent[on[c]][via[c]]
               new == recent'[on[c]][via[c]]
           IN  /\ Len(old) \in 0..3 /\ Len(new) = Len(old) + 1
               /\ \A k \in 1..Len(old) : new[k] = old[k]
<1>1. on[c] \in Incarnations /\ via[c] \in Transports
    BY DEF TypeOK
<1>2. recent[on[c]][via[c]] \in Seq(1..Cooldown) /\ Len(recent[on[c]][via[c]]) \in 0..3
    BY <1>1, Entries DEF TypeOK
<1>3. recent'[on[c]][via[c]] = Append(recent[on[c]][via[c]], Cooldown)
    BY RejectionMarks
<1>4. QED
    BY <1>2, <1>3, OneMore

(* What an answer does to one client's and transport's history, where the  *)
(* call that receives it is one that may have sent.                        *)
LEMMA AnswerAdds ==
    ASSUME TypeOK, NEW c \in Callers, NEW r, Answered(c, r),
           NEW i \in Incarnations, NEW t \in Transports, InOrder(recent[i][t]),
           i = on[c] /\ t = via[c] => Len(recent[i][t]) <= 2
    PROVE  LET here == i = on[c] /\ t = via[c]
           IN  /\ InOrder(recent'[i][t])
               /\ Len(recent[i][t]) \in 0..3
               /\ ~here \/ r \notin {"auth", "ok"} => recent'[i][t] = recent[i][t]
               /\ here /\ r = "ok" => Len(recent'[i][t]) = 0
               /\ here /\ r = "auth" =>
                    /\ Len(recent'[i][t]) = Len(recent[i][t]) + 1
                    /\ \A k \in 1..Len(recent[i][t]) : recent'[i][t][k] = recent[i][t][k]
<1>1. recent[i][t] \in Seq(1..Cooldown) /\ Len(recent[i][t]) \in 0..3
    BY Entries DEF TypeOK
<1>2. recent'[i][t] = IF i # on[c] \/ t # via[c] THEN recent[i][t]
                      ELSE IF r = "auth" THEN Append(recent[i][t], Cooldown)
                      ELSE IF r = "ok" THEN <<>>
                      ELSE recent[i][t]
    BY AnswerMarks
<1>3. CASE r = "auth" /\ i = on[c] /\ t = via[c]
    <2>1. Len(recent[i][t]) <= 2 /\ recent'[i][t] = Append(recent[i][t], Cooldown)
        BY <1>2, <1>3
    <2>2. QED
        BY <1>1, <1>3, <2>1, OneMore
<1>4. CASE r = "ok" /\ i = on[c] /\ t = via[c]
    <2>1. recent'[i][t] = <<>>
        BY <1>2, <1>4
    <2>2. Len(<<>>) = 0 /\ InOrder(<<>>)
        BY DEF InOrder
    <2>3. QED
        BY <1>1, <1>4, <2>1, <2>2
<1>5. CASE ~(r \in {"auth", "ok"} /\ i = on[c] /\ t = via[c])
    BY <1>1, <1>2, <1>5
<1>6. QED
    BY <1>3, <1>4, <1>5

(* A call whose answer is in no longer sends: it leaves room for one more  *)
(* rejection of its own.                                                   *)
LEMMA AnswerPends ==
    ASSUME TypeOK, NEW c \in Callers, NEW r, Answered(c, r), MaySend(c, on[c], via[c]),
           UNCHANGED <<active, on, via>>,
           pc'[c] \notin {"ensure", "probe", "request", "alternate"},
           \A d \in Callers \ {c} : pc'[d] = pc[d],
           NEW j \in Incarnations, NEW t \in Transports, Pending(j, t)
    PROVE  Pending(j, t)'
<1>1. \A d \in Callers : MaySend(d, j, t)' => MaySend(d, j, t) /\ d # c
    BY DEF MaySend
<1>2. CASE j = on[c] /\ t = via[c]
    <2>1. Len(recent[j][t]) <= 2
        BY <1>2 DEF Pending
    <2>2. /\ InOrder(recent'[j][t])
          /\ Len(recent[j][t]) \in Nat
          /\ \/ Len(recent'[j][t]) = 0
             \/ Len(recent'[j][t]) = Len(recent[j][t])
             \/ Len(recent'[j][t]) = Len(recent[j][t]) + 1
        <3>1. InOrder(recent[j][t])
            BY DEF Pending
        <3>2. /\ InOrder(recent'[j][t])
              /\ Len(recent[j][t]) \in 0..3
              /\ r \notin {"auth", "ok"} => recent'[j][t] = recent[j][t]
              /\ r = "ok" => Len(recent'[j][t]) = 0
              /\ r = "auth" => Len(recent'[j][t]) = Len(recent[j][t]) + 1
            BY <1>2, <2>1, <3>1, AnswerAdds
        <3>3. QED
            BY <3>2
    <2>3. ASSUME NEW d \in Callers, MaySend(d, j, t)'
          PROVE  Len(recent[j][t]) <= 1
        <3>1. MaySend(c, j, t) /\ MaySend(d, j, t) /\ d # c
            BY <1>1, <1>2, <2>3
        <3>2. \A e \in Callers : e = c \/ e = d
            BY <3>1 DEF Callers
        <3>3. QED
            BY <3>1, <3>2 DEF Pending
    <2>4. QED
        BY <1>1, <2>2, <2>3 DEF Pending
<1>3. CASE ~(j = on[c] /\ t = via[c])
    <2>1. recent'[j][t] = recent[j][t]
        BY <1>3, AnswerMarks
    <2>2. QED
        BY <1>1, <2>1 DEF Pending
<1>4. QED
    BY <1>2, <1>3

(* A call that may send leaves room for a rejection. A call passes         *)
(* cooldownError only once the window is over, and by Covered there are    *)
(* then at most two rejections: one that an older success has taken out of *)
(* the cooldown, and one that the other call is about to note.             *)
LEMMA PendingStep ==
    ASSUME Inv, [Next]_vars, NEW j \in Incarnations, NEW t \in Transports
    PROVE  Pending(j, t)'
<1>0. /\ TypeOK /\ Together /\ Mutex /\ Detection /\ Calls
      /\ Pending(j, t) /\ Covered(j, t) /\ Untouched(j, t) /\ Overdue
    BY DEF Inv, Budget
<1>1. ASSUME NEW i \in Incarnations, BeginCycle(i)
      PROVE  Pending(j, t)'
    BY <1>0, <1>1 DEF BeginCycle, client, TypeOK, Together, Pending, MaySend, Callers
<1>2. ASSUME NEW c \in Callers, CheckCooldown(c)
      PROVE  Pending(j, t)'
    <2>1. /\ UNCHANGED <<active, on, via, recent>>
          /\ \A d \in Callers : pc'[d] = pc[d] \/ (d = c /\ pc'[d] \in {"return", "ensure"})
          /\ pc[c] = "check" /\ (pc'[c] = "ensure" => left[on[c]] = 0)
        BY <1>0, <1>2 DEF CheckCooldown, CheckCooldownWhen, client, TypeOK
    <2>2. CASE pc'[c] = "ensure" /\ on[c] = j /\ active[j] \in {t, Undetected}
        <3>1. ~NotingRejection(c, j, t)
            BY <2>1 DEF NotingRejection
        <3>2. /\ Len(recent[j][t]) <= 2
              /\ (\A d \in Callers : ~NotingRejection(d, j, t)) => Len(recent[j][t]) <= 1
            <4>1. /\ Within(j, t, 2)
                  /\ (\A d \in Callers : ~NotingRejection(d, j, t)) => Within(j, t, 1)
                BY <1>0, <2>2, <3>1 DEF Covered
            <4>2. left[j] = 0 /\ InOrder(recent[j][t]) /\ 1 \in 0..2 /\ 2 \in 0..2
                BY <1>0, <2>1, <2>2 DEF Pending
            <4>3. QED
                BY <1>0, <4>1, <4>2, WindowOver
        <3>3. \A d \in Callers : MaySend(d, j, t) => ~NotingRejection(d, j, t)
            BY DEF MaySend, NotingRejection
        <3>4. \A d \in Callers : MaySend(d, j, t)' => d = c \/ MaySend(d, j, t)
            BY <2>1 DEF MaySend
        <3>5. QED
            BY <1>0, <2>1, <3>1, <3>2, <3>3, <3>4 DEF Pending
    <2>3. CASE ~(pc'[c] = "ensure" /\ on[c] = j /\ active[j] \in {t, Undetected})
        <3>1. \A d \in Callers : MaySend(d, j, t)' => MaySend(d, j, t)
            BY <2>1, <2>3 DEF MaySend
        <3>2. QED
            BY <1>0, <2>1, <3>1 DEF Pending
    <2>4. QED
        BY <2>2, <2>3
<1>3. ASSUME NEW c \in Callers, UseActive(c)
      PROVE  Pending(j, t)'
    BY <1>0, <1>3 DEF UseActive, Request, client, CanLock, TypeOK, Together, Pending, MaySend,
         Callers
<1>4. ASSUME NEW c \in Callers, StartProbe(c)
      PROVE  Pending(j, t)'
    BY <1>0, <1>4 DEF StartProbe, Request, Lock, client, CanLock, Holds, TypeOK, Together,
         Pending, MaySend, Callers
<1>5. ASSUME NEW c \in Callers, TakeXML(c)
      PROVE  Pending(j, t)'
    <2>1. \A d \in Callers : MaySend(d, j, t)' => MaySend(d, j, t)
        BY <1>0, <1>5 DEF TakeXML, Activate, Request, TypeOK, MaySend
    <2>2. QED
        BY <1>0, <1>5, <2>1 DEF TakeXML, Pending
<1>6. ASSUME NEW c \in Callers, ProbeAccepted(c)
      PROVE  Pending(j, t)'
    <2>1. \A d \in Callers : MaySend(d, j, t)' => MaySend(d, j, t)
        BY <1>0, <1>6 DEF ProbeAccepted, Activate, TypeOK, Mutex, MaySend
    <2>2. InOrder(recent'[j][t]) /\ (Len(recent'[j][t]) = 0 \/ recent'[j][t] = recent[j][t])
        <3>1. recent'[j][t] = recent[j][t] \/ recent'[j][t] = <<>>
            BY <1>0, <1>6, AnswerMarks DEF ProbeAccepted
        <3>2. Len(<<>>) = 0 /\ InOrder(<<>>)
            BY DEF InOrder
        <3>3. QED
            BY <1>0, <3>1, <3>2 DEF Pending
    <2>3. QED
        BY <1>0, <2>1, <2>2 DEF Pending
<1>7. ASSUME NEW c \in Callers, ProbeFallsBack(c)
      PROVE  Pending(j, t)'
    <2>1. PICK r \in {"auth", "unsupported"} : Answered(c, r)
        BY <1>7 DEF ProbeFallsBack
    <2>2. /\ pc[c] = "probe" /\ via[c] = "json" /\ active[on[c]] = Undetected
          /\ active' = [active EXCEPT ![on[c]] = "xml"] /\ on' = on
          /\ pc' = [pc EXCEPT ![c] = "request"] /\ via' = [via EXCEPT ![c] = "xml"]
          /\ "xml" \in configured[on[c]]
        BY <1>0, <1>7 DEF ProbeFallsBack, Activate, Request, Mutex
    <2>3. CASE j = on[c]
        <3>1. Len(recent[j][t]) = 0
            BY <1>0, <2>2, <2>3 DEF Untouched, Transports
        <3>2. InOrder(recent'[j][t]) /\ Len(recent'[j][t]) <= 1
            BY <1>0, <2>1, <2>2, <3>1, AnswerAdds DEF Pending
        <3>3. QED
            BY <3>2 DEF Pending
    <2>4. CASE j # on[c]
        <3>1. \A d \in Callers : ~MaySend(d, j, t)'
            BY <1>0, <2>2, <2>4 DEF Together, MaySend, Callers
        <3>2. recent'[j][t] = recent[j][t]
            BY <1>0, <2>1, <2>4, AnswerMarks
        <3>3. QED
            BY <1>0, <3>1, <3>2 DEF Pending, Callers
    <2>5. QED
        BY <2>3, <2>4
<1>8. ASSUME NEW c \in Callers, ProbeFails(c)
      PROVE  Pending(j, t)'
    <2>1. PICK r : Answered(c, r)
        BY <1>8 DEF ProbeFails
    <2>2. /\ MaySend(c, on[c], via[c]) /\ UNCHANGED <<active, on, via>>
          /\ pc'[c] \notin {"ensure", "probe", "request", "alternate"}
          /\ \A d \in Callers \ {c} : pc'[d] = pc[d]
        BY <1>0, <1>8 DEF ProbeFails, client, MaySend, TypeOK, Mutex
    <2>3. QED
        BY <1>0, <2>1, <2>2, AnswerPends
<1>9. ASSUME NEW c \in Callers, ActiveAnswers(c)
      PROVE  Pending(j, t)'
    <2>1. PICK r : Answered(c, r)
        BY <1>9 DEF ActiveAnswers
    <2>2. /\ MaySend(c, on[c], via[c]) /\ UNCHANGED <<active, on, via>>
          /\ pc'[c] \notin {"ensure", "probe", "request", "alternate"}
          /\ \A d \in Callers \ {c} : pc'[d] = pc[d]
        BY <1>0, <1>9 DEF ActiveAnswers, client, MaySend, TypeOK, Mutex
    <2>3. QED
        BY <1>0, <2>1, <2>2, AnswerPends
<1>10. ASSUME NEW c \in Callers, NoteAuthResult(c)
      PROVE  Pending(j, t)'
    <2>1. \A d \in Callers : MaySend(d, j, t)' => MaySend(d, j, t)
        BY <1>0, <1>10 DEF NoteAuthResult, TypeOK, MaySend
    <2>2. QED
        BY <1>0, <1>10, <2>1 DEF NoteAuthResult, Pending
<1>11. ASSUME NEW c \in Callers, StartAlternate(c)
      PROVE  Pending(j, t)'
    <2>1. PICK u \in Alternate(on[c]) : Request(c, u, "alternate")
        BY <1>11 DEF StartAlternate
    <2>2. /\ u # active[on[c]] /\ active[on[c]] # Undetected /\ ~reprobed[on[c]]
          /\ UNCHANGED <<active, on, recent>>
          /\ pc' = [pc EXCEPT ![c] = "alternate"] /\ via' = [via EXCEPT ![c] = u]
        BY <1>0, <1>11, <2>1 DEF StartAlternate, Request, Alternate, Calls
    <2>3. CASE j = on[c] /\ t = u
        <3>1. Len(recent[j][t]) <= 1 /\ \A d \in Callers : ~MaySend(d, j, t)
            BY <1>0, <2>2, <2>3 DEF Untouched
        <3>2. QED
            BY <1>0, <2>2, <3>1 DEF Pending
    <2>4. CASE ~(j = on[c] /\ t = u)
        <3>1. \A d \in Callers : MaySend(d, j, t)' => MaySend(d, j, t)
            BY <1>0, <2>2, <2>4 DEF TypeOK, MaySend
        <3>2. QED
            BY <1>0, <2>2, <3>1 DEF Pending
    <2>5. QED
        BY <2>3, <2>4
<1>12. ASSUME NEW c \in Callers, GiveUp(c)
      PROVE  Pending(j, t)'
    BY <1>0, <1>12 DEF GiveUp, Latch, CanLock, TypeOK, Together, Pending, MaySend, Callers
<1>13. ASSUME NEW c \in Callers, AlternateFails(c)
      PROVE  Pending(j, t)'
    <2>1. PICK r : Answered(c, r)
        BY <1>13 DEF AlternateFails
    <2>2. /\ MaySend(c, on[c], via[c]) /\ UNCHANGED <<active, on, via>>
          /\ pc'[c] \notin {"ensure", "probe", "request", "alternate"}
          /\ \A d \in Callers \ {c} : pc'[d] = pc[d]
        BY <1>0, <1>13 DEF AlternateFails, AfterAlternate, client, MaySend, TypeOK, Mutex
    <2>3. QED
        BY <1>0, <2>1, <2>2, AnswerPends
<1>14. ASSUME NEW c \in Callers, AlternateAccepted(c)
      PROVE  Pending(j, t)'
    <2>1. Answered(c, "ok")
        BY <1>14 DEF AlternateAccepted
    <2>2. /\ MaySend(c, on[c], via[c]) /\ UNCHANGED <<active, on, via>>
          /\ pc'[c] \notin {"ensure", "probe", "request", "alternate"}
          /\ \A d \in Callers \ {c} : pc'[d] = pc[d]
        BY <1>0, <1>14 DEF AlternateAccepted, client, MaySend, TypeOK
    <2>3. QED
        BY <1>0, <2>1, <2>2, AnswerPends
<1>15. ASSUME NEW c \in Callers, Switch(c)
      PROVE  Pending(j, t)'
    <2>1. /\ pc[c] = "switch" /\ UNCHANGED <<on, via, recent>>
          /\ active' = [active EXCEPT ![on[c]] = via[c]]
          /\ pc' = [pc EXCEPT ![c] = "note"]
        BY <1>15 DEF Switch, Activate
    <2>2. ~MaySend(c, j, t)'
        BY <1>0, <2>1 DEF TypeOK, MaySend
    <2>3. CASE j = on[c] /\ t = via[c]
        <3>1. Len(recent[j][t]) = 0 \/ Len(recent[j][t]) = 1
            BY <1>0, <2>1, <2>3 DEF Overdue, Accepted
        <3>2. Len(recent[j][t]) <= 1 /\ Len(recent[j][t]) <= 2
            BY <3>1, NoneOrOne
        <3>3. recent' = recent /\ InOrder(recent[j][t])
            BY <1>0, <2>1 DEF Pending
        <3>4. QED
            BY <3>2, <3>3 DEF Pending
    <2>4. CASE ~(j = on[c] /\ t = via[c])
        <3>1. \A d \in Callers : MaySend(d, j, t)' => MaySend(d, j, t)
            BY <1>0, <2>1, <2>2, <2>4 DEF TypeOK, MaySend, Undetected, Transports
        <3>2. QED
            BY <1>0, <2>1, <3>1 DEF Pending
    <2>5. QED
        BY <2>3, <2>4
<1>16. ASSUME NEW c \in Callers, Return(c)
      PROVE  Pending(j, t)'
    BY <1>0, <1>16 DEF Return, client, TypeOK, Together, Pending, MaySend, Callers
<1>17. CASE Timeout
    BY <1>0, <1>17 DEF Timeout, client, calls, TypeOK, Together, Pending, MaySend, Callers
<1>18. CASE Tick
    <2>1. recent'[j][t] = Aged(recent[j][t])
        BY <1>18 DEF Tick
    <2>2. InOrder(recent'[j][t]) /\ Len(recent'[j][t]) <= Len(recent[j][t])
        BY <1>0, <2>1, AgedInOrder DEF TypeOK, Pending
    <2>3. Len(recent[j][t]) \in Nat /\ Len(recent'[j][t]) \in Nat
        BY <1>0, <2>1, AgedInOrder DEF TypeOK, Pending
    <2>4. \A d \in Callers : MaySend(d, j, t)' <=> MaySend(d, j, t)
        BY <1>18 DEF Tick, calls, MaySend
    <2>5. QED
        BY <1>0, <2>2, <2>3, <2>4 DEF Pending
<1>19. CASE ApplianceRecovers
    BY <1>0, <1>19 DEF ApplianceRecovers, client, calls, TypeOK, Together, Pending, MaySend,
         Callers
<1>20. CASE UNCHANGED vars
    BY <1>0, <1>20 DEF vars, TypeOK, Together, Pending, MaySend, Callers
<1>21. QED
    BY <1>1, <1>2, <1>3, <1>4, <1>5, <1>6, <1>7, <1>8, <1>9, <1>10, <1>11, <1>12, <1>13,
       <1>14, <1>15, <1>16, <1>17, <1>18, <1>19, <1>20 DEF Next, Step, Environment

-----------------------------------------------------------------------------
(* So few rejections leave nothing to outlast.                             *)
LEMMA NoneOutlasted ==
    ASSUME NEW s, NEW n \in Nat, Len(s) = n, NEW m \in Nat, n <= m, NEW l
    PROVE  Outlasted(s, m, l)
<1>1. 1..(Len(s) - m) = {}
    OBVIOUS
<1>2. QED
    BY <1>1 DEF Outlasted

(* What noteAuthResult does to one client's cooldown.                      *)
LEMMA NoteEffect ==
    ASSUME TypeOK, NEW c \in Callers, NoteAuthResult(c), NEW j \in Incarnations
    PROVE  /\ UNCHANGED recent
           /\ j = on[c] /\ err[c] = "auth" => left'[j] = Cooldown
           /\ j = on[c] /\ err[c] = "ok" => left'[j] = 0
           /\ j # on[c] \/ err[c] \notin {"auth", "ok"} => left'[j] = left[j]
<1>1. left \in [Incarnations -> 0..Cooldown]
    BY DEF TypeOK
<1>2. UNCHANGED recent
    BY DEF NoteAuthResult
<1>3. CASE err[c] = "auth"
    <2>1. left' = [left EXCEPT ![on[c]] = Cooldown]
        BY <1>3 DEF NoteAuthResult
    <2>2. QED
        BY <1>1, <1>2, <1>3, <2>1
<1>4. CASE err[c] = "ok"
    <2>1. left' = [left EXCEPT ![on[c]] = 0]
        BY <1>4 DEF NoteAuthResult, ClearFailure
    <2>2. QED
        BY <1>1, <1>2, <1>4, <2>1
<1>5. CASE err[c] \notin {"auth", "ok"}
    <2>1. left' = left
        BY <1>5 DEF NoteAuthResult
    <2>2. QED
        BY <1>2, <1>5, <2>1
<1>6. QED
    BY <1>3, <1>4, <1>5

(* A rejection that is in and will be noted is one the cooldown does not   *)
(* yet cover; a success leaves none to cover.                              *)
LEMMA AnswerCovers ==
    ASSUME TypeOK, NEW c \in Callers, NEW r \in Outcomes, Answered(c, r), err' = [err EXCEPT ![c] = r],
           MaySend(c, on[c], via[c]), pc[c] # "note", UNCHANGED <<active, left, on, via>>,
           \/ pc' = [pc EXCEPT ![c] = "note"]
           \/ pc' = [pc EXCEPT ![c] = "reprobe"] /\ r \notin {"ok", "auth"},
           NEW j \in Incarnations, NEW t \in Transports, Pending(j, t), Covered(j, t)
    PROVE  Covered(j, t)'
<1>1. \A d \in Callers : d # c => (NotingRejection(d, j, t)' <=> NotingRejection(d, j, t))
    BY DEF TypeOK, NotingRejection
<1>2. ~NotingRejection(c, j, t)
    BY DEF NotingRejection
<1>3. CASE j = on[c] /\ t = via[c] /\ r \in {"ok", "auth"}
    <2>1. InOrder(recent[j][t]) /\ Len(recent[j][t]) <= 2
        BY <1>3 DEF Pending
    <2>2. CASE r = "ok"
        <3>1. Len(recent'[j][t]) = 0
            BY <1>3, <2>1, <2>2, AnswerAdds
        <3>2. 1 \in Nat /\ 2 \in Nat /\ 0 <= 1 /\ 0 <= 2
            OBVIOUS
        <3>3. QED
            BY <3>1, <3>2, NoneOutlasted DEF Covered, Within
    <2>3. CASE r = "auth"
        <3>1. NotingRejection(c, j, t)'
            BY <1>3, <2>3 DEF TypeOK, NotingRejection
        <3>2. /\ Len(recent[j][t]) \in 0..3 /\ Len(recent'[j][t]) = Len(recent[j][t]) + 1
              /\ \A k \in 1..Len(recent[j][t]) : recent'[j][t][k] = recent[j][t][k]
            <4>1. /\ j = on[c] /\ t = via[c] /\ Answered(c, "auth")
                  /\ InOrder(recent[on[c]][via[c]]) /\ Len(recent[on[c]][via[c]]) <= 2
                BY <1>3, <2>1, <2>3
            <4>2. QED
                BY <4>1, RejectionAdds
        <3>3. ASSUME active[j] \in {t, Undetected}, NEW d \in Callers, ~NotingRejection(d, j, t)'
              PROVE  Within(j, t, 2)'
            <4>1. d # c
                BY <3>1, <3>3
            <4>2. \A e \in Callers : e = c \/ e = d
                BY <4>1 DEF Callers
            <4>3. \A k \in 1..(Len(recent[j][t]) - 1) : recent[j][t][k] <= left[j]
                BY <1>1, <1>2, <3>3, <4>1, <4>2 DEF Covered, Within, Outlasted
            <4>4. ASSUME NEW k \in 1..(Len(recent'[j][t]) - 2)
                  PROVE  recent'[j][t][k] <= left'[j]
                <5>1. k \in 1..(Len(recent[j][t]) - 1) /\ k \in 1..Len(recent[j][t])
                    BY <3>2, <4>4
                <5>2. QED
                    BY <3>2, <4>3, <5>1
            <4>5. QED
                BY <4>4 DEF Within, Outlasted
        <3>4. QED
            BY <3>1, <3>3 DEF Covered
    <2>4. QED
        BY <1>3, <2>2, <2>3
<1>4. CASE ~(j = on[c] /\ t = via[c] /\ r \in {"ok", "auth"})
    <2>1. ~NotingRejection(c, j, t)'
        BY <1>4 DEF TypeOK, NotingRejection
    <2>2. recent'[j][t] = recent[j][t]
        BY <1>4, AnswerMarks
    <2>3. QED
        BY <1>1, <1>2, <2>1, <2>2 DEF Covered, Within, Outlasted
<1>5. QED
    BY <1>3, <1>4

(* Once noted, a rejection is covered by the cooldown it starts. A success *)
(* ends the cooldown, and leaves at most one rejection uncovered: of its   *)
(* own transport by Overdue, of the one that replaced it by Strays.        *)
LEMMA CoveredStep ==
    ASSUME Inv, [Next]_vars, NEW j \in Incarnations, NEW t \in Transports
    PROVE  Covered(j, t)'
<1>0. /\ TypeOK /\ Together /\ Mutex /\ Detection /\ Calls
      /\ Pending(j, t) /\ Covered(j, t) /\ Untouched(j, t) /\ Overdue /\ Strays
    BY DEF Inv, Budget
<1>1. ASSUME NEW i \in Incarnations, BeginCycle(i)
      PROVE  Covered(j, t)'
    BY <1>0, <1>1 DEF BeginCycle, client, TypeOK, Covered, NotingRejection, Within, Outlasted
<1>2. ASSUME NEW c \in Callers, CheckCooldown(c)
      PROVE  Covered(j, t)'
    BY <1>0, <1>2 DEF CheckCooldown, CheckCooldownWhen, client, CanLock, Callers, TypeOK,
         Covered, NotingRejection, Within, Outlasted
<1>3. ASSUME NEW c \in Callers, UseActive(c)
      PROVE  Covered(j, t)'
    BY <1>0, <1>3 DEF UseActive, Request, client, CanLock, TypeOK, Covered, NotingRejection,
         Within, Outlasted
<1>4. ASSUME NEW c \in Callers, StartProbe(c)
      PROVE  Covered(j, t)'
    BY <1>0, <1>4 DEF StartProbe, Request, Lock, client, CanLock, Holds, TypeOK, Covered,
         NotingRejection, Within, Outlasted
<1>5. ASSUME NEW c \in Callers, TakeXML(c)
      PROVE  Covered(j, t)'
    <2>1. /\ UNCHANGED <<left, recent, on>>
          /\ active[on[c]] = Undetected /\ active' = [active EXCEPT ![on[c]] = "xml"]
        BY <1>5 DEF TakeXML, Activate
    <2>2. active'[j] \in {t, Undetected} => active[j] \in {t, Undetected}
        BY <1>0, <2>1 DEF TypeOK
    <2>3. \A d \in Callers : NotingRejection(d, j, t)' <=> NotingRejection(d, j, t)
        BY <1>0, <1>5 DEF TakeXML, Request, TypeOK, NotingRejection
    <2>4. QED
        BY <1>0, <2>1, <2>2, <2>3 DEF Covered, Within, Outlasted
<1>6. ASSUME NEW c \in Callers, ProbeAccepted(c)
      PROVE  Covered(j, t)'
    <2>1. /\ UNCHANGED <<left, on, via>>
          /\ pc[c] = "probe" /\ pc' = [pc EXCEPT ![c] = "note"]
          /\ err' = [err EXCEPT ![c] = "ok"]
          /\ active[on[c]] = Undetected /\ active' = [active EXCEPT ![on[c]] = "json"]
          /\ Answered(c, "ok")
        BY <1>0, <1>6 DEF ProbeAccepted, Activate, Mutex
    <2>2. active'[j] \in {t, Undetected} => active[j] \in {t, Undetected}
        BY <1>0, <2>1 DEF TypeOK
    <2>3. \A d \in Callers : NotingRejection(d, j, t)' <=> NotingRejection(d, j, t)
        BY <1>0, <2>1 DEF TypeOK, NotingRejection
    <2>4. CASE recent'[j][t] = recent[j][t]
        BY <1>0, <2>1, <2>2, <2>3, <2>4 DEF Covered, Within, Outlasted
    <2>5. CASE recent'[j][t] = <<>>
        <3>1. Len(recent'[j][t]) = 0 /\ 0 \in Nat /\ 0 <= 1 /\ 0 <= 2 /\ 1 \in Nat /\ 2 \in Nat
            BY <2>5
        <3>2. QED
            BY <3>1, NoneOutlasted DEF Covered, Within
    <2>6. QED
        BY <1>0, <2>1, <2>4, <2>5, AnswerMarks
<1>7. ASSUME NEW c \in Callers, ProbeFallsBack(c)
      PROVE  Covered(j, t)'
    <2>1. PICK r \in {"auth", "unsupported"} : Answered(c, r)
        BY <1>7 DEF ProbeFallsBack
    <2>2. /\ pc[c] = "probe" /\ via[c] = "json" /\ active[on[c]] = Undetected
          /\ active' = [active EXCEPT ![on[c]] = "xml"] /\ UNCHANGED <<on, left, err>>
          /\ pc' = [pc EXCEPT ![c] = "request"] /\ via' = [via EXCEPT ![c] = "xml"]
        BY <1>0, <1>7 DEF ProbeFallsBack, Activate, Request, Mutex
    <2>3. \A d \in Callers : NotingRejection(d, j, t)' <=> NotingRejection(d, j, t)
        BY <1>0, <2>2 DEF TypeOK, NotingRejection
    <2>4. CASE j = on[c] /\ t = "json"
        BY <1>0, <2>2, <2>4 DEF TypeOK, Covered, Undetected
    <2>5. CASE ~(j = on[c] /\ t = "json")
        <3>1. recent'[j][t] = recent[j][t]
            BY <1>0, <2>1, <2>2, <2>5, AnswerMarks
        <3>2. active'[j] \in {t, Undetected} => active[j] \in {t, Undetected}
            BY <1>0, <2>2 DEF TypeOK
        <3>3. QED
            BY <1>0, <2>2, <2>3, <3>1, <3>2 DEF Covered, Within, Outlasted
    <2>6. QED
        BY <2>4, <2>5
<1>8. ASSUME NEW c \in Callers, ProbeFails(c)
      PROVE  Covered(j, t)'
    <2>1. PICK r \in Outcomes \ {"ok"} : Answered(c, r) /\ err' = [err EXCEPT ![c] = r]
        BY <1>8 DEF ProbeFails, Outcomes
    <2>2. /\ UNCHANGED <<active, left, on, via>> /\ MaySend(c, on[c], via[c]) /\ pc[c] # "note"
          /\ pc' = [pc EXCEPT ![c] = "note"]
        BY <1>0, <1>8 DEF ProbeFails, client, Mutex, MaySend
    <2>3. QED
        BY <1>0, <2>1, <2>2, AnswerCovers DEF TypeOK
<1>9. ASSUME NEW c \in Callers, ActiveAnswers(c)
      PROVE  Covered(j, t)'
    <2>1. PICK r \in Outcomes :
            /\ Answered(c, r) /\ err' = [err EXCEPT ![c] = r]
            /\ pc' = [pc EXCEPT ![c] = IF r \in {"ok", "auth"} THEN "note" ELSE "reprobe"]
        BY <1>9 DEF ActiveAnswers
    <2>2. /\ UNCHANGED <<active, left, on, via>> /\ MaySend(c, on[c], via[c]) /\ pc[c] # "note"
        BY <1>9 DEF ActiveAnswers, client, MaySend
    <2>3. r \in {"ok", "auth"} \/ r \notin {"ok", "auth"}
        OBVIOUS
    <2>4. QED
        BY <1>0, <2>1, <2>2, <2>3, AnswerCovers DEF TypeOK
<1>10. ASSUME NEW c \in Callers, NoteAuthResult(c)
      PROVE  Covered(j, t)'
    <2>1. /\ pc[c] = "note" /\ pc' = [pc EXCEPT ![c] = "return"]
          /\ UNCHANGED <<active, on, via, err>>
        BY <1>10 DEF NoteAuthResult
    <2>2. \A d \in Callers : d # c => (NotingRejection(d, j, t)' <=> NotingRejection(d, j, t))
        BY <1>0, <2>1 DEF TypeOK, NotingRejection
    <2>3. ~NotingRejection(c, j, t)'
        BY <1>0, <2>1 DEF TypeOK, NotingRejection
    <2>4. recent' = recent /\ InOrder(recent[j][t])
        BY <1>0, <1>10 DEF NoteAuthResult, Pending
    <2>5. CASE j = on[c] /\ err[c] = "auth"
        <3>1. left'[j] = Cooldown
            BY <1>0, <1>10, <2>5, NoteEffect
        <3>2. /\ Len(recent[j][t]) \in 0..3
              /\ \A k \in 1..Len(recent[j][t]) : recent[j][t][k] <= Cooldown
            BY <1>0, <2>4, Entries DEF TypeOK
        <3>3. \A m \in {1, 2} : \A k \in 1..(Len(recent[j][t]) - m) : k \in 1..Len(recent[j][t])
            BY <3>2
        <3>4. Within(j, t, 1)' /\ Within(j, t, 2)'
            BY <2>4, <3>1, <3>2, <3>3 DEF Within, Outlasted
        <3>5. QED
            BY <3>4 DEF Covered
    <2>6. CASE j = on[c] /\ err[c] = "ok"
        <3>1. active[j] \in {t, Undetected} => Len(recent[j][t]) \in {0, 1}
            <4>1. CASE t = via[c]
                BY <1>0, <2>1, <2>6, <4>1 DEF Overdue, Accepted
            <4>2. CASE t # via[c] /\ active[j] \in {t, Undetected}
                <5>1. active[j] = t /\ t # Undetected
                    BY <1>0, <2>1, <2>6, <4>2 DEF Calls, Undetected, Transports
                <5>2. Stray(c)
                    BY <2>1, <2>6, <4>2, <5>1 DEF Stray
                <5>3. Len(recent[j][t]) <= 1
                    BY <1>0, <2>6, <5>1, <5>2 DEF Strays, Alone
                <5>4. \A x \in 0..3 : x <= 1 => x \in {0, 1}
                    OBVIOUS
                <5>5. Len(recent[j][t]) \in 0..3
                    BY <1>0, <2>4, Entries DEF TypeOK
                <5>6. QED
                    BY <5>3, <5>4, <5>5
            <4>3. QED
                BY <4>1, <4>2
        <3>2. \A n \in {0, 1} : n \in Nat /\ n <= 1 /\ n <= 2
            OBVIOUS
        <3>3. 1 \in Nat /\ 2 \in Nat
            OBVIOUS
        <3>4. active[j] \in {t, Undetected} => Within(j, t, 1)' /\ Within(j, t, 2)'
            BY <2>4, <3>1, <3>2, <3>3, NoneOutlasted DEF Within
        <3>5. QED
            BY <2>1, <3>4 DEF Covered
    <2>7. CASE j # on[c] \/ err[c] \notin {"auth", "ok"}
        <3>1. left'[j] = left[j] /\ recent'[j][t] = recent[j][t]
            BY <1>0, <1>10, <2>4, <2>7, NoteEffect
        <3>2. ~NotingRejection(c, j, t)
            BY <2>7 DEF NotingRejection
        <3>3. QED
            BY <1>0, <2>1, <2>2, <2>3, <3>1, <3>2 DEF Covered, Within, Outlasted
    <2>8. QED
        BY <2>5, <2>6, <2>7
<1>11. ASSUME NEW c \in Callers, StartAlternate(c)
      PROVE  Covered(j, t)'
    <2>1. /\ UNCHANGED <<active, left, on, recent, err>>
          /\ pc[c] = "reprobe" /\ pc' = [pc EXCEPT ![c] = "alternate"]
          /\ \A d \in Callers : d # c => via'[d] = via[d]
        BY <1>0, <1>11 DEF StartAlternate, Request, TypeOK
    <2>2. \A d \in Callers : NotingRejection(d, j, t)' <=> NotingRejection(d, j, t)
        BY <1>0, <2>1 DEF TypeOK, NotingRejection
    <2>3. QED
        BY <1>0, <2>1, <2>2 DEF Covered, Within, Outlasted
<1>12. ASSUME NEW c \in Callers, GiveUp(c)
      PROVE  Covered(j, t)'
    BY <1>0, <1>12 DEF GiveUp, Latch, CanLock, TypeOK, Covered, NotingRejection, Within, Outlasted
<1>13. ASSUME NEW c \in Callers, AlternateFails(c)
      PROVE  Covered(j, t)'
    <2>1. PICK r \in Outcomes : Answered(c, r)
        BY <1>13 DEF AlternateFails
    <2>2. /\ UNCHANGED <<active, left, on, via>>
          /\ pc[c] = "alternate" /\ pc' = [pc EXCEPT ![c] = "return"]
          /\ \A d \in Callers : d # c => err'[d] = err[d]
          /\ via[c] # active[on[c]] /\ active[on[c]] # Undetected
        BY <1>0, <1>13 DEF AlternateFails, AfterAlternate, client, TypeOK, Calls, Switching
    <2>3. \A d \in Callers : NotingRejection(d, j, t)' <=> NotingRejection(d, j, t)
        BY <1>0, <2>2 DEF TypeOK, NotingRejection
    <2>4. active[j] \in {t, Undetected} => recent'[j][t] = recent[j][t]
        BY <1>0, <2>1, <2>2, AnswerMarks
    <2>5. QED
        BY <1>0, <2>2, <2>3, <2>4 DEF Covered, Within, Outlasted
<1>14. ASSUME NEW c \in Callers, AlternateAccepted(c)
      PROVE  Covered(j, t)'
    <2>1. /\ UNCHANGED <<active, left, on, via, err>>
          /\ pc[c] = "alternate" /\ pc' = [pc EXCEPT ![c] = "switch"]
          /\ via[c] # active[on[c]] /\ active[on[c]] # Undetected
        BY <1>0, <1>14 DEF AlternateAccepted, client, Calls, Switching
    <2>2. \A d \in Callers : NotingRejection(d, j, t)' <=> NotingRejection(d, j, t)
        BY <1>0, <2>1 DEF TypeOK, NotingRejection
    <2>3. active[j] \in {t, Undetected} => recent'[j][t] = recent[j][t]
        BY <1>0, <1>14, <2>1, AnswerMarks DEF AlternateAccepted
    <2>4. QED
        BY <1>0, <2>1, <2>2, <2>3 DEF Covered, Within, Outlasted
<1>15. ASSUME NEW c \in Callers, Switch(c)
      PROVE  Covered(j, t)'
    <2>1. /\ UNCHANGED <<left, on, via, recent>>
          /\ pc[c] = "switch" /\ pc' = [pc EXCEPT ![c] = "note"]
          /\ err' = [err EXCEPT ![c] = "ok"]
          /\ active' = [active EXCEPT ![on[c]] = via[c]]
          /\ via[c] \in Transports
        BY <1>0, <1>15 DEF Switch, Activate, TypeOK
    <2>2. CASE j = on[c]
        <3>1. active'[j] = via[c] /\ active'[j] # Undetected
            BY <1>0, <2>1, <2>2 DEF TypeOK, Transports, Undetected
        <3>2. CASE t = via[c]
            <4>1. Len(recent'[j][t]) = 0 \/ Len(recent'[j][t]) = 1
                BY <1>0, <2>1, <2>2, <3>2 DEF Overdue, Accepted
            <4>2. \A n \in {0, 1} : n \in Nat /\ n <= 1 /\ n <= 2
                OBVIOUS
            <4>3. 1 \in Nat /\ 2 \in Nat
                OBVIOUS
            <4>4. Within(j, t, 1)' /\ Within(j, t, 2)'
                BY <4>1, <4>2, <4>3, NoneOutlasted DEF Within
            <4>5. QED
                BY <4>4 DEF Covered
        <3>3. CASE t # via[c]
            BY <3>1, <3>3 DEF Covered
        <3>4. QED
            BY <3>2, <3>3
    <2>3. CASE j # on[c]
        <3>1. active'[j] = active[j]
            BY <1>0, <2>1, <2>3 DEF TypeOK
        <3>2. \A d \in Callers : NotingRejection(d, j, t)' <=> NotingRejection(d, j, t)
            BY <1>0, <2>1, <2>3 DEF TypeOK, NotingRejection
        <3>3. QED
            BY <1>0, <2>1, <3>1, <3>2 DEF Covered, Within, Outlasted
    <2>4. QED
        BY <2>2, <2>3
<1>16. ASSUME NEW c \in Callers, Return(c)
      PROVE  Covered(j, t)'
    BY <1>0, <1>16 DEF Return, client, TypeOK, Covered, NotingRejection, Within, Outlasted
<1>17. CASE Timeout
    BY <1>0, <1>17 DEF Timeout, client, calls, TypeOK, Covered, NotingRejection, Within, Outlasted
<1>18. CASE Tick
    <2>1. /\ recent'[j][t] = Aged(recent[j][t]) /\ left'[j] = TickOf(left[j])
          /\ active' = active
        BY <1>18 DEF Tick, TickOf
    <2>2. recent[j][t] \in Seq(1..Cooldown) /\ InOrder(recent[j][t]) /\ left[j] \in 0..Cooldown
        BY <1>0 DEF TypeOK, Pending
    <2>3. 1 \in 0..2 /\ 2 \in 0..2
        OBVIOUS
    <2>4. /\ Within(j, t, 1) => Within(j, t, 1)'
          /\ Within(j, t, 2) => Within(j, t, 2)'
        BY <2>1, <2>2, <2>3, AgedInOrder DEF Within
    <2>5. \A d \in Callers : NotingRejection(d, j, t)' <=> NotingRejection(d, j, t)
        BY <1>18 DEF Tick, calls, NotingRejection
    <2>6. QED
        BY <1>0, <2>1, <2>4, <2>5 DEF Covered
<1>19. CASE ApplianceRecovers
    BY <1>0, <1>19 DEF ApplianceRecovers, client, calls, TypeOK, Covered, NotingRejection, Within,
         Outlasted
<1>20. CASE UNCHANGED vars
    BY <1>0, <1>20 DEF vars, TypeOK, Covered, NotingRejection, Within, Outlasted
<1>21. QED
    BY <1>1, <1>2, <1>3, <1>4, <1>5, <1>6, <1>7, <1>8, <1>9, <1>10, <1>11, <1>12, <1>13,
       <1>14, <1>15, <1>16, <1>17, <1>18, <1>19, <1>20 DEF Next, Step, Environment

(* What is not active and was never tried has not been rejected more than  *)
(* once.                                                                   *)
LEMMA UntouchedStep ==
    ASSUME Inv, [Next]_vars, NEW j \in Incarnations, NEW t \in Transports
    PROVE  Untouched(j, t)'
<1>0. /\ TypeOK /\ Together /\ Mutex /\ Detection /\ Calls
      /\ Pending(j, t) /\ Covered(j, t) /\ Untouched(j, t) /\ Strays
    BY DEF Inv, Budget
<1>1. ASSUME NEW i \in Incarnations, BeginCycle(i)
      PROVE  Untouched(j, t)'
    BY <1>0, <1>1 DEF BeginCycle, client, TypeOK, Untouched, MaySend
<1>2. ASSUME NEW c \in Callers, CheckCooldown(c)
      PROVE  Untouched(j, t)'
    <2>1. /\ UNCHANGED <<active, on, via, recent, configured, reprobed>>
          /\ \A d \in Callers : pc'[d] = pc[d] \/ (d = c /\ pc'[d] \in {"return", "ensure"})
        BY <1>0, <1>2 DEF CheckCooldown, CheckCooldownWhen, client, TypeOK
    <2>2. active[j] \notin {t, Undetected} =>
            \A d \in Callers : MaySend(d, j, t)' => MaySend(d, j, t)
        BY <2>1 DEF MaySend
    <2>3. QED
        BY <1>0, <2>1, <2>2 DEF Untouched
<1>3. ASSUME NEW c \in Callers, UseActive(c)
      PROVE  Untouched(j, t)'
    BY <1>0, <1>3 DEF UseActive, Request, client, CanLock, TypeOK, Untouched, MaySend
<1>4. ASSUME NEW c \in Callers, StartProbe(c)
      PROVE  Untouched(j, t)'
    BY <1>0, <1>4 DEF StartProbe, Request, Lock, client, CanLock, Holds, TypeOK, Untouched,
         MaySend
<1>5. ASSUME NEW c \in Callers, TakeXML(c)
      PROVE  Untouched(j, t)'
    <2>1. recent' = recent
        BY <1>5 DEF TakeXML
    <2>2. /\ active[on[c]] = Undetected /\ active' = [active EXCEPT ![on[c]] = "xml"]
          /\ UNCHANGED <<configured, reprobed, on>>
          /\ pc' = [pc EXCEPT ![c] = "request"] /\ via' = [via EXCEPT ![c] = "xml"]
          /\ mu[on[c]] = Free
        BY <1>5 DEF TakeXML, Activate, Request, CanLock
    <2>3. CASE j = on[c]
        <3>1. active'[j] = "xml"
            BY <1>0, <2>2, <2>3 DEF TypeOK
        <3>2. t = "json" => Len(recent'[j][t]) <= 1
            <4>1. "xml" \in configured[j]
                BY <1>0, <1>5, <2>3, SomeCredential DEF TakeXML
            <4>2. QED
                BY <1>0, <2>1, <2>2, <2>3, <4>1 DEF Untouched
        <3>3. ASSUME NEW d \in Callers, t = "json"
              PROVE  ~MaySend(d, j, t)'
            <4>1. CASE d = c
                BY <1>0, <2>2, <3>3, <4>1 DEF TypeOK, MaySend
            <4>2. CASE d # c
                <5>1. pc[d] \notin {"probe", "request", "alternate", "switch"}
                    BY <1>0, <2>2, <4>2 DEF Together, Mutex, Holds, Calls, CanLock, Callers,
                         Free
                <5>2. pc'[d] = pc[d]
                    BY <1>0, <2>2, <4>2 DEF TypeOK
                <5>3. QED
                    BY <3>1, <3>3, <5>1, <5>2 DEF MaySend, Undetected
            <4>3. QED
                BY <4>1, <4>2
        <3>4. active'[j] # Undetected
            BY <3>1 DEF Undetected
        <3>5. QED
            BY <3>1, <3>2, <3>3, <3>4 DEF Untouched, Transports
    <2>4. CASE j # on[c]
        <3>1. \A d \in Callers : MaySend(d, j, t)' => MaySend(d, j, t)
            BY <1>0, <2>2, <2>4 DEF Together, MaySend, Callers
        <3>2. active'[j] = active[j] /\ recent'[j][t] = recent[j][t]
            BY <1>0, <2>1, <2>2, <2>4, AnswerMarks DEF TypeOK
        <3>3. QED
            BY <1>0, <2>2, <3>1, <3>2 DEF Untouched
    <2>5. QED
        BY <2>3, <2>4
<1>6. ASSUME NEW c \in Callers, ProbeAccepted(c)
      PROVE  Untouched(j, t)'
    <2>1. Answered(c, "ok")
        BY <1>6 DEF ProbeAccepted
    <2>2. /\ active[on[c]] = Undetected /\ active' = [active EXCEPT ![on[c]] = "json"]
          /\ UNCHANGED <<configured, reprobed, on, via>>
          /\ pc[c] = "probe" /\ pc' = [pc EXCEPT ![c] = "note"]
          /\ mu[on[c]] = c
        BY <1>0, <1>6 DEF ProbeAccepted, Activate, Mutex, Holds
    <2>3. CASE j = on[c]
        <3>1. active'[j] = "json"
            BY <1>0, <2>2, <2>3 DEF TypeOK
        <3>2. t = "xml" => Len(recent'[j][t]) <= 1
            <4>1. t = "xml" => Len(recent[j][t]) = 0
                BY <1>0, <2>2, <2>3 DEF Untouched
            <4>2. recent'[j][t] = recent[j][t] \/ recent'[j][t] = <<>>
                BY <1>0, <2>1, AnswerMarks
            <4>3. Len(<<>>) = 0
                OBVIOUS
            <4>4. QED
                BY <4>1, <4>2, <4>3
        <3>3. ASSUME NEW d \in Callers, t = "xml"
              PROVE  ~MaySend(d, j, t)'
            <4>1. CASE d = c
                BY <1>0, <2>2, <3>3, <4>1 DEF TypeOK, MaySend
            <4>2. CASE d # c
                <5>1. pc[d] \notin {"probe", "request", "alternate", "switch"}
                    BY <1>0, <2>2, <4>2 DEF Together, Mutex, Holds, Calls, CanLock, Callers,
                         Free
                <5>2. pc'[d] = pc[d]
                    BY <1>0, <2>2, <4>2 DEF TypeOK
                <5>3. QED
                    BY <3>1, <3>3, <5>1, <5>2 DEF MaySend, Undetected
            <4>3. QED
                BY <4>1, <4>2
        <3>4. active'[j] # Undetected
            BY <3>1 DEF Undetected
        <3>5. QED
            BY <3>1, <3>2, <3>3, <3>4 DEF Untouched, Transports
    <2>4. CASE j # on[c]
        <3>1. \A d \in Callers : MaySend(d, j, t)' => MaySend(d, j, t)
            BY <1>0, <2>2, <2>4 DEF Together, MaySend, Callers
        <3>2. active'[j] = active[j] /\ recent'[j][t] = recent[j][t]
            BY <1>0, <2>1, <2>2, <2>4, AnswerMarks DEF TypeOK
        <3>3. QED
            BY <1>0, <2>2, <3>1, <3>2 DEF Untouched
    <2>5. QED
        BY <2>3, <2>4
<1>7. ASSUME NEW c \in Callers, ProbeFallsBack(c)
      PROVE  Untouched(j, t)'
    <2>1. PICK r \in {"auth", "unsupported"} : Answered(c, r)
        BY <1>7 DEF ProbeFallsBack
    <2>2. /\ active[on[c]] = Undetected /\ active' = [active EXCEPT ![on[c]] = "xml"]
          /\ UNCHANGED <<configured, reprobed, on>>
          /\ pc[c] = "probe" /\ pc' = [pc EXCEPT ![c] = "request"] /\ via' = [via EXCEPT ![c] = "xml"]
          /\ mu[on[c]] = c
          /\ "xml" \in configured[on[c]]
        BY <1>0, <1>7 DEF ProbeFallsBack, Activate, Request, Mutex, Holds
    <2>3. CASE j = on[c]
        <3>1. active'[j] = "xml"
            BY <1>0, <2>2, <2>3 DEF TypeOK
        <3>2. t = "json" => Len(recent'[j][t]) <= 1
            <4>1. t = "json" => Len(recent[j][t]) = 0
                BY <1>0, <2>2, <2>3 DEF Untouched
            <4>2. t = "json" => \/ recent'[j][t] = recent[j][t]
                               \/ Len(recent'[j][t]) = Len(recent[j][t]) + 1
                <5>1. InOrder(recent[j][t]) /\ (t = "json" => Len(recent[j][t]) <= 2)
                    BY <1>0, <4>1 DEF Pending
                <5>2. QED
                    BY <1>0, <2>1, <5>1, AnswerAdds
            <4>3. QED
                BY <4>1, <4>2
        <3>3. ASSUME NEW d \in Callers, t = "json"
              PROVE  ~MaySend(d, j, t)'
            <4>1. CASE d = c
                BY <1>0, <2>2, <3>3, <4>1 DEF TypeOK, MaySend
            <4>2. CASE d # c
                <5>1. pc[d] \notin {"probe", "request", "alternate", "switch"}
                    BY <1>0, <2>2, <4>2 DEF Together, Mutex, Holds, Calls, CanLock, Callers,
                         Free
                <5>2. pc'[d] = pc[d]
                    BY <1>0, <2>2, <4>2 DEF TypeOK
                <5>3. QED
                    BY <3>1, <3>3, <5>1, <5>2 DEF MaySend, Undetected
            <4>3. QED
                BY <4>1, <4>2
        <3>4. active'[j] # Undetected
            BY <3>1 DEF Undetected
        <3>5. QED
            BY <3>1, <3>2, <3>3, <3>4 DEF Untouched, Transports
    <2>4. CASE j # on[c]
        <3>1. \A d \in Callers : MaySend(d, j, t)' => MaySend(d, j, t)
            BY <1>0, <2>2, <2>4 DEF Together, MaySend, Callers
        <3>2. active'[j] = active[j] /\ recent'[j][t] = recent[j][t]
            BY <1>0, <2>1, <2>2, <2>4, AnswerMarks DEF TypeOK
        <3>3. QED
            BY <1>0, <2>2, <3>1, <3>2 DEF Untouched
    <2>5. QED
        BY <2>3, <2>4
<1>8. ASSUME NEW c \in Callers, ProbeFails(c)
      PROVE  Untouched(j, t)'
    <2>1. PICK r \in IF "xml" \in configured[on[c]] THEN {"hard"} ELSE {"auth", "unsupported", "hard"} :
            Answered(c, r)
        BY <1>8 DEF ProbeFails
    <2>2. /\ UNCHANGED <<active, configured, reprobed, on>>
          /\ via[c] = "json" /\ active[on[c]] = Undetected
          /\ pc' = [pc EXCEPT ![c] = "note"] /\ via' = via
        BY <1>0, <1>8 DEF ProbeFails, client, Mutex
    <2>3. CASE j = on[c] /\ t = "json" /\ "xml" \notin configured[j]
        BY <2>2, <2>3 DEF Untouched
    <2>4. CASE ~(j = on[c] /\ t = "json" /\ "xml" \notin configured[j])
        <3>1. recent'[j][t] = recent[j][t]
            BY <1>0, <2>1, <2>2, <2>4, AnswerMarks
        <3>2. \A d \in Callers : MaySend(d, j, t)' => MaySend(d, j, t)
            BY <1>0, <2>2 DEF TypeOK, MaySend
        <3>3. QED
            BY <1>0, <2>2, <3>1, <3>2 DEF Untouched
    <2>5. QED
        BY <2>3, <2>4
<1>9. ASSUME NEW c \in Callers, ActiveAnswers(c)
      PROVE  Untouched(j, t)'
    <2>1. PICK r : Answered(c, r)
        BY <1>9 DEF ActiveAnswers
    <2>2. /\ UNCHANGED <<active, configured, reprobed, on, via>>
          /\ MaySend(c, on[c], via[c]) /\ active[on[c]] # Undetected
          /\ \A d \in Callers : pc'[d] = pc[d] \/ (d = c /\ pc'[d] \in {"note", "reprobe"})
        BY <1>0, <1>9 DEF ActiveAnswers, client, TypeOK, MaySend, Calls
    <2>3. \A d \in Callers : MaySend(d, j, t)' => MaySend(d, j, t)
        BY <2>2 DEF MaySend
    <2>4. CASE j = on[c] /\ t = via[c]
        BY <1>0, <2>2, <2>4 DEF Untouched
    <2>5. CASE ~(j = on[c] /\ t = via[c])
        <3>1. recent'[j][t] = recent[j][t]
            BY <1>0, <2>1, <2>5, AnswerMarks
        <3>2. QED
            BY <1>0, <2>2, <2>3, <3>1 DEF Untouched
    <2>6. QED
        BY <2>4, <2>5
<1>10. ASSUME NEW c \in Callers, NoteAuthResult(c)
      PROVE  Untouched(j, t)'
    <2>1. /\ pc[c] = "note" /\ pc' = [pc EXCEPT ![c] = "return"]
          /\ UNCHANGED <<active, configured, reprobed, on, via>>
        BY <1>10 DEF NoteAuthResult
    <2>2. recent' = recent
        BY <1>10 DEF NoteAuthResult
    <2>3. \A d \in Callers : MaySend(d, j, t)' => MaySend(d, j, t)
        BY <1>0, <2>1 DEF TypeOK, MaySend
    <2>4. QED
        BY <1>0, <2>1, <2>2, <2>3 DEF Untouched
<1>11. ASSUME NEW c \in Callers, StartAlternate(c)
      PROVE  Untouched(j, t)'
    <2>1. PICK u \in Alternate(on[c]) : Request(c, u, "alternate")
        BY <1>11 DEF StartAlternate
    <2>2. /\ UNCHANGED <<active, configured, on, recent>> /\ active[on[c]] # Undetected
          /\ reprobed' = [reprobed EXCEPT ![on[c]] = TRUE]
          /\ pc' = [pc EXCEPT ![c] = "alternate"] /\ via' = [via EXCEPT ![c] = u]
        BY <1>0, <1>11, <2>1 DEF StartAlternate, Request, Latch, Calls
    <2>3. CASE j = on[c]
        BY <1>0, <2>2, <2>3 DEF TypeOK, Untouched
    <2>4. CASE j # on[c]
        <3>1. \A d \in Callers : MaySend(d, j, t)' => MaySend(d, j, t)
            BY <1>0, <2>2, <2>4 DEF Together, MaySend, Callers
        <3>2. reprobed'[j] = reprobed[j]
            BY <1>0, <2>2, <2>4 DEF TypeOK
        <3>3. QED
            BY <1>0, <2>2, <3>1, <3>2 DEF Untouched
    <2>5. QED
        BY <2>3, <2>4
<1>12. ASSUME NEW c \in Callers, GiveUp(c)
      PROVE  Untouched(j, t)'
    BY <1>0, <1>12 DEF GiveUp, Latch, CanLock, TypeOK, Untouched, MaySend
<1>13. ASSUME NEW c \in Callers, AlternateFails(c)
      PROVE  Untouched(j, t)'
    <2>1. PICK r : Answered(c, r)
        BY <1>13 DEF AlternateFails
    <2>2. /\ UNCHANGED <<active, configured, reprobed, on, via>>
          /\ active[on[c]] # Undetected /\ reprobed[on[c]]
          /\ pc' = [pc EXCEPT ![c] = "return"]
        BY <1>0, <1>13 DEF AlternateFails, AfterAlternate, client, Calls, Switching
    <2>3. CASE j = on[c]
        BY <2>2, <2>3 DEF Untouched
    <2>4. CASE j # on[c]
        <3>1. recent'[j][t] = recent[j][t]
            BY <1>0, <2>1, <2>4, AnswerMarks
        <3>2. \A d \in Callers : MaySend(d, j, t)' => MaySend(d, j, t)
            BY <1>0, <2>2 DEF TypeOK, MaySend
        <3>3. QED
            BY <1>0, <2>2, <3>1, <3>2 DEF Untouched
    <2>5. QED
        BY <2>3, <2>4
<1>14. ASSUME NEW c \in Callers, AlternateAccepted(c)
      PROVE  Untouched(j, t)'
    <2>1. /\ UNCHANGED <<active, configured, reprobed, on, via>>
          /\ pc[c] = "alternate" /\ pc' = [pc EXCEPT ![c] = "switch"]
        BY <1>14 DEF AlternateAccepted, client
    <2>2. recent'[j][t] = recent[j][t] \/ recent'[j][t] = <<>>
        BY <1>0, <1>14, AnswerMarks DEF AlternateAccepted
    <2>3. Len(<<>>) = 0
        OBVIOUS
    <2>4. \A d \in Callers : MaySend(d, j, t)' => MaySend(d, j, t)
        BY <1>0, <2>1 DEF TypeOK, MaySend
    <2>5. QED
        BY <1>0, <2>1, <2>2, <2>3, <2>4 DEF Untouched
<1>15. ASSUME NEW c \in Callers, Switch(c)
      PROVE  Untouched(j, t)'
    <2>1. /\ UNCHANGED <<configured, on, via, recent, reprobed>>
          /\ reprobed[on[c]] /\ via[c] \in Transports
          /\ pc' = [pc EXCEPT ![c] = "note"]
          /\ active' = [active EXCEPT ![on[c]] = via[c]]
        BY <1>0, <1>15 DEF Switch, Activate, Calls, Switching, TypeOK
    <2>2. CASE j = on[c]
        <3>1. active'[j] # Undetected
            BY <1>0, <2>1, <2>2 DEF TypeOK, Transports, Undetected
        <3>2. QED
            BY <2>1, <2>2, <3>1 DEF Untouched
    <2>3. CASE j # on[c]
        <3>1. \A d \in Callers : MaySend(d, j, t)' => MaySend(d, j, t)
            BY <1>0, <2>1, <2>3 DEF Together, MaySend, Callers
        <3>2. active'[j] = active[j]
            BY <1>0, <2>1, <2>3 DEF TypeOK
        <3>3. QED
            BY <1>0, <2>1, <3>1, <3>2 DEF Untouched
    <2>4. QED
        BY <2>2, <2>3
<1>16. ASSUME NEW c \in Callers, Return(c)
      PROVE  Untouched(j, t)'
    BY <1>0, <1>16 DEF Return, client, TypeOK, Untouched, MaySend
<1>17. CASE Timeout
    BY <1>0, <1>17 DEF Timeout, client, calls, TypeOK, Untouched, MaySend
<1>18. CASE Tick
    <2>1. recent'[j][t] = Aged(recent[j][t]) /\ UNCHANGED <<active, configured, reprobed>>
        BY <1>18 DEF Tick
    <2>2. /\ Len(recent'[j][t]) <= Len(recent[j][t])
          /\ Len(recent[j][t]) \in Nat /\ Len(recent'[j][t]) \in Nat
        BY <1>0, <2>1, AgedInOrder DEF TypeOK, Pending
    <2>3. \A d \in Callers : MaySend(d, j, t)' <=> MaySend(d, j, t)
        BY <1>18 DEF Tick, calls, MaySend
    <2>4. QED
        BY <1>0, <2>1, <2>2, <2>3 DEF Untouched
<1>19. CASE ApplianceRecovers
    BY <1>0, <1>19 DEF ApplianceRecovers, client, calls, TypeOK, Untouched, MaySend
<1>20. CASE UNCHANGED vars
    BY <1>0, <1>20 DEF vars, TypeOK, Untouched, MaySend
<1>21. QED
    BY <1>1, <1>2, <1>3, <1>4, <1>5, <1>6, <1>7, <1>8, <1>9, <1>10, <1>11, <1>12, <1>13,
       <1>14, <1>15, <1>16, <1>17, <1>18, <1>19, <1>20 DEF Next, Step, Environment

(* An answer and the successes that are still to be noted: its own leaves  *)
(* no rejection behind, and the other call's meets this rejection first.   *)
LEMMA AnswerOverdue ==
    ASSUME TypeOK, Together, Overdue, \A j \in Incarnations, t \in Transports : InOrder(recent[j][t]),
           NEW c \in Callers, NEW r, Answered(c, r), UNCHANGED <<on, via>>,
           ~Settled(c), ~Accepted(c), Accepted(c)' => r = "ok", r = "auth" => Settled(c)',
           \A d \in Callers \ {c} : pc'[d] = pc[d] /\ err'[d] = err[d]
    PROVE  Overdue'
<1> SUFFICES ASSUME NEW d \in Callers, Accepted(d)'
             PROVE  LET n == Len(recent'[on[d]][via[d]])
                    IN n = 0 \/ (n = 1 /\ Settled(Other(d))')
    BY DEF Overdue, Other
<1>1. on[d] \in Incarnations /\ via[d] \in Transports
    BY DEF TypeOK
<1>2. CASE d = c
    <2>1. recent'[on[d]][via[d]] = <<>>
        BY <1>1, <1>2, AnswerMarks
    <2>2. QED
        BY <2>1
<1>3. CASE d # c
    <2>1. Accepted(d) /\ Other(d) = c
        BY <1>3 DEF Accepted, Other, Callers
    <2>2. Len(recent[on[d]][via[d]]) = 0
        BY <2>1 DEF Overdue
    <2>3. InOrder(recent[on[d]][via[d]]) /\ Len(recent[on[d]][via[d]]) <= 2
        BY <1>1, <2>2
    <2>4. \/ recent'[on[d]][via[d]] = recent[on[d]][via[d]]
          \/ Len(recent'[on[d]][via[d]]) = 0
          \/ r = "auth" /\ Len(recent'[on[d]][via[d]]) = 0 + 1
        <3>1. /\ Len(recent[on[d]][via[d]]) \in 0..3
              /\ ~(on[d] = on[c] /\ via[d] = via[c]) \/ r \notin {"auth", "ok"} =>
                    recent'[on[d]][via[d]] = recent[on[d]][via[d]]
              /\ on[d] = on[c] /\ via[d] = via[c] /\ r = "ok" => Len(recent'[on[d]][via[d]]) = 0
              /\ on[d] = on[c] /\ via[d] = via[c] /\ r = "auth" =>
                    Len(recent'[on[d]][via[d]]) = Len(recent[on[d]][via[d]]) + 1
            BY <1>1, <2>3, AnswerAdds
        <3>2. QED
            BY <2>2, <3>1
    <2>5. 0 + 1 = 1
        OBVIOUS
    <2>6. QED
        BY <2>1, <2>2, <2>4, <2>5
<1>4. QED
    BY <1>2, <1>3

(* A step without an answer, in which no call comes by a success.          *)
LEMMA OverdueKept ==
    ASSUME Overdue, UNCHANGED recent,
           \A d \in Callers : Accepted(d)' => Accepted(d) /\ on'[d] = on[d] /\ via'[d] = via[d],
           \A d \in Callers : Settled(d) => Settled(d)'
    PROVE  Overdue'
<1>1. \A d \in Callers : Other(d) \in Callers
    BY DEF Other, Callers
<1>2. QED
    BY <1>1 DEF Overdue, Other

(* What a call heard before its success is gone from the history; what the *)
(* other call hears before the success is noted is one rejection.          *)
LEMMA OverdueStep == Inv /\ [Next]_vars => Overdue'
<1> SUFFICES ASSUME Inv, [Next]_vars
             PROVE  Overdue'
    OBVIOUS
<1>0. /\ TypeOK /\ Together /\ Mutex /\ Calls /\ Overdue
      /\ \A j \in Incarnations, t \in Transports : InOrder(recent[j][t])
    BY DEF Inv, Budget, Pending
<1>1. ASSUME NEW i \in Incarnations, BeginCycle(i)
      PROVE  Overdue'
    BY <1>0, <1>1 DEF BeginCycle, Overdue, Accepted
<1>2. ASSUME NEW c \in Callers, CheckCooldown(c)
      PROVE  Overdue'
    BY <1>0, <1>2, OverdueKept DEF CheckCooldown, CheckCooldownWhen, TypeOK, Accepted, Settled
<1>3. ASSUME NEW c \in Callers, UseActive(c)
      PROVE  Overdue'
    BY <1>0, <1>3, OverdueKept DEF UseActive, Request, TypeOK, Accepted, Settled
<1>4. ASSUME NEW c \in Callers, StartProbe(c)
      PROVE  Overdue'
    BY <1>0, <1>4, OverdueKept DEF StartProbe, Request, TypeOK, Accepted, Settled
<1>5. ASSUME NEW c \in Callers, TakeXML(c)
      PROVE  Overdue'
    BY <1>0, <1>5, OverdueKept DEF TakeXML, Request, TypeOK, Accepted, Settled
<1>6. ASSUME NEW c \in Callers, ProbeAccepted(c)
      PROVE  Overdue'
    <2>1. /\ Answered(c, "ok") /\ UNCHANGED <<on, via>>
          /\ ~Settled(c) /\ ~Accepted(c)
          /\ \A d \in Callers \ {c} : pc'[d] = pc[d] /\ err'[d] = err[d]
        BY <1>0, <1>6 DEF ProbeAccepted, TypeOK, Settled, Accepted
    <2>2. QED
        BY <1>0, <2>1, AnswerOverdue
<1>7. ASSUME NEW c \in Callers, ProbeFallsBack(c)
      PROVE  Overdue'
    <2>1. /\ active[on[c]] = Undetected /\ UNCHANGED <<on, err>>
          /\ pc' = [pc EXCEPT ![c] = "request"] /\ pc[c] = "probe"
        BY <1>0, <1>7 DEF ProbeFallsBack, Request, Mutex
    <2>2. \A d \in Callers : on[d] = on[c]
        BY <1>0 DEF Together, Callers
    <2>3. \A d \in Callers : ~Accepted(d)
        BY <1>0, <2>1, <2>2 DEF Calls, Accepted
    <2>4. \A d \in Callers : ~Accepted(d)'
        BY <1>0, <2>1, <2>3 DEF TypeOK, Accepted
    <2>5. QED
        BY <2>4 DEF Overdue
<1>8. ASSUME NEW c \in Callers, ProbeFails(c)
      PROVE  Overdue'
    <2>1. PICK r \in Outcomes \ {"ok"} : Answered(c, r) /\ err' = [err EXCEPT ![c] = r]
        BY <1>8 DEF ProbeFails, Outcomes
    <2>2. /\ UNCHANGED <<on, via>> /\ pc[c] = "probe" /\ pc' = [pc EXCEPT ![c] = "note"]
        BY <1>8 DEF ProbeFails
    <2>3. /\ ~Settled(c) /\ ~Accepted(c) /\ ~Accepted(c)' /\ Settled(c)'
          /\ \A d \in Callers \ {c} : pc'[d] = pc[d] /\ err'[d] = err[d]
        BY <1>0, <2>1, <2>2 DEF TypeOK, Settled, Accepted
    <2>4. QED
        BY <1>0, <2>1, <2>2, <2>3, AnswerOverdue
<1>9. ASSUME NEW c \in Callers, ActiveAnswers(c)
      PROVE  Overdue'
    <2>1. PICK r \in Outcomes :
            /\ Answered(c, r) /\ err' = [err EXCEPT ![c] = r]
            /\ pc' = [pc EXCEPT ![c] = IF r \in {"ok", "auth"} THEN "note" ELSE "reprobe"]
        BY <1>9 DEF ActiveAnswers
    <2>2. UNCHANGED <<on, via>> /\ pc[c] = "request"
        BY <1>9 DEF ActiveAnswers
    <2>3. /\ ~Settled(c) /\ ~Accepted(c)
          /\ Accepted(c)' => r = "ok"
          /\ r = "auth" => Settled(c)'
          /\ \A d \in Callers \ {c} : pc'[d] = pc[d] /\ err'[d] = err[d]
        BY <1>0, <2>1, <2>2 DEF TypeOK, Settled, Accepted
    <2>4. QED
        BY <1>0, <2>1, <2>2, <2>3, AnswerOverdue
<1>10. ASSUME NEW c \in Callers, NoteAuthResult(c)
      PROVE  Overdue'
    BY <1>0, <1>10, OverdueKept DEF NoteAuthResult, TypeOK, Accepted, Settled
<1>11. ASSUME NEW c \in Callers, StartAlternate(c)
      PROVE  Overdue'
    BY <1>0, <1>11, OverdueKept DEF StartAlternate, Request, TypeOK, Accepted, Settled
<1>12. ASSUME NEW c \in Callers, GiveUp(c)
      PROVE  Overdue'
    BY <1>0, <1>12, OverdueKept DEF GiveUp, TypeOK, Accepted, Settled
<1>13. ASSUME NEW c \in Callers, AlternateFails(c)
      PROVE  Overdue'
    <2>1. PICK r \in Outcomes \ {"ok"} : Answered(c, r) /\ err' = [err EXCEPT ![c] = r]
        BY <1>13 DEF AlternateFails
    <2>2. /\ UNCHANGED <<on, via>> /\ pc[c] = "alternate" /\ pc' = [pc EXCEPT ![c] = "return"]
        BY <1>13 DEF AlternateFails, AfterAlternate
    <2>3. /\ ~Settled(c) /\ ~Accepted(c) /\ ~Accepted(c)' /\ Settled(c)'
          /\ \A d \in Callers \ {c} : pc'[d] = pc[d] /\ err'[d] = err[d]
        BY <1>0, <2>1, <2>2 DEF TypeOK, Settled, Accepted
    <2>4. QED
        BY <1>0, <2>1, <2>2, <2>3, AnswerOverdue
<1>14. ASSUME NEW c \in Callers, AlternateAccepted(c)
      PROVE  Overdue'
    <2>1. /\ Answered(c, "ok") /\ UNCHANGED <<on, via>>
          /\ ~Settled(c) /\ ~Accepted(c)
          /\ \A d \in Callers \ {c} : pc'[d] = pc[d] /\ err'[d] = err[d]
        BY <1>0, <1>14 DEF AlternateAccepted, TypeOK, Settled, Accepted
    <2>2. QED
        BY <1>0, <2>1, AnswerOverdue
<1>15. ASSUME NEW c \in Callers, Switch(c)
      PROVE  Overdue'
    BY <1>0, <1>15, OverdueKept DEF Switch, TypeOK, Accepted, Settled
<1>16. ASSUME NEW c \in Callers, Return(c)
      PROVE  Overdue'
    <2>1. /\ UNCHANGED <<on, recent>> /\ pc[c] = "return" /\ pc' = [pc EXCEPT ![c] = "idle"]
          /\ via' = [via EXCEPT ![c] = AnyTransport] /\ err' = [err EXCEPT ![c] = "ok"]
        BY <1>16 DEF Return
    <2>2. \A d \in Callers : Accepted(d)' => Accepted(d) /\ via'[d] = via[d]
        BY <1>0, <2>1 DEF TypeOK, Accepted
    <2>3. \A d \in Callers : Settled(d) => Settled(d)'
        BY <1>0, <2>1 DEF TypeOK, Settled
    <2>4. QED
        BY <1>0, <2>1, <2>2, <2>3, OverdueKept
<1>17. CASE Timeout
    BY <1>0, <1>17, OverdueKept DEF Timeout, calls, Accepted, Settled
<1>18. CASE Tick
    <2>1. UNCHANGED <<pc, on, via, err>>
        BY <1>18 DEF Tick, calls
    <2>2. ASSUME NEW d \in Callers, Accepted(d)'
          PROVE  LET n == Len(recent'[on[d]][via[d]])
                 IN n = 0 \/ (n = 1 /\ Settled(Other(d))')
        <3>1. on[d] \in Incarnations /\ via[d] \in Transports /\ 0 \in 0..Cooldown
            BY <1>0, CooldownAssumption DEF TypeOK
        <3>2. LET n == Len(recent[on[d]][via[d]])
              IN n = 0 \/ (n = 1 /\ Settled(Other(d)))
            BY <1>0, <2>1, <2>2 DEF Overdue, Accepted
        <3>3. recent'[on[d]][via[d]] = Aged(recent[on[d]][via[d]])
            BY <1>18, <3>1 DEF Tick
        <3>4. recent[on[d]][via[d]] \in Seq(1..Cooldown) /\ InOrder(recent[on[d]][via[d]])
            BY <1>0, <3>1 DEF TypeOK
        <3>5. /\ Len(recent'[on[d]][via[d]]) \in 0..3
              /\ Len(recent'[on[d]][via[d]]) <= Len(recent[on[d]][via[d]])
            <4>1. /\ Aged(recent[on[d]][via[d]]) \in Seq(1..Cooldown)
                  /\ InOrder(Aged(recent[on[d]][via[d]]))
                  /\ Len(Aged(recent[on[d]][via[d]])) <= Len(recent[on[d]][via[d]])
                BY <3>1, <3>4, AgedInOrder
            <4>2. QED
                BY <3>3, <4>1, Entries
        <3>6. Settled(Other(d)) => Settled(Other(d))'
            BY <2>1 DEF Settled, Other
        <3>7. \A m \in 0..3, n \in {0, 1} : m <= n => m = 0 \/ (m = 1 /\ n = 1)
            OBVIOUS
        <3>8. QED
            BY <3>2, <3>5, <3>6, <3>7
    <2>3. QED
        BY <2>1, <2>2 DEF Overdue, Other
<1>19. CASE ApplianceRecovers
    BY <1>0, <1>19, OverdueKept DEF ApplianceRecovers, calls, Accepted, Settled
<1>20. CASE UNCHANGED vars
    BY <1>0, <1>20, OverdueKept DEF vars, Accepted, Settled
<1>21. QED
    BY <1>1, <1>2, <1>3, <1>4, <1>5, <1>6, <1>7, <1>8, <1>9, <1>10, <1>11, <1>12, <1>13,
       <1>14, <1>15, <1>16, <1>17, <1>18, <1>19, <1>20 DEF Next, Step, Environment

(* Nothing is in flight beside the call that detects.                      *)
LEMMA NoStrayDetected ==
    ASSUME TypeOK, Together, Calls, NEW c \in Callers, NEW t, UNCHANGED on,
           active[on[c]] = Undetected, active' = [active EXCEPT ![on[c]] = t], via'[c] = t,
           \A d \in Callers : d # c => pc'[d] = pc[d] /\ err'[d] = err[d]
    PROVE  Strays'
<1>1. ~Stray(c)'
    BY DEF TypeOK, Stray
<1>2. ASSUME NEW d \in Callers, d # c
      PROVE  ~Stray(d)'
    <2>1. on[d] = on[c]
        BY DEF Together, Callers
    <2>2. ~(pc[d] = "request" \/ (pc[d] = "note" /\ err[d] = "ok"))
        BY <2>1 DEF Calls
    <2>3. QED
        BY <1>2, <2>2 DEF Stray
<1>3. QED
    BY <1>1, <1>2 DEF Strays

(* A call is left with a transport that is no longer active only by the    *)
(* other's switch, which by Overdue meets at most this call's rejection.   *)
LEMMA StraysStep == Inv /\ [Next]_vars => Strays'
<1> SUFFICES ASSUME Inv, [Next]_vars
             PROVE  Strays'
    OBVIOUS
<1>0. TypeOK /\ Together /\ Mutex /\ Detection /\ Calls /\ Overdue /\ Strays
      /\ \A j \in Incarnations, t \in Transports : Pending(j, t)
    BY DEF Inv, Budget
<1>1. ASSUME NEW i \in Incarnations, BeginCycle(i)
      PROVE  Strays'
    BY <1>0, <1>1 DEF BeginCycle, client, TypeOK, Together, Strays, Stray, Alone, Settled, Other, Callers
<1>2. ASSUME NEW c \in Callers, CheckCooldown(c)
      PROVE  Strays'
    BY <1>0, <1>2 DEF CheckCooldown, CheckCooldownWhen, client, CanLock, TypeOK, Together,
         Strays, Stray, Alone, Settled, Other, Callers
<1>3. ASSUME NEW c \in Callers, UseActive(c)
      PROVE  Strays'
    BY <1>0, <1>3 DEF UseActive, Request, client, CanLock, TypeOK, Together, Strays, Stray,
         Alone, Settled, Other, Callers
<1>4. ASSUME NEW c \in Callers, StartProbe(c)
      PROVE  Strays'
    BY <1>0, <1>4 DEF StartProbe, Request, Lock, client, CanLock, Holds, TypeOK, Together,
         Strays, Stray, Alone, Settled, Other, Callers
<1>5. ASSUME NEW c \in Callers, TakeXML(c)
      PROVE  Strays'
    <2>1. /\ UNCHANGED on /\ active[on[c]] = Undetected
          /\ active' = [active EXCEPT ![on[c]] = "xml"]
          /\ via'[c] = "xml"
          /\ \A d \in Callers : d # c => pc'[d] = pc[d] /\ err'[d] = err[d]
        BY <1>0, <1>5 DEF TakeXML, Activate, Request, Mutex, TypeOK
    <2>2. QED
        BY <1>0, <2>1, NoStrayDetected
<1>6. ASSUME NEW c \in Callers, ProbeAccepted(c)
      PROVE  Strays'
    <2>1. /\ UNCHANGED on /\ active[on[c]] = Undetected
          /\ active' = [active EXCEPT ![on[c]] = "json"]
          /\ via'[c] = "json"
          /\ \A d \in Callers : d # c => pc'[d] = pc[d] /\ err'[d] = err[d]
        BY <1>0, <1>6 DEF ProbeAccepted, Activate, Request, Mutex, TypeOK
    <2>2. QED
        BY <1>0, <2>1, NoStrayDetected
<1>7. ASSUME NEW c \in Callers, ProbeFallsBack(c)
      PROVE  Strays'
    <2>1. /\ UNCHANGED on /\ active[on[c]] = Undetected
          /\ active' = [active EXCEPT ![on[c]] = "xml"]
          /\ via'[c] = "xml"
          /\ \A d \in Callers : d # c => pc'[d] = pc[d] /\ err'[d] = err[d]
        BY <1>0, <1>7 DEF ProbeFallsBack, Activate, Request, Mutex, TypeOK
    <2>2. QED
        BY <1>0, <2>1, NoStrayDetected
<1>8. ASSUME NEW c \in Callers, ProbeFails(c)
      PROVE  Strays'
    BY <1>0, <1>8 DEF ProbeFails, Unlock, client, Holds, TypeOK, Together, Strays, Stray,
         Alone, Settled, Other, Callers
<1>9. ASSUME NEW c \in Callers, ActiveAnswers(c)
      PROVE  Strays'
    <2>1. PICK r \in Outcomes :
            /\ Answered(c, r) /\ err' = [err EXCEPT ![c] = r]
            /\ pc' = [pc EXCEPT ![c] = IF r \in {"ok", "auth"} THEN "note" ELSE "reprobe"]
        BY <1>9 DEF ActiveAnswers
    <2>2. UNCHANGED <<active, on, via>> /\ pc[c] = "request"
        BY <1>9 DEF ActiveAnswers, client
    <2>3. ASSUME NEW d \in Callers, Stray(d)'
          PROVE  Alone(d)'
        <3>1. Stray(d)
            BY <1>0, <2>1, <2>2, <2>3 DEF TypeOK, Stray
        <3>2. Alone(d)
            BY <1>0, <3>1 DEF Strays
        <3>3. d = c
            BY <2>2, <3>2 DEF Alone, Settled, Other, Callers
        <3>4. /\ active[on[c]] # via[c] /\ active[on[c]] \in Transports /\ on[c] \in Incarnations
              /\ Other(c) \in Callers /\ Other(c) # c
            BY <1>0, <3>1, <3>3 DEF TypeOK, Stray, Other, Callers, Transports
        <3>5. recent'[on[c]][active[on[c]]] = recent[on[c]][active[on[c]]]
            BY <1>0, <2>1, <3>4, AnswerMarks
        <3>6. pc'[Other(c)] = pc[Other(c)] /\ err'[Other(c)] = err[Other(c)]
            BY <1>0, <2>1, <3>4 DEF TypeOK
        <3>7. QED
            BY <2>2, <3>2, <3>3, <3>5, <3>6 DEF Alone, Settled
    <2>4. QED
        BY <2>3 DEF Strays
<1>10. ASSUME NEW c \in Callers, NoteAuthResult(c)
      PROVE  Strays'
    <2>1. /\ pc[c] = "note" /\ pc' = [pc EXCEPT ![c] = "return"]
          /\ UNCHANGED <<active, on, via, err>>
        BY <1>10 DEF NoteAuthResult
    <2>2. ASSUME NEW d \in Callers, Stray(d)'
          PROVE  Alone(d)'
        <3>1. Stray(d) /\ d # c
            BY <1>0, <2>1, <2>2 DEF TypeOK, Stray
        <3>2. Alone(d)
            BY <1>0, <3>1 DEF Strays
        <3>3. /\ Other(d) = c /\ on[d] = on[c]
              /\ active[on[c]] \in Transports /\ on[c] \in Incarnations
            BY <1>0, <3>1 DEF Other, Callers, Together, TypeOK, Stray
        <3>4. pc'[c] = "return"
            BY <1>0, <2>1 DEF TypeOK
        <3>5. recent' = recent
            BY <1>10 DEF NoteAuthResult
        <3>6. QED
            BY <2>1, <3>2, <3>3, <3>4, <3>5 DEF Alone, Settled
    <2>3. QED
        BY <2>2 DEF Strays
<1>11. ASSUME NEW c \in Callers, StartAlternate(c)
      PROVE  Strays'
    BY <1>0, <1>11 DEF StartAlternate, Request, Latch, CanLock, TypeOK, Together, Strays,
         Stray, Alone, Settled, Other, Callers
<1>12. ASSUME NEW c \in Callers, GiveUp(c)
      PROVE  Strays'
    BY <1>0, <1>12 DEF GiveUp, Latch, CanLock, TypeOK, Together, Strays, Stray, Alone, Settled, Other,
         Callers
<1>13. ASSUME NEW c \in Callers, AlternateFails(c)
      PROVE  Strays'
    BY <1>0, <1>13 DEF AlternateFails, AfterAlternate, client, TypeOK, Together, Strays,
         Stray, Alone, Settled, Other, Callers
<1>14. ASSUME NEW c \in Callers, AlternateAccepted(c)
      PROVE  Strays'
    BY <1>0, <1>14 DEF AlternateAccepted, client, TypeOK, Together, Strays, Stray, Alone,
         Settled, Other, Callers
<1>15. ASSUME NEW c \in Callers, Switch(c)
      PROVE  Strays'
    <2>1. /\ UNCHANGED <<on, via, recent>>
          /\ pc[c] = "switch" /\ pc' = [pc EXCEPT ![c] = "note"]
          /\ err' = [err EXCEPT ![c] = "ok"]
          /\ active' = [active EXCEPT ![on[c]] = via[c]]
        BY <1>15 DEF Switch, Activate
    <2>2. ASSUME NEW d \in Callers, Stray(d)'
          PROVE  Alone(d)'
        <3>1. active'[on[c]] = via[c] /\ on[c] \in Incarnations /\ via[c] \in Transports
            BY <1>0, <2>1 DEF TypeOK
        <3>2. d # c
            BY <2>1, <2>2, <3>1 DEF Stray
        <3>3. Other(d) = c /\ on[d] = on[c]
            BY <1>0, <3>2 DEF Other, Callers, Together
        <3>4. pc'[c] = "note" /\ err'[c] = "ok"
            BY <1>0, <2>1 DEF TypeOK
        <3>5. Len(recent[on[c]][via[c]]) = 0 \/ Len(recent[on[c]][via[c]]) = 1
            BY <1>0, <2>1 DEF Overdue, Accepted
        <3>6. Len(recent[on[c]][via[c]]) <= 1
            BY <3>5, NoneOrOne
        <3>7. QED
            BY <2>1, <3>1, <3>3, <3>4, <3>6 DEF Alone, Settled
    <2>3. QED
        BY <2>2 DEF Strays
<1>16. ASSUME NEW c \in Callers, Return(c)
      PROVE  Strays'
    BY <1>0, <1>16 DEF Return, client, TypeOK, Together, Strays, Stray, Alone, Settled, Other, Callers
<1>17. CASE Timeout
    BY <1>0, <1>17 DEF Timeout, client, calls, TypeOK, Together, Strays, Stray, Alone, Settled, Other,
         Callers
<1>18. CASE Tick
    <2>1. UNCHANGED <<pc, on, via, err, active>>
        BY <1>18 DEF Tick, calls
    <2>2. ASSUME NEW d \in Callers, Stray(d)'
          PROVE  Alone(d)'
        <3>1. Stray(d)
            BY <2>1, <2>2 DEF Stray
        <3>2. Alone(d)
            BY <1>0, <3>1 DEF Strays
        <3>3. on[d] \in Incarnations /\ active[on[d]] \in Transports
            BY <1>0, <3>1 DEF TypeOK, Stray
        <3>4. recent'[on[d]][active[on[d]]] = Aged(recent[on[d]][active[on[d]]])
            BY <1>18, <3>3 DEF Tick
        <3>5. /\ Len(recent'[on[d]][active[on[d]]]) <= Len(recent[on[d]][active[on[d]]])
              /\ Len(recent[on[d]][active[on[d]]]) \in Nat
              /\ Len(recent'[on[d]][active[on[d]]]) \in Nat
            <4>1. /\ recent[on[d]][active[on[d]]] \in Seq(1..Cooldown)
                  /\ InOrder(recent[on[d]][active[on[d]]])
                  /\ left[on[d]] \in 0..Cooldown
                BY <1>0, <3>3 DEF TypeOK, Pending
            <4>2. QED
                BY <3>4, <4>1, AgedInOrder
        <3>6. QED
            BY <2>1, <3>2, <3>5 DEF Alone, Settled, Other
    <2>3. QED
        BY <2>2 DEF Strays
<1>19. CASE ApplianceRecovers
    BY <1>0, <1>19 DEF ApplianceRecovers, client, calls, TypeOK, Together, Strays, Stray,
         Alone, Settled, Other, Callers
<1>20. CASE UNCHANGED vars
    BY <1>0, <1>20 DEF vars, TypeOK, Together, Strays, Stray, Alone, Settled, Other, Callers
<1>21. QED
    BY <1>1, <1>2, <1>3, <1>4, <1>5, <1>6, <1>7, <1>8, <1>9, <1>10, <1>11, <1>12, <1>13,
       <1>14, <1>15, <1>16, <1>17, <1>18, <1>19, <1>20 DEF Next, Step, Environment

-----------------------------------------------------------------------------
(* Inv is inductive, and Primed beside it.                                 *)
LEMMA StepInv == Inv /\ [Next]_vars => Inv'
<1> SUFFICES ASSUME Inv, [Next]_vars
             PROVE  Inv'
    OBVIOUS
<1>1. TypeOK'
    BY TypeStep
<1>2. Together' /\ Mutex' /\ Detection' /\ Calls'
    BY MutexStep, DetectionStep, CallsStep
<1>3. ASSUME NEW j \in Incarnations, NEW t \in Transports
      PROVE  Pending(j, t)' /\ Covered(j, t)' /\ Untouched(j, t)'
    BY PendingStep, CoveredStep, UntouchedStep
<1>4. Overdue' /\ Strays'
    BY OverdueStep, StraysStep
<1>5. QED
    BY <1>1, <1>2, <1>3, <1>4 DEF Inv, Budget, Transports

(* The inductive invariant holds in every reachable state.                 *)
THEOREM Invariance == Spec => [](Inv /\ Primed)
<1>1. Init => Inv /\ Primed
    BY InitInv
<1>2. Inv /\ Primed /\ [Next]_vars => (Inv /\ Primed)'
    BY StepInv, PrimedStep
<1>3. QED
    BY <1>1, <1>2, PTL DEF Spec

(* Every reachable state of a client and its two calls has its type; in    *)
(* particular the active transport is always one it has credentials for,   *)
(* and a cooldown in force always has a rejection to report.               *)
THEOREM TypeCorrect == Spec => []TypeOK
<1>1. Inv => TypeOK
    BY DEF Inv
<1>2. QED
    BY <1>1, Invariance, PTL

(* ensureTransport and reprobe: however the two calls interleave, a client *)
(* is detected once and switches transports at most once.                  *)
THEOREM SwitchesOnce == Spec => []NoFlapping
<1>1. Inv => NoFlapping
    BY DEF Inv, Detection, NoFlapping
<1>2. QED
    BY <1>1, Invariance, PTL

(* noteAuthResult and reprobe: a cooldown is never started by a transport  *)
(* that has not been active.                                               *)
THEOREM OnlyActivePrimes == Spec => []AlternateNeverPrimes
<1>1. Inv /\ Primed => AlternateNeverPrimes
    <2> SUFFICES ASSUME Inv, Primed, NEW i \in Incarnations,
                        authFailureErr[i] # NoFailure, active[i] # Undetected
                 PROVE  HasServed(i, authFailureErr[i].via)
        BY DEF AlternateNeverPrimes, HasServed
    <2>1. Primable(i, authFailureErr[i].via)
        BY DEF Primed
    <2>2. CASE authFailureErr[i].via = "json" /\ "xml" \notin configured[i]
        <3>1. active[i] = "json"
            BY <2>2, SomeCredential DEF Inv, TypeOK
        <3>2. QED
            BY <2>2, <3>1, ActiveServed DEF Inv
    <2>3. QED
        BY <2>1, <2>2 DEF Primable
<1>2. QED
    BY <1>1, Invariance, PTL

(* cooldownError and noteAuthResult: between two answers that accept a     *)
(* transport's credential the appliance rejects it at most three times in  *)
(* any cooldown window, for every set of answers, choice of credentials    *)
(* and length of the window, although a success that was answered before a *)
(* rejection may be noted after it and end the window it started.          *)
THEOREM ThreeRejectionsPerWindow == Spec => []LockoutBudget
<1>1. Inv => LockoutBudget
    BY DEF Inv, Budget, Pending, InOrder, LockoutBudget
<1>2. QED
    BY <1>1, Invariance, PTL

-----------------------------------------------------------------------------
(* A client that no cycle has been started on is as Init left it.          *)
Fresh ==
    \A i \in Incarnations : i > current =>
        /\ active[i] = Undetected /\ served[i] = <<>> /\ reprobed[i] = FALSE
        /\ left[i] = 0 /\ authFailureErr[i] = NoFailure
        /\ \A t \in Transports : recent[i][t] = <<>>

(* The reload under way has a client to install.                           *)
Building == loopMu = "reload" => current + 1 \in Incarnations

(* The rejection a client reports, in force or past, was caused by a       *)
(* client that has been installed, with the same config.                   *)
Belongs ==
    \A i \in Incarnations : i <= current /\ authFailureErr[i] # NoFailure =>
        /\ authFailureErr[i].on <= current
        /\ config[authFailureErr[i].on] = config[i]

RInv == Inv /\ RTypeOK /\ Fresh /\ Building /\ Belongs

-----------------------------------------------------------------------------
(* Aged: an empty history stays empty.                                     *)
LEMMA AgedEmpty == Aged(<<>>) = <<>>
<1> DEFINE ended == {k \in DOMAIN <<>> : <<>>[k] = 1}
<1>1. ended = {}
    OBVIOUS
<1>2. Cardinality(ended) = 0
    BY <1>1, FS_EmptySet
<1>3. Len(<<>>) - Cardinality(ended) = 0 /\ Len(<<>>) = 0
    BY <1>2
<1>4. Aged(<<>>) = [k \in 1..0 |-> <<>>[k + Cardinality(ended)] - 1]
    BY <1>3 DEF Aged
<1>5. QED
    BY <1>4

(* SameTarget compares all a config says.                                  *)
LEMMA SameConfig ==
    ASSUME RTypeOK, NEW i \in Incarnations, NEW j \in Incarnations, SameTarget(i, j)
    PROVE  config[i] = config[j]
<1>1. /\ config[i] = [name |-> config[i].name, cred |-> config[i].cred, has |-> config[i].has]
      /\ config[j] = [name |-> config[j].name, cred |-> config[j].cred, has |-> config[j].has]
    BY ConfigsAssumption DEF RTypeOK
<1>2. QED
    BY <1>1 DEF SameTarget, SameName

(* The incarnations installed so far are those up to current.              *)
LEMMA Numbers ==
    ASSUME RTypeOK
    PROVE  /\ current \in Nat
           /\ \A i \in Incarnations : i \in Nat
           /\ \A c \in Callers : pc[c] # "idle" => on[c] \in Incarnations /\ on[c] <= current
    BY IncarnationsAssumption DEF RTypeOK, TypeOK

-----------------------------------------------------------------------------
(* The first client, and nothing else.                                     *)
LEMMA RInitInv == RInit => RInv
<1> SUFFICES ASSUME RInit
             PROVE  RInv
    OBVIOUS
<1>1. Inv
    BY InitInv DEF RInit
<1>2. RTypeOK
    BY <1>1, IncarnationsAssumption, ConfigsAssumption DEF RInit, Inv, Init, RTypeOK
<1>3. Fresh /\ Building /\ Belongs
    BY DEF RInit, Init, Fresh, Building, Belongs, Free
<1>4. QED
    BY <1>1, <1>2, <1>3 DEF RInv

-----------------------------------------------------------------------------
(* A step of a call, of the clock or of the appliance is on an installed   *)
(* client: it leaves the next one alone.                                   *)
LEMMA StepKeepsFresh ==
    ASSUME RInv, NEW c \in Callers, Step(c), UNCHANGED reload
    PROVE  Fresh'
<1>0. /\ on[c] \in Incarnations /\ on[c] <= current /\ pc[c] # "idle"
      /\ current \in Nat
      /\ TypeOK /\ current' = current
    BY Numbers DEF RInv, Inv, Step, reload, CheckCooldown, CheckCooldownWhen, UseActive,
         StartProbe, TakeXML, ProbeAccepted, ProbeFallsBack, ProbeFails, ActiveAnswers,
         NoteAuthResult, StartAlternate, GiveUp, AlternateFails, AlternateAccepted, Switch,
         Return
<1> SUFFICES ASSUME NEW i \in Incarnations, i > current
             PROVE  /\ active'[i] = Undetected /\ served'[i] = <<>> /\ reprobed'[i] = FALSE
                    /\ left'[i] = 0 /\ authFailureErr'[i] = NoFailure
                    /\ \A t \in Transports : recent'[i][t] = <<>>
    BY <1>0 DEF Fresh
<1>1. i # on[c]
    BY <1>0, IncarnationsAssumption
<1>2. /\ active[i] = Undetected /\ served[i] = <<>> /\ reprobed[i] = FALSE
      /\ left[i] = 0 /\ authFailureErr[i] = NoFailure
      /\ \A t \in Transports : recent[i][t] = <<>>
    BY <1>0 DEF RInv, Fresh
<1>3. active'[i] = active[i] /\ served'[i] = served[i] /\ reprobed'[i] = reprobed[i]
    BY <1>0, <1>1 DEF TypeOK, client, Step, CheckCooldown, CheckCooldownWhen, UseActive,
         StartProbe, TakeXML, ProbeAccepted, ProbeFallsBack, ProbeFails, ActiveAnswers,
         NoteAuthResult, StartAlternate, GiveUp, AlternateFails, AlternateAccepted, Switch,
         Return, Activate, Latch
<1>4. left'[i] = left[i] /\ authFailureErr'[i] = authFailureErr[i]
    BY <1>0, <1>1 DEF TypeOK, client, Step, CheckCooldown, CheckCooldownWhen, UseActive,
         StartProbe, TakeXML, ProbeAccepted, ProbeFallsBack, ProbeFails, ActiveAnswers,
         NoteAuthResult, StartAlternate, GiveUp, AlternateFails, AlternateAccepted, Switch,
         Return, ClearFailure
<1>5. recent'[i] = recent[i]
    BY <1>0, <1>1 DEF TypeOK, client, Step, CheckCooldown, CheckCooldownWhen, UseActive,
         StartProbe, TakeXML, ProbeAccepted, ProbeFallsBack, ProbeFails, ActiveAnswers,
         NoteAuthResult, StartAlternate, GiveUp, AlternateFails, AlternateAccepted, Switch,
         Return, Answered
<1>6. QED
    BY <1>2, <1>3, <1>4, <1>5

(* The only step of a call that records a rejection records its own, on    *)
(* the client that it runs on.                                             *)
LEMMA StepRecords ==
    ASSUME TypeOK, NEW c \in Callers, Step(c), NEW i \in Incarnations
    PROVE  \/ authFailureErr'[i] \in {authFailureErr[i], NoFailure}
           \/ i = on[c] /\ authFailureErr'[i].on = i
<1>1. CASE NoteAuthResult(c)
    BY <1>1 DEF NoteAuthResult, ClearFailure, TypeOK
<1>2. CASE ~NoteAuthResult(c)
    BY <1>2 DEF client, Step, CheckCooldown, CheckCooldownWhen, UseActive,
         StartProbe, TakeXML, ProbeAccepted, ProbeFallsBack, ProbeFails, ActiveAnswers,
         StartAlternate, GiveUp, AlternateFails, AlternateAccepted, Switch, Return
<1>3. QED
    BY <1>1, <1>2

(* A call never moves to another client, and an idle one does not start.   *)
LEMMA StepStays ==
    ASSUME NEW c \in Callers, Step(c), TypeOK
    PROVE  on' = on /\ pc[c] # "idle" /\ \A d \in Callers : d # c => pc'[d] = pc[d]
    BY DEF client, calls, Step, CheckCooldown, CheckCooldownWhen, UseActive, Request,
         StartProbe, TakeXML, ProbeAccepted, ProbeFallsBack, ProbeFails, ActiveAnswers,
         NoteAuthResult, StartAlternate, GiveUp, AlternateFails, AlternateAccepted, Switch,
         Return, TypeOK

(* A step of a call keeps the invariant.                                   *)
LEMMA CallKeeps ==
    ASSUME RInv, NEW c \in Callers, Call(c)
    PROVE  RInv'
<1>0. /\ TypeOK /\ Inv /\ RTypeOK /\ Belongs /\ Building /\ on[c] \in Incarnations
      /\ UNCHANGED <<current, loopMu, config, overlapped>> /\ Step(c) /\ UNCHANGED reload
    BY DEF RInv, Inv, reload, Call, TypeOK
<1>1. Inv'
    BY <1>0, StepInv DEF Next
<1>2. RTypeOK'
    <2>1. \A d \in Callers : pc'[d] # "idle" => on'[d] <= current'
        BY <1>0, StepStays DEF RTypeOK
    <2>2. lapsed' \subseteq Incarnations
        BY <1>0 DEF Call, Lapses, RTypeOK
    <2>3. QED
        BY <1>0, <1>1, <2>1, <2>2 DEF RTypeOK, Inv
<1>3. Belongs'
    BY <1>0, StepRecords, StepStays, Numbers DEF Belongs, RTypeOK
<1>4. QED
    BY <1>0, <1>1, <1>2, <1>3, StepKeepsFresh DEF RInv, Building

(* So does a step of the surroundings.                                     *)
LEMMA EnvironmentKeeps ==
    ASSUME RInv, Surroundings
    PROVE  RInv'
<1>0. /\ Environment /\ lapsed' \subseteq lapsed
      /\ TypeOK /\ Inv /\ RTypeOK /\ Belongs /\ Building /\ Fresh
      /\ UNCHANGED <<current, loopMu, config, overlapped>>
    BY DEF RInv, Inv, reload, Surroundings, Lapses
<1>1. Inv'
    BY <1>0, StepInv DEF Next
<1>2. UNCHANGED <<pc, on, active, reprobed, authFailureErr, served>>
    BY <1>0 DEF Environment, Timeout, Tick, ApplianceRecovers, calls, client
<1>3. RTypeOK' /\ Belongs' /\ Building'
    BY <1>0, <1>1, <1>2 DEF RTypeOK, Inv, Belongs, Building
<1>4. ASSUME NEW i \in Incarnations, i > current
      PROVE  left'[i] = 0 /\ \A t \in Transports : recent'[i][t] = <<>>
    <2>1. left[i] = 0 /\ \A t \in Transports : recent[i][t] = <<>>
        BY <1>0, <1>4 DEF Fresh
    <2>2. CASE Tick
        BY <2>1, <2>2, AgedEmpty DEF Tick
    <2>3. CASE Timeout \/ ApplianceRecovers
        BY <2>1, <2>3 DEF Timeout, ApplianceRecovers, client
    <2>4. QED
        BY <1>0, <2>2, <2>3 DEF Environment
<1>5. Fresh'
    BY <1>0, <1>2, <1>4 DEF Fresh
<1>6. QED
    BY <1>1, <1>3, <1>5 DEF RInv

(* A cycle starts both calls on the client that is installed.              *)
LEMMA CycleKeeps ==
    ASSUME RInv, Cycle
    PROVE  RInv'
<1>0. /\ Inv /\ RTypeOK /\ Belongs /\ Building /\ Fresh /\ current \in Incarnations
      /\ BeginCycle(current)
      /\ UNCHANGED <<current, loopMu, config, overlapped, lapsed>>
    BY DEF RInv, RTypeOK, Cycle, reload
<1>1. Inv'
    BY <1>0, StepInv DEF Next
<1>2. /\ UNCHANGED <<active, reprobed, authFailureErr, served, left, recent>>
      /\ \A c \in Callers : on'[c] = current
    BY <1>0 DEF BeginCycle, client
<1>3. QED
    BY <1>0, <1>1, <1>2, Numbers DEF RInv, RTypeOK, Inv, Belongs, Building, Fresh

-----------------------------------------------------------------------------
(* LockClients writes the config and the credentials of a client that      *)
(* nobody runs on, and that has no transport and no history yet.           *)
LEMMA LockKeepsClients ==
    ASSUME RInv, LockClients
    PROVE  Inv'
<1>1. PICK k \in Configs : /\ config' = [config EXCEPT ![current + 1] = k]
                           /\ configured' = [configured EXCEPT ![current + 1] = k.has]
    BY DEF LockClients
<1>2. /\ TypeOK /\ Together /\ Mutex /\ Detection /\ Calls /\ Budget /\ Fresh /\ RTypeOK
      /\ current + 1 \in Incarnations /\ current \in Nat /\ current + 1 > current
      /\ k.has \in Credentials
      /\ UNCHANGED <<active, reprobed, authFailureErr, left, served, mu, calls, ctxDone,
                     accepting, recent, current, overlapped, lapsed>>
    BY Numbers, ConfigsAssumption DEF RInv, Inv, LockClients
<1>3. ASSUME NEW i \in Incarnations, i # current + 1
      PROVE  configured'[i] = configured[i]
    BY <1>1, <1>2, <1>3 DEF TypeOK
<1>4. ASSUME NEW i \in Incarnations, i > current
      PROVE  active[i] = Undetected /\ \A t \in Transports : recent[i][t] = <<>>
    BY <1>2, <1>4 DEF Fresh
<1>5. ASSUME NEW c \in Callers, pc[c] # "idle"
      PROVE  configured'[on[c]] = configured[on[c]]
    BY <1>2, <1>3, <1>5, Numbers
<1>6. TypeOK'
    <2>1. configured' \in [Incarnations -> Credentials]
        BY <1>1, <1>2 DEF TypeOK
    <2>2. \A i \in Incarnations : active'[i] \in configured'[i] \cup {Undetected}
        BY <1>2, <1>3, <1>4 DEF TypeOK
    <2>3. QED
        BY <1>2, <2>1, <2>2 DEF TypeOK, calls
<1>7. Together' /\ Mutex' /\ Detection' /\ Calls'
    BY <1>2, <1>5 DEF Together, Mutex, Detection, Calls, Holds, Switching, calls
<1>8. Budget'
    <2>1. ASSUME NEW i \in Incarnations, NEW t \in Transports
          PROVE  Pending(i, t)' /\ Covered(i, t)'
        BY <1>2 DEF Budget, Pending, Covered, MaySend, NotingRejection, Within, calls
    <2>2. ASSUME NEW i \in Incarnations, NEW t \in Transports
          PROVE  Untouched(i, t)'
        <3>1. CASE i = current + 1
            BY <1>2, <1>4, <3>1 DEF Untouched
        <3>2. CASE i # current + 1
            BY <1>2, <1>3, <3>2 DEF Budget, Untouched, MaySend, calls
        <3>3. QED
            BY <3>1, <3>2
    <2>3. Strays' /\ Overdue'
        BY <1>2 DEF Budget, Strays, Stray, Alone, Overdue, Accepted, Settled, Other, calls
    <2>4. QED
        BY <2>1, <2>2, <2>3 DEF Budget
<1>9. QED
    BY <1>6, <1>7, <1>8 DEF Inv

(* With that, the reload under way keeps the invariant.                    *)
LEMMA LockKeeps ==
    ASSUME RInv, LockClients
    PROVE  RInv'
<1>1. PICK k \in Configs : config' = [config EXCEPT ![current + 1] = k]
    BY DEF LockClients
<1>2. /\ RTypeOK /\ Fresh /\ Belongs /\ current + 1 \in Incarnations /\ current \in Nat
      /\ loopMu' = "reload"
      /\ UNCHANGED <<active, reprobed, authFailureErr, left, served, pc, on, recent, current,
                     overlapped, lapsed>>
    BY Numbers DEF RInv, LockClients, calls
<1>3. ASSUME NEW i \in Incarnations, i <= current
      PROVE  config'[i] = config[i]
    BY <1>1, <1>2, <1>3 DEF RTypeOK
<1>4. Inv'
    BY LockKeepsClients
<1>5. RTypeOK'
    BY <1>1, <1>2, <1>4 DEF RTypeOK, Inv
<1>6. Belongs'
    <2> SUFFICES ASSUME NEW i \in Incarnations, i <= current, authFailureErr[i] # NoFailure
                 PROVE  /\ authFailureErr[i].on <= current
                        /\ config'[authFailureErr[i].on] = config'[i]
        BY <1>2 DEF Belongs
    <2>1. authFailureErr[i].on \in Incarnations
        BY <1>2 DEF RTypeOK, TypeOK, Rejection
    <2>2. QED
        BY <1>2, <1>3, <2>1 DEF Belongs
<1>7. QED
    BY <1>2, <1>4, <1>5, <1>6 DEF RInv, Fresh, Building

(* A fresh client with another's rejection and what is left of its window  *)
(* still meets the client's invariant: no history of its own is beyond it. *)
LEMMA CooldownFitsAnywhere ==
    ASSUME Inv, NEW i \in Incarnations, NEW j \in Incarnations,
           \A t \in Transports : recent[j][t] = <<>>,
           \/ UNCHANGED <<left, authFailureErr>>
           \/ /\ left' = [left EXCEPT ![j] = left[i]]
              /\ authFailureErr' = [authFailureErr EXCEPT ![j] = authFailureErr[i]],
           UNCHANGED <<configured, active, reprobed, served, mu, calls, ctxDone, accepting, recent>>
    PROVE  Inv'
<1>1. TypeOK /\ Together /\ Mutex /\ Detection /\ Calls /\ Budget
    BY DEF Inv
<1>2. TypeOK'
    <2>1. /\ left' \in [Incarnations -> 0..Cooldown]
          /\ authFailureErr' \in [Incarnations -> Rejection \cup {NoFailure}]
          /\ \A k \in Incarnations : left'[k] > 0 => authFailureErr'[k] # NoFailure
        <3>1. CASE UNCHANGED <<left, authFailureErr>>
            BY <1>1, <3>1 DEF TypeOK
        <3>2. CASE /\ left' = [left EXCEPT ![j] = left[i]]
                   /\ authFailureErr' = [authFailureErr EXCEPT ![j] = authFailureErr[i]]
            BY <1>1, <3>2 DEF TypeOK
        <3>3. QED
            BY <3>1, <3>2
    <2>2. QED
        BY <1>1, <2>1 DEF TypeOK, calls
<1>3. Together' /\ Mutex' /\ Detection' /\ Calls'
    BY <1>1 DEF Together, Mutex, Detection, Calls, Holds, Switching, calls
<1>4. Budget'
    <2>1. ASSUME NEW k \in Incarnations, NEW t \in Transports
          PROVE  Pending(k, t)' /\ Untouched(k, t)'
        BY <1>1 DEF Budget, Pending, Untouched, MaySend, calls
    <2>2. ASSUME NEW k \in Incarnations, NEW t \in Transports
          PROVE  Covered(k, t)'
        <3>1. CASE k = j
            <4>1. recent'[k][t] = <<>>
                BY <3>1
            <4>2. Within(k, t, 1)' /\ Within(k, t, 2)'
                BY <4>1 DEF Within, Outlasted
            <4>3. QED
                BY <4>2 DEF Covered
        <3>2. CASE k # j
            <4>1. left'[k] = left[k]
                BY <1>1, <3>2 DEF TypeOK
            <4>2. QED
                BY <1>1, <4>1 DEF Budget, Covered, NotingRejection, Within, calls
        <3>3. QED
            BY <3>1, <3>2
    <2>3. Strays' /\ Overdue'
        BY <1>1 DEF Budget, Strays, Stray, Alone, Overdue, Accepted, Settled, Other, calls
    <2>4. QED
        BY <2>1, <2>2, <2>3 DEF Budget
<1>5. QED
    BY <1>2, <1>3, <1>4 DEF Inv

(* SetClients installs the next client, with or without the cooldown.      *)
LEMMA SetClientsKeeps ==
    ASSUME RInv, SetClients
    PROVE  RInv'
<1>0. /\ Inv /\ TypeOK /\ RTypeOK /\ Fresh /\ Belongs
      /\ current \in Incarnations /\ current + 1 \in Incarnations
      /\ current \in Nat /\ current + 1 > current
      /\ Replace(current + 1)
      /\ \A i \in Incarnations : i \in Nat
    BY Numbers DEF RInv, RTypeOK, Building, SetClients, CarryCooldown, CarryNone
<1>1. /\ current' = current + 1 /\ loopMu' = Free /\ overlapped' \in BOOLEAN
      /\ UNCHANGED <<configured, active, reprobed, served, mu, calls, ctxDone, accepting, recent, config,
                     lapsed>>
    BY <1>0 DEF Replace, RTypeOK
<1>2. \/ UNCHANGED <<left, authFailureErr>>
      \/ /\ left' = [left EXCEPT ![current + 1] = left[current]]
         /\ authFailureErr' = [authFailureErr EXCEPT ![current + 1] = authFailureErr[current]]
         /\ config[current + 1] = config[current]
    BY <1>0, SameConfig DEF SetClients, CarryCooldown, CarryNone
<1>3. \A t \in Transports : recent[current + 1][t] = <<>>
    BY <1>0 DEF Fresh
<1>4. /\ left \in [Incarnations -> 0..Cooldown]
      /\ authFailureErr \in [Incarnations -> Rejection \cup {NoFailure}]
    BY <1>0 DEF TypeOK
<1>5. Inv'
    BY <1>0, <1>1, <1>2, <1>3, CooldownFitsAnywhere
<1>6. RTypeOK'
    <2>1. TypeOK' /\ UNCHANGED <<pc, on>>
        BY <1>1, <1>5 DEF Inv, calls
    <2>2. \A c \in Callers : pc[c] # "idle" => on[c] <= current + 1
        <3>1. \A c \in Callers : pc[c] # "idle" => on[c] <= current /\ on[c] \in Nat
            BY <1>0, Numbers
        <3>2. QED
            BY <1>0, <3>1
    <2>3. config \in [Incarnations -> Configs]
        BY <1>0 DEF RTypeOK
    <2>4. QED
        BY <1>0, <1>1, <2>1, <2>2, <2>3 DEF RTypeOK
<1>7. Fresh' /\ Building'
    <2>1. ASSUME NEW i \in Incarnations, i > current + 1
          PROVE  left'[i] = left[i] /\ authFailureErr'[i] = authFailureErr[i] /\ i > current
        <3>1. i # current + 1 /\ i > current
            BY <1>0, <2>1
        <3>2. QED
            BY <1>2, <1>4, <3>1
    <2>2. Building'
        BY <1>1 DEF Building, Free
    <2>3. QED
        BY <1>0, <1>1, <2>1, <2>2 DEF Fresh
<1>8. Belongs'
    <2> SUFFICES ASSUME NEW i \in Incarnations, i <= current + 1, authFailureErr'[i] # NoFailure
                 PROVE  /\ authFailureErr'[i].on <= current + 1
                        /\ config[authFailureErr'[i].on] = config[i]
        BY <1>1 DEF Belongs
    <2>1. CASE i <= current
        <3>1. authFailureErr'[i] = authFailureErr[i] /\ authFailureErr[i].on \in Nat
            <4>1. i # current + 1
                BY <1>0, <2>1
            <4>2. authFailureErr'[i] = authFailureErr[i]
                BY <1>2, <1>4, <4>1
            <4>3. QED
                BY <1>0, <1>4, <4>2 DEF Rejection
        <3>2. QED
            BY <1>0, <2>1, <3>1 DEF Belongs
    <2>2. CASE i = current + 1
        <3>1. authFailureErr[i] = NoFailure
            BY <1>0, <2>2 DEF Fresh
        <3>2. /\ authFailureErr'[i] = authFailureErr[current]
              /\ config[i] = config[current]
            BY <1>0, <1>2, <2>2, <3>1 DEF TypeOK
        <3>3. authFailureErr[current].on \in Nat
            BY <1>0, <3>2 DEF TypeOK, Rejection
        <3>4. QED
            BY <1>0, <3>2, <3>3 DEF Belongs
    <2>3. i <= current \/ i = current + 1
        <3>1. i \in Nat /\ current \in Nat /\ i <= current + 1
            BY <1>0
        <3>2. QED
            BY <3>1
    <2>4. QED
        BY <2>1, <2>2, <2>3
<1>9. QED
    BY <1>5, <1>6, <1>7, <1>8 DEF RInv

-----------------------------------------------------------------------------
(* RInv is inductive.                                                      *)
LEMMA RStepInv == RInv /\ [RNext]_rvars => RInv'
<1> SUFFICES ASSUME RInv, [RNext]_rvars
             PROVE  RInv'
    OBVIOUS
<1>1. CASE UNCHANGED rvars
    <2>1. UNCHANGED vars /\ UNCHANGED reload /\ UNCHANGED lapsed
        BY <1>1 DEF rvars
    <2>2. Inv'
        BY <2>1, StepInv DEF RInv
    <2>3. QED
        BY <2>1, <2>2 DEF RInv, Inv, RTypeOK, Fresh, Building, Belongs, vars, reload
<1>2. QED
    BY <1>1, CycleKeeps, LockKeeps, SetClientsKeeps, CallKeeps, EnvironmentKeeps DEF RNext

(* The inductive invariant holds in every reachable state.                 *)
THEOREM ReloadInvariance == RSpec => []RInv
<1>1. QED
    BY RInitInv, RStepInv, PTL DEF RSpec

(* Every reachable state of the clients, their calls and the loop's mutex  *)
(* has its type; no call runs on a client that is not installed yet.       *)
THEOREM ReloadTypeCorrect == RSpec => []RTypeOK
<1>1. RInv => RTypeOK
    BY DEF RInv
<1>2. QED
    BY <1>1, ReloadInvariance, PTL

(* carryAuthCooldown: whatever calls were running when the clients were    *)
(* replaced, and however often they were, a cooldown in force was caused   *)
(* by the target name, credential and transports that it now holds back.   *)
THEOREM CooldownIsOwn == RSpec => []CooldownBelongsToCredential
<1>1. RInv => CooldownBelongsToCredential
    BY DEF RInv, Inv, TypeOK, Belongs, CooldownBelongsToCredential
<1>2. QED
    BY <1>1, ReloadInvariance, PTL

(* What a client promises survives the reloads: each client, the replaced  *)
(* ones with calls still running included, switches at most once.          *)
THEOREM ReloadsDoNotFlap == RSpec => []NoFlapping
<1>1. RInv => NoFlapping
    BY DEF RInv, Inv, Detection, NoFlapping
<1>2. QED
    BY <1>1, ReloadInvariance, PTL

(* The same of the appliance's lockout counter: a cooldown taken over from *)
(* the client before never lets a fourth rejection into one window.        *)
THEOREM ReloadsKeepTheBudget == RSpec => []LockoutBudget
<1>1. RInv => LockoutBudget
    BY DEF RInv, Inv, Budget, Pending, InOrder, LockoutBudget
<1>2. QED
    BY <1>1, ReloadInvariance, PTL

-----------------------------------------------------------------------------
(* The rejections of a client that has none beyond its cooldown: each one  *)
(* is within it, or its call is about to start it.                         *)
AllWithin(i, t) == \A k \in DOMAIN recent[i][t] : recent[i][t][k] <= left[i]

Kept ==
    \A i \in Incarnations \ lapsed, t \in Transports :
        AllWithin(i, t) \/ \E c \in Callers : NotingRejection(c, i, t)

SameSince(j, i) == \A k \in j..i : config[k] = config[i]

(* Rejected on an earlier client of the same config, with the window open. *)
Remembered(j, t) == SameSince(j, current) /\ recent[j][t] # <<>>

(* While the appliance remembers a rejection of an earlier client that has *)
(* none beyond its cooldown, the installed one is in a cooldown that lasts *)
(* as long, and sends nothing.                                             *)
Barred ==
    \A j \in (1..(current - 1)) \ lapsed, t \in Transports : Remembered(j, t) =>
        /\ \A k \in DOMAIN recent[j][t] : recent[j][t][k] <= left[current]
        /\ \A u \in Transports : recent[current][u] = <<>>
        /\ \A c \in Callers : pc[c] \in {"idle", "check", "return"}

NotAgain == \A i \in Incarnations : i <= current => ~RejectedAgain(i)

Held ==
    ~overlapped => /\ \A c \in Callers : pc[c] # "idle" => on[c] = current
                   /\ Barred
                   /\ NotAgain

-----------------------------------------------------------------------------
(* Installed clients are numbered without a gap.                           *)
LEMMA Earlier ==
    ASSUME NEW i \in Incarnations, NEW j \in 1..i
    PROVE  j \in Incarnations /\ i \in Nat /\ j \in Nat
    BY IncarnationsAssumption

(* Where a call of a client may leave a rejection.                         *)
LEMMA Marks ==
    ASSUME TypeOK, NEW c \in Callers, Step(c), NEW i \in Incarnations, NEW t \in Transports
    PROVE  \/ recent'[i][t] = recent[i][t]
           \/ i = on[c] /\ t = via[c] /\ pc[c] \in {"probe", "request", "alternate"}
<1>1. ASSUME NEW r, Answered(c, r), pc[c] \in {"probe", "request", "alternate"}
      PROVE  recent'[i][t] = recent[i][t] \/ (i = on[c] /\ t = via[c])
    BY <1>1, AnswerMarks
<1>2. CASE ProbeAccepted(c) \/ ProbeFallsBack(c) \/ ProbeFails(c) \/ ActiveAnswers(c)
             \/ AlternateFails(c) \/ AlternateAccepted(c)
    BY <1>1, <1>2 DEF ProbeAccepted, ProbeFallsBack, ProbeFails, ActiveAnswers,
         AlternateFails, AlternateAccepted
<1>3. CASE NoteAuthResult(c)
    BY <1>3 DEF NoteAuthResult
<1>4. CASE CheckCooldown(c) \/ UseActive(c) \/ StartProbe(c) \/ TakeXML(c) \/ StartAlternate(c)
             \/ GiveUp(c) \/ Switch(c) \/ Return(c)
    BY <1>4 DEF CheckCooldown, CheckCooldownWhen, UseActive, StartProbe, TakeXML,
         StartAlternate, GiveUp, Switch, Return
<1>5. QED
    BY <1>2, <1>3, <1>4 DEF Step

(* A tick shortens what a cooldown outlasts as much as the cooldown.       *)
LEMMA AgedWithin ==
    ASSUME NEW s \in Seq(1..Cooldown), InOrder(s), NEW l \in 0..Cooldown,
           \A k \in DOMAIN s : s[k] <= l
    PROVE  \A k \in DOMAIN Aged(s) : Aged(s)[k] <= TickOf(l)
<1>1. Outlasted(s, 0, l)
    <2>1. Len(s) - 0 = Len(s) /\ DOMAIN s = 1..Len(s)
        BY Entries
    <2>2. QED
        BY <2>1 DEF Outlasted
<1>2. Aged(s) \in Seq(1..Cooldown) /\ InOrder(Aged(s)) /\ Outlasted(Aged(s), 0, TickOf(l))
    BY <1>1, AgedInOrder
<1>3. Len(Aged(s)) - 0 = Len(Aged(s)) /\ DOMAIN Aged(s) = 1..Len(Aged(s))
    BY <1>2, Entries
<1>4. QED
    BY <1>2, <1>3 DEF Outlasted

(* A rejection that is remembered lasts for at least one tick.             *)
LEMMA WindowIsOpen ==
    ASSUME RInv, Barred, NEW j \in (1..(current - 1)) \ lapsed, NEW t \in Transports, Remembered(j, t)
    PROVE  left[current] > 0 /\ left[current] \in Nat
<1>1. /\ j \in Incarnations
      /\ left[current] \in 0..Cooldown /\ Cooldown \in Nat
      /\ recent[j][t] \in Seq(1..Cooldown)
    BY Earlier, Numbers, CooldownAssumption DEF RInv, Inv, RTypeOK, TypeOK
<1>2. 1 \in DOMAIN recent[j][t] /\ recent[j][t][1] \in 1..Cooldown
    <2> DEFINE S == 1..Cooldown
    <2>1. recent[j][t] \in Seq(S) /\ recent[j][t] # <<>>
        BY <1>1 DEF Remembered
    <2> HIDE DEF S
    <2>2. 1 \in DOMAIN recent[j][t] /\ recent[j][t][1] \in S
        BY <2>1
    <2>3. QED
        BY <2>2 DEF S
<1>3. recent[j][t][1] <= left[current]
    BY <1>2 DEF Barred
<1>4. QED
    BY <1>1, <1>2, <1>3

(* The installed client has no rejection in common with an earlier one.    *)
LEMMA BarredNow == Barred => ~RejectedAgain(current)
    BY DEF Barred, RejectedAgain, Remembered, SameSince

(* Only a call of the installed client lets it lapse; another client that  *)
(* no longer has nothing left to remember.                                 *)
LEMMA LapsedStays ==
    ASSUME NEW fresh, Lapses(fresh), NEW i \in Incarnations \ lapsed', i \notin lapsed => i \in fresh
    PROVE  \A t \in Transports : recent'[i][t] = <<>>
    BY DEF Lapses

(* A step of a call: it is on the installed client.  If that is barred,    *)
(* the call meets the cooldown, or returns.                                *)
LEMMA CallHeld ==
    ASSUME RInv, Held, NEW c \in Callers, Call(c)
    PROVE  Held'
<1> SUFFICES ASSUME ~overlapped
             PROVE  /\ \A d \in Callers : pc'[d] # "idle" => on'[d] = current'
                    /\ Barred' /\ NotAgain'
    BY DEF Held, reload, Call
<1>0. /\ TypeOK /\ RTypeOK /\ Barred /\ NotAgain /\ on[c] = current /\ current \in Incarnations
      /\ Step(c)
      /\ UNCHANGED <<current, config, on>>
      /\ \A d \in Callers : pc'[d] # "idle" => on[d] = current
    BY StepStays DEF RInv, RTypeOK, Inv, Held, reload, Call
<1>1. ASSUME NEW i \in Incarnations, i # current, NEW t \in Transports
      PROVE  recent'[i][t] = recent[i][t]
    BY <1>0, <1>1, Marks
<1>2. ASSUME NEW j \in 1..(current - 1)
      PROVE  j \in Incarnations /\ j # current
    <2>1. current \in Nat /\ 1..current \subseteq Incarnations
        BY <1>0, IncarnationsAssumption
    <2>2. QED
        BY <2>1
<1>3. ASSUME NEW j \in Incarnations, j # current, j \notin lapsed', NEW t \in Transports,
             recent[j][t] # <<>>
      PROVE  j \notin lapsed
    BY <1>0, <1>1, <1>3 DEF Call, Lapses
<1>4. ASSUME NEW j \in (1..(current - 1)) \ lapsed, NEW t \in Transports, Remembered(j, t)
      PROVE  /\ UNCHANGED <<left, recent>>
             /\ \A d \in Callers : pc'[d] \in {"idle", "check", "return"}
    <2>1. left[current] > 0
        BY <1>0, <1>4, WindowIsOpen
    <2>2. \A d \in Callers : pc[d] \in {"idle", "check", "return"}
        BY <1>0, <1>4 DEF Barred
    <2>3. CheckCooldown(c) \/ Return(c)
        BY <1>0, <2>2 DEF Step, UseActive, StartProbe,
             TakeXML, ProbeAccepted, ProbeFallsBack, ProbeFails, ActiveAnswers, NoteAuthResult,
             StartAlternate, GiveUp, AlternateFails, AlternateAccepted, Switch
    <2>4. QED
        BY <1>0, <2>1, <2>2, <2>3 DEF CheckCooldown, CheckCooldownWhen, Return, client, TypeOK
<1>5. Barred'
    BY <1>0, <1>1, <1>2, <1>3, <1>4 DEF Barred, Remembered, SameSince
<1>6. ~RejectedAgain(current)'
    BY <1>5, BarredNow, PTL
<1>7. ASSUME NEW i \in Incarnations, i <= current, i # current
      PROVE  ~RejectedAgain(i)'
    <2>1. \A j \in 1..(i - 1) : j \in Incarnations /\ j # current
        BY <1>0, <1>7, Earlier, IncarnationsAssumption
    <2>2. ~RejectedAgain(i)
        BY <1>0, <1>7 DEF NotAgain
    <2>3. QED
        BY <1>0, <1>1, <1>3, <1>7, <2>1, <2>2 DEF RejectedAgain
<1>8. QED
    BY <1>0, <1>5, <1>6, <1>7 DEF NotAgain

(* A tick shortens the cooldown and what it outlasts alike.                *)
LEMMA EnvironmentHeld ==
    ASSUME RInv, Held, Surroundings
    PROVE  Held'
<1> SUFFICES ASSUME ~overlapped
             PROVE  /\ \A d \in Callers : pc'[d] # "idle" => on'[d] = current'
                    /\ Barred' /\ NotAgain'
    BY DEF Held, reload, Surroundings
<1>0. /\ TypeOK /\ RTypeOK /\ Budget /\ Barred /\ NotAgain /\ current \in Incarnations
      /\ UNCHANGED <<current, config, on, pc>>
      /\ \A d \in Callers : pc[d] # "idle" => on[d] = current
    BY DEF RInv, RTypeOK, Inv, Held, reload, Surroundings, Environment, Timeout, Tick, ApplianceRecovers, calls
<1>1. ASSUME NEW i \in Incarnations, NEW t \in Transports
      PROVE  /\ recent[i][t] = <<>> => recent'[i][t] = <<>>
             /\ (\A k \in DOMAIN recent[i][t] : recent[i][t][k] <= left[current]) =>
                   \A k \in DOMAIN recent'[i][t] : recent'[i][t][k] <= left'[current]
    <2>1. CASE UNCHANGED <<left, recent>>
        BY <2>1
    <2>2. CASE Tick
        <3>1. /\ recent'[i][t] = Aged(recent[i][t]) /\ left'[current] = TickOf(left[current])
              /\ left[current] \in 0..Cooldown
              /\ recent[i][t] \in Seq(1..Cooldown)
              /\ InOrder(recent[i][t])
            BY <1>0, <2>2 DEF Tick, TickOf, TypeOK, Budget, Pending
        <3>2. (\A k \in DOMAIN recent[i][t] : recent[i][t][k] <= left[current]) =>
                 \A k \in DOMAIN Aged(recent[i][t]) : Aged(recent[i][t])[k] <= TickOf(left[current])
            BY <3>1, AgedWithin
        <3>3. QED
            BY <3>1, <3>2, AgedEmpty
    <2>3. QED
        BY <2>1, <2>2 DEF Surroundings, Environment, Timeout, ApplianceRecovers, client
<1>2. \A i \in Incarnations : \A j \in 1..(i - 1) : j \in Incarnations
    BY IncarnationsAssumption
<1>3. \A j \in Incarnations \ lapsed', t \in Transports : recent'[j][t] # <<>> => j \notin lapsed
    BY DEF Surroundings, Lapses
<1>4. Barred'
    BY <1>0, <1>1, <1>2, <1>3 DEF Barred, Remembered, SameSince
<1>5. NotAgain'
    BY <1>0, <1>1, <1>2, <1>3 DEF NotAgain, RejectedAgain
<1>6. QED
    BY <1>0, <1>4, <1>5

(* A cycle starts on the installed client, with the test of its cooldown.  *)
LEMMA CycleHeld ==
    ASSUME RInv, Held, Cycle
    PROVE  Held'
<1>1. /\ UNCHANGED <<current, config, overlapped, left, recent, lapsed>>
      /\ \A c \in Callers : pc'[c] = "check" /\ on'[c] = current
    BY DEF Cycle, BeginCycle, reload, client
<1>2. QED
    BY <1>1 DEF Held, Barred, NotAgain, Remembered, SameSince, RejectedAgain

(* Building a client says nothing of the ones that are installed.          *)
LEMMA LockHeld ==
    ASSUME RInv, Held, LockClients
    PROVE  Held'
<1> SUFFICES ASSUME ~overlapped
             PROVE  /\ \A d \in Callers : pc'[d] # "idle" => on'[d] = current'
                    /\ Barred' /\ NotAgain'
    BY DEF Held, LockClients
<1>1. PICK k \in Configs : config' = [config EXCEPT ![current + 1] = k]
    BY DEF LockClients
<1>2. /\ RTypeOK /\ Barred /\ NotAgain /\ current \in Incarnations /\ current \in Nat
      /\ UNCHANGED <<left, recent, pc, on, current, lapsed>>
      /\ \A d \in Callers : pc[d] # "idle" => on[d] = current
    BY Numbers DEF RInv, RTypeOK, Held, LockClients, calls
<1>3. ASSUME NEW i \in Incarnations, i <= current
      PROVE  config'[i] = config[i]
    BY <1>1, <1>2, <1>3 DEF RTypeOK
<1>4. ASSUME NEW i \in Incarnations, i <= current, NEW j \in 1..i
      PROVE  SameSince(j, i)' <=> SameSince(j, i)
    <2>1. \A h \in j..i : h \in Incarnations /\ h <= current
        BY <1>2, <1>4, IncarnationsAssumption
    <2>2. QED
        BY <1>3, <1>4, <2>1 DEF SameSince
<1>5. Barred'
    <2>1. \A j \in 1..(current - 1) : j \in 1..current
        BY <1>2
    <2>2. \A j \in 1..(current - 1) : SameSince(j, current)' <=> SameSince(j, current)
        BY <1>2, <1>4, <2>1
    <2>3. QED
        BY <1>2, <2>2 DEF Barred, Remembered, SameSince
<1>6. ASSUME NEW i \in Incarnations, i <= current
      PROVE  ~RejectedAgain(i)'
    <2>1. \A j \in 1..(i - 1) : j \in 1..i
        BY <1>6, IncarnationsAssumption
    <2>2. \A j \in 1..(i - 1) : SameSince(j, i)' <=> SameSince(j, i)
        BY <1>4, <1>6, <2>1
    <2>3. ~RejectedAgain(i)
        BY <1>2, <1>6 DEF NotAgain
    <2>4. QED
        BY <1>2, <2>2, <2>3 DEF RejectedAgain, SameSince
<1>7. QED
    BY <1>2, <1>5, <1>6 DEF NotAgain

(* The next client is installed: all that a client at rest has been        *)
(* rejected for is within its cooldown, which the next one takes over.     *)
LEMMA SetClientsHeld ==
    ASSUME RInv, Kept, Held, SetClients
    PROVE  Held'
<1> DEFINE n == current + 1
<1>0. /\ TypeOK /\ RTypeOK /\ Fresh
      /\ current \in Incarnations /\ n \in Incarnations
      /\ current \in Nat /\ n > current /\ n - 1 = current
      /\ 1..n \subseteq Incarnations
      /\ current' = n
      /\ overlapped' = (overlapped \/ \E c \in Callers : pc[c] # "idle")
      /\ UNCHANGED <<recent, config, pc, on, lapsed>>
    BY Numbers, IncarnationsAssumption DEF RInv, Inv, RTypeOK, Building, SetClients,
         CarryCooldown, CarryNone, Replace, calls
<1> SUFFICES ASSUME ~overlapped, \A c \in Callers : pc[c] = "idle"
             PROVE  /\ \A d \in Callers : pc'[d] # "idle" => on'[d] = current'
                    /\ Barred' /\ NotAgain'
    BY <1>0 DEF Held
<1>1. Barred /\ NotAgain
    BY DEF Held
<1>2. \A u \in Transports : recent[n][u] = <<>>
    BY <1>0 DEF Fresh
<1>3. ASSUME NEW j \in (1..current) \ lapsed, NEW t \in Transports, SameSince(j, n),
             recent[j][t] # <<>>
      PROVE  \A k \in DOMAIN recent[j][t] : recent[j][t][k] <= left'[n]
    <2>0. j \in Incarnations /\ j <= current /\ j \in Nat /\ current \in j..n /\ n \in j..n
        BY <1>0
    <2>1. config[current] = config[n]
        BY <2>0, <1>3 DEF SameSince
    <2>2. SameTarget(current, n)
        BY <2>1 DEF SameTarget, SameName
    <2>3. left'[n] = left[current]
        <3>1. left' = [left EXCEPT ![n] = left[current]]
            BY <2>2 DEF SetClients, CarryCooldown, CarryNone
        <3>2. QED
            BY <1>0, <3>1 DEF TypeOK
    <2>4. CASE j = current
        BY <1>0, <1>3, <2>3, <2>4 DEF Kept, NotingRejection, AllWithin
    <2>5. CASE j # current
        <3>1. j \in (1..(current - 1)) \ lapsed
            BY <1>0, <2>0, <2>5
        <3>2. SameSince(j, current)
            <4>1. \A k \in j..current : k \in j..n
                BY <1>0, <2>0
            <4>2. QED
                BY <1>3, <2>1, <4>1 DEF SameSince
        <3>3. QED
            BY <1>1, <1>3, <2>3, <3>1, <3>2 DEF Barred, Remembered
    <2>6. QED
        BY <2>4, <2>5
<1>4. Barred'
    BY <1>0, <1>2, <1>3 DEF Barred, Remembered, SameSince
<1>5. ~RejectedAgain(current)'
    BY <1>4, BarredNow, PTL
<1>6. ASSUME NEW i \in Incarnations, i <= n, i # n
      PROVE  ~RejectedAgain(i)'
    <2>1. i <= current
        BY <1>0, <1>6, IncarnationsAssumption
    <2>2. ~RejectedAgain(i)
        BY <1>1, <2>1 DEF NotAgain
    <2>3. QED
        BY <1>0, <2>2 DEF RejectedAgain
<1>7. QED
    BY <1>0, <1>4, <1>5, <1>6 DEF NotAgain

-----------------------------------------------------------------------------
(* Nothing has been rejected at start-up.                                  *)
LEMMA KeptInit == RInit => Kept
    BY DEF RInit, Init, Kept, AllWithin

(* A call whose step records a rejection is the one that notes it next.    *)
LEMMA CallKept ==
    ASSUME RInv, Kept, NEW c \in Callers, Call(c)
    PROVE  Kept'
<1>0. /\ Step(c) /\ TypeOK /\ on[c] \in Incarnations /\ UNCHANGED on
      /\ Cooldown \in Nat
      /\ \A i \in Incarnations, t \in Transports : recent[i][t] \in Seq(1..Cooldown)
    BY StepStays, CooldownAssumption DEF RInv, Inv, TypeOK, Call
<1>1. ASSUME NEW d \in Callers, d # c
      PROVE  pc'[d] = pc[d] /\ via'[d] = via[d] /\ err'[d] = err[d]
    BY <1>0, <1>1 DEF TypeOK, calls, Step, Request, CheckCooldown, CheckCooldownWhen,
         UseActive, StartProbe, TakeXML, ProbeAccepted, ProbeFallsBack, ProbeFails,
         ActiveAnswers, NoteAuthResult, StartAlternate, GiveUp, AlternateFails,
         AlternateAccepted, Switch, Return
<1> SUFFICES ASSUME NEW i \in Incarnations \ lapsed', NEW t \in Transports, recent'[i][t] # <<>>
             PROVE  AllWithin(i, t)' \/ \E d \in Callers : NotingRejection(d, i, t)'
    BY DEF Kept, AllWithin
<1>2. i \notin lapsed /\ (i = on[c] => ~Unrecorded(c) /\ ~Overruled(c))
    BY DEF Call, Lapses
<1>3. ASSUME ~NotingRejection(c, i, t), left'[i] = left[i], recent'[i][t] = recent[i][t]
      PROVE  AllWithin(i, t)' \/ \E d \in Callers : NotingRejection(d, i, t)'
    <2>1. CASE AllWithin(i, t)
        BY <1>3, <2>1 DEF AllWithin
    <2>2. ASSUME NEW d \in Callers, NotingRejection(d, i, t)
          PROVE  NotingRejection(d, i, t)'
        BY <1>0, <1>1, <1>3, <2>2 DEF NotingRejection
    <2>3. AllWithin(i, t) \/ \E d \in Callers : NotingRejection(d, i, t)
        BY <1>2 DEF Kept
    <2>4. QED
        BY <2>1, <2>2, <2>3
<1>4. CASE ProbeFails(c) \/ ActiveAnswers(c)
    <2>1. PICK r : /\ Answered(c, r) /\ err' = [err EXCEPT ![c] = r]
                   /\ r = "auth" => pc'[c] = "note"
        BY <1>0, <1>4 DEF ProbeFails, ActiveAnswers, TypeOK
    <2>2. UNCHANGED <<left, via>> /\ ~NotingRejection(c, i, t)
        BY <1>4 DEF ProbeFails, ActiveAnswers, client, NotingRejection
    <2>3. CASE r = "auth" /\ i = on[c] /\ t = via[c]
        BY <1>0, <2>1, <2>2, <2>3 DEF NotingRejection, TypeOK
    <2>4. CASE ~(r = "auth" /\ i = on[c] /\ t = via[c])
        BY <1>0, <1>3, <2>1, <2>2, <2>4, AnswerMarks
    <2>5. QED
        BY <2>3, <2>4
<1>5. CASE NoteAuthResult(c) /\ err[c] = "auth"
    <2>1. left' = [left EXCEPT ![on[c]] = Cooldown] /\ UNCHANGED recent
        BY <1>5 DEF NoteAuthResult
    <2>2. CASE i = on[c]
        BY <1>0, <2>1, <2>2 DEF AllWithin, TypeOK
    <2>3. CASE i # on[c]
        BY <1>0, <1>3, <2>1, <2>3 DEF NotingRejection, TypeOK
    <2>4. QED
        BY <2>2, <2>3
<1>6. CASE NoteAuthResult(c) /\ err[c] = "ok"
    <2>1. left' = [left EXCEPT ![on[c]] = 0] /\ UNCHANGED recent
        BY <1>6 DEF NoteAuthResult, ClearFailure
    <2>2. CASE i = on[c]
        <3>1. PICK d \in Callers : NotingRejection(d, i, t)
            BY <1>2, <1>6, <2>1, <2>2 DEF Overruled
        <3>2. d # c
            BY <1>6, <3>1 DEF NotingRejection
        <3>3. QED
            BY <1>0, <1>1, <3>1, <3>2 DEF NotingRejection
    <2>3. CASE i # on[c]
        BY <1>0, <1>3, <2>1, <2>3 DEF NotingRejection, TypeOK
    <2>4. QED
        BY <2>2, <2>3
<1>7. CASE NoteAuthResult(c) /\ err[c] \notin {"auth", "ok"}
    BY <1>3, <1>7 DEF NoteAuthResult, NotingRejection
<1>8. CASE ProbeFallsBack(c) \/ AlternateFails(c)
    <2>1. UNCHANGED left /\ ~NotingRejection(c, i, t)
        BY <1>8 DEF ProbeFallsBack, AlternateFails, client, NotingRejection
    <2>2. PICK r \in {"auth", "unsupported", "hard"} : Answered(c, r)
        BY <1>8 DEF ProbeFallsBack, AlternateFails, Outcomes
    <2>3. ASSUME i = on[c], r = "auth"
          PROVE  FALSE
        <3>1. via[c] \in Transports /\ recent[i][via[c]] \in Seq(1..Cooldown) /\ Cooldown \in 1..Cooldown
            BY <1>0, CooldownAssumption DEF TypeOK
        <3>2. recent'[i][via[c]] = Append(recent[i][via[c]], Cooldown)
            <4>1. Answered(c, "auth") /\ i = on[c]
                BY <2>2, <2>3
            <4>2. QED
                BY <1>0, <4>1, RejectionMarks
        <3>3. Len(recent'[i][via[c]]) > Len(recent[i][via[c]])
            <4> DEFINE S == 1..Cooldown
            <4>1. recent[i][via[c]] \in Seq(S) /\ Cooldown \in S
                BY <3>1
            <4> HIDE DEF S
            <4>2. /\ Len(Append(recent[i][via[c]], Cooldown)) = Len(recent[i][via[c]]) + 1
                  /\ Len(recent[i][via[c]]) \in Nat
                BY <4>1, AppendProperties, LenProperties
            <4>3. QED
                BY <3>2, <4>2
        <3>4. QED
            BY <1>2, <1>8, <2>3, <3>1, <3>3 DEF Unrecorded
    <2>4. recent'[i][t] = recent[i][t]
        BY <1>0, <2>2, <2>3, AnswerMarks
    <2>5. QED
        BY <1>3, <2>1, <2>4
<1>9. CASE ProbeAccepted(c) \/ AlternateAccepted(c)
    <2>1. UNCHANGED left /\ ~NotingRejection(c, i, t) /\ Answered(c, "ok")
        BY <1>9 DEF ProbeAccepted, AlternateAccepted, client, NotingRejection
    <2>2. recent'[i][t] = recent[i][t]
        BY <1>0, <2>1, AnswerMarks
    <2>3. QED
        BY <1>3, <2>1, <2>2
<1>10. CASE CheckCooldown(c) \/ UseActive(c) \/ StartProbe(c) \/ TakeXML(c) \/ StartAlternate(c)
             \/ GiveUp(c) \/ Switch(c) \/ Return(c)
    <2>1. UNCHANGED <<left, recent>>
        BY <1>10 DEF CheckCooldown, CheckCooldownWhen, UseActive, StartProbe, TakeXML,
             StartAlternate, GiveUp, Switch, Return, client
    <2>2. ~NotingRejection(c, i, t)
        BY <1>10 DEF NotingRejection, CheckCooldown, CheckCooldownWhen, UseActive, StartProbe,
             TakeXML, StartAlternate, GiveUp, Switch, Return
    <2>3. QED
        BY <1>3, <2>1, <2>2
<1>11. QED
    BY <1>0, <1>4, <1>5, <1>6, <1>7, <1>8, <1>9, <1>10 DEF Step

(* A tick shortens what it remembers and the cooldown over it alike.       *)
LEMMA EnvironmentKept ==
    ASSUME RInv, Kept, Surroundings
    PROVE  Kept'
<1>0. TypeOK /\ Budget /\ UNCHANGED <<pc, on, via, err>> /\ Environment
    BY DEF RInv, Inv, Surroundings, Environment, Timeout, Tick, ApplianceRecovers, calls
<1>1. \A i \in Incarnations \ lapsed', t \in Transports : recent'[i][t] # <<>> => i \notin lapsed
    BY DEF Surroundings, Lapses
<1>2. CASE UNCHANGED <<left, recent>>
    BY <1>0, <1>1, <1>2 DEF Kept, AllWithin, NotingRejection
<1>3. CASE Tick
    <2>1. ASSUME NEW i \in Incarnations, NEW t \in Transports, AllWithin(i, t)
          PROVE  AllWithin(i, t)'
        <3>1. /\ recent'[i][t] = Aged(recent[i][t]) /\ left'[i] = TickOf(left[i])
              /\ left[i] \in 0..Cooldown
              /\ recent[i][t] \in Seq(1..Cooldown)
              /\ InOrder(recent[i][t])
            BY <1>0, <1>3 DEF Tick, TickOf, TypeOK, Budget, Pending
        <3>2. QED
            BY <2>1, <3>1, AgedWithin DEF AllWithin
    <2>2. QED
        BY <1>0, <1>1, <2>1 DEF Kept, NotingRejection, AllWithin
<1>4. QED
    BY <1>0, <1>2, <1>3 DEF Environment, Timeout, ApplianceRecovers, client

(* Kept is inductive beside RInv.                                          *)
LEMMA KeptStep == RInv /\ Kept /\ [RNext]_rvars => Kept'
<1> SUFFICES ASSUME RInv, Kept, [RNext]_rvars
             PROVE  Kept'
    OBVIOUS
<1>1. CASE UNCHANGED rvars
    BY <1>1 DEF rvars, vars, Kept, AllWithin, NotingRejection
<1>2. CASE Cycle
    <2>1. /\ \A c \in Callers : pc[c] = "idle"
          /\ UNCHANGED <<left, recent, lapsed>>
        BY <1>2 DEF Cycle, BeginCycle, client
    <2>2. QED
        BY <2>1 DEF Kept, AllWithin, NotingRejection
<1>3. CASE LockClients
    <2>1. UNCHANGED <<left, recent, pc, on, via, err, lapsed>>
        BY <1>3 DEF LockClients, calls
    <2>2. QED
        BY <2>1 DEF Kept, AllWithin, NotingRejection
<1>4. CASE SetClients
    <2>0. /\ current + 1 \in Incarnations /\ current + 1 > current
          /\ UNCHANGED <<recent, pc, on, via, err, lapsed>>
        BY <1>4, Numbers DEF RInv, Building, SetClients, CarryCooldown, CarryNone, Replace, calls
    <2>1. ASSUME NEW i \in Incarnations, NEW t \in Transports, AllWithin(i, t)
          PROVE  AllWithin(i, t)'
        <3>1. CASE i = current + 1
            BY <2>0, <3>1 DEF RInv, Fresh, AllWithin
        <3>2. CASE i # current + 1
            BY <1>4, <2>0, <2>1, <3>2 DEF SetClients, CarryCooldown, CarryNone, AllWithin,
                 RInv, Inv, TypeOK
        <3>3. QED
            BY <3>1, <3>2
    <2>2. QED
        BY <2>0, <2>1 DEF Kept, NotingRejection
<1>5. QED
    BY <1>1, <1>2, <1>3, <1>4, CallKept, EnvironmentKept DEF RNext

-----------------------------------------------------------------------------
(* Before the first reload there is no earlier client.                     *)
LEMMA HeldInit == RInit => Held
<1> SUFFICES ASSUME RInit
             PROVE  Held
    OBVIOUS
<1>1. current = 1 /\ \A c \in Callers : pc[c] = "idle"
    BY DEF RInit, Init
<1>2. \A i \in Incarnations : i <= 1 => 1..(i - 1) = {}
    BY IncarnationsAssumption
<1>3. 1..(1 - 1) = {}
    OBVIOUS
<1>4. Barred /\ NotAgain
    BY <1>1, <1>2, <1>3 DEF Barred, NotAgain, RejectedAgain
<1>5. QED
    BY <1>1, <1>4 DEF Held

(* Held is inductive beside RInv and Kept.                                 *)
LEMMA HeldStep == RInv /\ Kept /\ Held /\ [RNext]_rvars => Held'
<1> SUFFICES ASSUME RInv, Kept, Held, [RNext]_rvars
             PROVE  Held'
    OBVIOUS
<1>1. CASE UNCHANGED rvars
    BY <1>1 DEF rvars, vars, reload, Held, Barred, NotAgain, Remembered, SameSince, RejectedAgain
<1>2. QED
    BY <1>1, CycleHeld, LockHeld, SetClientsHeld, CallHeld, EnvironmentHeld DEF RNext

(* carryAuthCooldown: when the clients are replaced between cycles, no     *)
(* number of reloads that leave a target's config alone buys the appliance *)
(* a second login with a credential it rejected less than a window ago.    *)
(* The clients that ClientReload counts as lapsed are what it leaves out:  *)
(* their rejection is in no cooldown that could be carried over.           *)
THEOREM QuietReloads == RSpec => []QuietReloadCostsNoLogin
<1>1. RInv /\ Held => QuietReloadCostsNoLogin
    <2> SUFFICES ASSUME RInv, Held, ~overlapped, NEW i \in Incarnations
                 PROVE  ~RejectedAgain(i)
        BY DEF QuietReloadCostsNoLogin
    <2>1. CASE i <= current
        BY <2>1 DEF Held, NotAgain
    <2>2. CASE ~(i <= current)
        <3>1. i > current
            BY <2>2, Numbers DEF RInv
        <3>2. QED
            BY <3>1 DEF RInv, Fresh, RejectedAgain
    <2>3. QED
        BY <2>1, <2>2
<1>2. QED
    BY <1>1, HeldInit, HeldStep, KeptInit, KeptStep, ReloadInvariance, PTL DEF RSpec
=============================================================================

--------------------------- MODULE PollingProofs ----------------------------
(***************************************************************************)
(* One Do against any appliance: how often it can be rejected, and that    *)
(* SystemClient.tla, which takes a Do's outcome from Wire!Verdicts, leaves *)
(* none out.  Then what any payload becomes: which samples, with which     *)
(* labels and values.                                                      *)
(*                                                                         *)
(* The invariant counts the rejections by the request that Do waits for.   *)
(* None is spent before the first command is answered: a login that is     *)
(* rejected brings no token, and what resty repeats were no rejections.    *)
(*                                                                         *)
(* The samples of a payload are flattened lists.  What is in one follows   *)
(* by induction on the partial concatenations (Flattened); after that a    *)
(* sample is known by the row it comes from (SampleRows), and the          *)
(* properties speak of rows.                                               *)
(***************************************************************************)
EXTENDS Polling, FiniteSetTheorems, SequenceTheorems, WellFoundedInduction, TLAPS

(* What Do itself is made of: TypeOK without the payload and its samples.  *)
Typed == /\ wire \in {"xml", "json"}
         /\ at \in Steps \cup {"decided", "derived"}
         /\ tries \in 1..MaxTries
         /\ last \in Responses
         /\ verdict \in {"ok", "auth", "unsupported", "hard"}
         /\ rejected \in [Kinds -> Nat]

(* Rejections so far, by the request under way.                            *)
Spent == /\ at \in {"login", "command"} => rejected["login"] = 0 /\ rejected["command"] = 0
         /\ at \in {"relogin", "recommand"} => rejected["login"] = 0 /\ rejected["command"] = 1
         /\ wire = "xml" => at \in {"command", "decided", "derived"}

(* The verdict is that of the last response, and one that SystemClient     *)
(* knows of.                                                               *)
Undecided == at \in Steps => verdict = "ok"

OutcomeIsModelled == at \in {"decided", "derived"} => verdict \in Verdicts[wire]

Inv == /\ Typed /\ Spent /\ Undecided
       /\ RejectionsPerDo /\ OutcomeIsModelled

-----------------------------------------------------------------------------
(* A response: only an envelope of the wire says more than its status.     *)
LEMMA ResponseShape ==
  ASSUME NEW r \in Responses
  PROVE  /\ r.status \in {0, 200, 400, 401, 403, 404, 500}
         /\ r.form \in {"ours", "cut", "other"}
         /\ r.code \in {"ok", "rejected", "failed"}
         /\ r.error \in BOOLEAN
         /\ r.data \in {"usable", "none", "misshapen"}
         /\ r.form # "ours" => r.code = "ok" /\ r.data = "none"
         /\ r.form # "other" => r.status = 200
<1> DEFINE Bares == {Bare(s) : s \in {0, 200, 400, 401, 403, 404, 500}}
           Cuts == {[Bare(200) EXCEPT !.form = "cut"]}
           Envelopes == [status : {200}, form : {"ours"}, code : {"ok", "rejected", "failed"},
                         error : BOOLEAN, data : {"usable", "none", "misshapen"}]
<1>1. CASE r \in Bares
  <2>1. PICK s \in {0, 200, 400, 401, 403, 404, 500} : r = Bare(s)
    BY <1>1
  <2>2. r = [status |-> s, form |-> "other", code |-> "ok", error |-> FALSE, data |-> "none"]
    BY <2>1 DEF Bare
  <2> QED
    BY ONLY <2>1, <2>2
<1>2. CASE r \in Cuts
  <2>1. r = [Bare(200) EXCEPT !.form = "cut"]
    BY <1>2
  <2>2. r = [status |-> 200, form |-> "cut", code |-> "ok", error |-> FALSE, data |-> "none"]
    BY ONLY <2>1 DEF Bare
  <2> QED
    BY ONLY <2>2
<1>3. CASE r \in Envelopes
  BY <1>3
<1>4. Responses = Bares \cup Cuts \cup Envelopes
  BY Zenon DEF Responses
<1> HIDE DEF Bares, Cuts, Envelopes
<1>5. r \in Bares \/ r \in Cuts \/ r \in Envelopes
  BY <1>4
<1> QED
  BY <1>1, <1>2, <1>3, <1>5

(* The verdicts on a response are among the classes of transport.go.       *)
LEMMA VerdictShapes ==
  ASSUME NEW r \in Responses
  PROVE  /\ XMLVerdict(r) \in {"ok", "auth", "hard"}
         /\ JSONVerdict(r) \in {"ok", "auth", "unsupported", "hard"}
         /\ LoginVerdict(r) \in {"ok", "auth", "unsupported", "hard"}
BY DEF XMLVerdict, JSONVerdict, LoginVerdict

(* Each of them is one that Wire!Verdicts has, an expired token included.  *)
LEMMA VerdictsCover ==
  /\ \A r \in Responses : XMLVerdict(r) \in Verdicts["xml"]
  /\ \A r \in Responses : JSONVerdict(r) \in Verdicts["json"] /\ LoginVerdict(r) \in Verdicts["json"]
  /\ "auth" \in Verdicts["json"]
<1>1. Bare(401) \in Responses
  BY DEF Responses
<1>2. LoginVerdict(Bare(401)) = "auth"
  BY DEF LoginVerdict, Bare
<1> QED
  BY <1>1, <1>2 DEF Verdicts

(* What resty sends again was no rejection.                                *)
LEMMA RetriedIsNotRejected ==
  ASSUME NEW r \in Responses, Retryable(r)
  PROVE  ~SaysRejected(r)
<1>1. r.status \in {0, 500} /\ r.code = "ok"
  BY ResponseShape DEF Retryable
<1> QED
  BY <1>1 DEF SaysRejected

(* A login that brings a token was none either.                            *)
LEMMA TokenIsNotRejected ==
  ASSUME NEW r \in MayAnswer, at \in {"login", "relogin"}, LoginVerdict(r) = "ok"
  PROVE  ~SaysRejected(r)
<1>1. r \in Responses /\ (r.code # "ok" => r.data # "usable")
  BY DEF MayAnswer
<1>2. r.status \notin {401, 403, 404} /\ r.data # "misshapen" /\ r.data # "none"
  BY DEF LoginVerdict
<1>3. r.data = "usable"
  BY <1>1, <1>2, ResponseShape
<1> QED
  BY <1>1, <1>2, <1>3, ResponseShape DEF SaysRejected

-----------------------------------------------------------------------------
(* What a response does to Do: the request is sent again, or Do goes on    *)
(* with the next one, or it has its verdict.                               *)
LEMMA AnswerMoves ==
  ASSUME Inv, NEW r \in Responses, Answer(r)
  PROVE  /\ last' = r /\ wire' = wire /\ r \in MayAnswer
         /\ tries' \in 1..MaxTries
         /\ \/ ~SaysRejected(r) /\ at' = at /\ at \in Steps /\ verdict' = verdict
            \/ /\ at = "login" /\ at' = "command" /\ verdict' = verdict
               /\ LoginVerdict(r) = "ok"
            \/ /\ at = "relogin" /\ at' = "recommand" /\ verdict' = verdict
               /\ LoginVerdict(r) = "ok"
            \/ /\ at = "command" /\ at' = "relogin" /\ verdict' = verdict
               /\ wire = "json" /\ r.status = 401
            \/ /\ at \in {"login", "relogin"} /\ at' = "decided"
               /\ verdict' = LoginVerdict(r)
            \/ /\ at = "command" /\ at' = "decided" /\ wire = "xml"
               /\ verdict' = XMLVerdict(r)
            \/ /\ at \in {"command", "recommand"} /\ at' = "decided" /\ wire = "json"
               /\ verdict' \in {JSONVerdict(r), "auth"}
<1>1. /\ last' = r /\ wire' = wire /\ r \in MayAnswer /\ at \in Steps
  BY DEF Answer
<1>2. tries \in Nat /\ 1 <= tries /\ tries <= MaxTries /\ MaxTries = 4
  BY DEF Inv, Typed, MaxTries
<1>3. CASE Retryable(r) /\ tries < MaxTries
  <2>1. tries' = tries + 1 /\ at' = at /\ verdict' = verdict
    BY <1>3 DEF Answer
  <2> QED
    BY <1>1, <1>2, <1>3, <2>1, RetriedIsNotRejected
<1>4. CASE ~(Retryable(r) /\ tries < MaxTries)
  <2>1. CASE at = "login"
    <3>1. AfterLogin(r, "command")
      BY <1>4, <2>1 DEF Answer, Inv, Spent
    <3> QED
      BY <1>1, <1>2, <2>1, <3>1 DEF AfterLogin, Goes, Decides
  <2>2. CASE at = "relogin"
    <3>1. AfterLogin(r, "recommand")
      BY <1>4, <2>2 DEF Answer, Inv, Spent
    <3> QED
      BY <1>1, <1>2, <2>2, <3>1 DEF AfterLogin, Goes, Decides
  <2>3. CASE at \in {"command", "recommand"} /\ wire = "xml"
    <3>1. at = "command"
      BY <2>3 DEF Inv, Spent
    <3>2. Decides(XMLVerdict(r))
      BY <1>4, <2>3, <3>1 DEF Answer
    <3> QED
      BY <1>1, <1>2, <2>3, <3>1, <3>2 DEF Decides
  <2>4. CASE at \in {"command", "recommand"} /\ wire = "json"
    <3>1. \/ at = "command" /\ r.status = 401 /\ Goes("relogin")
          \/ Decides("auth")
          \/ Decides(JSONVerdict(r))
      BY <1>4, <2>4 DEF Answer
    <3> QED
      BY <1>1, <1>2, <2>4, <3>1 DEF Goes, Decides
  <2> QED
    BY <1>1, <2>1, <2>2, <2>3, <2>4 DEF Inv, Typed, Steps
<1> QED
  BY <1>3, <1>4

(* The rejections are counted by the kind of the request that was answered.*)
LEMMA Counted ==
  ASSUME Typed, NEW r \in Responses, Answer(r)
  PROVE  /\ rejected' \in [Kinds -> Nat]
         /\ ~SaysRejected(r) => rejected' = rejected
         /\ at \in {"login", "relogin"} =>
              /\ rejected'["command"] = rejected["command"]
              /\ rejected'["login"] = rejected["login"] + IF SaysRejected(r) THEN 1 ELSE 0
         /\ at \in {"command", "recommand"} =>
              /\ rejected'["login"] = rejected["login"]
              /\ rejected'["command"] = rejected["command"] + IF SaysRejected(r) THEN 1 ELSE 0
<1>1. at \in Steps /\ rejected \in [Kinds -> Nat] /\ Kinds = {"login", "command"}
  BY DEF Answer, Typed, Kinds
<1>2. CASE SaysRejected(r)
  <2>1. rejected' = [rejected EXCEPT ![KindOf[at]] = @ + 1]
    BY <1>2 DEF Answer
  <2>2. KindOf[at] = IF at \in {"login", "relogin"} THEN "login" ELSE "command"
    BY <1>1 DEF KindOf
  <2>3. CASE at \in {"login", "relogin"}
    BY <1>1, <1>2, <2>1, <2>2, <2>3
  <2>4. CASE at \notin {"login", "relogin"}
    BY <1>1, <1>2, <2>1, <2>2, <2>4
  <2> QED
    BY <2>3, <2>4
<1>3. CASE ~SaysRejected(r)
  <2>1. rejected' = rejected
    BY <1>3 DEF Answer
  <2> QED
    BY <1>1, <1>3, <2>1
<1> QED
  BY <1>2, <1>3

(* A response keeps the invariant.                                         *)
LEMMA AnswerStep ==
  ASSUME Inv, NEW r \in Responses, Answer(r)
  PROVE  Inv'
<1>0. /\ wire \in {"xml", "json"}
      /\ rejected["login"] \in Nat /\ rejected["command"] \in Nat
  BY DEF Inv, Typed, Kinds
<1>1. /\ last' = r /\ wire' = wire /\ r \in MayAnswer /\ tries' \in 1..MaxTries
  BY AnswerMoves
<1>2. /\ rejected' \in [Kinds -> Nat]
      /\ ~SaysRejected(r) => rejected' = rejected
      /\ at \in {"login", "relogin"} =>
           /\ rejected'["command"] = rejected["command"]
           /\ rejected'["login"] = rejected["login"] + IF SaysRejected(r) THEN 1 ELSE 0
      /\ at \in {"command", "recommand"} =>
           /\ rejected'["login"] = rejected["login"]
           /\ rejected'["command"] = rejected["command"] + IF SaysRejected(r) THEN 1 ELSE 0
  BY Counted DEF Inv
<1>3. CASE ~SaysRejected(r) /\ at' = at /\ at \in Steps /\ verdict' = verdict
  <2>1. rejected' = rejected
    BY <1>2, <1>3
  <2> QED
    BY <1>1, <1>2, <1>3, <2>1
       DEF Inv, Typed, Spent, Undecided, RejectionsPerDo, OutcomeIsModelled, Steps
<1>4. CASE /\ at = "login" /\ at' = "command" /\ verdict' = verdict
           /\ LoginVerdict(r) = "ok"
  <2>1. rejected' = rejected
    BY <1>1, <1>2, <1>4, TokenIsNotRejected
  <2> QED
    BY <1>1, <1>2, <1>4, <2>1
       DEF Inv, Typed, Spent, Undecided, RejectionsPerDo, OutcomeIsModelled, Steps
<1>5. CASE /\ at = "relogin" /\ at' = "recommand" /\ verdict' = verdict
           /\ LoginVerdict(r) = "ok"
  <2>1. rejected' = rejected
    BY <1>1, <1>2, <1>5, TokenIsNotRejected
  <2> QED
    BY <1>1, <1>2, <1>5, <2>1
       DEF Inv, Typed, Spent, Undecided, RejectionsPerDo, OutcomeIsModelled, Steps
<1>6. CASE /\ at = "command" /\ at' = "relogin" /\ verdict' = verdict
           /\ wire = "json" /\ r.status = 401
  <2>1. SaysRejected(r)
    BY <1>6 DEF SaysRejected
  <2>2. rejected'["login"] = 0 /\ rejected'["command"] = 1
    BY <1>2, <1>6, <2>1 DEF Inv, Spent
  <2> QED
    BY <1>1, <1>2, <1>6, <2>2
       DEF Inv, Typed, Spent, Undecided, RejectionsPerDo, OutcomeIsModelled, Steps
<1>7. ASSUME at' = "decided",
             \/ at \in {"login", "relogin"} /\ verdict' = LoginVerdict(r)
             \/ at = "command" /\ wire = "xml" /\ verdict' = XMLVerdict(r)
             \/ /\ at \in {"command", "recommand"} /\ wire = "json"
                /\ verdict' \in {JSONVerdict(r), "auth"}
      PROVE  Inv'
  <2>1. Typed' /\ Spent' /\ Undecided'
    BY <1>0, <1>1, <1>2, <1>7, VerdictShapes DEF Typed, Spent, Undecided, Steps
  <2>2. RejectionsPerDo'
    <3>1. rejected'["login"] \in Nat /\ rejected'["command"] \in Nat
      BY <1>2 DEF Kinds
    <3>2. CASE at \in {"login", "relogin"}
      <4>1. wire # "xml" /\ rejected["login"] = 0 /\ rejected["command"] <= 1
        BY <3>2 DEF Inv, Spent
      <4> QED
        BY <1>1, <1>2, <3>1, <3>2, <4>1 DEF RejectionsPerDo
    <3>3. CASE at \in {"command", "recommand"}
      <4>1. /\ rejected["login"] = 0 /\ rejected["command"] <= 1
            /\ wire = "xml" => rejected["command"] = 0
        BY <3>3 DEF Inv, Spent
      <4>2. /\ rejected'["login"] = 0
            /\ rejected'["command"] \in {rejected["command"], rejected["command"] + 1}
        BY <1>2, <1>0, <3>3, <4>1
      <4>3. CASE wire = "xml"
        <5>1. rejected'["command"] <= 1
          BY <1>0, <4>1, <4>2, <4>3
        <5> QED
          BY <1>1, <3>1, <4>2, <5>1 DEF RejectionsPerDo
      <4>4. CASE wire # "xml"
        <5>1. rejected'["command"] <= 2
          BY <1>0, <4>1, <4>2
        <5> QED
          BY <1>1, <3>1, <4>2, <4>4, <5>1 DEF RejectionsPerDo
      <4> QED
        BY <4>3, <4>4
    <3> QED
      BY <1>7, <3>2, <3>3
  <2>3. OutcomeIsModelled'
    <3>1. at \in {"login", "relogin"} => wire = "json"
      BY <1>0 DEF Inv, Spent
    <3> QED
      BY <1>1, <1>7, <3>1, VerdictsCover DEF OutcomeIsModelled
  <2> QED
    BY <2>1, <2>2, <2>3 DEF Inv
<1> QED
  BY <1>3, <1>4, <1>5, <1>6, <1>7, AnswerMoves

(* So does what collectSystem makes of the outcome.                        *)
LEMMA StepInv == Inv /\ [Next]_vars => Inv'
<1> SUFFICES ASSUME Inv, [Next]_vars
             PROVE  Inv'
  OBVIOUS
<1>1. CASE CollectSystem \/ UNCHANGED vars
  <2>1. /\ UNCHANGED <<wire, tries, last, verdict, rejected>>
        /\ at' = at \/ (at = "decided" /\ at' = "derived")
    BY <1>1 DEF CollectSystem, vars
  <2> QED
    BY <2>1
       DEF Inv, Typed, Spent, Undecided, RejectionsPerDo, OutcomeIsModelled, Steps
<1> QED
  BY <1>1, AnswerStep DEF Next

(* Before the first response there is no rejection and no verdict.         *)
LEMMA InitInv == Init => Inv
<1> SUFFICES ASSUME Init
             PROVE  Inv
  OBVIOUS
<1>1. at \in {"login", "command"} /\ (wire = "xml" => at = "command")
  BY DEF Init
<1>2. Bare(0) \in Responses /\ tries \in 1..MaxTries
  BY DEF Init, Responses, MaxTries
<1>3. rejected \in [Kinds -> Nat] /\ rejected["login"] = 0 /\ rejected["command"] = 0
  BY DEF Init, Kinds
<1>4. wire \in {"xml", "json"} /\ last = Bare(0) /\ verdict = "ok"
  BY DEF Init
<1> QED
  BY <1>1, <1>2, <1>3, <1>4
     DEF Inv, Typed, Spent, Undecided, RejectionsPerDo, OutcomeIsModelled, Steps

(* The invariant holds in every reachable state.                           *)
THEOREM Invariance == Spec => []Inv
BY InitInv, StepInv, PTL DEF Spec

(* One Do spends at most one rejected login, and two rejections in all; a  *)
(* command over XML only one.                                              *)
THEOREM RejectionsAreBounded == Spec => []RejectionsPerDo
<1>1. Inv => RejectionsPerDo
  BY DEF Inv
<1> QED
  BY <1>1, Invariance, PTL

(* Whatever a Do reports is an outcome that SystemClient.tla considers for *)
(* that transport: the two models fit together.                            *)
THEOREM OutcomesAreModelled == Spec => []OutcomeIsModelled
<1>1. Inv => OutcomeIsModelled
  BY DEF Inv
<1> QED
  BY <1>1, Invariance, PTL

-----------------------------------------------------------------------------
(* Induction over the naturals, from their order being well-founded: the   *)
(* library's theorem with a predicate cannot be instantiated here, the one *)
(* on minimal elements, which takes a set, can.                            *)
Less == {pair \in Nat \X Nat : pair[1] < pair[2]}

LEMMA LeastNat ==
  ASSUME NEW T, T \subseteq Nat, T # {}
  PROVE  \E least \in T : \A n \in T : least <= n
<1>1. IsWellFoundedOn(Less, Nat)
  BY NatLessThanWellFounded, Zenon DEF OpToRel, Less
<1>2. PICK least \in T : \A n \in T : <<n, least>> \notin Less
  BY <1>1, WFMin
<1>3. ASSUME NEW n \in T, n < least
      PROVE  FALSE
  <2>1. n \in Nat /\ least \in Nat
    OBVIOUS
  <2>2. <<n, least>> \in Less
    BY <1>3, <2>1 DEF Less
  <2> QED
    BY <1>2, <2>2
<1>4. least \in Nat /\ \A n \in T : n \in Nat /\ ~(n < least)
  BY <1>3
<1> QED
  BY <1>4

LEMMA EveryNat ==
  ASSUME NEW S, 0 \in S, \A n \in Nat : n \in S => n + 1 \in S
  PROVE  \A n \in Nat : n \in S
<1> DEFINE T == {n \in Nat : n \notin S}
<1>1. SUFFICES ASSUME T # {}
               PROVE  FALSE
  OBVIOUS
<1>2. PICK least \in T : \A n \in T : least <= n
  BY <1>1, LeastNat
<1>3. least - 1 \in Nat /\ least - 1 \notin T
  BY <1>2
<1> QED
  BY <1>2, <1>3

(* The last and the first of a set of indices are among them.              *)
LEMMA LastAndFirst ==
  ASSUME NEW n \in Nat, NEW T, T \subseteq 1..n, T # {}
  PROVE  Max(T) \in T /\ Min(T) \in T
<1>0. T \subseteq Nat
  OBVIOUS
<1>1. \E x \in T : \A y \in T : x <= y
  BY <1>0, LeastNat
<1>2. \E x \in T : \A y \in T : x >= y
  <2> DEFINE Mirror == {n - y : y \in T}
  <2>0. \A y \in T : y \in Nat /\ n - y \in Nat
    OBVIOUS
  <2>1. Mirror \subseteq Nat /\ Mirror # {}
    BY <2>0
  <2>2. PICK least \in Mirror : \A m \in Mirror : least <= m
    BY <2>1, LeastNat, Zenon
  <2>3. PICK x \in T : least = n - x
    OBVIOUS
  <2>4. ASSUME NEW y \in T
        PROVE  x >= y
    <3>1. n - y \in Mirror
      OBVIOUS
    <3>2. n - x <= n - y
      BY <2>2, <2>3, <3>1
    <3>3. x \in Nat /\ y \in Nat
      BY <1>0
    <3> QED
      BY <3>2, <3>3
  <2> QED
    BY <2>4, Zenon
<1>3. Max(T) \in T
  BY <1>2 DEF Max
<1>4. Min(T) \in T
  BY <1>1 DEF Min
<1> QED
  BY <1>3, <1>4

-----------------------------------------------------------------------------
(* Lists, by what is in them.                                              *)
LEMMA EmptyList == IsList(<<>>) /\ ToSet(<<>>) = {}
BY DEF IsList, ToSet

LEMMA OneElement ==
  ASSUME NEW x
  PROVE  IsList(<<x>>) /\ ToSet(<<x>>) = {x}
<1>1. ToSet(<<x>>) = {x}
  BY DEF ToSet
<1> QED
  BY <1>1 DEF IsList

LEMMA IndexedList ==
  ASSUME NEW q, IsList(q)
  PROVE  Len(q) \in Nat /\ DOMAIN q = 1..Len(q)
BY DEF IsList

LEMMA Joined ==
  ASSUME NEW q, NEW r, IsList(q), IsList(r)
  PROVE  IsList(q \o r) /\ ToSet(q \o r) = ToSet(q) \cup ToSet(r)
<1> DEFINE S == ToSet(q) \cup ToSet(r)
<1>1. q \in Seq(S) /\ r \in Seq(S)
  BY SeqMonotonic, Zenon DEF IsList
<1> HIDE DEF S
<1>2. /\ q \o r \in Seq(S)
      /\ Len(q \o r) = Len(q) + Len(r)
      /\ \A i \in 1..Len(q) + Len(r) :
           (q \o r)[i] = IF i <= Len(q) THEN q[i] ELSE r[i - Len(q)]
  BY <1>1, ConcatProperties
<1>3. Len(q) \in Nat /\ Len(r) \in Nat /\ DOMAIN q = 1..Len(q) /\ DOMAIN r = 1..Len(r)
  BY IndexedList
<1>4. DOMAIN (q \o r) = 1..Len(q) + Len(r)
  BY <1>2
<1>5. ASSUME NEW x \in ToSet(q \o r)
      PROVE  x \in ToSet(q) \cup ToSet(r)
  BY <1>2, <1>3, <1>4 DEF ToSet
<1>6. ASSUME NEW x \in ToSet(q)
      PROVE  x \in ToSet(q \o r)
  <2>1. PICK i \in DOMAIN q : x = q[i]
    BY DEF ToSet
  <2>2. i \in DOMAIN (q \o r) /\ (q \o r)[i] = x
    BY <1>2, <1>3, <1>4, <2>1
  <2> QED
    BY <2>2 DEF ToSet
<1>7. ASSUME NEW x \in ToSet(r)
      PROVE  x \in ToSet(q \o r)
  <2>1. PICK i \in DOMAIN r : x = r[i]
    BY DEF ToSet
  <2>2. Len(q) + i \in DOMAIN (q \o r) /\ (q \o r)[Len(q) + i] = x
    BY <1>2, <1>3, <1>4, <2>1
  <2> QED
    BY <2>2 DEF ToSet
<1>8. ToSet(q \o r) = ToSet(q) \cup ToSet(r)
  BY <1>5, <1>6, <1>7
<1> QED
  BY <1>2, <1>8, Zenon DEF IsList, S

(* FlattenSeq is the last of its partial concatenations: a function that   *)
(* is defined by itself, and exists.                                       *)
Partial(lists, f, n) ==
    f = [i \in 1..n |-> IF i = 1 THEN lists[i] ELSE f[i - 1] \o lists[i]]

LEMMA PartialExists ==
  ASSUME NEW lists
  PROVE  \A n \in Nat : \E f : Partial(lists, f, n)
<1> DEFINE S == {n \in Nat : \E f : Partial(lists, f, n)}
<1>1. 0 \in S
  <2>1. Partial(lists, [i \in 1..0 |-> lists], 0)
    BY DEF Partial
  <2> QED
    BY <2>1
<1>2. ASSUME NEW n \in S
      PROVE  n + 1 \in S
  <2>1. n \in Nat
    OBVIOUS
  <2>2. PICK f : Partial(lists, f, n)
    OBVIOUS
  <2> DEFINE g == [i \in 1..n + 1 |-> IF i = 1 THEN lists[i] ELSE f[i - 1] \o lists[i]]
  <2>3. ASSUME NEW i \in 1..n
        PROVE  g[i] = f[i]
    <3>1. f[i] = IF i = 1 THEN lists[i] ELSE f[i - 1] \o lists[i]
      BY <2>2 DEF Partial
    <3>2. i \in 1..n + 1
      BY <2>1
    <3> QED
      BY <3>1, <3>2
  <2> HIDE DEF g
  <2>4. ASSUME NEW i \in 1..n + 1, i # 1
        PROVE  g[i - 1] = f[i - 1]
    <3>1. i - 1 \in 1..n
      BY <2>1, <2>4
    <3> QED
      BY <2>3, <3>1
  <2>5. Partial(lists, g, n + 1)
    <3> DEFINE h == [i \in 1..n + 1 |-> IF i = 1 THEN lists[i] ELSE g[i - 1] \o lists[i]]
    <3>1. ASSUME NEW i \in 1..n + 1
          PROVE  g[i] = h[i]
      BY <2>4 DEF g
    <3>2. g = h
      BY <3>1 DEF g
    <3> QED
      BY <3>2 DEF Partial
  <2> QED
    BY <2>1, <2>5
<1> HIDE DEF S
<1>3. \A n \in Nat : n \in S
  BY <1>1, <1>2, EveryNat
<1> QED
  BY <1>3 DEF S

(* What is in a flattened list is what is in one of its lists.             *)
LEMMA Flattened ==
  ASSUME NEW lists, IsList(lists), \A i \in DOMAIN lists : IsList(lists[i])
  PROVE  /\ IsList(FlattenSeq(lists))
         /\ ToSet(FlattenSeq(lists)) = UNION {ToSet(lists[i]) : i \in DOMAIN lists}
<1> DEFINE n == Len(lists)
           F == CHOOSE f : Partial(lists, f, n)
           Good(i) == IsList(F[i]) /\ ToSet(F[i]) = UNION {ToSet(lists[j]) : j \in 1..i}
           S == {i \in Nat : i + 1 \in 1..n => Good(i + 1)}
<1>1. n \in Nat /\ DOMAIN lists = 1..n
  BY IndexedList
<1>2. CASE n = 0
  <2>1. FlattenSeq(lists) = lists
    BY <1>2 DEF FlattenSeq
  <2> QED
    BY <1>1, <1>2, <2>1 DEF ToSet
<1>3. CASE n # 0
  <2>1. FlattenSeq(lists) = F[n]
    BY <1>3 DEF FlattenSeq, Partial
  <2>2. Partial(lists, F, n)
    BY <1>1, PartialExists
  <2> HIDE DEF F
  <2>3. \A i \in 1..n : F[i] = IF i = 1 THEN lists[i] ELSE F[i - 1] \o lists[i]
    BY <2>2 DEF Partial
  <2>4. 0 \in S
    <3>1. F[1] = lists[1] /\ IsList(lists[1])
      BY <1>1, <1>3, <2>3
    <3>2. {ToSet(lists[j]) : j \in 1..1} = {ToSet(lists[1])}
      OBVIOUS
    <3> QED
      BY <3>1, <3>2
  <2>5. ASSUME NEW i \in Nat, i \in S
        PROVE  i + 1 \in S
    <3> DEFINE here == i + 1
               next == i + 1 + 1
               before == {ToSet(lists[j]) : j \in 1..here}
               upTo == {ToSet(lists[j]) : j \in 1..next}
    <3> SUFFICES ASSUME next \in 1..n
                 PROVE  Good(next)
      OBVIOUS
    <3>1. here \in 1..n /\ next # 1 /\ next - 1 = here /\ 1..next = (1..here) \cup {next}
      BY <1>1
    <3>2. F[next] = F[here] \o lists[next] /\ IsList(lists[next])
      BY <1>1, <2>3, <3>1
    <3> HIDE DEF n, here, next
    <3>3. IsList(F[here]) /\ ToSet(F[here]) = UNION before
      BY <2>5, <3>1 DEF here
    <3>4. /\ IsList(F[next])
          /\ ToSet(F[next]) = ToSet(F[here]) \cup ToSet(lists[next])
      BY <3>2, <3>3, Joined, Zenon
    <3>5. upTo = before \cup {ToSet(lists[next])}
      BY <3>1
    <3> HIDE DEF before, upTo
    <3>6. ToSet(F[next]) = UNION upTo
      BY <3>3, <3>4, <3>5
    <3> QED
      BY <3>4, <3>6 DEF upTo
  <2> HIDE DEF S
  <2>6. \A i \in Nat : i \in S
    BY <2>4, <2>5, EveryNat
  <2>7. Good(n)
    <3>1. n - 1 \in S
      BY <1>1, <1>3, <2>6
    <3> QED
      BY <1>1, <1>3, <3>1 DEF S
  <2> QED
    BY <1>1, <2>1, <2>7
<1> QED
  BY <1>2, <1>3

-----------------------------------------------------------------------------
(* What a payload becomes, sample by sample.                               *)
Sample(name, labels, value) == [name |-> name, labels |-> labels, value |-> value]

ServiceLabels(vs, meta) ==
    VSLabels(meta.name, vs, IF vs.protocol # Blank THEN vs.protocol ELSE meta.protocol)

Known == Serving \cup OutOfService

Derive(st, info) ==
    UpSample(TRUE) \o DeriveHealth(st) \o DeriveVS(st, info) \o DeriveRS(st, info)

LEMMA MappedList ==
  ASSUME NEW rows, IsList(rows), NEW q, q = [i \in DOMAIN rows |-> q[i]]
  PROVE  IsList(q)
<1>1. Len(rows) \in Nat /\ DOMAIN rows = 1..Len(rows)
  BY IndexedList
<1>2. \A i \in DOMAIN q : q[i] \in ToSet(q)
  BY DEF ToSet
<1> QED
  BY <1>1, <1>2 DEF IsList

(* One sample for what is there, none for what is absent.                  *)
LEMMA Added ==
  ASSUME NEW name, NEW labels, NEW value
  PROVE  /\ IsList(AddSample(name, labels, value))
         /\ \A s : s \in ToSet(AddSample(name, labels, value))
                     <=> value # Absent /\ s = Sample(name, labels, value)
BY EmptyList, OneElement DEF AddSample, Sample

LEMMA Parsed ==
  ASSUME NEW text
  PROVE  /\ Parse(text) # Absent <=> text \in Numerals
         /\ text \in Numerals => Parse(text) = text
BY TextsAssumption DEF Parse

LEMMA StatusKnown ==
  ASSUME NEW status
  PROVE  /\ UpOf(status) # Absent <=> status \in Known
         /\ status \in Known =>
              UpOf(status) = IF status \in OutOfService THEN "0" ELSE "1"
         /\ status \in Known => status # Blank
BY Zenon DEF UpOf, Known, Serving, OutOfService, Absent, Blank

LEMMA StatusAdded ==
  ASSUME NEW kind, NEW labels, NEW status
  PROVE  /\ IsList(StatusSamples(kind, labels, status))
         /\ \A s : s \in ToSet(StatusSamples(kind, labels, status)) <=>
              \/ status \in Known /\ s = Sample(UpName[kind], labels, UpOf(status))
              \/ status # Blank /\ s = Sample(StatusName[kind], WithStatus(labels, status), "1")
<1>1. CASE status = Blank
  BY <1>1, EmptyList, StatusKnown DEF StatusSamples
<1>2. CASE status # Blank
  <2> DEFINE a == AddSample(UpName[kind], labels, UpOf(status))
             b == AddSample(StatusName[kind], WithStatus(labels, status), "1")
  <2>1. StatusSamples(kind, labels, status) = a \o b
    BY <1>2 DEF StatusSamples
  <2>2. /\ IsList(a)
        /\ \A s : s \in ToSet(a) <=> status \in Known /\ s = Sample(UpName[kind], labels, UpOf(status))
    BY Added, StatusKnown
  <2>3. /\ IsList(b)
        /\ \A s : s \in ToSet(b) <=> s = Sample(StatusName[kind], WithStatus(labels, status), "1")
    BY Added DEF Absent
  <2> HIDE DEF a, b
  <2>4. IsList(a \o b) /\ ToSet(a \o b) = ToSet(a) \cup ToSet(b)
    BY <2>2, <2>3, Joined
  <2> QED
    BY <1>2, <2>1, <2>2, <2>3, <2>4
<1> QED
  BY <1>1, <1>2

LEMMA ServiceSamples ==
  ASSUME NEW vs, NEW meta
  PROVE  /\ IsList(VSSamples(vs, meta))
         /\ \A s : s \in ToSet(VSSamples(vs, meta)) <=>
              \/ vs.num \in Numerals /\ s = Sample("vs_num", ServiceLabels(vs, meta), vs.num)
              \/ /\ meta.status \in Known
                 /\ s = Sample("vs_up", ServiceLabels(vs, meta), UpOf(meta.status))
              \/ /\ meta.status # Blank
                 /\ s = Sample("vs_status", WithStatus(ServiceLabels(vs, meta), meta.status), "1")
<1> DEFINE labels == ServiceLabels(vs, meta)
           a == AddSample("vs_num", labels, Parse(vs.num))
           b == StatusSamples("vs", labels, meta.status)
<1>1. VSSamples(vs, meta) = a \o b
  BY Zenon DEF VSSamples, ServiceLabels
<1> HIDE DEF labels
<1>2. IsList(a) /\ \A s : s \in ToSet(a) <=> vs.num \in Numerals /\ s = Sample("vs_num", labels, vs.num)
  BY Added, Parsed
<1>3. /\ IsList(b)
      /\ \A s : s \in ToSet(b) <=>
           \/ meta.status \in Known /\ s = Sample("vs_up", labels, UpOf(meta.status))
           \/ meta.status # Blank /\ s = Sample("vs_status", WithStatus(labels, meta.status), "1")
  <2>1. UpName["vs"] = "vs_up" /\ StatusName["vs"] = "vs_status"
    BY DEF UpName, StatusName
  <2> DEFINE status == meta.status
  <2> HIDE DEF status
  <2>2. /\ IsList(StatusSamples("vs", labels, status))
        /\ \A s : s \in ToSet(StatusSamples("vs", labels, status)) <=>
             \/ status \in Known /\ s = Sample(UpName["vs"], labels, UpOf(status))
             \/ status # Blank /\ s = Sample(StatusName["vs"], WithStatus(labels, status), "1")
    BY StatusAdded, Zenon
  <2> QED
    BY <2>1, <2>2, Zenon DEF status
<1> HIDE DEF a, b
<1>4. IsList(a \o b) /\ ToSet(a \o b) = ToSet(a) \cup ToSet(b)
  BY <1>2, <1>3, Joined
<1> QED
  BY <1>1, <1>2, <1>3, <1>4 DEF labels

LEMMA RealServerSamples ==
  ASSUME NEW rs, NEW parent
  PROVE  /\ IsList(RSSamples(rs, parent))
         /\ \A s : s \in ToSet(RSSamples(rs, parent)) <=>
              \/ rs.num \in Numerals /\ s = Sample("rs_num", RSLabels(rs, parent), rs.num)
              \/ rs.status \in Known /\ s = Sample("rs_up", RSLabels(rs, parent), UpOf(rs.status))
              \/ /\ rs.status # Blank
                 /\ s = Sample("rs_status", WithStatus(RSLabels(rs, parent), rs.status), "1")
<1> DEFINE labels == RSLabels(rs, parent)
           a == AddSample("rs_num", labels, Parse(rs.num))
           b == StatusSamples("rs", labels, rs.status)
<1>1. RSSamples(rs, parent) = a \o b
  BY Zenon DEF RSSamples
<1> HIDE DEF labels
<1>2. IsList(a) /\ \A s : s \in ToSet(a) <=> rs.num \in Numerals /\ s = Sample("rs_num", labels, rs.num)
  BY Added, Parsed
<1>3. /\ IsList(b)
      /\ \A s : s \in ToSet(b) <=>
           \/ rs.status \in Known /\ s = Sample("rs_up", labels, UpOf(rs.status))
           \/ rs.status # Blank /\ s = Sample("rs_status", WithStatus(labels, rs.status), "1")
  <2>1. UpName["rs"] = "rs_up" /\ StatusName["rs"] = "rs_status"
    BY DEF UpName, StatusName
  <2> DEFINE status == rs.status
  <2> HIDE DEF status
  <2>2. /\ IsList(StatusSamples("rs", labels, status))
        /\ \A s : s \in ToSet(StatusSamples("rs", labels, status)) <=>
             \/ status \in Known /\ s = Sample(UpName["rs"], labels, UpOf(status))
             \/ status # Blank /\ s = Sample(StatusName["rs"], WithStatus(labels, status), "1")
    BY StatusAdded, Zenon
  <2> QED
    BY <2>1, <2>2, Zenon DEF status
<1> HIDE DEF a, b
<1>4. IsList(a \o b) /\ ToSet(a \o b) = ToSet(a) \cup ToSet(b)
  BY <1>2, <1>3, Joined
<1> QED
  BY <1>1, <1>2, <1>3, <1>4 DEF labels

(* The flattened rows of a list, each of which gives a list.               *)
LEMMA FlattenedRows ==
  ASSUME NEW rows, IsList(rows), NEW q, q = [i \in DOMAIN rows |-> q[i]],
         \A i \in DOMAIN rows : IsList(q[i])
  PROVE  /\ IsList(FlattenSeq(q))
         /\ \A s : s \in ToSet(FlattenSeq(q)) <=> \E i \in DOMAIN rows : s \in ToSet(q[i])
<1>1. IsList(q) /\ DOMAIN q = DOMAIN rows
  BY MappedList, Zenon
<1>2. /\ IsList(FlattenSeq(q))
      /\ ToSet(FlattenSeq(q)) = UNION {ToSet(q[i]) : i \in DOMAIN q}
  BY <1>1, Flattened, Zenon
<1> QED
  BY <1>1, <1>2

LEMMA PayloadRows ==
  ASSUME NEW st \in Payloads
  PROVE  IsList(st.cpus) /\ IsList(st.interfaces) /\ IsList(st.vs) /\ IsList(st.rs)
BY PayloadsAssumption

(* Which samples the appliance's own numbers become.                       *)
HealthSample(st, s) ==
    \/ st.total \in Numerals /\ s = Sample("total", <<>>, st.total)
    \/ \E i \in DOMAIN st.cpus :
         /\ st.cpus[i].num \in Numerals
         /\ s = Sample("cpu_num", [cpu |-> st.cpus[i].id], st.cpus[i].num)
    \/ \E i \in DOMAIN st.interfaces :
         /\ st.interfaces[i].num \in Numerals
         /\ s = Sample("interface_num", [interface |-> st.interfaces[i].id], st.interfaces[i].num)

LEMMA HealthSamples ==
  ASSUME NEW st \in Payloads
  PROVE  /\ IsList(DeriveHealth(st))
         /\ \A s : s \in ToSet(DeriveHealth(st)) <=> HealthSample(st, s)
<1> DEFINE total == AddSample("total", <<>>, Parse(st.total))
           cpus == [i \in DOMAIN st.cpus |->
                      AddSample("cpu_num", [cpu |-> st.cpus[i].id], Parse(st.cpus[i].num))]
           interfaces == [i \in DOMAIN st.interfaces |->
                            AddSample("interface_num", [interface |-> st.interfaces[i].id],
                                      Parse(st.interfaces[i].num))]
<1>1. DeriveHealth(st) = total \o FlattenSeq(cpus) \o FlattenSeq(interfaces)
  BY Zenon DEF DeriveHealth
<1>2. IsList(total) /\ \A s : s \in ToSet(total) <=> st.total \in Numerals /\ s = Sample("total", <<>>, st.total)
  BY Added, Parsed
<1>3. ASSUME NEW i \in DOMAIN st.cpus
      PROVE  /\ IsList(cpus[i])
             /\ \A s : s \in ToSet(cpus[i]) <=>
                  st.cpus[i].num \in Numerals /\ s = Sample("cpu_num", [cpu |-> st.cpus[i].id], st.cpus[i].num)
  BY Added, Parsed
<1>4. ASSUME NEW i \in DOMAIN st.interfaces
      PROVE  /\ IsList(interfaces[i])
             /\ \A s : s \in ToSet(interfaces[i]) <=>
                  /\ st.interfaces[i].num \in Numerals
                  /\ s = Sample("interface_num", [interface |-> st.interfaces[i].id], st.interfaces[i].num)
  BY Added, Parsed
<1>5. /\ cpus = [i \in DOMAIN st.cpus |-> cpus[i]]
      /\ interfaces = [i \in DOMAIN st.interfaces |-> interfaces[i]]
  OBVIOUS
<1> HIDE DEF total, cpus, interfaces
<1>6. /\ IsList(FlattenSeq(cpus))
      /\ \A s : s \in ToSet(FlattenSeq(cpus)) <=> \E i \in DOMAIN st.cpus : s \in ToSet(cpus[i])
  BY <1>3, <1>5, PayloadRows, FlattenedRows
<1>7. /\ IsList(FlattenSeq(interfaces))
      /\ \A s : s \in ToSet(FlattenSeq(interfaces))
                  <=> \E i \in DOMAIN st.interfaces : s \in ToSet(interfaces[i])
  BY <1>4, <1>5, PayloadRows, FlattenedRows
<1>8. /\ IsList(DeriveHealth(st))
      /\ ToSet(DeriveHealth(st))
           = ToSet(total) \cup ToSet(FlattenSeq(cpus)) \cup ToSet(FlattenSeq(interfaces))
  <2> DEFINE a == total \o FlattenSeq(cpus)
  <2>1. IsList(a) /\ ToSet(a) = ToSet(total) \cup ToSet(FlattenSeq(cpus))
    BY <1>2, <1>6, Joined
  <2>2. DeriveHealth(st) = a \o FlattenSeq(interfaces)
    BY <1>1
  <2> HIDE DEF a
  <2> QED
    BY <1>7, <2>1, <2>2, Joined
<1>9. \A s : s \in ToSet(FlattenSeq(cpus)) <=>
        \E i \in DOMAIN st.cpus :
          /\ st.cpus[i].num \in Numerals
          /\ s = Sample("cpu_num", [cpu |-> st.cpus[i].id], st.cpus[i].num)
  BY <1>3, <1>6, Zenon
<1>10. \A s : s \in ToSet(FlattenSeq(interfaces)) <=>
         \E i \in DOMAIN st.interfaces :
           /\ st.interfaces[i].num \in Numerals
           /\ s = Sample("interface_num", [interface |-> st.interfaces[i].id], st.interfaces[i].num)
  BY <1>4, <1>7, Zenon
<1>11. \A s : s \in ToSet(DeriveHealth(st)) <=>
         \/ s \in ToSet(total) \/ s \in ToSet(FlattenSeq(cpus)) \/ s \in ToSet(FlattenSeq(interfaces))
  BY <1>8, Zenon
<1> QED
  BY <1>2, <1>8, <1>9, <1>10, <1>11, Zenon DEF HealthSample

LEMMA AllServiceSamples ==
  ASSUME NEW st \in Payloads, NEW info
  PROVE  /\ IsList(DeriveVS(st, info))
         /\ \A s : s \in ToSet(DeriveVS(st, info)) <=>
              \E i \in DOMAIN st.vs : s \in ToSet(VSSamples(st.vs[i], MetaOf(st.vs[i], info)))
<1> DEFINE q == [i \in DOMAIN st.vs |-> VSSamples(st.vs[i], MetaOf(st.vs[i], info))]
<1>1. DeriveVS(st, info) = FlattenSeq(q)
  BY DEF DeriveVS
<1>2. \A i \in DOMAIN st.vs : IsList(q[i])
  BY ServiceSamples
<1>3. q = [i \in DOMAIN st.vs |-> q[i]]
  OBVIOUS
<1>4. \A i \in DOMAIN st.vs : q[i] = VSSamples(st.vs[i], MetaOf(st.vs[i], info))
  OBVIOUS
<1> HIDE DEF q
<1>5. /\ IsList(FlattenSeq(q))
      /\ \A s : s \in ToSet(FlattenSeq(q)) <=> \E i \in DOMAIN st.vs : s \in ToSet(q[i])
  BY <1>2, <1>3, PayloadRows, FlattenedRows
<1> QED
  BY <1>1, <1>4, <1>5

LEMMA AllRealServerSamples ==
  ASSUME NEW st \in Payloads, NEW info
  PROVE  /\ IsList(DeriveRS(st, info))
         /\ \A s : s \in ToSet(DeriveRS(st, info)) <=>
              \E i \in DOMAIN st.rs : s \in ToSet(RSSamples(st.rs[i], ParentOf(st.rs[i], st, info)))
<1> DEFINE q == [i \in DOMAIN st.rs |-> RSSamples(st.rs[i], ParentOf(st.rs[i], st, info))]
<1>1. DeriveRS(st, info) = FlattenSeq(q)
  BY DEF DeriveRS
<1>2. \A i \in DOMAIN st.rs : IsList(q[i])
  BY RealServerSamples
<1>3. q = [i \in DOMAIN st.rs |-> q[i]]
  OBVIOUS
<1>4. \A i \in DOMAIN st.rs : q[i] = RSSamples(st.rs[i], ParentOf(st.rs[i], st, info))
  OBVIOUS
<1> HIDE DEF q
<1>5. /\ IsList(FlattenSeq(q))
      /\ \A s : s \in ToSet(FlattenSeq(q)) <=> \E i \in DOMAIN st.rs : s \in ToSet(q[i])
  BY <1>2, <1>3, PayloadRows, FlattenedRows
<1> QED
  BY <1>1, <1>4, <1>5

(* All samples of a cycle that succeeded.                                  *)
LEMMA DerivedSamples ==
  ASSUME NEW st \in Payloads, NEW info
  PROVE  /\ IsList(Derive(st, info))
         /\ \A s : s \in ToSet(Derive(st, info)) <=>
              \/ s = Sample("up", <<>>, "1")
              \/ HealthSample(st, s)
              \/ \E i \in DOMAIN st.vs : s \in ToSet(VSSamples(st.vs[i], MetaOf(st.vs[i], info)))
              \/ \E i \in DOMAIN st.rs : s \in ToSet(RSSamples(st.rs[i], ParentOf(st.rs[i], st, info)))
<1>1. IsList(UpSample(TRUE)) /\ \A s : s \in ToSet(UpSample(TRUE)) <=> s = Sample("up", <<>>, "1")
  BY Added DEF UpSample, Absent
<1>2. /\ IsList(Derive(st, info))
      /\ ToSet(Derive(st, info))
           = ToSet(UpSample(TRUE)) \cup ToSet(DeriveHealth(st))
               \cup ToSet(DeriveVS(st, info)) \cup ToSet(DeriveRS(st, info))
  <2> DEFINE a == UpSample(TRUE) \o DeriveHealth(st)
             b == a \o DeriveVS(st, info)
  <2>1. IsList(a) /\ ToSet(a) = ToSet(UpSample(TRUE)) \cup ToSet(DeriveHealth(st))
    BY <1>1, HealthSamples, Joined
  <2> HIDE DEF a
  <2>2. IsList(b) /\ ToSet(b) = ToSet(a) \cup ToSet(DeriveVS(st, info))
    BY <2>1, AllServiceSamples, Joined
  <2> HIDE DEF b
  <2>3. /\ IsList(b \o DeriveRS(st, info))
        /\ ToSet(b \o DeriveRS(st, info)) = ToSet(b) \cup ToSet(DeriveRS(st, info))
    BY <2>2, AllRealServerSamples, Joined
  <2>4. Derive(st, info) = b \o DeriveRS(st, info)
    BY DEF Derive, a, b
  <2> QED
    BY <2>1, <2>2, <2>3, <2>4
<1>3. \A s : s \in ToSet(Derive(st, info)) <=>
        \/ s \in ToSet(UpSample(TRUE)) \/ s \in ToSet(DeriveHealth(st))
        \/ s \in ToSet(DeriveVS(st, info)) \/ s \in ToSet(DeriveRS(st, info))
  BY <1>2, Zenon
<1>4. \A s : s \in ToSet(DeriveHealth(st)) <=> HealthSample(st, s)
  BY HealthSamples, Zenon
<1> DEFINE OfService(s) ==
             \E i \in DOMAIN st.vs : s \in ToSet(VSSamples(st.vs[i], MetaOf(st.vs[i], info)))
           OfRealServer(s) ==
             \E i \in DOMAIN st.rs : s \in ToSet(RSSamples(st.rs[i], ParentOf(st.rs[i], st, info)))
<1>5. \A s : s \in ToSet(DeriveVS(st, info)) <=> OfService(s)
  BY AllServiceSamples, Zenon
<1>6. \A s : s \in ToSet(DeriveRS(st, info)) <=> OfRealServer(s)
  BY AllRealServerSamples, Zenon
<1> HIDE DEF OfService, OfRealServer
<1>7. \A s : s \in ToSet(Derive(st, info)) <=>
        \/ s = Sample("up", <<>>, "1") \/ HealthSample(st, s) \/ OfService(s) \/ OfRealServer(s)
  BY <1>1, <1>3, <1>4, <1>5, <1>6
<1> QED
  BY <1>2, <1>7, Zenon DEF OfService, OfRealServer

-----------------------------------------------------------------------------
(* The samples of one metric, by the rows they come from.                  *)
VSRow(st, info, i, s) ==
    LET vs == st.vs[i]
        meta == MetaOf(vs, info)
    IN \/ vs.num \in Numerals /\ s = Sample("vs_num", ServiceLabels(vs, meta), vs.num)
       \/ meta.status \in Known /\ s = Sample("vs_up", ServiceLabels(vs, meta), UpOf(meta.status))
       \/ /\ meta.status # Blank
          /\ s = Sample("vs_status", WithStatus(ServiceLabels(vs, meta), meta.status), "1")

RSRow(st, info, i, s) ==
    LET rs == st.rs[i]
        parent == ParentOf(rs, st, info)
    IN \/ rs.num \in Numerals /\ s = Sample("rs_num", RSLabels(rs, parent), rs.num)
       \/ rs.status \in Known /\ s = Sample("rs_up", RSLabels(rs, parent), UpOf(rs.status))
       \/ /\ rs.status # Blank
          /\ s = Sample("rs_status", WithStatus(RSLabels(rs, parent), rs.status), "1")

LEMMA SampleRows ==
  ASSUME NEW st \in Payloads, NEW info
  PROVE  \A s : s \in ToSet(Derive(st, info)) <=>
           \/ s = Sample("up", <<>>, "1")
           \/ HealthSample(st, s)
           \/ \E i \in DOMAIN st.vs : VSRow(st, info, i, s)
           \/ \E i \in DOMAIN st.rs : RSRow(st, info, i, s)
<1>1. ASSUME NEW s, NEW i
      PROVE  /\ s \in ToSet(VSSamples(st.vs[i], MetaOf(st.vs[i], info))) <=> VSRow(st, info, i, s)
             /\ s \in ToSet(RSSamples(st.rs[i], ParentOf(st.rs[i], st, info))) <=> RSRow(st, info, i, s)
  <2>1. s \in ToSet(VSSamples(st.vs[i], MetaOf(st.vs[i], info))) <=> VSRow(st, info, i, s)
    BY ServiceSamples, Zenon DEF VSRow
  <2>2. s \in ToSet(RSSamples(st.rs[i], ParentOf(st.rs[i], st, info))) <=> RSRow(st, info, i, s)
    BY RealServerSamples, Zenon DEF RSRow
  <2> QED
    BY <2>1, <2>2
<1> QED
  BY <1>1, DerivedSamples

(* The parts of a sample, and its metric.                                  *)
LEMMA SampleParts ==
  ASSUME NEW s, NEW name, NEW labels, NEW value, s = Sample(name, labels, value)
  PROVE  s.name = name /\ s.labels = labels /\ s.value = value
BY DEF Sample

LEMMA HealthParts ==
  ASSUME NEW st, NEW s, HealthSample(st, s)
  PROVE  \/ s.name = "total" /\ s.labels = <<>>
         \/ /\ s.name = "cpu_num"
            /\ \E i \in DOMAIN st.cpus : /\ st.cpus[i].num \in Numerals /\ s.value = st.cpus[i].num
                                         /\ s.labels = [cpu |-> st.cpus[i].id]
         \/ /\ s.name = "interface_num"
            /\ \E i \in DOMAIN st.interfaces :
                 /\ st.interfaces[i].num \in Numerals /\ s.value = st.interfaces[i].num
                 /\ s.labels = [interface |-> st.interfaces[i].id]
<1>1. CASE s = Sample("total", <<>>, st.total)
  BY <1>1, SampleParts
<1>2. ASSUME NEW i \in DOMAIN st.cpus, st.cpus[i].num \in Numerals,
             s = Sample("cpu_num", [cpu |-> st.cpus[i].id], st.cpus[i].num)
      PROVE  /\ s.name = "cpu_num" /\ s.value = st.cpus[i].num
             /\ s.labels = [cpu |-> st.cpus[i].id]
  <2> DEFINE value == st.cpus[i].num
             labels == [cpu |-> st.cpus[i].id]
  <2>1. s = Sample("cpu_num", labels, value)
    BY <1>2
  <2> HIDE DEF value, labels
  <2>2. s.name = "cpu_num" /\ s.value = value /\ s.labels = labels
    BY <2>1, SampleParts
  <2> QED
    BY <2>2 DEF value, labels
<1>3. ASSUME NEW i \in DOMAIN st.interfaces, st.interfaces[i].num \in Numerals,
             s = Sample("interface_num", [interface |-> st.interfaces[i].id], st.interfaces[i].num)
      PROVE  /\ s.name = "interface_num" /\ s.value = st.interfaces[i].num
             /\ s.labels = [interface |-> st.interfaces[i].id]
  <2> DEFINE value == st.interfaces[i].num
             labels == [interface |-> st.interfaces[i].id]
  <2>1. s = Sample("interface_num", labels, value)
    BY <1>3
  <2> HIDE DEF value, labels
  <2>2. s.name = "interface_num" /\ s.value = value /\ s.labels = labels
    BY <2>1, SampleParts
  <2> QED
    BY <2>2 DEF value, labels
<1> QED
  BY <1>1, <1>2, <1>3, Zenon DEF HealthSample

LEMMA VSParts ==
  ASSUME NEW st, NEW info, NEW i, NEW s, VSRow(st, info, i, s)
  PROVE  LET vs == st.vs[i]
             meta == MetaOf(vs, info)
             labels == ServiceLabels(vs, meta)
         IN \/ /\ s.name = "vs_num" /\ s.labels = labels /\ s.value = vs.num
               /\ vs.num \in Numerals
            \/ /\ s.name = "vs_up" /\ s.labels = labels /\ s.value = UpOf(meta.status)
               /\ meta.status \in Known
            \/ /\ s.name = "vs_status" /\ s.labels = WithStatus(labels, meta.status) /\ s.value = "1"
               /\ meta.status # Blank
<1> DEFINE vs == st.vs[i]
           meta == MetaOf(vs, info)
           labels == ServiceLabels(vs, meta)
           number == vs.num
           status == meta.status
<1>1. \/ number \in Numerals /\ s = Sample("vs_num", labels, number)
      \/ status \in Known /\ s = Sample("vs_up", labels, UpOf(status))
      \/ status # Blank /\ s = Sample("vs_status", WithStatus(labels, status), "1")
  BY Zenon DEF VSRow
<1> HIDE DEF labels, number, status
<1>2. s = Sample("vs_num", labels, number) =>
        s.name = "vs_num" /\ s.labels = labels /\ s.value = number
  BY SampleParts, Zenon
<1>3. s = Sample("vs_up", labels, UpOf(status)) =>
        s.name = "vs_up" /\ s.labels = labels /\ s.value = UpOf(status)
  BY SampleParts, Zenon
<1>4. s = Sample("vs_status", WithStatus(labels, status), "1") =>
        s.name = "vs_status" /\ s.labels = WithStatus(labels, status) /\ s.value = "1"
  BY SampleParts, Zenon
<1> QED
  BY <1>1, <1>2, <1>3, <1>4, Zenon DEF labels, number, status

LEMMA RSParts ==
  ASSUME NEW st, NEW info, NEW i, NEW s, RSRow(st, info, i, s)
  PROVE  LET rs == st.rs[i]
             parent == ParentOf(rs, st, info)
             labels == RSLabels(rs, parent)
         IN \/ /\ s.name = "rs_num" /\ s.labels = labels /\ s.value = rs.num
               /\ rs.num \in Numerals
            \/ /\ s.name = "rs_up" /\ s.labels = labels /\ s.value = UpOf(rs.status)
               /\ rs.status \in Known
            \/ /\ s.name = "rs_status" /\ s.labels = WithStatus(labels, rs.status) /\ s.value = "1"
               /\ rs.status # Blank
<1> DEFINE rs == st.rs[i]
           parent == ParentOf(rs, st, info)
           labels == RSLabels(rs, parent)
           number == rs.num
           status == rs.status
<1>1. \/ number \in Numerals /\ s = Sample("rs_num", labels, number)
      \/ status \in Known /\ s = Sample("rs_up", labels, UpOf(status))
      \/ status # Blank /\ s = Sample("rs_status", WithStatus(labels, status), "1")
  BY Zenon DEF RSRow
<1> HIDE DEF labels, number, status
<1>2. s = Sample("rs_num", labels, number) =>
        s.name = "rs_num" /\ s.labels = labels /\ s.value = number
  BY SampleParts, Zenon
<1>3. s = Sample("rs_up", labels, UpOf(status)) =>
        s.name = "rs_up" /\ s.labels = labels /\ s.value = UpOf(status)
  BY SampleParts, Zenon
<1>4. s = Sample("rs_status", WithStatus(labels, status), "1") =>
        s.name = "rs_status" /\ s.labels = WithStatus(labels, status) /\ s.value = "1"
  BY SampleParts, Zenon
<1> QED
  BY <1>1, <1>2, <1>3, <1>4, Zenon DEF labels, number, status

LEMMA RowsOf ==
  ASSUME NEW st \in Payloads, NEW info, NEW s \in ToSet(Derive(st, info))
  PROVE  /\ s.name \in {"vs_num", "vs_up", "vs_status"} =>
              \E i \in DOMAIN st.vs : VSRow(st, info, i, s)
         /\ s.name \in {"rs_num", "rs_up", "rs_status"} =>
              \E i \in DOMAIN st.rs : RSRow(st, info, i, s)
         /\ s.name \in {"cpu_num", "interface_num"} => HealthSample(st, s)
<1>1. s = Sample("up", <<>>, "1") => s.name = "up"
  BY SampleParts
<1>2. HealthSample(st, s) => s.name \in {"total", "cpu_num", "interface_num"}
  BY HealthParts, Zenon
<1>3. ASSUME NEW i, VSRow(st, info, i, s)
      PROVE  s.name \in {"vs_num", "vs_up", "vs_status"}
  BY <1>3, VSParts, Zenon
<1>4. ASSUME NEW i, RSRow(st, info, i, s)
      PROVE  s.name \in {"rs_num", "rs_up", "rs_status"}
  BY <1>4, RSParts, Zenon
<1> QED
  BY <1>1, <1>2, <1>3, <1>4, SampleRows

-----------------------------------------------------------------------------
(* Which of a listing's rows, and which service, a row is given.           *)
LEMMA MetaRow ==
  ASSUME NEW vs, NEW info, IsList(info)
  PROVE  \/ /\ \A k \in DOMAIN info : ~SameKey(info[k], vs)
            /\ MetaOf(vs, info) = NoInfo
         \/ \E k \in DOMAIN info : SameKey(info[k], vs) /\ MetaOf(vs, info) = info[k]
<1> DEFINE found == {k \in DOMAIN info : SameKey(info[k], vs)}
<1>1. Len(info) \in Nat /\ found \subseteq 1..Len(info)
  BY IndexedList
<1>2. MetaOf(vs, info) = IF found = {} THEN NoInfo ELSE info[Max(found)]
  BY DEF MetaOf
<1>3. found # {} => Max(found) \in found
  BY <1>1, LastAndFirst
<1> QED
  BY <1>2, <1>3

LEMMA ParentRow ==
  ASSUME NEW st \in Payloads, NEW info, IsList(info), NEW rs
  PROVE  LET own(rows) == {v \in ToSet(rows) : v.index = rs.vsIndex}
         IN ParentOf(rs, st, info) \in
              IF own(st.vs) # {} THEN own(st.vs)
              ELSE IF own(info) # {} THEN own(info)
              ELSE {NoParent}
<1> DEFINE inStats == {i \in DOMAIN st.vs : st.vs[i].index = rs.vsIndex}
           inInfo == {i \in DOMAIN info : info[i].index = rs.vsIndex}
           ofStats == {v \in ToSet(st.vs) : v.index = rs.vsIndex}
           ofInfo == {v \in ToSet(info) : v.index = rs.vsIndex}
<1>1. /\ Len(info) \in Nat /\ inInfo \subseteq 1..Len(info)
      /\ Len(st.vs) \in Nat /\ inStats \subseteq 1..Len(st.vs)
  BY IndexedList, PayloadRows
<1>2. ParentOf(rs, st, info) = IF inStats # {} THEN st.vs[Max(inStats)]
                               ELSE IF inInfo # {} THEN info[Min(inInfo)]
                               ELSE NoParent
  BY DEF ParentOf
<1>3. inStats # {} => Max(inStats) \in inStats
  BY <1>1, LastAndFirst
<1>4. inInfo # {} => Min(inInfo) \in inInfo
  BY <1>1, LastAndFirst
<1>5. /\ inStats # {} => st.vs[Max(inStats)] \in ofStats
      /\ inStats = {} => ofStats = {}
  BY <1>3 DEF ToSet
<1>6. /\ inInfo # {} => info[Min(inInfo)] \in ofInfo
      /\ inInfo = {} => ofInfo = {}
  BY <1>4 DEF ToSet
<1> HIDE DEF inStats, inInfo, ofStats, ofInfo
<1>7. ParentOf(rs, st, info) \in IF ofStats # {} THEN ofStats
                                ELSE IF ofInfo # {} THEN ofInfo
                                ELSE {NoParent}
  BY <1>2, <1>5, <1>6
<1> QED
  BY <1>7 DEF ofStats, ofInfo

-----------------------------------------------------------------------------
(* Nothing is derived before the verdict, and then all of it at once.      *)
Derived ==
    IF at = "derived" /\ verdict = "ok"
    THEN \E st \in Payloads, info \in Listings \cup {<<>>} :
           polled = [st |-> st, info |-> info] /\ samples = Derive(st, info)
    ELSE /\ polled = [st |-> NoPayload, info |-> <<>>]
         /\ samples = IF at = "derived" THEN UpSample(FALSE) ELSE <<>>

LEMMA StepDerived == Inv /\ Derived /\ [Next]_vars => Derived'
<1> SUFFICES ASSUME Inv, Derived, [Next]_vars
             PROVE  Derived'
  OBVIOUS
<1>1. CASE \E r \in Responses : Answer(r)
  <2>1. UNCHANGED <<polled, samples>> /\ at # "derived" /\ at' # "derived"
    BY <1>1, AnswerMoves DEF Answer, Steps
  <2> QED
    BY <2>1 DEF Derived
<1>2. CASE CollectSystem
  <2>1. at = "decided" /\ at' = "derived" /\ verdict' = verdict
    BY <1>2 DEF CollectSystem
  <2>2. CASE verdict = "ok"
    <3>1. \E st \in Payloads, info \in Listings \cup {<<>>} :
            polled' = [st |-> st, info |-> info] /\ samples' = Derive(st, info)
      BY <1>2, <2>2, Zenon DEF CollectSystem, Derive
    <3> QED
      BY <2>1, <2>2, <3>1, Zenon DEF Derived
  <2>3. CASE verdict # "ok"
    <3>1. samples' = UpSample(FALSE) /\ polled' = polled
      BY <1>2, <2>3 DEF CollectSystem
    <3> QED
      BY <2>1, <2>3, <3>1 DEF Derived
  <2> QED
    BY <2>2, <2>3
<1>3. CASE UNCHANGED vars
  BY <1>3 DEF vars, Derived
<1> QED
  BY <1>1, <1>2, <1>3 DEF Next

LEMMA InitDerived == Init => Derived
<1> SUFFICES ASSUME Init
             PROVE  Derived
  OBVIOUS
<1>1. at # "derived" /\ polled = [st |-> NoPayload, info |-> <<>>] /\ samples = <<>>
  BY DEF Init
<1> QED
  BY <1>1 DEF Derived

THEOREM DerivedOnce == Spec => []Derived
BY InitInv, StepInv, InitDerived, StepDerived, PTL DEF Spec

(* What is in the samples: those of a payload, or kemp_up alone.           *)
LEMMA Contents ==
  ASSUME Derived
  PROVE  /\ IsList(samples)
         /\ \/ /\ at = "derived" /\ verdict = "ok"
               /\ polled.st \in Payloads /\ IsList(polled.info)
               /\ ToSet(samples) = ToSet(Derive(polled.st, polled.info))
            \/ /\ ~(at = "derived" /\ verdict = "ok")
               /\ ToSet(samples) \subseteq {Sample("up", <<>>, "0")}
               /\ polled.st.vs = <<>>
<1>1. CASE at = "derived" /\ verdict = "ok"
  <2>1. PICK st \in Payloads, info \in Listings \cup {<<>>} :
          polled = [st |-> st, info |-> info] /\ samples = Derive(st, info)
    BY <1>1, Zenon DEF Derived
  <2>2. polled.st = st /\ polled.info = info
    BY <2>1
  <2>3. IsList(info)
    BY EmptyList, ListingsAssumption
  <2>4. IsList(Derive(st, info))
    BY DerivedSamples
  <2> QED
    BY <1>1, <2>1, <2>2, <2>3, <2>4
<1>2. CASE ~(at = "derived" /\ verdict = "ok")
  <2>1. samples \in {UpSample(FALSE), <<>>} /\ polled = [st |-> NoPayload, info |-> <<>>]
    BY <1>2 DEF Derived
  <2>2. polled.st.vs = <<>>
    BY <2>1 DEF NoPayload
  <2>3. IsList(UpSample(FALSE)) /\ ToSet(UpSample(FALSE)) = {Sample("up", <<>>, "0")}
    BY Added DEF UpSample, Absent
  <2> QED
    BY <1>2, <2>1, <2>2, <2>3, EmptyList
<1> QED
  BY <1>1, <1>2

(* The indices are those of a finite sequence.                             *)
THEOREM TypeCorrect == Spec => []TypeOK
<1>1. Inv /\ Derived => TypeOK
  <2> SUFFICES ASSUME Inv, Derived
               PROVE  TypeOK
    OBVIOUS
  <2>1. IsFiniteSet(DOMAIN samples)
    BY Contents, IndexedList, FS_Interval
  <2>2. polled.st \in Payloads \cup {NoPayload} /\ polled.info \in Listings \cup {<<>>}
    <3>1. CASE at = "derived" /\ verdict = "ok"
      <4>1. PICK st \in Payloads, info \in Listings \cup {<<>>} : polled = [st |-> st, info |-> info]
        BY <3>1, Zenon DEF Derived
      <4> QED
        BY <4>1
    <3>2. CASE ~(at = "derived" /\ verdict = "ok")
      <4>1. polled = [st |-> NoPayload, info |-> <<>>]
        BY <3>2, Zenon DEF Derived
      <4> QED
        BY <4>1
    <3> QED
      BY <3>1, <3>2
  <2> QED
    BY <2>1, <2>2, Zenon DEF Inv, Typed, TypeOK
<1> QED
  BY <1>1, InitInv, StepInv, InitDerived, StepDerived, PTL DEF Spec

-----------------------------------------------------------------------------
(* One set of label keys per metric.                                       *)
KeysOf(name) ==
    IF name = "cpu_num" THEN {"cpu"}
    ELSE IF name = "interface_num" THEN {"interface"}
    ELSE IF name \in {"vs_num", "vs_up"} THEN {"name", "address", "port", "protocol"}
    ELSE IF name = "vs_status" THEN {"name", "address", "port", "protocol", "status"}
    ELSE IF name \in {"rs_num", "rs_up"} THEN {"address", "port", "vs_address", "vs_port"}
    ELSE IF name = "rs_status" THEN {"address", "port", "vs_address", "vs_port", "status"}
    ELSE {}

LEMMA LabelKeys ==
  /\ DOMAIN <<>> = {}
  /\ \A vs, meta : DOMAIN ServiceLabels(vs, meta) = {"name", "address", "port", "protocol"}
  /\ \A rs, parent : DOMAIN RSLabels(rs, parent) = {"address", "port", "vs_address", "vs_port"}
  /\ \A labels, status : DOMAIN WithStatus(labels, status) = DOMAIN labels \cup {"status"}
<1>1. \A vs, meta : DOMAIN ServiceLabels(vs, meta) = {"name", "address", "port", "protocol"}
  BY DEF ServiceLabels, VSLabels
<1>2. \A rs, parent : DOMAIN RSLabels(rs, parent) = {"address", "port", "vs_address", "vs_port"}
  BY DEF RSLabels
<1>3. \A labels, status : DOMAIN WithStatus(labels, status) = DOMAIN labels \cup {"status"}
  BY DEF WithStatus
<1>4. DOMAIN <<>> = {}
  OBVIOUS
<1> QED
  BY <1>1, <1>2, <1>3, <1>4, Zenon

LEMMA KeysOfSample ==
  ASSUME NEW st \in Payloads, NEW info, NEW s \in ToSet(Derive(st, info))
  PROVE  DOMAIN s.labels = KeysOf(s.name)
<1>1. CASE s = Sample("up", <<>>, "1")
  <2>1. s.name = "up" /\ s.labels = <<>>
    BY <1>1, SampleParts, Zenon
  <2> QED
    BY <2>1, LabelKeys DEF KeysOf
<1>2. CASE HealthSample(st, s)
  <2>1. CASE s.name = "total" /\ s.labels = <<>>
    BY <2>1, LabelKeys DEF KeysOf
  <2>2. ASSUME NEW i \in DOMAIN st.cpus, s.name = "cpu_num", s.labels = [cpu |-> st.cpus[i].id]
        PROVE  DOMAIN s.labels = KeysOf(s.name)
    BY <2>2 DEF KeysOf
  <2>3. ASSUME NEW i \in DOMAIN st.interfaces, s.name = "interface_num",
               s.labels = [interface |-> st.interfaces[i].id]
        PROVE  DOMAIN s.labels = KeysOf(s.name)
    BY <2>3 DEF KeysOf
  <2> QED
    BY <1>2, <2>1, <2>2, <2>3, HealthParts
<1>3. ASSUME NEW i \in DOMAIN st.vs, VSRow(st, info, i, s)
      PROVE  DOMAIN s.labels = KeysOf(s.name)
  <2> DEFINE labels == ServiceLabels(st.vs[i], MetaOf(st.vs[i], info))
             status == MetaOf(st.vs[i], info).status
  <2>1. \/ s.name \in {"vs_num", "vs_up"} /\ s.labels = labels
        \/ s.name = "vs_status" /\ s.labels = WithStatus(labels, status)
    BY <1>3, VSParts
  <2>2. DOMAIN labels = {"name", "address", "port", "protocol"}
    BY LabelKeys, Zenon
  <2> HIDE DEF labels, status
  <2>3. DOMAIN WithStatus(labels, status) = DOMAIN labels \cup {"status"}
    BY LabelKeys, Zenon
  <2> QED
    BY <2>1, <2>2, <2>3 DEF KeysOf
<1>4. ASSUME NEW i \in DOMAIN st.rs, RSRow(st, info, i, s)
      PROVE  DOMAIN s.labels = KeysOf(s.name)
  <2> DEFINE labels == RSLabels(st.rs[i], ParentOf(st.rs[i], st, info))
             status == st.rs[i].status
  <2>1. \/ s.name \in {"rs_num", "rs_up"} /\ s.labels = labels
        \/ s.name = "rs_status" /\ s.labels = WithStatus(labels, status)
    BY <1>4, RSParts
  <2>2. DOMAIN labels = {"address", "port", "vs_address", "vs_port"}
    BY LabelKeys, Zenon
  <2> HIDE DEF labels, status
  <2>3. DOMAIN WithStatus(labels, status) = DOMAIN labels \cup {"status"}
    BY LabelKeys, Zenon
  <2> QED
    BY <2>1, <2>2, <2>3 DEF KeysOf
<1> QED
  BY <1>1, <1>2, <1>3, <1>4, SampleRows, Zenon

(* A metric is exported with one set of label keys, whatever could be      *)
(* resolved: no reader drops a sample for its keys.                        *)
THEOREM KeysAgree == Spec => []OneKeySetPerName
<1>1. Derived => OneKeySetPerName
  <2> SUFFICES ASSUME Derived, NEW i \in DOMAIN samples, NEW j \in DOMAIN samples,
                      samples[i].name = samples[j].name
               PROVE  DOMAIN samples[i].labels = DOMAIN samples[j].labels
    BY DEF OneKeySetPerName
  <2>1. samples[i] \in ToSet(samples) /\ samples[j] \in ToSet(samples)
    BY DEF ToSet
  <2>2. CASE ToSet(samples) \subseteq {Sample("up", <<>>, "0")}
    BY <2>1, <2>2
  <2>3. CASE polled.st \in Payloads /\ ToSet(samples) = ToSet(Derive(polled.st, polled.info))
    BY <2>1, <2>3, KeysOfSample
  <2> QED
    BY <2>2, <2>3, Contents
<1> QED
  BY <1>1, DerivedOnce, PTL

-----------------------------------------------------------------------------
(* What the labels of a row's samples say.                                 *)
LEMMA ServiceLabelValues ==
  ASSUME NEW vs, NEW meta
  PROVE  /\ ServiceLabels(vs, meta).name = meta.name
         /\ ServiceLabels(vs, meta).address = vs.address
         /\ ServiceLabels(vs, meta).port = vs.port
         /\ ServiceLabels(vs, meta).protocol = IF vs.protocol # Blank THEN vs.protocol ELSE meta.protocol
BY DEF ServiceLabels, VSLabels

LEMMA RSLabelValues ==
  ASSUME NEW rs, NEW parent
  PROVE  /\ RSLabels(rs, parent).address = rs.address
         /\ RSLabels(rs, parent).port = rs.port
         /\ RSLabels(rs, parent).vs_address = parent.address
         /\ RSLabels(rs, parent).vs_port = parent.port
BY DEF RSLabels

LEMMA WithStatusValues ==
  ASSUME NEW labels, NEW status
  PROVE  /\ WithStatus(labels, status).status = status
         /\ \A k \in DOMAIN labels \ {"status"} : WithStatus(labels, status)[k] = labels[k]
BY DEF WithStatus

LEMMA VSLabelsOf ==
  ASSUME NEW st, NEW info, NEW i, NEW s, VSRow(st, info, i, s)
  PROVE  /\ s.labels.name = MetaOf(st.vs[i], info).name
         /\ s.labels.address = st.vs[i].address /\ s.labels.port = st.vs[i].port
         /\ s.name = "vs_status" => /\ s.labels.status = MetaOf(st.vs[i], info).status
                                    /\ s.labels.status # Blank
<1> DEFINE vs == st.vs[i]
           meta == MetaOf(vs, info)
           labels == ServiceLabels(vs, meta)
           status == meta.status
<1>1. \/ s.name \in {"vs_num", "vs_up"} /\ s.labels = labels
      \/ s.name = "vs_status" /\ s.labels = WithStatus(labels, status) /\ status # Blank
  BY VSParts
<1>2. labels.name = meta.name /\ labels.address = vs.address /\ labels.port = vs.port
  BY ServiceLabelValues, Zenon
<1>3. DOMAIN labels = {"name", "address", "port", "protocol"}
  BY LabelKeys, Zenon
<1> HIDE DEF labels, status
<1>4. /\ WithStatus(labels, status).status = status
      /\ \A k \in DOMAIN labels \ {"status"} : WithStatus(labels, status)[k] = labels[k]
  BY WithStatusValues, Zenon
<1>5. /\ s.labels.name = labels.name /\ s.labels.address = labels.address /\ s.labels.port = labels.port
      /\ s.name = "vs_status" => s.labels.status = status /\ status # Blank
  BY <1>1, <1>3, <1>4
<1> QED
  BY <1>2, <1>5 DEF status

LEMMA RSLabelsOf ==
  ASSUME NEW st, NEW info, NEW i, NEW s, RSRow(st, info, i, s)
  PROVE  /\ s.labels.address = st.rs[i].address /\ s.labels.port = st.rs[i].port
         /\ s.labels.vs_address = ParentOf(st.rs[i], st, info).address
         /\ s.labels.vs_port = ParentOf(st.rs[i], st, info).port
<1> DEFINE rs == st.rs[i]
           parent == ParentOf(rs, st, info)
           labels == RSLabels(rs, parent)
           status == rs.status
<1>1. \/ s.labels = labels
      \/ s.labels = WithStatus(labels, status)
  BY RSParts, Zenon
<1>2. /\ labels.address = rs.address /\ labels.port = rs.port
      /\ labels.vs_address = parent.address /\ labels.vs_port = parent.port
  BY RSLabelValues, Zenon
<1>3. DOMAIN labels = {"address", "port", "vs_address", "vs_port"}
  BY LabelKeys, Zenon
<1> HIDE DEF labels, status
<1>4. \A k \in DOMAIN labels \ {"status"} : WithStatus(labels, status)[k] = labels[k]
  BY WithStatusValues, Zenon
<1>5. /\ s.labels.address = labels.address /\ s.labels.port = labels.port
      /\ s.labels.vs_address = labels.vs_address /\ s.labels.vs_port = labels.vs_port
  BY <1>1, <1>3, <1>4
<1> QED
  BY <1>2, <1>5

LEMMA NamedSamples == \A names : Named(names) = {s \in ToSet(samples) : s.name \in names}
BY DEF Named, ToSet

(* Every sample of a cycle is of a row of its payload, or is kemp_up.      *)
LEMMA NamedRows ==
  ASSUME Derived, NEW names, NEW s \in Named(names), "up" \notin names
  PROVE  /\ at = "derived" /\ verdict = "ok"
         /\ polled.st \in Payloads /\ IsList(polled.info)
         /\ s \in ToSet(Derive(polled.st, polled.info)) /\ s.name \in names
<1>1. s \in ToSet(samples) /\ s.name \in names
  BY NamedSamples
<1>2. Sample("up", <<>>, "0").name = "up"
  BY SampleParts
<1> QED
  BY <1>1, <1>2, Contents

(* A service goes by the name and the status that listvs gives for its     *)
(* address and port, a real server by a service that has its index.        *)
THEOREM OwnNames == Spec => []OwnService
<1>1. ASSUME Derived, NEW s \in Named({"vs_num", "vs_up", "vs_status"})
      PROVE  LET own == {v \in ToSet(polled.info) : At(v, s.labels)} IN
             /\ s.labels.name \in (IF own = {} THEN {Blank} ELSE {v.name : v \in own})
             /\ s.name = "vs_status" =>
                  \E v \in own : v.name = s.labels.name /\ v.status = s.labels.status
  <2> DEFINE st == polled.st
             info == polled.info
             own == {v \in ToSet(info) : At(v, s.labels)}
  <2>1. /\ st \in Payloads /\ IsList(info) /\ s \in ToSet(Derive(st, info))
        /\ s.name \in {"vs_num", "vs_up", "vs_status"}
    <3>1. "up" \notin {"vs_num", "vs_up", "vs_status"}
      OBVIOUS
    <3> QED
      BY <1>1, <3>1, NamedRows, Zenon
  <2> HIDE DEF st, info
  <2>2. PICK i \in DOMAIN st.vs : VSRow(st, info, i, s)
    BY <2>1, RowsOf, Zenon
  <2> DEFINE vs == st.vs[i]
             meta == MetaOf(vs, info)
  <2>3. /\ s.labels.name = meta.name /\ s.labels.address = vs.address /\ s.labels.port = vs.port
        /\ s.name = "vs_status" => s.labels.status = meta.status /\ s.labels.status # Blank
    BY <2>2, VSLabelsOf
  <2>4. \/ (\A k \in DOMAIN info : ~SameKey(info[k], vs)) /\ meta = NoInfo
        \/ \E k \in DOMAIN info : SameKey(info[k], vs) /\ meta = info[k]
    BY <2>1, MetaRow
  <2> HIDE DEF vs, meta
  <2>5. \A v : SameKey(v, vs) <=> At(v, s.labels)
    BY <2>3 DEF SameKey, At
  <2>6. CASE (\A k \in DOMAIN info : ~SameKey(info[k], vs)) /\ meta = NoInfo
    <3>1. own = {}
      BY <2>5, <2>6 DEF ToSet
    <3>2. meta.name = Blank /\ meta.status = Blank
      BY <2>6 DEF NoInfo
    <3> HIDE DEF own
    <3> QED
      BY <2>3, <3>1, <3>2 DEF info, own
  <2>7. CASE \E k \in DOMAIN info : SameKey(info[k], vs) /\ meta = info[k]
    <3>1. meta \in own
      BY <2>5, <2>7 DEF ToSet
    <3>2. s.labels.name \in {v.name : v \in own} /\ own # {}
      BY <2>3, <3>1
    <3> HIDE DEF own
    <3>3. s.name = "vs_status" => \E v \in own : v.name = s.labels.name /\ v.status = s.labels.status
      BY <2>3, <3>1
    <3> QED
      BY <3>2, <3>3 DEF info, own
  <2> QED
    BY <2>4, <2>6, <2>7
<1>2. ASSUME Derived, NEW s \in Named({"rs_num", "rs_up", "rs_status"})
      PROVE  \E rs \in ToSet(polled.st.rs) :
               LET own(rows) == {v \in ToSet(rows) : v.index = rs.vsIndex}
                   parents == IF own(polled.st.vs) # {} THEN own(polled.st.vs)
                              ELSE IF own(polled.info) # {} THEN own(polled.info)
                              ELSE {[address |-> Blank, port |-> 0]}
               IN /\ At(rs, s.labels)
                  /\ \E v \in parents : s.labels.vs_address = v.address /\ s.labels.vs_port = v.port
  <2> DEFINE st == polled.st
             info == polled.info
  <2>1. /\ st \in Payloads /\ IsList(info) /\ s \in ToSet(Derive(st, info))
        /\ s.name \in {"rs_num", "rs_up", "rs_status"}
    <3>1. "up" \notin {"rs_num", "rs_up", "rs_status"}
      OBVIOUS
    <3> QED
      BY <1>2, <3>1, NamedRows, Zenon
  <2> HIDE DEF st, info
  <2>2. PICK i \in DOMAIN st.rs : RSRow(st, info, i, s)
    BY <2>1, RowsOf, Zenon
  <2> DEFINE rs == st.rs[i]
             parent == ParentOf(rs, st, info)
  <2>3. /\ s.labels.address = rs.address /\ s.labels.port = rs.port
        /\ s.labels.vs_address = parent.address /\ s.labels.vs_port = parent.port
    BY <2>2, RSLabelsOf
  <2> DEFINE ofStats == {v \in ToSet(st.vs) : v.index = rs.vsIndex}
             ofInfo == {v \in ToSet(info) : v.index = rs.vsIndex}
             parents == IF ofStats # {} THEN ofStats ELSE IF ofInfo # {} THEN ofInfo
                        ELSE {[address |-> Blank, port |-> 0]}
  <2>4. parent \in parents
    BY <2>1, ParentRow, Zenon DEF NoParent
  <2>5. rs \in ToSet(st.rs)
    BY DEF ToSet
  <2> HIDE DEF parent, parents
  <2>6. \E v \in parents : s.labels.vs_address = v.address /\ s.labels.vs_port = v.port
    BY <2>3, <2>4
  <2>7. At(rs, s.labels)
    BY <2>3 DEF At
  <2> HIDE DEF rs
  <2> QED
    BY <2>5, <2>6, <2>7, Zenon DEF st, info, parents
<1>3. Derived => OwnService
  BY <1>1, <1>2, Zenon DEF OwnService
<1> QED
  BY <1>3, DerivedOnce, PTL

-----------------------------------------------------------------------------
(* A cycle that succeeded: its samples are those of its payload.           *)
LEMMA Succeeded ==
  ASSUME Derived, at = "derived", verdict = "ok"
  PROVE  /\ polled.st \in Payloads /\ IsList(polled.info)
         /\ \A names, s : s \in Named(names) <=>
              s \in ToSet(Derive(polled.st, polled.info)) /\ s.name \in names
<1>1. /\ polled.st \in Payloads /\ IsList(polled.info)
      /\ ToSet(samples) = ToSet(Derive(polled.st, polled.info))
  BY Contents
<1> QED
  BY <1>1, NamedSamples

(* The numbers, row by row.                                                *)
LEMMA ServiceNumbers ==
  ASSUME NEW st \in Payloads, NEW info
  PROVE  /\ \A s \in ToSet(Derive(st, info)) : s.name = "vs_num" =>
              \E i \in DOMAIN st.vs :
                /\ st.vs[i].num \in Numerals /\ s.value = st.vs[i].num
                /\ s.labels = ServiceLabels(st.vs[i], MetaOf(st.vs[i], info))
         /\ \A i \in DOMAIN st.vs : st.vs[i].num \in Numerals =>
              \E s \in ToSet(Derive(st, info)) :
                /\ s.name = "vs_num" /\ s.value = st.vs[i].num
                /\ s.labels = ServiceLabels(st.vs[i], MetaOf(st.vs[i], info))
<1>1. ASSUME NEW s \in ToSet(Derive(st, info)), s.name = "vs_num"
      PROVE  \E i \in DOMAIN st.vs :
                /\ st.vs[i].num \in Numerals /\ s.value = st.vs[i].num
                /\ s.labels = ServiceLabels(st.vs[i], MetaOf(st.vs[i], info))
  <2>1. PICK i \in DOMAIN st.vs : VSRow(st, info, i, s)
    BY <1>1, RowsOf
  <2> QED
    BY <1>1, <2>1, VSParts
<1>2. ASSUME NEW i \in DOMAIN st.vs, st.vs[i].num \in Numerals
      PROVE  \E s \in ToSet(Derive(st, info)) :
                /\ s.name = "vs_num" /\ s.value = st.vs[i].num
                /\ s.labels = ServiceLabels(st.vs[i], MetaOf(st.vs[i], info))
  <2> DEFINE s == Sample("vs_num", ServiceLabels(st.vs[i], MetaOf(st.vs[i], info)), st.vs[i].num)
  <2>1. VSRow(st, info, i, s)
    BY <1>2, Zenon DEF VSRow
  <2>2. /\ s.name = "vs_num" /\ s.value = st.vs[i].num
        /\ s.labels = ServiceLabels(st.vs[i], MetaOf(st.vs[i], info))
    BY SampleParts
  <2> HIDE DEF s
  <2>3. s \in ToSet(Derive(st, info))
    BY <2>1, SampleRows
  <2> QED
    BY <2>2, <2>3
<1> QED
  BY <1>1, <1>2

LEMMA RealServerNumbers ==
  ASSUME NEW st \in Payloads, NEW info
  PROVE  /\ \A s \in ToSet(Derive(st, info)) : s.name = "rs_num" =>
              \E i \in DOMAIN st.rs :
                /\ st.rs[i].num \in Numerals /\ s.value = st.rs[i].num
                /\ s.labels = RSLabels(st.rs[i], ParentOf(st.rs[i], st, info))
         /\ \A i \in DOMAIN st.rs : st.rs[i].num \in Numerals =>
              \E s \in ToSet(Derive(st, info)) :
                /\ s.name = "rs_num" /\ s.value = st.rs[i].num
                /\ s.labels = RSLabels(st.rs[i], ParentOf(st.rs[i], st, info))
<1>1. ASSUME NEW s \in ToSet(Derive(st, info)), s.name = "rs_num"
      PROVE  \E i \in DOMAIN st.rs :
                /\ st.rs[i].num \in Numerals /\ s.value = st.rs[i].num
                /\ s.labels = RSLabels(st.rs[i], ParentOf(st.rs[i], st, info))
  <2>1. PICK i \in DOMAIN st.rs : RSRow(st, info, i, s)
    BY <1>1, RowsOf
  <2> QED
    BY <1>1, <2>1, RSParts
<1>2. ASSUME NEW i \in DOMAIN st.rs, st.rs[i].num \in Numerals
      PROVE  \E s \in ToSet(Derive(st, info)) :
                /\ s.name = "rs_num" /\ s.value = st.rs[i].num
                /\ s.labels = RSLabels(st.rs[i], ParentOf(st.rs[i], st, info))
  <2> DEFINE s == Sample("rs_num", RSLabels(st.rs[i], ParentOf(st.rs[i], st, info)), st.rs[i].num)
  <2>1. RSRow(st, info, i, s)
    BY <1>2, Zenon DEF RSRow
  <2>2. /\ s.name = "rs_num" /\ s.value = st.rs[i].num
        /\ s.labels = RSLabels(st.rs[i], ParentOf(st.rs[i], st, info))
    BY SampleParts
  <2> HIDE DEF s
  <2>3. s \in ToSet(Derive(st, info))
    BY <2>1, SampleRows
  <2> QED
    BY <2>2, <2>3
<1> QED
  BY <1>1, <1>2

LEMMA HealthNumbers ==
  ASSUME NEW st \in Payloads, NEW info
  PROVE  /\ \A s \in ToSet(Derive(st, info)) : s.name = "cpu_num" =>
              \E i \in DOMAIN st.cpus :
                /\ st.cpus[i].num \in Numerals /\ s.value = st.cpus[i].num
                /\ s.labels.cpu = st.cpus[i].id
         /\ \A i \in DOMAIN st.cpus : st.cpus[i].num \in Numerals =>
              \E s \in ToSet(Derive(st, info)) :
                s.name = "cpu_num" /\ s.value = st.cpus[i].num /\ s.labels.cpu = st.cpus[i].id
         /\ \A s \in ToSet(Derive(st, info)) : s.name = "interface_num" =>
              \E i \in DOMAIN st.interfaces :
                /\ st.interfaces[i].num \in Numerals /\ s.value = st.interfaces[i].num
                /\ s.labels.interface = st.interfaces[i].id
         /\ \A i \in DOMAIN st.interfaces : st.interfaces[i].num \in Numerals =>
              \E s \in ToSet(Derive(st, info)) :
                /\ s.name = "interface_num" /\ s.value = st.interfaces[i].num
                /\ s.labels.interface = st.interfaces[i].id
<1>1. ASSUME NEW s \in ToSet(Derive(st, info))
      PROVE  /\ s.name = "cpu_num" =>
                  \E i \in DOMAIN st.cpus :
                    /\ st.cpus[i].num \in Numerals /\ s.value = st.cpus[i].num
                    /\ s.labels.cpu = st.cpus[i].id
             /\ s.name = "interface_num" =>
                  \E i \in DOMAIN st.interfaces :
                    /\ st.interfaces[i].num \in Numerals /\ s.value = st.interfaces[i].num
                    /\ s.labels.interface = st.interfaces[i].id
  <2>1. s.name \in {"cpu_num", "interface_num"} => HealthSample(st, s)
    BY RowsOf
  <2>2. s.name \in {"cpu_num", "interface_num"} =>
          \/ /\ s.name = "cpu_num"
             /\ \E i \in DOMAIN st.cpus : /\ st.cpus[i].num \in Numerals /\ s.value = st.cpus[i].num
                                          /\ s.labels = [cpu |-> st.cpus[i].id]
          \/ /\ s.name = "interface_num"
             /\ \E i \in DOMAIN st.interfaces :
                  /\ st.interfaces[i].num \in Numerals /\ s.value = st.interfaces[i].num
                  /\ s.labels = [interface |-> st.interfaces[i].id]
    BY <2>1, HealthParts
  <2>3. ASSUME NEW i, s.labels = [cpu |-> st.cpus[i].id]
        PROVE  s.labels.cpu = st.cpus[i].id
    BY <2>3
  <2>4. ASSUME NEW i, s.labels = [interface |-> st.interfaces[i].id]
        PROVE  s.labels.interface = st.interfaces[i].id
    BY <2>4
  <2>5. CASE s.name = "cpu_num"
    BY <2>2, <2>3, <2>5
  <2>6. CASE s.name = "interface_num"
    BY <2>2, <2>4, <2>6
  <2> QED
    BY <2>5, <2>6
<1>2. ASSUME NEW i \in DOMAIN st.cpus, st.cpus[i].num \in Numerals
      PROVE  \E s \in ToSet(Derive(st, info)) :
               s.name = "cpu_num" /\ s.value = st.cpus[i].num /\ s.labels.cpu = st.cpus[i].id
  <2> DEFINE labels == [cpu |-> st.cpus[i].id]
             s == Sample("cpu_num", labels, st.cpus[i].num)
  <2>1. HealthSample(st, s)
    BY <1>2, Zenon DEF HealthSample
  <2>2. labels.cpu = st.cpus[i].id
    OBVIOUS
  <2> HIDE DEF labels
  <2>3. s.name = "cpu_num" /\ s.value = st.cpus[i].num /\ s.labels = labels
    BY SampleParts
  <2> HIDE DEF s
  <2>4. s \in ToSet(Derive(st, info))
    BY <2>1, SampleRows
  <2> QED
    BY <2>2, <2>3, <2>4
<1>3. ASSUME NEW i \in DOMAIN st.interfaces, st.interfaces[i].num \in Numerals
      PROVE  \E s \in ToSet(Derive(st, info)) :
               /\ s.name = "interface_num" /\ s.value = st.interfaces[i].num
               /\ s.labels.interface = st.interfaces[i].id
  <2> DEFINE labels == [interface |-> st.interfaces[i].id]
             s == Sample("interface_num", labels, st.interfaces[i].num)
  <2>1. HealthSample(st, s)
    BY <1>3, Zenon DEF HealthSample
  <2>2. labels.interface = st.interfaces[i].id
    OBVIOUS
  <2> HIDE DEF labels
  <2>3. s.name = "interface_num" /\ s.value = st.interfaces[i].num /\ s.labels = labels
    BY SampleParts
  <2> HIDE DEF s
  <2>4. s \in ToSet(Derive(st, info))
    BY <2>1, SampleRows
  <2> QED
    BY <2>2, <2>3, <2>4
<1> QED
  BY <1>1, <1>2, <1>3

LEMMA NumbersAreRead ==
  ASSUME Derived, at = "derived", verdict = "ok"
  PROVE  NumbersRead
<1> DEFINE st == polled.st
           info == polled.info
           rows == [vs_num |-> st.vs, rs_num |-> st.rs, cpu_num |-> st.cpus,
                    interface_num |-> st.interfaces]
           Goal(name) == LET readable == {r \in ToSet(rows[name]) : r.num \in Numerals}
                         IN /\ \A r \in readable : \E s \in Named({name}) : IsOf(s, r)
                            /\ \A s \in Named({name}) : \E r \in readable : IsOf(s, r)
<1>1. /\ st \in Payloads
      /\ \A names, s : s \in Named(names) <=> s \in ToSet(Derive(st, info)) /\ s.name \in names
  BY Succeeded
<1>2. /\ rows.vs_num = st.vs /\ rows.rs_num = st.rs
      /\ rows.cpu_num = st.cpus /\ rows.interface_num = st.interfaces
      /\ DOMAIN rows = {"vs_num", "rs_num", "cpu_num", "interface_num"}
  OBVIOUS
<1>3. /\ \A i \in DOMAIN st.vs : st.vs[i] \in ToSet(st.vs)
      /\ \A r \in ToSet(st.vs) : \E i \in DOMAIN st.vs : r = st.vs[i]
      /\ \A i \in DOMAIN st.rs : st.rs[i] \in ToSet(st.rs)
      /\ \A r \in ToSet(st.rs) : \E i \in DOMAIN st.rs : r = st.rs[i]
      /\ \A i \in DOMAIN st.cpus : st.cpus[i] \in ToSet(st.cpus)
      /\ \A r \in ToSet(st.cpus) : \E i \in DOMAIN st.cpus : r = st.cpus[i]
      /\ \A i \in DOMAIN st.interfaces : st.interfaces[i] \in ToSet(st.interfaces)
      /\ \A r \in ToSet(st.interfaces) : \E i \in DOMAIN st.interfaces : r = st.interfaces[i]
  BY DEF ToSet
<1> HIDE DEF st, info, rows
<1>4. Goal("vs_num")
  <2>1. ASSUME NEW i \in DOMAIN st.vs, NEW s,
               s.labels = ServiceLabels(st.vs[i], MetaOf(st.vs[i], info))
        PROVE  At(st.vs[i], s.labels)
    BY <2>1, ServiceLabelValues DEF At
  <2>2. \A i \in DOMAIN st.vs : st.vs[i].num \in Numerals =>
          \E s \in Named({"vs_num"}) : IsOf(s, st.vs[i])
    BY <1>1, <2>1, ServiceNumbers DEF IsOf
  <2>3. \A s \in Named({"vs_num"}) :
          \E i \in DOMAIN st.vs : st.vs[i].num \in Numerals /\ IsOf(s, st.vs[i])
    BY <1>1, <2>1, ServiceNumbers DEF IsOf
  <2> QED
    BY <1>2, <1>3, <2>2, <2>3
<1>5. Goal("rs_num")
  <2>1. ASSUME NEW i \in DOMAIN st.rs, NEW s,
               s.labels = RSLabels(st.rs[i], ParentOf(st.rs[i], st, info))
        PROVE  At(st.rs[i], s.labels)
    BY <2>1, RSLabelValues DEF At
  <2>2. \A i \in DOMAIN st.rs : st.rs[i].num \in Numerals =>
          \E s \in Named({"rs_num"}) : IsOf(s, st.rs[i])
    BY <1>1, <2>1, RealServerNumbers DEF IsOf
  <2>3. \A s \in Named({"rs_num"}) :
          \E i \in DOMAIN st.rs : st.rs[i].num \in Numerals /\ IsOf(s, st.rs[i])
    BY <1>1, <2>1, RealServerNumbers DEF IsOf
  <2> QED
    BY <1>2, <1>3, <2>2, <2>3
<1>6. Goal("cpu_num")
  <2>1. \A i \in DOMAIN st.cpus : st.cpus[i].num \in Numerals =>
          \E s \in Named({"cpu_num"}) : IsOf(s, st.cpus[i])
    BY <1>1, HealthNumbers DEF IsOf
  <2>2. \A s \in Named({"cpu_num"}) :
          \E i \in DOMAIN st.cpus : st.cpus[i].num \in Numerals /\ IsOf(s, st.cpus[i])
    BY <1>1, HealthNumbers DEF IsOf
  <2> QED
    BY <1>2, <1>3, <2>1, <2>2
<1>7. Goal("interface_num")
  <2>1. \A i \in DOMAIN st.interfaces : st.interfaces[i].num \in Numerals =>
          \E s \in Named({"interface_num"}) : IsOf(s, st.interfaces[i])
    BY <1>1, HealthNumbers DEF IsOf
  <2>2. \A s \in Named({"interface_num"}) :
          \E i \in DOMAIN st.interfaces :
            st.interfaces[i].num \in Numerals /\ IsOf(s, st.interfaces[i])
    BY <1>1, HealthNumbers DEF IsOf
  <2> QED
    BY <1>2, <1>3, <2>1, <2>2
<1>8. \A name \in DOMAIN rows : Goal(name)
  BY <1>2, <1>4, <1>5, <1>6, <1>7, Zenon
<1> QED
  BY <1>8 DEF NumbersRead, rows, st

-----------------------------------------------------------------------------
(* The status samples, and the _up samples beside them.                    *)
LEMMA ServiceStatuses ==
  ASSUME NEW st \in Payloads, NEW info
  PROVE  LET labels(i) == ServiceLabels(st.vs[i], MetaOf(st.vs[i], info))
             status(i) == MetaOf(st.vs[i], info).status
         IN /\ \A s \in ToSet(Derive(st, info)) : s.name = "vs_status" =>
                 \E i \in DOMAIN st.vs : s.labels = WithStatus(labels(i), status(i))
            /\ \A i \in DOMAIN st.vs : status(i) # Blank =>
                 \E s \in ToSet(Derive(st, info)) :
                   s.name = "vs_status" /\ s.labels = WithStatus(labels(i), status(i))
            /\ \A s \in ToSet(Derive(st, info)) : s.name = "vs_up" =>
                 \E i \in DOMAIN st.vs :
                   status(i) \in Known /\ s.labels = labels(i) /\ s.value = UpOf(status(i))
            /\ \A i \in DOMAIN st.vs : status(i) \in Known =>
                 \E s \in ToSet(Derive(st, info)) :
                   s.name = "vs_up" /\ s.labels = labels(i) /\ s.value = UpOf(status(i))
<1> DEFINE labels(i) == ServiceLabels(st.vs[i], MetaOf(st.vs[i], info))
           status(i) == MetaOf(st.vs[i], info).status
<1>1. ASSUME NEW s \in ToSet(Derive(st, info)), s.name \in {"vs_status", "vs_up"}
      PROVE  \E i \in DOMAIN st.vs :
               /\ s.name = "vs_status" => s.labels = WithStatus(labels(i), status(i))
               /\ s.name = "vs_up" => /\ status(i) \in Known /\ s.labels = labels(i)
                                      /\ s.value = UpOf(status(i))
  <2>1. PICK i \in DOMAIN st.vs : VSRow(st, info, i, s)
    BY <1>1, RowsOf
  <2> QED
    BY <1>1, <2>1, VSParts
<1>2. ASSUME NEW i \in DOMAIN st.vs, status(i) # Blank
      PROVE  \E s \in ToSet(Derive(st, info)) :
               s.name = "vs_status" /\ s.labels = WithStatus(labels(i), status(i))
  <2> DEFINE marked == WithStatus(labels(i), status(i))
             s == Sample("vs_status", marked, "1")
  <2>1. VSRow(st, info, i, s)
    BY <1>2, Zenon DEF VSRow
  <2> HIDE DEF marked
  <2>2. s.name = "vs_status" /\ s.labels = marked
    BY SampleParts
  <2> HIDE DEF s
  <2>3. s \in ToSet(Derive(st, info))
    BY <2>1, SampleRows
  <2> QED
    BY <2>2, <2>3 DEF marked
<1>3. ASSUME NEW i \in DOMAIN st.vs, status(i) \in Known
      PROVE  \E s \in ToSet(Derive(st, info)) :
               s.name = "vs_up" /\ s.labels = labels(i) /\ s.value = UpOf(status(i))
  <2> DEFINE plain == labels(i)
             value == UpOf(status(i))
             s == Sample("vs_up", plain, value)
  <2>1. VSRow(st, info, i, s)
    BY <1>3, Zenon DEF VSRow
  <2> HIDE DEF plain, value
  <2>2. s.name = "vs_up" /\ s.labels = plain /\ s.value = value
    BY SampleParts
  <2> HIDE DEF s
  <2>3. s \in ToSet(Derive(st, info))
    BY <2>1, SampleRows
  <2> QED
    BY <2>2, <2>3 DEF plain, value
<1> HIDE DEF labels, status
<1>4. /\ \A s \in ToSet(Derive(st, info)) : s.name = "vs_status" =>
           \E i \in DOMAIN st.vs : s.labels = WithStatus(labels(i), status(i))
      /\ \A s \in ToSet(Derive(st, info)) : s.name = "vs_up" =>
           \E i \in DOMAIN st.vs :
             status(i) \in Known /\ s.labels = labels(i) /\ s.value = UpOf(status(i))
  BY <1>1
<1> QED
  BY <1>2, <1>3, <1>4 DEF labels, status

LEMMA RealServerStatuses ==
  ASSUME NEW st \in Payloads, NEW info
  PROVE  LET labels(i) == RSLabels(st.rs[i], ParentOf(st.rs[i], st, info))
             status(i) == st.rs[i].status
         IN /\ \A s \in ToSet(Derive(st, info)) : s.name = "rs_status" =>
                 \E i \in DOMAIN st.rs : s.labels = WithStatus(labels(i), status(i))
            /\ \A i \in DOMAIN st.rs : status(i) # Blank =>
                 \E s \in ToSet(Derive(st, info)) :
                   s.name = "rs_status" /\ s.labels = WithStatus(labels(i), status(i))
            /\ \A s \in ToSet(Derive(st, info)) : s.name = "rs_up" =>
                 \E i \in DOMAIN st.rs :
                   status(i) \in Known /\ s.labels = labels(i) /\ s.value = UpOf(status(i))
            /\ \A i \in DOMAIN st.rs : status(i) \in Known =>
                 \E s \in ToSet(Derive(st, info)) :
                   s.name = "rs_up" /\ s.labels = labels(i) /\ s.value = UpOf(status(i))
<1> DEFINE labels(i) == RSLabels(st.rs[i], ParentOf(st.rs[i], st, info))
           status(i) == st.rs[i].status
<1>1. ASSUME NEW s \in ToSet(Derive(st, info)), s.name \in {"rs_status", "rs_up"}
      PROVE  \E i \in DOMAIN st.rs :
               /\ s.name = "rs_status" => s.labels = WithStatus(labels(i), status(i))
               /\ s.name = "rs_up" => /\ status(i) \in Known /\ s.labels = labels(i)
                                      /\ s.value = UpOf(status(i))
  <2>1. PICK i \in DOMAIN st.rs : RSRow(st, info, i, s)
    BY <1>1, RowsOf
  <2> QED
    BY <1>1, <2>1, RSParts
<1>2. ASSUME NEW i \in DOMAIN st.rs, status(i) # Blank
      PROVE  \E s \in ToSet(Derive(st, info)) :
               s.name = "rs_status" /\ s.labels = WithStatus(labels(i), status(i))
  <2> DEFINE marked == WithStatus(labels(i), status(i))
             s == Sample("rs_status", marked, "1")
  <2>1. RSRow(st, info, i, s)
    BY <1>2, Zenon DEF RSRow
  <2> HIDE DEF marked
  <2>2. s.name = "rs_status" /\ s.labels = marked
    BY SampleParts
  <2> HIDE DEF s
  <2>3. s \in ToSet(Derive(st, info))
    BY <2>1, SampleRows
  <2> QED
    BY <2>2, <2>3 DEF marked
<1>3. ASSUME NEW i \in DOMAIN st.rs, status(i) \in Known
      PROVE  \E s \in ToSet(Derive(st, info)) :
               s.name = "rs_up" /\ s.labels = labels(i) /\ s.value = UpOf(status(i))
  <2> DEFINE plain == labels(i)
             value == UpOf(status(i))
             s == Sample("rs_up", plain, value)
  <2>1. RSRow(st, info, i, s)
    BY <1>3, Zenon DEF RSRow
  <2> HIDE DEF plain, value
  <2>2. s.name = "rs_up" /\ s.labels = plain /\ s.value = value
    BY SampleParts
  <2> HIDE DEF s
  <2>3. s \in ToSet(Derive(st, info))
    BY <2>1, SampleRows
  <2> QED
    BY <2>2, <2>3 DEF plain, value
<1> HIDE DEF labels, status
<1>4. /\ \A s \in ToSet(Derive(st, info)) : s.name = "rs_status" =>
           \E i \in DOMAIN st.rs : s.labels = WithStatus(labels(i), status(i))
      /\ \A s \in ToSet(Derive(st, info)) : s.name = "rs_up" =>
           \E i \in DOMAIN st.rs :
             status(i) \in Known /\ s.labels = labels(i) /\ s.value = UpOf(status(i))
  BY <1>1
<1> QED
  BY <1>2, <1>3, <1>4 DEF labels, status

(* What the labels with a status say of the row.                           *)
LEMMA StatusLabels ==
  ASSUME NEW labels, NEW status, "status" \notin DOMAIN labels,
         "address" \in DOMAIN labels, "port" \in DOMAIN labels, NEW row, At(row, labels)
  PROVE  At(row, WithStatus(labels, status)) /\ WithStatus(labels, status).status = status
<1>1. /\ WithStatus(labels, status).status = status
      /\ \A k \in DOMAIN labels \ {"status"} : WithStatus(labels, status)[k] = labels[k]
  BY WithStatusValues
<1>2. /\ WithStatus(labels, status).address = labels.address
      /\ WithStatus(labels, status).port = labels.port
  BY <1>1
<1> QED
  BY <1>1, <1>2 DEF At

LEMMA StatusesAreShown ==
  ASSUME Derived, at = "derived", verdict = "ok"
  PROVE  StatusesShown
<1> DEFINE st == polled.st
           info == polled.info
           rsLabels(i) == RSLabels(st.rs[i], ParentOf(st.rs[i], st, info))
           vsLabels(i) == ServiceLabels(st.vs[i], MetaOf(st.vs[i], info))
           meta(i) == MetaOf(st.vs[i], info)
<1>1. /\ st \in Payloads /\ IsList(info)
      /\ \A names, s : s \in Named(names) <=> s \in ToSet(Derive(st, info)) /\ s.name \in names
  BY Succeeded
<1>2. /\ \A i \in DOMAIN st.rs : st.rs[i] \in ToSet(st.rs)
      /\ \A r \in ToSet(st.rs) : \E i \in DOMAIN st.rs : r = st.rs[i]
      /\ \A r \in ToSet(st.vs) : \E i \in DOMAIN st.vs : r = st.vs[i]
      /\ \A k \in DOMAIN info : info[k] \in ToSet(info)
      /\ \A v \in ToSet(info) : \E k \in DOMAIN info : v = info[k]
  BY DEF ToSet
<1> HIDE DEF st, info
<1>3. ASSUME NEW i \in DOMAIN st.rs
      PROVE  /\ At(st.rs[i], WithStatus(rsLabels(i), st.rs[i].status))
             /\ WithStatus(rsLabels(i), st.rs[i].status).status = st.rs[i].status
  <2>1. At(st.rs[i], rsLabels(i))
    BY RSLabelValues DEF At
  <2>2. DOMAIN rsLabels(i) = {"address", "port", "vs_address", "vs_port"}
    BY LabelKeys, Zenon
  <2> HIDE DEF rsLabels
  <2> QED
    BY <2>1, <2>2, StatusLabels
<1>4. ASSUME NEW i \in DOMAIN st.vs
      PROVE  At(st.vs[i], WithStatus(vsLabels(i), meta(i).status))
  <2>1. At(st.vs[i], vsLabels(i))
    BY ServiceLabelValues DEF At
  <2>2. DOMAIN vsLabels(i) = {"name", "address", "port", "protocol"}
    BY LabelKeys, Zenon
  <2> HIDE DEF vsLabels, meta
  <2> QED
    BY <2>1, <2>2, StatusLabels
<1>5. ASSUME NEW i \in DOMAIN st.vs, {v \in ToSet(info) : At(v, st.vs[i])} # {},
             \A v \in {v \in ToSet(info) : At(v, st.vs[i])} : v.status # Blank
      PROVE  meta(i).status # Blank
  <2>1. \A v : SameKey(v, st.vs[i]) <=> At(v, st.vs[i])
    BY DEF SameKey, At
  <2>2. \E k \in DOMAIN info : SameKey(info[k], st.vs[i])
    BY <1>2, <1>5, <2>1
  <2>3. \E k \in DOMAIN info : SameKey(info[k], st.vs[i]) /\ meta(i) = info[k]
    BY <1>1, <2>2, MetaRow
  <2> HIDE DEF meta
  <2> QED
    BY <1>2, <1>5, <2>1, <2>3
<1> HIDE DEF rsLabels, vsLabels, meta
<1>6. \A rs \in ToSet(st.rs) : rs.status # Blank =>
        \E s \in Named({"rs_status"}) : At(rs, s.labels) /\ s.labels.status = rs.status
  <2>1. \A i \in DOMAIN st.rs : st.rs[i].status # Blank =>
          \E s \in ToSet(Derive(st, info)) :
            s.name = "rs_status" /\ s.labels = WithStatus(rsLabels(i), st.rs[i].status)
    BY <1>1, RealServerStatuses DEF rsLabels
  <2> QED
    BY <1>1, <1>2, <1>3, <2>1
<1>7. \A s \in Named({"rs_status"}) :
        \E rs \in ToSet(st.rs) : At(rs, s.labels) /\ s.labels.status = rs.status
  <2>1. \A s \in ToSet(Derive(st, info)) : s.name = "rs_status" =>
          \E i \in DOMAIN st.rs : s.labels = WithStatus(rsLabels(i), st.rs[i].status)
    BY <1>1, RealServerStatuses DEF rsLabels
  <2> QED
    BY <1>1, <1>2, <1>3, <2>1
<1>8. \A vs \in ToSet(st.vs) :
        LET listed == {v \in ToSet(info) : At(v, vs)} IN
        listed # {} /\ (\A v \in listed : v.status # Blank) =>
            \E s \in Named({"vs_status"}) : At(vs, s.labels)
  <2>1. \A i \in DOMAIN st.vs : meta(i).status # Blank =>
          \E s \in ToSet(Derive(st, info)) :
            s.name = "vs_status" /\ s.labels = WithStatus(vsLabels(i), meta(i).status)
    BY <1>1, ServiceStatuses DEF vsLabels, meta
  <2> QED
    BY <1>1, <1>2, <1>4, <1>5, <2>1
<1> QED
  BY <1>6, <1>7, <1>8 DEF StatusesShown, st, info

LEMMA StatusAgrees ==
  ASSUME NEW up, NEW s, NEW labels, "status" \notin DOMAIN labels, NEW status \in Known,
         up.labels = labels, up.value = UpOf(status),
         s.labels = WithStatus(labels, status)
  PROVE  Agrees(up, s) /\ s.labels.status \in Works \cup WorksNot
<1>0. DOMAIN s.labels = DOMAIN labels \cup {"status"}
  BY LabelKeys, Zenon
<1>1. s.labels.status = status /\ \A k \in DOMAIN labels : s.labels[k] = labels[k]
  BY WithStatusValues
<1>2. UpOf(status) = IF status \in OutOfService THEN "0" ELSE "1"
  BY StatusKnown
<1>3. /\ Works = Serving /\ WorksNot = OutOfService /\ status \in Serving \cup OutOfService
      /\ status \in OutOfService <=> status \notin Serving
  BY Zenon DEF Known, Serving, OutOfService, Works, WorksNot
<1> QED
  BY <1>0, <1>1, <1>2, <1>3 DEF Agrees

LEMMA UpsAreTold ==
  ASSUME Derived, at = "derived", verdict = "ok"
  PROVE  UpsTold
<1> DEFINE st == polled.st
           info == polled.info
           Told(up, status) ==
             LET known == {s \in Named({status}) : s.labels.status \in Works \cup WorksNot}
             IN /\ \A u \in Named({up}) : \E s \in known : Agrees(u, s)
                /\ \A s \in known : \E u \in Named({up}) : Agrees(u, s)
<1>1. /\ st \in Payloads
      /\ \A names, s : s \in Named(names) <=> s \in ToSet(Derive(st, info)) /\ s.name \in names
  BY Succeeded
<1>2. Works \cup WorksNot = Known
  BY Zenon DEF Known, Serving, OutOfService, Works, WorksNot
<1> HIDE DEF st, info
<1>3. Told("vs_up", "vs_status")
  <2> DEFINE labels(i) == ServiceLabels(st.vs[i], MetaOf(st.vs[i], info))
             status(i) == MetaOf(st.vs[i], info).status
  <2>1. /\ \A s \in ToSet(Derive(st, info)) : s.name = "vs_status" =>
             \E i \in DOMAIN st.vs : s.labels = WithStatus(labels(i), status(i))
        /\ \A i \in DOMAIN st.vs : status(i) # Blank =>
             \E s \in ToSet(Derive(st, info)) :
               s.name = "vs_status" /\ s.labels = WithStatus(labels(i), status(i))
        /\ \A s \in ToSet(Derive(st, info)) : s.name = "vs_up" =>
             \E i \in DOMAIN st.vs :
               status(i) \in Known /\ s.labels = labels(i) /\ s.value = UpOf(status(i))
        /\ \A i \in DOMAIN st.vs : status(i) \in Known =>
             \E s \in ToSet(Derive(st, info)) :
               s.name = "vs_up" /\ s.labels = labels(i) /\ s.value = UpOf(status(i))
    BY <1>1, ServiceStatuses
  <2>2. \A i : "status" \notin DOMAIN labels(i)
    BY LabelKeys
  <2> HIDE DEF labels, status
  <2>3. ASSUME NEW u \in Named({"vs_up"})
        PROVE  \E s \in Named({"vs_status"}) :
                 s.labels.status \in Works \cup WorksNot /\ Agrees(u, s)
    <3>1. PICK i \in DOMAIN st.vs :
            status(i) \in Known /\ u.labels = labels(i) /\ u.value = UpOf(status(i))
      BY <1>1, <2>1
    <3>2. status(i) # Blank
      BY <3>1, StatusKnown
    <3>3. PICK s \in ToSet(Derive(st, info)) :
            s.name = "vs_status" /\ s.labels = WithStatus(labels(i), status(i))
      BY <2>1, <3>2
    <3>4. Agrees(u, s) /\ s.labels.status \in Works \cup WorksNot
      BY <2>2, <3>1, <3>3, StatusAgrees
    <3> QED
      BY <1>1, <3>3, <3>4
  <2>4. ASSUME NEW s \in Named({"vs_status"}), s.labels.status \in Works \cup WorksNot
        PROVE  \E u \in Named({"vs_up"}) : Agrees(u, s)
    <3>1. PICK i \in DOMAIN st.vs : s.labels = WithStatus(labels(i), status(i))
      BY <1>1, <2>1
    <3>2. status(i) \in Known
      BY <1>2, <2>4, <3>1, WithStatusValues
    <3>3. PICK u \in ToSet(Derive(st, info)) :
            u.name = "vs_up" /\ u.labels = labels(i) /\ u.value = UpOf(status(i))
      BY <2>1, <3>2
    <3>4. Agrees(u, s)
      BY <2>2, <3>1, <3>2, <3>3, StatusAgrees
    <3> QED
      BY <1>1, <3>3, <3>4
  <2> QED
    BY <2>3, <2>4
<1>4. Told("rs_up", "rs_status")
  <2> DEFINE labels(i) == RSLabels(st.rs[i], ParentOf(st.rs[i], st, info))
             status(i) == st.rs[i].status
  <2>1. /\ \A s \in ToSet(Derive(st, info)) : s.name = "rs_status" =>
             \E i \in DOMAIN st.rs : s.labels = WithStatus(labels(i), status(i))
        /\ \A i \in DOMAIN st.rs : status(i) # Blank =>
             \E s \in ToSet(Derive(st, info)) :
               s.name = "rs_status" /\ s.labels = WithStatus(labels(i), status(i))
        /\ \A s \in ToSet(Derive(st, info)) : s.name = "rs_up" =>
             \E i \in DOMAIN st.rs :
               status(i) \in Known /\ s.labels = labels(i) /\ s.value = UpOf(status(i))
        /\ \A i \in DOMAIN st.rs : status(i) \in Known =>
             \E s \in ToSet(Derive(st, info)) :
               s.name = "rs_up" /\ s.labels = labels(i) /\ s.value = UpOf(status(i))
    BY <1>1, RealServerStatuses
  <2>2. \A i : "status" \notin DOMAIN labels(i)
    BY LabelKeys
  <2> HIDE DEF labels, status
  <2>3. ASSUME NEW u \in Named({"rs_up"})
        PROVE  \E s \in Named({"rs_status"}) :
                 s.labels.status \in Works \cup WorksNot /\ Agrees(u, s)
    <3>1. PICK i \in DOMAIN st.rs :
            status(i) \in Known /\ u.labels = labels(i) /\ u.value = UpOf(status(i))
      BY <1>1, <2>1
    <3>2. status(i) # Blank
      BY <3>1, StatusKnown
    <3>3. PICK s \in ToSet(Derive(st, info)) :
            s.name = "rs_status" /\ s.labels = WithStatus(labels(i), status(i))
      BY <2>1, <3>2
    <3>4. Agrees(u, s) /\ s.labels.status \in Works \cup WorksNot
      BY <2>2, <3>1, <3>3, StatusAgrees
    <3> QED
      BY <1>1, <3>3, <3>4
  <2>4. ASSUME NEW s \in Named({"rs_status"}), s.labels.status \in Works \cup WorksNot
        PROVE  \E u \in Named({"rs_up"}) : Agrees(u, s)
    <3>1. PICK i \in DOMAIN st.rs : s.labels = WithStatus(labels(i), status(i))
      BY <1>1, <2>1
    <3>2. status(i) \in Known
      BY <1>2, <2>4, <3>1, WithStatusValues
    <3>3. PICK u \in ToSet(Derive(st, info)) :
            u.name = "rs_up" /\ u.labels = labels(i) /\ u.value = UpOf(status(i))
      BY <2>1, <3>2
    <3>4. Agrees(u, s)
      BY <2>2, <3>1, <3>2, <3>3, StatusAgrees
    <3> QED
      BY <1>1, <3>3, <3>4
  <2> QED
    BY <2>3, <2>4
<1>5. /\ UpName["vs"] = "vs_up" /\ UpName["rs"] = "rs_up"
      /\ StatusName["vs"] = "vs_status" /\ StatusName["rs"] = "rs_status"
  BY DEF UpName, StatusName
<1>6. \A kind \in {"vs", "rs"} : Told(UpName[kind], StatusName[kind])
  BY <1>3, <1>4, <1>5, Zenon
<1> QED
  BY <1>6, Zenon DEF UpsTold

(* Absent is never zero, for any payload: row by row the numbers and the   *)
(* statuses shown are those that can be read, and an _up stands beside     *)
(* exactly the statuses that are known, and says what they say.            *)
THEOREM AbsentIsNeverZero == Spec => []ReadingsOnly
<1>1. Derived => ReadingsOnly
  BY NumbersAreRead, StatusesAreShown, UpsAreTold DEF ReadingsOnly
<1> QED
  BY <1>1, DerivedOnce, PTL

-----------------------------------------------------------------------------
(* Of a service that shares its address, port and protocol with no other,  *)
(* every sample of a number is its own.                                    *)
LEMMA SampleIsOwn ==
  ASSUME NEW st \in Payloads, NEW info, NEW i \in DOMAIN st.vs, st.vs[i].protocol # Blank,
         \A j \in DOMAIN st.vs \ {i} :
           At(st.vs[i], st.vs[j]) => st.vs[j].protocol \notin {Blank, st.vs[i].protocol},
         NEW s \in ToSet(Derive(st, info)), s.name = "vs_num",
         s.labels = ServiceLabels(st.vs[i], MetaOf(st.vs[i], info))
  PROVE  s.value = st.vs[i].num /\ At(st.vs[i], s.labels)
<1> DEFINE vs == st.vs[i]
           labels == ServiceLabels(vs, MetaOf(vs, info))
<1>1. PICK j \in DOMAIN st.vs : VSRow(st, info, j, s)
  BY RowsOf
<1> DEFINE other == st.vs[j]
           others == ServiceLabels(other, MetaOf(other, info))
<1>2. s.labels = others /\ s.value = other.num
  BY <1>1, VSParts
<1>3. /\ labels.address = vs.address /\ labels.port = vs.port
      /\ labels.protocol = vs.protocol
  BY ServiceLabelValues
<1>4. /\ others.address = other.address /\ others.port = other.port
      /\ other.protocol # Blank => others.protocol = other.protocol
  BY ServiceLabelValues
<1>5. labels = others
  BY <1>2
<1> HIDE DEF labels, others
<1>6. At(vs, other) /\ (other.protocol # Blank => other.protocol = vs.protocol)
  BY <1>3, <1>4, <1>5 DEF At
<1>7. j = i
  BY <1>6
<1> QED
  BY <1>2, <1>3, <1>5, <1>7 DEF At

(* Only what shares address, port and protocol collides: the readers show  *)
(* the number of every other service that has one.                         *)
THEOREM NoServiceIsLost == Spec => []ServicesSurvive
<1>1. ASSUME Derived, at = "derived", NEW i \in DOMAIN polled.st.vs,
             polled.st.vs[i].num \in Numerals, polled.st.vs[i].protocol # Blank,
             \A j \in DOMAIN polled.st.vs \ {i} :
               At(polled.st.vs[i], polled.st.vs[j]) =>
                 polled.st.vs[j].protocol \notin {Blank, polled.st.vs[i].protocol}
      PROVE  \E s \in Survivors(samples) :
               s.name = "vs_num" /\ s.value = polled.st.vs[i].num /\ At(polled.st.vs[i], s.labels)
  <2> DEFINE st == polled.st
             info == polled.info
             vs == st.vs[i]
             labels == ServiceLabels(vs, MetaOf(vs, info))
             alike == {k \in DOMAIN samples : samples[k].name = "vs_num" /\ samples[k].labels = labels}
  <2>1. /\ IsList(samples) /\ st \in Payloads
        /\ ToSet(samples) = ToSet(Derive(st, info))
    <3>1. polled.st.vs # <<>>
      BY <1>1
    <3> QED
      BY <1>1, <3>1, Contents
  <2>2. \E s \in ToSet(Derive(st, info)) : s.name = "vs_num" /\ s.labels = labels
    BY <1>1, <2>1, ServiceNumbers
  <2>3. alike # {} /\ alike \subseteq Nat
    <3>1. Len(samples) \in Nat /\ DOMAIN samples = 1..Len(samples)
      BY <2>1, IndexedList
    <3>2. \E k \in DOMAIN samples : samples[k].name = "vs_num" /\ samples[k].labels = labels
      BY <2>1, <2>2 DEF ToSet
    <3> HIDE DEF labels
    <3> QED
      BY <3>1, <3>2
  <2>4. PICK first \in alike : \A k \in alike : first <= k
    BY <2>3, LeastNat
  <2> DEFINE s == samples[first]
  <2>5. first \in DOMAIN samples /\ s.name = "vs_num" /\ s.labels = labels
    BY <2>4
  <2>6. s \in Survivors(samples)
    <3>1. Len(samples) \in Nat /\ DOMAIN samples = 1..Len(samples)
      BY <2>1, IndexedList
    <3> HIDE DEF labels
    <3>2. ASSUME NEW k \in 1..(first - 1)
          PROVE  samples[k].name # s.name \/ samples[k].labels # s.labels
      <4>1. k \in DOMAIN samples /\ k < first
        BY <2>5, <3>1
      <4>2. k \notin alike
        BY <2>3, <2>4, <4>1
      <4> QED
        BY <2>5, <4>1, <4>2
    <3> QED
      BY <2>5, <3>2 DEF Survivors
  <2>7. s \in ToSet(Derive(st, info))
    BY <2>1, <2>5 DEF ToSet
  <2> HIDE DEF s, alike
  <2>8. s.value = vs.num /\ At(vs, s.labels)
    BY <1>1, <2>1, <2>5, <2>7, SampleIsOwn
  <2> QED
    BY <2>5, <2>6, <2>8
<1>2. Derived => ServicesSurvive
  BY <1>1, Zenon DEF ServicesSurvive
<1> QED
  BY <1>2, DerivedOnce, PTL
=============================================================================

------------------------------ MODULE Polling -------------------------------
(***************************************************************************)
(* One target in one cycle: a transport's Do("stats") against an appliance *)
(* that may answer anything, request by request, and what collectSystem    *)
(* makes of the outcome.  The session's sharing of logins between callers  *)
(* is Session.tla, the client's choice of transport is SystemClient.tla;   *)
(* here is what one Do sends, what it reports, and which samples the       *)
(* payload becomes.                                                        *)
(***************************************************************************)
EXTENDS Wire, Derivations, FiniteSets

CONSTANTS Payloads,   \* decoded stats payloads
          Listings    \* decoded listvs payloads

(* What decoding leaves: sequences of rows, whose numbers are texts.       *)
IsList(rows) == rows \in Seq(ToSet(rows))
ASSUME PayloadsAssumption ==
    \A st \in Payloads : \A rows \in {st.cpus, st.interfaces, st.vs, st.rs} :
        IsList(rows) /\ \A r \in ToSet(rows) : r.num \in Texts
ASSUME ListingsAssumption == \A info \in Listings : IsList(info)

VARIABLES
    wire,      \* the transport
    at,        \* the request Do waits for, or "decided", or "derived"
    tries,     \* times resty has sent that request
    last,      \* the latest response
    verdict,   \* the class of the error Do returns
    rejected,  \* history: per kind of request, responses that said rejected
    polled,    \* the payloads of this cycle
    samples    \* SystemSnapshot.Samples

vars == <<wire, at, tries, last, verdict, rejected, polled, samples>>

NoPayload == [total |-> Blank, cpus |-> <<>>, interfaces |-> <<>>, vs |-> <<>>, rs |-> <<>>]
Kinds == {"login", "command"}
Steps == {"login", "command", "relogin", "recommand"}
KindOf == [s \in Steps |-> IF s \in {"login", "relogin"} THEN "login" ELSE "command"]

TypeOK ==
    /\ wire \in {"xml", "json"}
    /\ at \in Steps \cup {"decided", "derived"}
    /\ tries \in 1..MaxTries
    /\ last \in Responses
    /\ verdict \in {"ok", "auth", "unsupported", "hard"}
    /\ rejected \in [Kinds -> Nat]
    /\ polled.st \in Payloads \cup {NoPayload} /\ polled.info \in Listings \cup {<<>>}
    /\ IsFiniteSet(DOMAIN samples)

(* Over JSON the session may hold a token of an earlier login.             *)
Init ==
    /\ wire \in {"xml", "json"}
    /\ at \in IF wire = "xml" THEN {"command"} ELSE {"login", "command"}
    /\ tries = 1
    /\ last = Bare(0)
    /\ verdict = "ok"
    /\ rejected = [k \in Kinds |-> 0]
    /\ polled = [st |-> NoPayload, info |-> <<>>]
    /\ samples = <<>>

-----------------------------------------------------------------------------
(* What may come back: anything, a 404 and a page of HTML from an appliance*)
(* that speaks JSON included, but that a login refused brings no token.    *)
MayAnswer == {r \in Responses :
    at \in {"login", "relogin"} /\ r.code # "ok" => r.data # "usable"}

Goes(step) == /\ at' = step
              /\ tries' = 1
              /\ UNCHANGED verdict

Decides(v) == /\ at' = "decided"
              /\ verdict' = v
              /\ tries' = 1

AfterLogin(r, next) == IF LoginVerdict(r) = "ok" THEN Goes(next) ELSE Decides(LoginVerdict(r))

(* A response ends the request, or resty sends the same one again.  The    *)
(* two Do's: XML is one command; JSON refreshes a token that a 401 rejects *)
(* once and posts once more.                                               *)
Answer(r) ==
    /\ at \in Steps
    /\ r \in MayAnswer
    /\ last' = r
    /\ rejected' = IF SaysRejected(r) THEN [rejected EXCEPT ![KindOf[at]] = @ + 1] ELSE rejected
    /\ IF Retryable(r) /\ tries < MaxTries
         THEN tries' = tries + 1 /\ UNCHANGED <<at, verdict>>
         ELSE CASE at = "login" -> AfterLogin(r, "command")
                [] at = "relogin" -> AfterLogin(r, "recommand")
                [] wire = "xml" -> Decides(XMLVerdict(r))
                [] wire = "json" /\ at = "command" /\ r.status = 401 -> Goes("relogin")
                [] wire = "json" /\ at = "recommand" /\ r.status = 401 -> Decides("auth")
                [] OTHER -> Decides(JSONVerdict(r))
    /\ UNCHANGED <<wire, polled, samples>>

(* collectSystem: no samples but kemp_up = 0 without statistics; with them *)
(* everything, whether listvs came back with names or failed.              *)
UpSample(ok) == AddSample("up", <<>>, IF ok THEN "1" ELSE "0")

CollectSystem ==
    /\ at = "decided"
    /\ at' = "derived"
    /\ IF verdict = "ok"
         THEN \E st \in Payloads, info \in Listings \cup {<<>>} :
                /\ polled' = [st |-> st, info |-> info]
                /\ samples' = UpSample(TRUE) \o DeriveHealth(st) \o DeriveVS(st, info) \o DeriveRS(st, info)
         ELSE samples' = UpSample(FALSE) /\ UNCHANGED polled
    /\ UNCHANGED <<wire, tries, last, verdict, rejected>>

Next == (\E r \in Responses : Answer(r)) \/ CollectSystem

Spec == Init /\ [][Next]_vars
-----------------------------------------------------------------------------
(* The budget of an account with lockout: one Do lets the appliance reject *)
(* one login and two commands at the most, and only one of those over XML. *)
RejectionsPerDo ==
    /\ rejected["login"] <= 1
    /\ rejected["login"] + rejected["command"] <= IF wire = "xml" THEN 1 ELSE 2

(* A Do that ends with the appliance's rejection reports errAuth, which    *)
(* alone starts the cooldown.                                              *)
RejectionIsMarked ==
    at = "decided" /\ SaysRejected(last) => verdict = "auth"

Named(names) == {samples[i] : i \in {i \in DOMAIN samples : samples[i].name \in names}}

At(row, labels) == row.address = labels.address /\ row.port = labels.port

(* Absent is never zero, nor the other way round.  Row by row, a number    *)
(* has a sample exactly if it can be read, and reads there as in its row.  *)
IsOf(s, row) ==
    /\ s.value = row.num
    /\ \/ s.name \in {"vs_num", "rs_num"} /\ At(row, s.labels)
       \/ s.name = "cpu_num" /\ s.labels.cpu = row.id
       \/ s.name = "interface_num" /\ s.labels.interface = row.id

NumbersRead ==
    LET rows == [vs_num |-> polled.st.vs, rs_num |-> polled.st.rs,
                 cpu_num |-> polled.st.cpus, interface_num |-> polled.st.interfaces]
    IN \A name \in DOMAIN rows :
         LET readable == {r \in ToSet(rows[name]) : r.num \in Numerals}
         IN /\ \A r \in readable : \E s \in Named({name}) : IsOf(s, r)
            /\ \A s \in Named({name}) : \E r \in readable : IsOf(s, r)

(* A status is shown if its row, or the listing, has one.                  *)
StatusesShown ==
    /\ \A rs \in ToSet(polled.st.rs) : rs.status # Blank =>
         \E s \in Named({"rs_status"}) : At(rs, s.labels) /\ s.labels.status = rs.status
    /\ \A s \in Named({"rs_status"}) :
         \E rs \in ToSet(polled.st.rs) : At(rs, s.labels) /\ s.labels.status = rs.status
    /\ \A vs \in ToSet(polled.st.vs) :
         LET listed == {v \in ToSet(polled.info) : At(v, vs)} IN
         listed # {} /\ (\A v \in listed : v.status # Blank) =>
             \E s \in Named({"vs_status"}) : At(vs, s.labels)

(* An _up stands beside a status exactly if that status is known to serve  *)
(* or not to serve, and says which.                                        *)
Works == {"Up", " Up", "Sick", "Redirect"}
WorksNot == {"Down", "Disabled"}

Agrees(up, s) ==
    /\ up.value = IF s.labels.status \in Works THEN "1" ELSE "0"
    /\ DOMAIN s.labels = DOMAIN up.labels \cup {"status"}
    /\ \A k \in DOMAIN up.labels : s.labels[k] = up.labels[k]

UpsTold ==
    \A kind \in {"vs", "rs"} :
        LET known == {s \in Named({StatusName[kind]}) : s.labels.status \in Works \cup WorksNot}
        IN /\ \A up \in Named({UpName[kind]}) : \E s \in known : Agrees(up, s)
           /\ \A s \in known : \E up \in Named({UpName[kind]}) : Agrees(up, s)

ReadingsOnly == at = "derived" /\ verdict = "ok" => NumbersRead /\ StatusesShown /\ UpsTold

(* A service's name and status are those that listvs gives for its address *)
(* and port; a real server names a service that has its index, one of the  *)
(* statistics if there is one, and none only if neither payload has it.    *)
OwnService ==
    /\ \A s \in Named({"vs_num", "vs_up", "vs_status"}) :
         LET own == {v \in ToSet(polled.info) : At(v, s.labels)} IN
         /\ s.labels.name \in (IF own = {} THEN {Blank} ELSE {v.name : v \in own})
         /\ s.name = "vs_status" => \E v \in own : v.name = s.labels.name /\ v.status = s.labels.status
    /\ \A s \in Named({"rs_num", "rs_up", "rs_status"}) :
         \E rs \in ToSet(polled.st.rs) :
           LET own(rows) == {v \in ToSet(rows) : v.index = rs.vsIndex}
               parents == IF own(polled.st.vs) # {} THEN own(polled.st.vs)
                          ELSE IF own(polled.info) # {} THEN own(polled.info)
                          ELSE {[address |-> Blank, port |-> 0]}
           IN /\ At(rs, s.labels)
              /\ \E v \in parents : s.labels.vs_address = v.address /\ s.labels.vs_port = v.port

(* The samples of one metric carry the same label keys, whatever could be  *)
(* resolved: a reader drops those that do not.                             *)
OneKeySetPerName ==
    \A i, j \in DOMAIN samples :
        samples[i].name = samples[j].name => DOMAIN samples[i].labels = DOMAIN samples[j].labels

(* Only what shares address, port and protocol (a SubVS has its parent's)  *)
(* collides: the readers show the number of every other service that has   *)
(* one.                                                                    *)
ServicesSurvive ==
    LET rows == polled.st.vs IN
    at = "derived" =>
    \A i \in DOMAIN rows :
        /\ rows[i].num \in Numerals /\ rows[i].protocol # Blank
        /\ \A j \in DOMAIN rows \ {i} :
             At(rows[i], rows[j]) => rows[j].protocol \notin {Blank, rows[i].protocol}
        => \E s \in Survivors(samples) :
             s.name = "vs_num" /\ s.value = rows[i].num /\ At(rows[i], s.labels)
=============================================================================

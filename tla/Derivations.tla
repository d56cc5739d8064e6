---------------------------- MODULE Derivations -----------------------------
(***************************************************************************)
(* From a decoded payload to samples (derivations.go, health.go,           *)
(* metrics.go, models/num.go).                                             *)
(*                                                                         *)
(* A numeric field is its text.  The fields of a row that the code treats  *)
(* alike (seven per service and per real server, three per CPU, two per    *)
(* interface) are one, `num`; the appliance's own (totals, memory,         *)
(* transactions) are one, `total`.  All samples are of one system, whose   *)
(* label is left out; a sample's labels are a record, so that their keys   *)
(* are its domain.                                                         *)
(***************************************************************************)
EXTENDS Naturals, SequencesExt

(* The empty text, which a field that the payload does not have decodes to.*)
Blank == ""

(* Num.parse: blanks, what is not a number, and what is not finite leave   *)
(* the field absent.                                                       *)
CONSTANTS Numerals, NotNumbers
Texts == Numerals \cup NotNumbers
Absent == "absent"
ASSUME TextsAssumption == Numerals \cap NotNumbers = {} /\ Absent \notin Numerals

ZeroWhenUnparsed(text) == IF text \in Numerals THEN text ELSE "0"

Parse(text) == IF text \in Numerals THEN text ELSE Absent

(* addSample: no sample for what is absent.                                *)
AddSample(name, labels, value) ==
    IF value = Absent THEN <<>> ELSE <<[name |-> name, labels |-> labels, value |-> value]>>

(* statusToUp: the statuses that are up, sick or redirect, and those that  *)
(* are down or disabled, once trimmed and in lower case.                   *)
Serving == {"Up", " Up", "Sick", "Redirect"}
OutOfService == {"Down", "Disabled"}

UpOf(status) == IF status \in Serving THEN "1"
                ELSE IF status \in OutOfService THEN "0"
                ELSE Absent

(* vsLabels, rsLabels, withLabel.                                          *)
VSLabelsWithoutProtocol(name, vs, protocol) ==
    [name |-> name, address |-> vs.address, port |-> vs.port]

VSLabels(name, vs, protocol) ==
    [name |-> name, address |-> vs.address, port |-> vs.port, protocol |-> protocol]

RSLabelsOfKnownParent(rs, parent) ==
    IF parent.port = 0 THEN [address |-> rs.address, port |-> rs.port]
    ELSE [address |-> rs.address, port |-> rs.port, vs_address |-> parent.address, vs_port |-> parent.port]

RSLabels(rs, parent) ==
    [address |-> rs.address, port |-> rs.port, vs_address |-> parent.address, vs_port |-> parent.port]

WithStatus(labels, status) ==
    [k \in DOMAIN labels \cup {"status"} |-> IF k = "status" THEN status ELSE labels[k]]

(* The _up and _status samples of a row; none without a status.            *)
UpName == [vs |-> "vs_up", rs |-> "rs_up"]
StatusName == [vs |-> "vs_status", rs |-> "rs_status"]

StatusSamples(kind, labels, status) ==
    IF status = Blank THEN <<>>
    ELSE AddSample(UpName[kind], labels, UpOf(status))
         \o AddSample(StatusName[kind], WithStatus(labels, status), "1")

-----------------------------------------------------------------------------
(* indexVSInfo: of several listvs rows with one key the last one stays; a  *)
(* service without a row gets the zero value.                              *)
SameAddress(a, b) == a.address = b.address

SameKey(a, b) == a.address = b.address /\ a.port = b.port

NoInfo == [name |-> Blank, protocol |-> Blank, status |-> Blank]

MetaOf(vs, info) ==
    LET found == {i \in DOMAIN info : SameKey(info[i], vs)}
    IN IF found = {} THEN NoInfo ELSE info[Max(found)]

(* deriveVirtualServices.                                                  *)
VSSamples(vs, meta) ==
    LET labels == VSLabels(meta.name, vs, IF vs.protocol # Blank THEN vs.protocol ELSE meta.protocol)
    IN AddSample("vs_num", labels, Parse(vs.num)) \o StatusSamples("vs", labels, meta.status)

DeriveVS(st, info) ==
    FlattenSeq([i \in DOMAIN st.vs |-> VSSamples(st.vs[i], MetaOf(st.vs[i], info))])

(* deriveRealServers: the parent by index, the stats rows' last one before *)
(* the listvs rows' first one.                                             *)
NoParent == [address |-> Blank, port |-> 0]

ParentOf(rs, st, info) ==
    LET inStats == {i \in DOMAIN st.vs : st.vs[i].index = rs.vsIndex}
        inInfo == {i \in DOMAIN info : info[i].index = rs.vsIndex}
    IN IF inStats # {} THEN st.vs[Max(inStats)]
       ELSE IF inInfo # {} THEN info[Min(inInfo)]
       ELSE NoParent

RSSamples(rs, parent) ==
    LET labels == RSLabels(rs, parent)
    IN AddSample("rs_num", labels, Parse(rs.num)) \o StatusSamples("rs", labels, rs.status)

DeriveRS(st, info) ==
    FlattenSeq([i \in DOMAIN st.rs |-> RSSamples(st.rs[i], ParentOf(st.rs[i], st, info))])

(* deriveHealth.                                                           *)
DeriveHealth(st) ==
    AddSample("total", <<>>, Parse(st.total))
    \o FlattenSeq([i \in DOMAIN st.cpus |->
                     AddSample("cpu_num", [cpu |-> st.cpus[i].id], Parse(st.cpus[i].num))])
    \o FlattenSeq([i \in DOMAIN st.interfaces |->
                     AddSample("interface_num", [interface |-> st.interfaces[i].id],
                               Parse(st.interfaces[i].num))])

(* The readers' first-wins rule: the samples of a sequence that are shown. *)
Survivors(samples) ==
    {samples[i] : i \in {i \in DOMAIN samples : \A j \in 1..(i - 1) :
        samples[j].name # samples[i].name \/ samples[j].labels # samples[i].labels}}
=============================================================================

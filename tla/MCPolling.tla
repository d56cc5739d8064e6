----------------------------- MODULE MCPolling ------------------------------
(* Payloads for Polling under TLC.                                         *)
EXTENDS Polling

VS(index, address, port, protocol, num) ==
    [index |-> index, address |-> address, port |-> port, protocol |-> protocol, num |-> num]
RS(vsIndex, port, num, status) ==
    [vsIndex |-> vsIndex, address |-> "r", port |-> port, num |-> num, status |-> status]
Info(index, port, name, protocol, status) ==
    [index |-> index, address |-> "a", port |-> port, name |-> name, protocol |-> protocol,
     status |-> status]

(* One service on port 80 and one that shares its address (a second port), *)
(* its port (another address), both (a SubVS, or another protocol).        *)
ServicePairs ==
    {<<VS(1, "a", 80, p, n), VS(2, x[1], x[2], q, m)>> :
        p \in {"tcp", ""}, q \in {"tcp", "udp", ""}, n \in {"5", "N/A"}, m \in {"7", "0", "NaN"},
        x \in {<<"a", 443>>, <<"b", 80>>, <<"a", 80>>}}

RealServers ==
    {<<RS(i, 80, "5", s), RS(j, p, m, t)>> :
        i, j \in 1..3, p \in {80, 81}, m \in {"7", "N/A"}, s \in {" Up", ""},
        t \in {"Disabled", "Standby"}}

Appliance(vs, rs) ==
    [total |-> "9", cpus |-> <<[id |-> "total", num |-> "5"], [id |-> "cpu0", num |-> "N/A"]>>,
     interfaces |-> <<[id |-> "eth0", num |-> "0"]>>, vs |-> vs, rs |-> rs]

SomePayloads ==
    {Appliance(vs, <<>>) : vs \in ServicePairs}
    \cup {Appliance(<<VS(1, "a", 80, "tcp", "5"), VS(2, "a", 443, "tcp", "7")>>, rs) : rs \in RealServers}

(* Complete, incomplete, in another order, and with two rows of one key.   *)
SomeListings ==
    {<<Info(1, 80, "web", "tcp", " Up"), Info(2, 443, "secure", "tcp", s)>> :
        s \in {"", "Redirect", "Down", "Standby"}}
    \cup {<<Info(2, 443, "secure", "tcp", "Sick")>>,
          <<Info(3, 443, "secure", "tcp", "Sick"), Info(1, 80, "web", "udp", "Disabled")>>,
          <<Info(1, 80, "web", "tcp", " Up"), Info(3, 80, "sub", "udp", "Down")>>}
=============================================================================

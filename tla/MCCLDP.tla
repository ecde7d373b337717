------------------------------- MODULE MCCLDP -------------------------------
(***************************************************************************)
(* CLDP on a small instance: two clients on one host ask the two servers   *)
(* on another, or the broadcast address.                                   *)
(***************************************************************************)
EXTENDS CLDP

CONSTANTS a, b, s, t, here, there

TwoClients == {a, b}
OneClient == {a}
TwoServers == {s, t}
TwoHosts == {here, there}
Apart == [p \in Clients \cup Servers |-> IF p \in Clients THEN here ELSE there]
Anywhere == {there, Broadcast}
TwoQueries == {"hostname", "time"}
Restarts == [p \in Clients \cup Servers |-> IF p \in {a, s} THEN 2 ELSE 1]
Sequence == [n \in 0 .. 4 |-> n]
=============================================================================

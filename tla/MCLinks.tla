------------------------------ MODULE MCLinks ------------------------------
(* Instances of Links for TLC.                                             *)
EXTENDS Links, TLC

CONSTANTS eth0, eth1, a1, a2, a6

(* One interface up with the address that is bound; a1 and a2 are IPv4     *)
(* addresses of different sides, a6 is an IPv6 address.                    *)
OneUp == [i \in Ifaces |-> [up |-> i = eth0,
                            addrs |-> IF i = eth0 THEN {[ip |-> a1, prefix |-> 24]} ELSE {}]]

Addrs == {[ip |-> a1, prefix |-> 24], [ip |-> a1, prefix |-> 25],
          [ip |-> a2, prefix |-> 24], [ip |-> a6, prefix |-> 64]}

BindOne == <<a1>>

Sides == [ip \in V4 |-> IF ip = a1 THEN 1 ELSE 2]
=============================================================================

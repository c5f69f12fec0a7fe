-------------------------- MODULE MC_Orchestrator --------------------------
(***************************************************************************)
(* Model-checking instances of Orchestrator: one bridge br0, two           *)
(* containers, one interface name, ranges of 8 and 7 hosts.                *)
(***************************************************************************)
EXTENDS Orchestrator

CONSTANTS N1, N2, N3, br0, br1, c1, c2, eth1, eth2, v10, t1, m1, p25

\* N3 is a /29-like range too small to skip five hosts.
NetSizeVal == (N1 :> 8) @@ (N2 :> 7) @@ (N3 :> 3)

Br(rng, ip) == [name |-> br0, iprange |-> rng, ipaddress |-> ip]
CIf(c, ip, vlan) ==
    [name |-> c, iface |-> eth1, bridge |-> br0, ipaddress |-> ip,
     vlan |-> vlan, trunk |-> NoTrunk, macaddress |-> m1]

\* br0 at .1 of N1; c1 auto-allocated on VLAN 10, c2 at .7.
Static ==
    [bridge |-> <<Br(N1, <<N1, 1>>)>>,
     container |-> <<CIf(c1, AutoIP, v10), CIf(c2, <<N1, 7>>, NoVlan)>>]

\* The same containers, explicit addresses only.
Explicit ==
    [bridge |-> <<Br(N1, <<N1, 1>>)>>,
     container |-> <<CIf(c1, <<N1, 6>>, v10), CIf(c2, <<N1, 7>>, NoVlan)>>]

\* br0 moved to range N2.
Moved ==
    [bridge |-> <<Br(N2, <<N2, 1>>)>>,
     container |-> <<CIf(c1, AutoIP, v10), CIf(c2, <<N2, 7>>, NoVlan)>>]

CoreConfigs == {Static, Moved}

\* The spec's scenario: c1, then c2, both auto-allocated on br0.
AutoBoth ==
    [bridge |-> <<Br(N1, <<N1, 1>>)>>,
     container |-> <<CIf(c1, AutoIP, NoVlan), CIf(c2, AutoIP, NoVlan)>>]

(***************************************************************************)
(* Documents that make a pass raise: a bridge address outside its range,   *)
(* a malformed container address, a container on a bridge that is not     *)
(* declared, and auto-allocation from a range of fewer than five hosts.    *)
(***************************************************************************)
OutOfRange ==
    [bridge |-> <<Br(N1, <<N2, 1>>)>>,
     container |-> <<CIf(c1, AutoIP, NoVlan)>>]
Malformed ==
    [bridge |-> <<Br(N1, <<N1, 1>>)>>,
     container |-> <<CIf(c1, BadAddr, NoVlan), CIf(c2, <<N1, 6>>, NoVlan)>>]
Undeclared ==
    [bridge |-> <<Br(N1, <<N1, 1>>)>>,
     container |-> <<CIf(c2, <<N1, 6>>, NoVlan),
                     [CIf(c1, NoIP, NoVlan) EXCEPT !.bridge = br1]>>]
Tiny ==
    [bridge |-> <<Br(N3, NoAddr)>>,
     container |-> <<CIf(c1, AutoIP, NoVlan)>>]

ErrorConfigs == {Static, OutOfRange, Malformed, Undeclared, Tiny}

(***************************************************************************)
(* Documents for the lease keyed by container name only (line 495): c1     *)
(* has two interfaces on br0, at .6 and .7, and c2 is auto-allocated.      *)
(* And a re-addressed container: c1 moves from .6 to .8 while its          *)
(* interface already exists.                                               *)
(***************************************************************************)
TwoIfaces ==
    [bridge |-> <<Br(N1, <<N1, 1>>)>>,
     container |-> <<CIf(c1, <<N1, 6>>, NoVlan),
                     [CIf(c1, <<N1, 7>>, NoVlan) EXCEPT !.iface = eth2],
                     CIf(c2, AutoIP, NoVlan)>>]
Readdressed ==
    [bridge |-> <<Br(N1, <<N1, 1>>)>>,
     container |-> <<CIf(c1, <<N1, 8>>, NoVlan), CIf(c2, AutoIP, NoVlan)>>]
\* c1 at .6 written with another prefix length; c2 auto-allocated.
Respelled ==
    [bridge |-> <<Br(N1, <<N1, 1>>)>>,
     container |-> <<CIf(c1, <<N1, 6, p25>>, NoVlan), CIf(c2, AutoIP, NoVlan)>>]
SharedLease == {Explicit, Readdressed, TwoIfaces, AutoBoth, Respelled}

StaticOnly == {Static}
AutoBothOnly == {AutoBoth}
TinyOnly == {Tiny}
BreakerConfigs == {Static, Tiny}
MovedOnly == {Moved}
=============================================================================

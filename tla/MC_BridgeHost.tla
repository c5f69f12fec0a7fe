---------------------------- MODULE MC_BridgeHost ----------------------------
(***************************************************************************)
(* Instances of BridgeHost: bridge B0 with uplinks d1 and d2 (and the usb  *)
(* parent u1 on bus of d1), VLANs v1 and v2, translations m1 = v1:v2 and   *)
(* m2 = v2:v1, in either backend.                                          *)
(***************************************************************************)
EXTENDS BridgeHost, TLC

CONSTANTS B0, B1, d1, d2, u1, v1, v2, m1, m2

UsbMatchVal == u1 :> {d1}
SrcVal == (m1 :> v1) @@ (m2 :> v2)
DstVal == (m1 :> v2) @@ (m2 :> v1)
\* "d1" is a substring of "d2" (eth1 and eth10).
SubNameVal == {<<d1, d2>>}
NoSubName == {}

P(i, t, n) == [iface |-> i, trunk |-> t, native |-> n]
T(b, m) == [on |-> b, map |-> m]

\* d1 trunks v1,v2; d2 is untagged in v1; translation m1 on B0.
Trunked == [parents |-> <<P(d1, {v1, v2}, None), P(d2, None, v1)>>,
            translations |-> <<T(B0, m1)>>]
\* d1 trunks v1 only with native v2; d2 is no longer a parent.
Narrowed == [parents |-> <<P(d1, {v1}, v2)>>, translations |-> <<T(B0, m1)>>]
\* The translation is remapped to v2:v1.
Remapped == [parents |-> <<P(d1, {v1, v2}, None)>>, translations |-> <<T(B0, m2)>>]
\* The uplink is named by its usb bus, trunking v1.
UsbUplink == [parents |-> <<P(u1, {v1}, None)>>, translations |-> <<>>]
\* eth10 is listed before eth1.
Substring == [parents |-> <<P(d2, None, None), P(d1, None, None)>>, translations |-> <<>>]

ReconcileConfigs == {Trunked, Narrowed, Remapped}
DetachConfigs == {UsbUplink, Substring, Trunked, Narrowed}
StaleConfigs == {Trunked, Narrowed, Remapped}
BothModes == {"ovs", "linux"}
=============================================================================

--------------------------- MODULE BridgeParents ---------------------------
(***************************************************************************)
(* Uplink parents of a bridge: _add_iface_to_bridge and the OVS and Linux  *)
(* helpers it calls (src/app/orchestrator.py 155-258).                     *)
(*                                                                         *)
(* A call is a sequence of shell commands, and the first one that raises   *)
(* ends the pass with the effects of the earlier ones kept.  Each call is  *)
(* written as an operator from a host-and-cache record to the SET of       *)
(* records it may produce: Cmd gives a command's success and, for a        *)
(* command in FaultyCmds, its CalledProcessError; Then runs the next part  *)
(* of the call on every outcome that has not raised.                       *)
(***************************************************************************)
EXTENDS Naturals, FiniteSets

CONSTANTS
    B,            \* the bridge that owns the parents
    Bridges,      \* every bridge name (B and the bridges of translations)
    NoBridge,     \* port-to-br of a name that is no port; also "no master"
    Devs,         \* network devices that exist on the host
    UsbPorts,     \* parent names of the form "usb:<bus>"
    UsbMatch,     \* UsbMatch[u]: devices whose `ls -l /sys/class/net` line contains u's bus
    SubName,      \* pairs <<a, b>> of devices whose name a is a substring of b's
    Vids,         \* VLAN ids a configuration may name
    DefaultVid,   \* VLAN 1, given to a port when it joins a Linux bridge
    None,         \* a missing key (dict.get returns None)
    NoIface,      \* a parent entry without "iface"
    FaultyCmds,   \* commands that may fail with CalledProcessError
    MaxFaults     \* bound on injected faults

ASSUME UsbMatch \in [UsbPorts -> SUBSET Devs]
ASSUME SubName \subseteq Devs \X Devs

Errors == {"CalledProcessError", "ValueError", "IndexError"}

\* Names a port or a parent cache entry may carry: devices and the unresolved usb names.
PNames == Devs \cup UsbPorts

\* An OVS port: its bridge, its trunk set and its tag (access or native VLAN).
PortRec == [br: Bridges \cup {NoBridge}, trunk: (SUBSET Vids) \cup {None}, tag: Vids \cup {None}]
NoPort == [br |-> NoBridge, trunk |-> None, tag |-> None]

\* db[bridge][parent]: the trunk and native values last applied to a parent.
ParentCache == [trunk: (SUBSET Vids) \cup {None}, native: Vids \cup {None}]
NoCache == [trunk |-> None, native |-> None]

ParentInfo == [iface: PNames \cup {NoIface}, trunk: (SUBSET Vids) \cup {None}, native: Vids \cup {None}]

(***************************************************************************)
(* Sequencing of commands.  s.err is None until something raises.          *)
(***************************************************************************)
Raise(s, e) == {[s EXCEPT !.err = e]}

Cmd(s, c, ok) ==
    {ok} \cup
    (IF c \in FaultyCmds /\ s.faults < MaxFaults
     THEN {[s EXCEPT !.err = "CalledProcessError", !.faults = @ + 1]}
     ELSE {})

Then(S, F(_)) == UNION {IF s.err = None THEN F(s) ELSE {s} : s \in S}

(***************************************************************************)
(* "usb:" parents, lines 220-227: the one device whose listing line holds  *)
(* the bus; several raise ValueError, none makes usb_info[0] raise         *)
(* IndexError.                                                             *)
(***************************************************************************)
Resolve(p) ==
    IF p \notin UsbPorts THEN p
    ELSE CASE Cardinality(UsbMatch[p]) > 1 -> "ValueError"
           [] UsbMatch[p] = {}             -> "IndexError"
           [] OTHER                        -> CHOOSE d \in UsbMatch[p] : TRUE

(***************************************************************************)
(* Linux bridge VLAN commands (`bridge vlan delete ... vid 1` then `add`). *)
(* Deleting VLAN 1 also drops it as the port's pvid; a native VLAN is      *)
(* added as the untagged pvid.  The kernel ignores the delete of a VLAN    *)
(* the port does not carry.                                                *)
(***************************************************************************)
\* Variant: VLAN 1 is deleted but stays the port's pvid.
LinuxVlanKeepPvid(s, d, key, v) ==
    IF key = "trunk"
    THEN [s EXCEPT !.vids[d] = (@ \ {DefaultVid}) \cup v]
    ELSE [s EXCEPT !.vids[d] = (@ \ {DefaultVid}) \cup {v}, !.pvid[d] = v]

LinuxVlan(s, d, key, v) ==
    IF key = "trunk"
    THEN [s EXCEPT !.vids[d] = (@ \ {DefaultVid}) \cup v,
                   !.pvid[d] = IF @ = DefaultVid THEN None ELSE @]
    ELSE [s EXCEPT !.vids[d] = (@ \ {DefaultVid}) \cup {v}, !.pvid[d] = v]

(***************************************************************************)
(* _add_iface_to_ovs_bridge, lines 155-177.  It is given the UNRESOLVED    *)
(* parent name.  When port-to-br does not answer the bridge, the port is   *)
(* deleted, trunk and native are written to the cache, and add-port runs   *)
(* with them.  ovs-vsctl records a port even for a name that is no device; *)
(* whether it then exits non-zero is left open.                            *)
(***************************************************************************)
AddPortRec(pi) == [br |-> B, trunk |-> pi.trunk, tag |-> pi.native]

\* Variant: a parent the cache has settings for is taken to be attached.
OnBridgeOrCached(s, p) == s.ovs[p].br = B \/ s.pdb[p] # NoCache

\* Line 161: `ovs-vsctl port-to-br <parent>` answers the bridge.
OnBridge(s, p) == s.ovs[p].br = B

OvsAttach(s, pi) ==
    LET p == pi.iface
        c == [s EXCEPT !.ovs[p] = NoPort,
                       !.pdb[p].trunk = IF pi.trunk # None THEN pi.trunk ELSE @,
                       !.pdb[p].native = IF pi.native # None THEN pi.native ELSE @]
        added == [c EXCEPT !.ovs[p] = AddPortRec(pi)]
    IN  IF OnBridge(s, p) THEN {s}
        ELSE Cmd(c, "add_port", added)
             \cup (IF p \notin Devs THEN Raise(added, "CalledProcessError") ELSE {})

(***************************************************************************)
(* _add_iface_to_linux_bridge, lines 180-202, also on the unresolved name. *)
(* Membership is `parent in <output of ip -o link show master>`: a         *)
(* substring test, so a parent whose name is part of a member's name       *)
(* counts as a member.  A joining port gets VLAN 1 as its pvid.  The trunk *)
(* and native VLANs are cached and applied on every pass.                  *)
(***************************************************************************)
Listed(s, p) == \E m \in s.members : m = p \/ <<p, m>> \in SubName

LinuxAttach(s, pi) ==
    LET p == pi.iface
        joined ==
            IF Listed(s, p) THEN {s}
            ELSE IF p \notin Devs THEN Raise(s, "CalledProcessError")  \* ip link set dev usb:.. nomaster
            ELSE Cmd(s, "addif", [s EXCEPT !.members = @ \cup {p},
                                           !.vids[p] = {DefaultVid},
                                           !.pvid[p] = DefaultVid])
        Apply(t, key) ==
            IF pi[key] = None THEN {t}
            ELSE LET c == [t EXCEPT !.pdb[p][key] = pi[key]]
                 IN  Cmd(c, "bridge_vlan", LinuxVlan(c, p, key, pi[key]))
    IN  Then(Then(joined, LAMBDA t : Apply(t, "trunk")), LAMBDA t : Apply(t, "native"))

(***************************************************************************)
(* The trunk/native loop of _add_iface_to_bridge, lines 238-258, on the    *)
(* RESOLVED device.  A value that differs from the cache is written to the *)
(* cache before the command runs; a removed value only clears the cache.   *)
(* `ovs-vsctl set port` on a name that is no port fails.                   *)
(***************************************************************************)
ApplyVlan(s, pi, d, key, mode) ==
    LET v == pi[key]
        c == [s EXCEPT !.pdb[d][key] = v]
        set == IF key = "trunk" THEN [c EXCEPT !.ovs[d].trunk = v]
                                ELSE [c EXCEPT !.ovs[d].tag = v]
    IN  CASE v = s.pdb[d][key]              -> {s}
          [] v = None                       -> {c}
          [] mode = "linux"                 -> Cmd(c, "bridge_vlan", LinuxVlan(c, d, key, v))
          [] c.ovs[d].br = NoBridge         -> Raise(c, "CalledProcessError")
          [] OTHER                          -> Cmd(c, "set_port", set)

(***************************************************************************)
(* _add_iface_to_bridge, lines 205-258: skip an entry without "iface",     *)
(* resolve a usb parent, bring the device up, attach the parent with the   *)
(* helper of the mode, then apply trunk and native.                        *)
(***************************************************************************)
add_iface_to_bridge(s, pi, mode) ==
    LET d == Resolve(pi.iface) IN
    IF pi.iface = NoIface THEN {s}
    ELSE IF d \in Errors THEN Raise(s, d)
    ELSE Then(Then(Then(Cmd(s, "parent_up", [s EXCEPT !.up = @ \cup {d}]),
                        LAMBDA t : IF mode = "ovs" THEN OvsAttach(t, pi) ELSE LinuxAttach(t, pi)),
                   LAMBDA t : ApplyVlan(t, pi, d, "trunk", mode)),
              LAMBDA t : ApplyVlan(t, pi, d, "native", mode))

=============================================================================

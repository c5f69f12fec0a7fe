-------------------------- MODULE VlanTranslation --------------------------
(***************************************************************************)
(* VLAN translations: create_veth_pair, _veth_exists and _hash_string      *)
(* (src/app/orchestrator.py 126-152, 349-420).  A translation "S:D" on a   *)
(* bridge is a veth pair v0_<h>/v1_<h>, h the first 8 hex digits of the    *)
(* map's SHA-256; v0 is tagged S and v1 is tagged D on the bridge.  The    *)
(* name depends on the map only, so the same map on another bridge names   *)
(* the same pair.  Hash collisions are not modelled (a map is its pair).   *)
(***************************************************************************)
EXTENDS BridgeParents

CONSTANTS
    Maps,   \* the map strings "S:D" a configuration may use
    Src,    \* Src[m]: the VLAN before the colon
    Dst     \* Dst[m]: the VLAN after it

ASSUME Src \in [Maps -> Vids] /\ Dst \in [Maps -> Vids]

\* The ends v0_<hash(m)> and v1_<hash(m)>.
Ends == Maps \X {0, 1}
V0(m) == <<m, 0>>
V1(m) == <<m, 1>>

LinkStates == {"absent", "down", "up"}

Translation == [on: Bridges, map: Maps]

\* _veth_exists, lines 141-152: `ip link show` of the end succeeds.
veth_exists(s, v) == s.link[v] # "absent"

(***************************************************************************)
(* One end, lines 394-420.  port-to-br exits 1 for a name that is no port: *)
(* add the port, then tag it, and go on.  An end already on another bridge *)
(* raises ValueError.  An end already on the bridge is left as it is, its  *)
(* tag included.                                                           *)
(***************************************************************************)
AttachEnd(s, on, v, vlan) ==
    CASE s.ovs[v].br = NoBridge ->
            Then(Cmd(s, "add_port", [s EXCEPT !.ovs[v] = [br |-> on, trunk |-> None, tag |-> None]]),
                 LAMBDA t : Cmd(t, "set_tag", [t EXCEPT !.ovs[v].tag = vlan]))
      [] s.ovs[v].br # on -> Raise(s, "ValueError")
      [] OTHER -> {s}

(***************************************************************************)
(* create_veth_pair, lines 349-420.  Only v0 is probed (_veth_exists); a   *)
(* missing v0 means the pair is added and both ends are set up, each a     *)
(* command that may fail.  An existing v0 skips all three, whatever state  *)
(* the ends are in.  Then both ends are attached and tagged.               *)
(***************************************************************************)
create_veth_pair(s, tr) ==
    LET m == tr.map
        made ==
            IF veth_exists(s, V0(m)) THEN {s}
            ELSE Then(Then(Cmd(s, "link_add", [s EXCEPT !.link[V0(m)] = "down", !.link[V1(m)] = "down"]),
                           LAMBDA t : Cmd(t, "veth_up", [t EXCEPT !.link[V0(m)] = "up"])),
                      LAMBDA t : Cmd(t, "veth_up", [t EXCEPT !.link[V1(m)] = "up"]))
    IN  Then(Then(made, LAMBDA t : AttachEnd(t, tr.on, V0(m), Src[m])),
             LAMBDA t : AttachEnd(t, tr.on, V1(m), Dst[m]))

=============================================================================

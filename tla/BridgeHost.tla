----------------------------- MODULE BridgeHost -----------------------------
(***************************************************************************)
(* The data-plane work of a pass that Orchestrator leaves out: the parent  *)
(* loop that ends init_bridge (lines 344-346) and the VLAN translation     *)
(* loop of main() (lines 653-659, OVS mode only), under the same pass      *)
(* controller (breaker check, except/finally, the save of the cache).      *)
(* The address part of init_bridge and the containers, which touch none of *)
(* this state, are left to Orchestrator.  Each parent entry and each       *)
(* translation is one step: a call is atomic, its partial effects before a *)
(* raise are kept (see BridgeParents).  The backend is fixed per process:  *)
(* _USE_LINUX_BRIDGE comes from the environment (line 42).                 *)
(***************************************************************************)
EXTENDS Naturals, Sequences, VlanTranslation

CONSTANTS
    Modes,          \* backends in play: "ovs", "linux"
    Configs,        \* desired-state documents: [parents, translations]
    MaxFailCount,   \* _MAX_FAIL_COUNT, line 39
    MaxEdits        \* bound on edits of the configuration

ASSUME Modes \subseteq {"ovs", "linux"}
ASSUME \A c \in Configs : c.parents \in Seq(ParentInfo) /\ c.translations \in Seq(Translation)

VARIABLES
    mode,       \* "ovs" unless USE_LINUX_BRIDGE is set
    cfg,        \* /root/config.json, the bridge B's parents and the translations
    disk,       \* /tmp/db.json: [parents: db[B] per parent name, failed: counter]
    db,         \* the in-memory cache during a pass
    pc,         \* Idle, Run, Done (before the final sleep), Caught
    idx,        \* position in the parents-then-translations work list
    failCount,  \* fail_count read at pass start, line 639
    ovs,        \* OVS port of every name (parents, usb names, veth ends)
    members,    \* devices enslaved to the Linux bridge B
    vids,       \* VLANs of each device on the Linux bridge
    pvid,       \* its untagged VLAN
    up,         \* devices set up by `ip link set <parent> up`
    link,       \* veth ends: absent, down or up
    faults,     \* host faults so far (crash, OVS restart, failed command)
    edits,      \* configuration edits so far
    envInPass,  \* history: a fault hit the current pass
    dbIntact    \* /tmp/db.json holds a complete JSON document

vars == <<mode, cfg, disk, db, pc, idx, failCount, ovs, members, vids, pvid,
          up, link, faults, edits, envInPass, dbIntact>>
host == <<ovs, members, vids, pvid, up, link>>

PortNames == PNames \cup Ends

(***************************************************************************)
(* The work list: B's parents, then (OVS only, line 654) translations.     *)
(***************************************************************************)
NP == Len(cfg.parents)
NItems == NP + (IF mode = "ovs" THEN Len(cfg.translations) ELSE 0)

\* The host and the cache as the call operators see them.
Now == [pdb |-> db.parents, ovs |-> ovs, members |-> members, vids |-> vids,
        pvid |-> pvid, up |-> up, link |-> link, err |-> None, faults |-> faults]

Item(i) ==
    IF i <= NP THEN add_iface_to_bridge(Now, cfg.parents[i], mode)
    ELSE create_veth_pair(Now, cfg.translations[i - NP])

(***************************************************************************)
(* main(), lines 637-643: the pass starts when the saved counter does not  *)
(* exceed MaxFailCount; else sys.exit(1) changes nothing.                  *)
(***************************************************************************)
\* Variant: the breaker also refuses at the threshold.
BreakerOpenAtThreshold(n) == n < MaxFailCount

BreakerClosed(n) == n <= MaxFailCount

main_Start ==
    /\ pc = "Idle"
    /\ dbIntact   \* otherwise json.load raises at 639, outside the try
    /\ BreakerClosed(disk.failed)
    /\ db' = disk
    /\ failCount' = disk.failed
    /\ pc' = IF NItems = 0 THEN "Done" ELSE "Run"
    /\ idx' = 1
    /\ envInPass' = FALSE
    /\ UNCHANGED <<mode, cfg, disk, host, faults, edits, dbIntact>>

(***************************************************************************)
(* One item of the try block, lines 645-659: a parent (from init_bridge)   *)
(* or a translation.  A raise ends the try block.                          *)
(***************************************************************************)
main_Step ==
    /\ pc = "Run"
    /\ \E s \in Item(idx) :
        /\ db' = [db EXCEPT !.parents = s.pdb]
        /\ ovs' = s.ovs /\ members' = s.members /\ vids' = s.vids
        /\ pvid' = s.pvid /\ up' = s.up /\ link' = s.link
        /\ faults' = s.faults
        /\ envInPass' = (envInPass \/ s.faults > faults)
        /\ pc' = CASE s.err # None  -> "Caught"
                   [] idx < NItems  -> "Run"
                   [] OTHER         -> "Done"
        /\ idx' = idx + 1
    /\ UNCHANGED <<mode, cfg, disk, failCount, edits, dbIntact>>

(***************************************************************************)
(* except and finally, lines 662-679: a caught error stores fail_count+1   *)
(* in memory, then open("w") truncates db.json (677) and json.dump writes  *)
(* it: two steps, and a kill between them leaves the file incomplete.      *)
(***************************************************************************)
main_finally ==
    /\ pc \in {"Done", "Caught"} /\ dbIntact
    /\ db' = IF pc = "Caught" THEN [db EXCEPT !.failed = failCount + 1] ELSE db
    /\ dbIntact' = FALSE
    /\ UNCHANGED <<mode, cfg, disk, pc, idx, failCount, host, faults, edits, envInPass>>

main_dump ==
    /\ pc \in {"Done", "Caught"} /\ ~dbIntact
    /\ disk' = db
    /\ dbIntact' = TRUE
    /\ pc' = "Idle"
    /\ idx' = 1
    /\ envInPass' = FALSE
    /\ UNCHANGED <<mode, cfg, db, failCount, host, faults, edits>>

(***************************************************************************)
(* The host.  A kill skips finally, or cuts the dump short.  In OVS mode a restart of the          *)
(* orchestrator container restarts Open vSwitch, which comes back without  *)
(* ports; devices and veth pairs live in the kernel and stay.              *)
(***************************************************************************)
Killed ==
    /\ pc' = "Idle" /\ idx' = 1 /\ db' = disk /\ envInPass' = FALSE
    /\ faults < MaxFaults /\ faults' = faults + 1

Crash ==
    /\ pc # "Idle"
    /\ Killed
    /\ UNCHANGED <<mode, cfg, disk, failCount, host, edits, dbIntact>>

OvsRestart ==
    /\ mode = "ovs"
    /\ Killed
    /\ ovs' = [n \in PortNames |-> NoPort]
    /\ UNCHANGED <<mode, cfg, disk, failCount, members, vids, pvid, up, link, edits,
                   dbIntact>>

EditConfig ==
    /\ pc = "Idle" /\ edits < MaxEdits
    /\ \E c \in Configs \ {cfg} : cfg' = c
    /\ edits' = edits + 1
    /\ UNCHANGED <<mode, disk, db, pc, idx, failCount, host, faults, envInPass,
                   dbIntact>>

\* A fresh host: db.json holds {} and nothing is attached.
Init ==
    /\ mode \in Modes
    /\ cfg \in Configs
    /\ disk = [parents |-> [n \in PNames |-> NoCache], failed |-> 0]
    /\ db = disk
    /\ pc = "Idle" /\ idx = 1 /\ failCount = 0
    /\ ovs = [n \in PortNames |-> NoPort]
    /\ members = {}
    /\ vids = [d \in Devs |-> {}]
    /\ pvid = [d \in Devs |-> None]
    /\ up = {}
    /\ link = [e \in Ends |-> "absent"]
    /\ faults = 0 /\ edits = 0 /\ envInPass = FALSE
    /\ dbIntact = TRUE

Pass == main_Start \/ main_Step \/ main_finally \/ main_dump

Host == Crash \/ OvsRestart \/ EditConfig

Next == Pass \/ Host

\* The supervisor restarts main() after every exit; the host is not fair.
Spec == Init /\ [][Next]_vars /\ WF_vars(Pass)

(***************************************************************************)
(* Properties                                                              *)
(***************************************************************************)
\* Shapes of the state, and a Linux port's pvid is one of its VLANs: the
\* `bridge vlan delete ... vid 1` of lines 194/199/252 must drop it as pvid.
TypeOK ==
    /\ mode \in Modes /\ cfg \in Configs
    /\ pc \in {"Idle", "Run", "Done", "Caught"} /\ dbIntact \in BOOLEAN
    /\ db.parents \in [PNames -> ParentCache] /\ disk.parents \in [PNames -> ParentCache]
    /\ ovs \in [PortNames -> PortRec]
    /\ members \subseteq Devs /\ up \subseteq Devs
    /\ link \in [Ends -> LinkStates]
    /\ \A d \in Devs : vids[d] \subseteq Vids \cup {DefaultVid}
                       /\ pvid[d] \in vids[d] \cup {None}

\* The device a parent entry names, after usb resolution.
Dev(pi) == Resolve(pi.iface)

ParentAttached(pi) ==
    pi.iface = NoIface \/
    LET d == Dev(pi) IN
    /\ d \in Devs /\ d \in up
    /\ IF mode = "ovs" THEN ovs[d].br = B ELSE d \in members

\* The VLANs the entry asks for are on the port (extra ones may remain).
ParentVlansPresent(pi) ==
    pi.iface = NoIface \/
    LET d == Dev(pi) IN
    IF mode = "ovs"
    THEN /\ pi.trunk # None => ovs[d].trunk = pi.trunk
         /\ pi.native # None => ovs[d].tag = pi.native
    ELSE /\ pi.trunk # None => pi.trunk \subseteq vids[d]
         /\ pi.native # None => pi.native \in vids[d] /\ pvid[d] = pi.native

TranslationUp(tr) ==
    /\ link[V0(tr.map)] = "up" /\ link[V1(tr.map)] = "up"
    /\ ovs[V0(tr.map)] = [br |-> tr.on, trunk |-> None, tag |-> Src[tr.map]]
    /\ ovs[V1(tr.map)] = [br |-> tr.on, trunk |-> None, tag |-> Dst[tr.map]]

\* Every parent attached and up, every translation (OVS) up and tagged.
AttachedAndUp ==
    /\ \A i \in 1..NP : ParentAttached(cfg.parents[i])
    /\ mode = "ovs" => \A i \in 1..Len(cfg.translations) : TranslationUp(cfg.translations[i])

HostMatchesConfig ==
    /\ AttachedAndUp
    /\ \A i \in 1..NP : ParentVlansPresent(cfg.parents[i])

(***************************************************************************)
(* A pass that no fault touched ends (before its sleep) with every parent  *)
(* of the configuration up and a member of B, and every translation's pair *)
(* up, on its bridge and tagged: whatever earlier passes, kills, OVS       *)
(* restarts, failed commands and edits left behind.  The port-to-br probe  *)
(* of line 160 and the port-to-br of each veth end (line 397) are what     *)
(* repair a restart of Open vSwitch.                                       *)
(***************************************************************************)
QuietPassAttaches == (pc = "Done" /\ ~envInPass) => AttachedAndUp

(***************************************************************************)
(* The same pass also leaves every parent with the VLANs its entry asks    *)
(* for.  Unresolved usb names (lines 233-236), substring membership (186), *)
(* the cache written before `set port` (243-258) or made stale by a kill   *)
(* before the save (674), and the untagged veth end (408-414) are the ways *)
(* the code can miss this.                                                 *)
(***************************************************************************)
QuietPassReconcilesHost == (pc = "Done" /\ ~envInPass) => HostMatchesConfig

(***************************************************************************)
(* Once faults and edits stop, the passes the supervisor keeps starting    *)
(* attach every parent and translation and keep them attached: failures    *)
(* never reach the breaker and every failed step is retried by a later     *)
(* pass.  Stated for the behaviours in which db.json is complete again     *)
(* after every save: a kill between the truncation at 677 and the write    *)
(* leaves it incomplete for good, and then no pass ever starts (639).      *)
(***************************************************************************)
Convergence == []<>dbIntact => <>[]AttachedAndUp

\* What the entry implies for the port when nothing else was ever asked.
ExactVlans(pi) ==
    pi.iface = NoIface \/
    LET d == Dev(pi) IN
    IF mode = "ovs"
    THEN ovs[d].trunk = pi.trunk /\ ovs[d].tag = pi.native
    ELSE /\ vids[d] = IF pi.trunk = None /\ pi.native = None THEN {DefaultVid}
                      ELSE (IF pi.trunk = None THEN {} ELSE pi.trunk)
                           \cup (IF pi.native = None THEN {} ELSE {pi.native})
         /\ pvid[d] = CASE pi.native # None -> pi.native
                        [] pi.trunk # None  -> None
                        [] OTHER            -> DefaultVid

=============================================================================

---------------------------- MODULE Orchestrator ----------------------------
(***************************************************************************)
(* One run of src/app/orchestrator.py is a reconciliation pass: main()     *)
(* loads the lease cache (/tmp/db.json) and the desired state, reconciles  *)
(* every bridge (init_bridge), then every container interface             *)
(* (add_iface_to_container), and saves the cache in its finally clause.    *)
(* The supervisor restarts the program after every exit, so passes repeat. *)
(* The host is the environment: containers start and stop, the process is *)
(* killed, Open vSwitch restarts and forgets its ports, an address is      *)
(* flushed by someone else, and commands fail.                             *)
(*                                                                         *)
(* Data abstraction: one address family (the IPv6 loop runs the same code *)
(* on the ip6 keys); bridge parents and VLAN translation are modelled in   *)
(* their own modules; gateways only add options to the add-port command.   *)
(***************************************************************************)
EXTENDS Naturals, Sequences, FiniteSets, AddressAllocator

CONSTANTS
    Bridges, Containers, Ifaces,
    Vlans, Trunks, Macs,   \* values a ContainerInfo may request
    KernelMac,      \* the MAC a new interface gets when none is requested
    Configs,        \* desired-state documents (/root/config.json) in play
    MaxFailCount,   \* _MAX_FAIL_COUNT, line 39
    MaxFaults,      \* bound on host faults (crash, restart, flush, failure)
    FaultyCmds,     \* the commands that may fail: subset of Cmds
    NoRange, NoAddr, AutoIP, NoIP, BadAddr, NoVlan, NoTrunk, NoMac, NoBridge

Cmds == {"bridge_up", "ip_addr_add", "add_port", "set_vlan", "set_trunk"}

ASSUME FaultyCmds \subseteq Cmds /\ MaxFailCount \in Nat /\ MaxFaults \in Nat

(***************************************************************************)
(* Desired state: BridgeInfo and ContainerInfo of lines 53-74.  An absent  *)
(* "ipaddress" of a container is AutoIP, the string "No-IP" is NoIP, an    *)
(* address without prefix or of the wrong family is BadAddr.               *)
(***************************************************************************)
BridgeInfo ==
    [name: Bridges, iprange: Nets \cup {NoRange},
     ipaddress: Addr \cup {NoAddr, BadAddr}]
ContainerInfo ==
    [name: Containers, iface: Ifaces, bridge: Bridges,
     ipaddress: Addr \cup {AutoIP, NoIP, BadAddr},
     vlan: Vlans \cup {NoVlan}, trunk: Trunks \cup {NoTrunk},
     macaddress: Macs \cup {NoMac}]

ASSUME \A c \in Configs :
          c.bridge \in Seq(BridgeInfo) /\ c.container \in Seq(ContainerInfo)

\* A bridge's cache entry: the last applied range and its host map.
NoHosts == [k \in {} |-> NoAddr]
NewEntry == [iprange |-> NoRange, hosts |-> NoHosts]

VARIABLES
    disk,       \* /tmp/db.json: [br: bridge |-> entry, failed: counter]
    db,         \* the in-memory cache of _get_db() during a pass
    cfg,        \* /root/config.json
    pc,         \* where main() is: Idle (not running), Run, Attach,
                \* Done (before the final sleep), Caught, Uncaught
    idx,        \* position in the bridges-then-containers loop
    failCount,  \* fail_count read at the start of the pass, line 639
    alloc,      \* the address put on the add-port command line
    running,    \* docker ps: which containers run
    brAddr,     \* addresses on each bridge interface
    nsIf,       \* each container interface inside its namespace
    port,       \* the OVS port record of each container interface
    faults,     \* host faults so far
    \* history, for the properties only
    settled,    \* last pass succeeded and nothing changed since
    quiet,      \* this pass started settled and nothing changed since
    envInPass,  \* the environment acted during this pass
    mutated,    \* this pass issued a mutating data-plane call
    streak,     \* passes in a row that ended in an error
    dbIntact    \* /tmp/db.json holds a complete JSON document

plane == <<brAddr, nsIf, port>>
vars == <<disk, db, cfg, pc, idx, failCount, alloc, running, brAddr, nsIf,
          port, faults, settled, quiet, envInPass, mutated, streak, dbIntact>>

CIfaces == Containers \X Ifaces
NsIf == [present: BOOLEAN, addr: Addr \cup {NoAddr}, mac: Macs \cup {KernelMac}]
PortRec == [br: Bridges \cup {NoBridge}, vlan: Vlans \cup {NoVlan},
            trunk: Trunks \cup {NoTrunk}]
NoNsIf == [present |-> FALSE, addr |-> NoAddr, mac |-> KernelMac]
NoPort == [br |-> NoBridge, vlan |-> NoVlan, trunk |-> NoTrunk]

(***************************************************************************)
(* The work list of main(), lines 645-651: bridges, then container items.  *)
(***************************************************************************)
NB == Len(cfg.bridge)
NItems == NB + Len(cfg.container)
BInfo == cfg.bridge[idx]
CInfo == cfg.container[idx - NB]

\* Leave the current item: the next one, or the end of the try block.
Advance ==
    IF idx < NItems THEN pc' = "Run" /\ idx' = idx + 1
                    ELSE pc' = "Done" /\ idx' = idx

\* A command that may fail returns FALSE while faults remain.
Outcomes(cmd) ==
    IF cmd \in FaultyCmds /\ faults < MaxFaults THEN BOOLEAN ELSE {TRUE}

Entry(b) == IF b \in DOMAIN db.br THEN db.br[b] ELSE NewEntry

InRange(a, r) == r # NoRange /\ a \in Addr /\ a[1] = r

(***************************************************************************)
(* main(), lines 639-660.  A pass starts only when the saved counter does  *)
(* not exceed MaxFailCount; otherwise sys.exit(1) runs before the try      *)
(* block, which changes nothing (a stuttering step, so no action here).    *)
(***************************************************************************)
\* Lines 640-641: the pass runs only while the counter is at most the limit.
BreakerClosed(n) == n <= MaxFailCount

main_Start ==
    /\ pc = "Idle"
    /\ dbIntact   \* otherwise json.load raises at 639, outside the try
    /\ BreakerClosed(disk.failed)
    /\ db' = disk
    /\ failCount' = disk.failed
    /\ pc' = IF NItems = 0 THEN "Done" ELSE "Run"
    /\ idx' = 1
    /\ quiet' = settled
    /\ envInPass' = FALSE
    /\ mutated' = FALSE
    /\ UNCHANGED <<dbIntact, disk, cfg, alloc, running, brAddr, nsIf, port, faults,
                   settled, streak>>

(***************************************************************************)
(* init_bridge, lines 276-342, for the current bridge (one family).  The   *)
(* entry is created empty (setdefault), the bridge is created and set up  *)
(* ("bridge_up": add-br --may-exist and ip link set up; brctl addbr of the *)
(* Linux backend runs with check=False); either failing raises before the  *)
(* addresses are looked at.  Bridges are never removed, so their existence *)
(* is not a variable.  A new range clears the host map.  No address requested: pop and flush.  A    *)
(* changed address: pop, flush, then the conflict and range checks, then   *)
(* record and add.  An unchanged address missing from the interface        *)
(* (drift): range check, record and add.  Every check raises ValueError;   *)
(* "ip addr add" raises CalledProcessError when it fails.                  *)
(***************************************************************************)
\* Variant: the address is re-applied on every pass.
BridgeIpAlwaysChanged(h, b, ip) == ip # NoAddr

\* Line 310: the requested address is not the bridge's recorded lease.
BridgeIpChanged(h, b, ip) == ip # NoAddr /\ Differs(h, b, ip)

\* Variant: an address lost from the interface is never re-added.
BridgeIpLostIgnored(live, ip, changed) == FALSE

\* Lines 319-322: an unchanged address the interface no longer carries.
BridgeIpLost(live, ip, changed) == ip # NoAddr /\ ~changed /\ ip \notin live

init_bridge ==
    /\ pc = "Run" /\ idx <= NB
    /\ LET b       == BInfo.name
           ip      == BInfo.ipaddress
           e0      == Entry(b)
           e1      == IF BInfo.iprange # e0.iprange
                      THEN [iprange |-> BInfo.iprange, hosts |-> NoHosts]
                      ELSE e0
           h       == e1.hosts
           changed == BridgeIpChanged(h, b, ip)
           drift   == BridgeIpLost(brAddr[b], ip, changed)
           flush   == ip = NoAddr \/ changed
           h2      == IF flush THEN Pop(h, b) ELSE h
           refused == \/ changed /\ ip \in Range(h2)
                      \/ (changed \/ drift) /\ ~InRange(ip, BInfo.iprange)
           add     == (changed \/ drift) /\ ~refused
           live    == IF flush THEN {} ELSE brAddr[b]
       IN \E upOk \in Outcomes("bridge_up"), addOk \in Outcomes("ip_addr_add") :
          \/ /\ ~upOk
             /\ db' = [db EXCEPT !.br = Put(db.br, b, e0)]
             /\ pc' = "Caught" /\ idx' = idx
             /\ faults' = faults + 1
             /\ UNCHANGED <<brAddr, mutated>>
          \/ /\ upOk
             /\ db' = [db EXCEPT !.br = Put(db.br, b,
                        [e1 EXCEPT !.hosts = IF add THEN Put(h2, b, ip) ELSE h2])]
             /\ brAddr' = [brAddr EXCEPT ![b] =
                            IF add /\ addOk THEN live \cup {ip} ELSE live]
             /\ IF ~refused /\ (add => addOk)
                THEN Advance
                ELSE pc' = "Caught" /\ idx' = idx
             /\ faults' = IF add /\ ~addOk THEN faults + 1 ELSE faults
             /\ mutated' = (mutated \/ changed \/ drift)
    /\ UNCHANGED <<dbIntact, disk, cfg, failCount, alloc, running, nsIf, port, settled,
                   quiet, envInPass, streak>>

(***************************************************************************)
(* The IP branch of add_iface_to_container, lines 456-526: the host map    *)
(* after it, the address it puts on the command line, and the exception it *)
(* raises.  StopIteration escapes the except clause of main().             *)
(***************************************************************************)
AutoOn(a, rng) == a = AutoIP /\ rng # NoRange

\* Variant: the auto-allocation result is stored without the for/else test.
IpHostsUnchecked(h, c, a, rng) ==
    CASE a \in Addr ->
            IF ReserveConflict(h, c, a) THEN Pop(h, c) ELSE reserve(h, c, a)
      [] AutoOn(a, rng) -> Put(h, c, auto_allocate(h, rng))
      [] OTHER -> h

IpHosts(h, c, a, rng) ==
    CASE a \in Addr ->
            IF ReserveConflict(h, c, a) THEN Pop(h, c) ELSE reserve(h, c, a)
      [] AutoOn(a, rng) /\ auto_allocate(h, rng) \in Addr ->
            Put(h, c, auto_allocate(h, rng))
      [] OTHER -> h

IpAddr(h, c, a, rng) ==
    CASE a \in Addr        -> a
      [] AutoOn(a, rng)    -> auto_allocate(h, rng)
      [] OTHER             -> NoAddr

IpError(h, c, a, rng) ==
    CASE a = BadAddr                                          -> "Caught"
      [] a \in Addr /\ ReserveConflict(h, c, a)               -> "Caught"
      [] AutoOn(a, rng) /\ auto_allocate(h, rng) = RangeExhausted -> "Caught"
      [] AutoOn(a, rng) /\ auto_allocate(h, rng) = StopIteration  -> "Uncaught"
      [] OTHER                                                -> "None"

(***************************************************************************)
(* add_iface_to_container, lines 438-530: skip a container that does not   *)
(* run, look up the bridge's cache entry (KeyError if the bridge was never *)
(* initialised), resolve the address and record it in the cache.          *)
(***************************************************************************)
add_iface_to_container_alloc ==
    /\ pc = "Run" /\ idx > NB
    /\ LET c  == CInfo.name
           br == CInfo.bridge
       IN \/ /\ ~running[c]
             /\ Advance
             /\ UNCHANGED <<db, alloc>>
          \/ /\ running[c] /\ br \notin DOMAIN db.br
             /\ pc' = "Uncaught"
             /\ UNCHANGED <<db, alloc, idx>>
          \/ /\ running[c] /\ br \in DOMAIN db.br
             /\ LET h   == db.br[br].hosts
                    rng == db.br[br].iprange
                    a   == CInfo.ipaddress
                    err == IpError(h, c, a, rng)
                IN /\ db' = [db EXCEPT !.br[br].hosts = IpHosts(h, c, a, rng)]
                   /\ pc' = IF err = "None" THEN "Attach" ELSE err
                   /\ alloc' = IF err = "None" THEN IpAddr(h, c, a, rng)
                                               ELSE NoAddr
                   /\ idx' = idx
    /\ UNCHANGED <<dbIntact, disk, cfg, failCount, running, brAddr, nsIf, port, faults,
                   settled, quiet, envInPass, mutated, streak>>

(***************************************************************************)
(* add_iface_to_container, lines 531-607.  An interface present in the     *)
(* container and known to OVS only gets its MAC corrected.  Otherwise the  *)
(* interface is deleted from the namespace (if present) and its port from  *)
(* OVS, then add-port creates it with the resolved address; set-vlan and   *)
(* set-trunk follow.  Commands on a stopped container fail.                *)
(***************************************************************************)
\* Variant: an interface found in the container is taken to be attached.
PortKnownInNamespace(ci) == TRUE

\* Lines 537-538: "get-port" finds an OVS port for the interface.
PortKnown(ci) == port[ci].br # NoBridge

add_iface_to_container_attach ==
    /\ pc = "Attach"
    /\ LET c     == CInfo.name
           ci    == <<c, CInfo.iface>>
           mac   == CInfo.macaddress
           inNs  == running[c] /\ nsIf[ci].present
           known == PortKnown(ci)
       IN \/ /\ inNs /\ known
             /\ LET setMac == mac # NoMac /\ nsIf[ci].mac # mac IN
                /\ nsIf' = IF setMac THEN [nsIf EXCEPT ![ci].mac = mac]
                                     ELSE nsIf
                /\ mutated' = (mutated \/ setMac)
             /\ Advance
             /\ UNCHANGED <<port, faults>>
          \/ /\ ~(inNs /\ known)
             /\ \E addOk \in Outcomes("add_port"),
                   vlanOk \in Outcomes("set_vlan"),
                   trunkOk \in Outcomes("set_trunk") :
                LET created   == running[c] /\ addOk
                    vlanRuns  == created /\ CInfo.vlan # NoVlan
                    vlanDone  == ~vlanRuns \/ vlanOk
                    trunkRuns == created /\ vlanDone /\ CInfo.trunk # NoTrunk
                    trunkDone == ~trunkRuns \/ trunkOk
                IN /\ nsIf' = [nsIf EXCEPT ![ci] =
                        IF created
                        THEN [present |-> TRUE, addr |-> alloc,
                              mac |-> IF mac = NoMac THEN KernelMac ELSE mac]
                        ELSE NoNsIf]
                   /\ port' = [port EXCEPT ![ci] =
                        IF created
                        THEN [br    |-> CInfo.bridge,
                              vlan  |-> IF vlanRuns /\ vlanOk
                                        THEN CInfo.vlan ELSE NoVlan,
                              trunk |-> IF trunkRuns /\ trunkOk
                                        THEN CInfo.trunk ELSE NoTrunk]
                        ELSE NoPort]
                   /\ IF created /\ vlanDone /\ trunkDone
                      THEN Advance
                      ELSE pc' = "Caught" /\ idx' = idx
                   /\ faults' = IF \/ running[c] /\ ~addOk
                                   \/ vlanRuns /\ ~vlanOk
                                   \/ trunkRuns /\ ~trunkOk
                                THEN faults + 1 ELSE faults
                   /\ mutated' = TRUE
    /\ UNCHANGED <<dbIntact, disk, db, cfg, failCount, alloc, running, brAddr, settled,
                   quiet, envInPass, streak>>

(***************************************************************************)
(* The except and finally clauses of main(), lines 662-679.  A caught      *)
(* error stores fail_count + 1; every exit that reaches finally (success   *)
(* after the 10 s sleep, caught or uncaught error) dumps the cache, in two *)
(* steps: open("w") truncates db.json (677), then json.dump writes it.  A  *)
(* kill between them leaves a file json.load cannot read.                  *)
(***************************************************************************)
\* The streak only matters up to one past the breaker's threshold.
StreakCap(n) == IF n > MaxFailCount + 2 THEN MaxFailCount + 2 ELSE n

\* Variant: the except clause stores fail_count without the increment.
SavedFailedOffByOne(p, n) == n

\* Lines 665-668: only a caught error stores fail_count + 1.
SavedFailed(p, n) == IF p = "Caught" THEN n + 1 ELSE n

main_finally ==
    /\ pc \in {"Done", "Caught", "Uncaught"} /\ dbIntact
    /\ db' = [db EXCEPT !.failed = SavedFailed(pc, failCount)]
    /\ dbIntact' = FALSE
    /\ UNCHANGED <<disk, cfg, pc, idx, failCount, alloc, running, brAddr, nsIf,
                   port, faults, settled, quiet, envInPass, mutated, streak>>

main_dump ==
    /\ pc \in {"Done", "Caught", "Uncaught"} /\ ~dbIntact
    /\ disk' = db
    /\ dbIntact' = TRUE
    /\ pc' = "Idle"
    /\ idx' = 1
    /\ alloc' = NoAddr
    /\ settled' = (pc = "Done" /\ ~envInPass)
    /\ quiet' = FALSE
    /\ envInPass' = FALSE
    /\ mutated' = FALSE
    /\ streak' = IF pc = "Done" THEN 0 ELSE StreakCap(streak + 1)
    /\ UNCHANGED <<db, cfg, failCount, running, brAddr, nsIf, port, faults>>

(***************************************************************************)
(* The host.  A kill of the process (supervisor stop, OOM) skips finally;  *)
(* a restart of the orchestrator container also restarts Open vSwitch,     *)
(* which comes back without the bridges' addresses and without the ports   *)
(* of the container interfaces, while the containers keep their            *)
(* interfaces (the corner case of lines 554-567).                          *)
(***************************************************************************)
Disturb ==
    /\ settled' = FALSE
    /\ quiet' = FALSE
    /\ envInPass' = (pc # "Idle")

Killed ==
    /\ pc' = "Idle"
    /\ db' = disk
    /\ idx' = 1
    /\ alloc' = NoAddr
    /\ mutated' = FALSE

Crash ==
    /\ pc # "Idle" /\ faults < MaxFaults
    /\ Killed
    /\ faults' = faults + 1
    /\ settled' = FALSE /\ quiet' = FALSE /\ envInPass' = FALSE
    /\ UNCHANGED <<dbIntact, disk, cfg, failCount, running, brAddr, nsIf, port, streak>>

OvsRestart ==
    /\ faults < MaxFaults
    /\ Killed
    /\ brAddr' = [b \in Bridges |-> {}]
    /\ port' = [ci \in CIfaces |-> NoPort]
    /\ faults' = faults + 1
    /\ settled' = FALSE /\ quiet' = FALSE /\ envInPass' = FALSE
    /\ UNCHANGED <<dbIntact, disk, cfg, failCount, running, nsIf, streak>>

\* Someone else flushes the bridge's address (the drift of lines 319-322).
FlushBridge(b) ==
    /\ brAddr[b] # {} /\ faults < MaxFaults
    /\ brAddr' = [brAddr EXCEPT ![b] = {}]
    /\ faults' = faults + 1
    /\ Disturb
    /\ UNCHANGED <<dbIntact, disk, db, cfg, pc, idx, failCount, alloc, running, nsIf,
                   port, mutated, streak>>

StartContainer(c) ==
    /\ ~running[c]
    /\ running' = [running EXCEPT ![c] = TRUE]
    /\ Disturb
    /\ UNCHANGED <<dbIntact, disk, db, cfg, pc, idx, failCount, alloc, brAddr, nsIf,
                   port, faults, mutated, streak>>

\* A stopped container loses its namespace; its OVS ports stay behind.
StopContainer(c) ==
    /\ running[c]
    /\ running' = [running EXCEPT ![c] = FALSE]
    /\ nsIf' = [ci \in CIfaces |-> IF ci[1] = c THEN NoNsIf ELSE nsIf[ci]]
    /\ Disturb
    /\ UNCHANGED <<dbIntact, disk, db, cfg, pc, idx, failCount, alloc, brAddr, port,
                   faults, mutated, streak>>

\* The operator edits /root/config.json; main() reads it at pass start.
EditConfig ==
    /\ pc = "Idle"
    /\ \E c \in Configs \ {cfg} : cfg' = c
    /\ Disturb
    /\ UNCHANGED <<dbIntact, disk, db, pc, idx, failCount, alloc, running, brAddr, nsIf,
                   port, faults, mutated, streak>>

Init ==
    /\ disk = [br |-> [b \in {} |-> NewEntry], failed |-> 0]
    /\ db = disk
    /\ cfg \in Configs
    /\ pc = "Idle"
    /\ idx = 1
    /\ failCount = 0
    /\ alloc = NoAddr
    /\ running \in [Containers -> BOOLEAN]
    /\ brAddr = [b \in Bridges |-> {}]
    /\ nsIf = [ci \in CIfaces |-> NoNsIf]
    /\ port = [ci \in CIfaces |-> NoPort]
    /\ faults = 0
    /\ settled = FALSE
    /\ quiet = FALSE
    /\ envInPass = FALSE
    /\ mutated = FALSE
    /\ streak = 0
    /\ dbIntact = TRUE

Pass ==
    \/ main_Start
    \/ init_bridge
    \/ add_iface_to_container_alloc
    \/ add_iface_to_container_attach
    \/ main_finally
    \/ main_dump

Host ==
    \/ Crash
    \/ OvsRestart
    \/ \E b \in Bridges : FlushBridge(b)
    \/ \E c \in Containers : StartContainer(c) \/ StopContainer(c)
    \/ EditConfig

Next == Pass \/ Host

\* The supervisor restarts main() after every exit and a running pass is
\* never blocked, so the pass steps are weakly fair; the host is not.
Spec == Init /\ [][Next]_vars /\ WF_vars(Pass)

(***************************************************************************)
(* Properties                                                              *)
(***************************************************************************)
\* A lease cache document; stated per field, the set of all of them is large.
IsCache(m) ==
    /\ DOMAIN m = {"br", "failed"}
    /\ m.failed \in Nat
    /\ DOMAIN m.br \subseteq Bridges
    /\ \A b \in DOMAIN m.br :
          /\ DOMAIN m.br[b] = {"iprange", "hosts"}
          /\ m.br[b].iprange \in Nets \cup {NoRange}
          /\ DOMAIN m.br[b].hosts \subseteq Bridges \cup Containers
          /\ \A k \in DOMAIN m.br[b].hosts : m.br[b].hosts[k] \in Addr

TypeOK ==
    /\ IsCache(disk) /\ IsCache(db)
    /\ cfg \in Configs
    /\ pc \in {"Idle", "Run", "Attach", "Done", "Caught", "Uncaught"}
    /\ idx \in 1..(NItems + 1)
    /\ alloc \in Addr \cup {NoAddr}
    /\ running \in [Containers -> BOOLEAN]
    /\ brAddr \in [Bridges -> SUBSET Addr]
    /\ nsIf \in [CIfaces -> NsIf]
    /\ port \in [CIfaces -> PortRec]
    /\ faults \in 0..MaxFaults
    /\ streak \in 0..(MaxFailCount + 2)
    /\ dbIntact \in BOOLEAN

(* The spec's lease invariant (section 3): within a range's host map,      *)
(* saved or in memory, no address is leased to two hosts, whatever the     *)
(* order of bridge address changes, container reservations, range changes, *)
(* conflicts that pop an entry and passes cut short by a kill.             *)
HostsInjective ==
    \A m \in {disk, db} : \A b \in DOMAIN m.br : IsInjective(m.br[b].hosts)

(* The spec's idempotence law (section 8): a pass that runs on an          *)
(* unchanged configuration right after a successful pass, with nothing on  *)
(* the host changed since, issues no mutating call (no flush on change, no *)
(* address add, no interface or port deletion, no add-port, set-vlan,      *)
(* set-trunk or MAC change) before it reaches its final sleep.             *)
QuietRerunIsNoOp == (pc = "Done" /\ quiet) => ~mutated

(* Sections 1 and 8: passes over an unchanged configuration are           *)
(* idempotent, so a pass right after a successful one, with nothing        *)
(* changed on the host since, does not fail.                               *)
QuietRerunSucceeds == quiet => pc \notin {"Caught", "Uncaught"}

(* A pass that reaches its end without the host changing under it leaves  *)
(* every configured bridge carrying its configured address (none at all    *)
(* when none is configured) and every configured interface of a running    *)
(* container present in the container and known to OVS: the drift repair   *)
(* of init_bridge and the stale-port and stale-interface recovery of       *)
(* add_iface_to_container, after kills, OVS restarts and container         *)
(* restarts in earlier passes.                                             *)
HostReconciled ==
    /\ \A i \in 1..NB :
          LET ip == cfg.bridge[i].ipaddress
              b  == cfg.bridge[i].name
          IN  IF ip = NoAddr THEN brAddr[b] = {} ELSE ip \in brAddr[b]
    /\ \A j \in 1..Len(cfg.container) :
          LET ci == <<cfg.container[j].name, cfg.container[j].iface>> IN
          running[ci[1]] => nsIf[ci].present /\ port[ci].br # NoBridge

QuietPassReconciles == (pc = "Done" /\ ~envInPass) => HostReconciled

(* The spec's range-change scenario (section 8): after a pass that ends    *)
(* without the host changing under it, a bridge carries no address other   *)
(* than its configured one; an address of an earlier configuration has     *)
(* been flushed.  The cache is the only record of what was applied.        *)
NoStaleBridgeAddress ==
    (pc = "Done" /\ ~envInPass) =>
        \A i \in 1..NB :
            brAddr[cfg.bridge[i].name] \subseteq {cfg.bridge[i].ipaddress}

(* No address is held twice on one bridge's segment: the bridge interface  *)
(* and the container interfaces attached to it carry distinct hosts,       *)
(* whatever prefix length each was written with.  The cache exists to      *)
(* guarantee this across passes in which containers start after others     *)
(* already hold auto-allocated addresses; its checks compare text.         *)
LiveAddressesUnique ==
    \A b \in Bridges : \A a \in {HostOf(x) : x \in Addr} :
        LET holders == {ci \in CIfaces : /\ nsIf[ci].present
                                         /\ nsIf[ci].addr \in Addr
                                         /\ HostOf(nsIf[ci].addr) = a
                                         /\ port[ci].br = b}
            onBridge == {x \in brAddr[b] : HostOf(x) = a}
        IN  Cardinality(holders) + (IF onBridge # {} THEN 1 ELSE 0) <= 1

(* Section 4.3: a reconciled interface is attached to its configured      *)
(* bridge with its configured VLAN tag and trunk.  Checked after a pass    *)
(* that ends without the host changing under it, even if an earlier pass   *)
(* failed between add-port and set-vlan.                                   *)
QuietPassAppliesPortConfig ==
    (pc = "Done" /\ ~envInPass) =>
        \A j \in 1..Len(cfg.container) :
            LET info == cfg.container[j]
                ci   == <<info.name, info.iface>>
            IN  running[info.name] =>
                    port[ci] = [br |-> info.bridge, vlan |-> info.vlan,
                                trunk |-> info.trunk]

(* Section 7: the breaker counts the passes that failed in a row.  Every  *)
(* error that aborts a pass adds one and a successful pass starts the      *)
(* count again, so between passes the saved counter equals the number of   *)
(* passes that have failed since the last success: the except clause, its  *)
(* tuple of caught exceptions and the finally save all take part.          *)
FailedCountsStreak == pc = "Idle" => disk.failed = streak

\* The saved counter is past the limit: main() exits at once from now on.
BreakerTripped == disk.failed > MaxFailCount

(* Liveness of the restart loop: once the configuration and the set of     *)
(* running containers stop changing (kills, OVS restarts and flushes are   *)
(* bounded), the host eventually stays reconciled, or the breaker has      *)
(* tripped.  This needs every pass to end (no step of main() blocks), the  *)
(* drift repair of init_bridge, and the recovery of interfaces whose OVS   *)
(* port was lost (lines 554-567), after any order of earlier faults.       *)
(* Stated for the behaviours in which db.json is complete again after      *)
(* every save: a kill between the truncation at 677 and the write leaves   *)
(* it incomplete for good, and then every restart dies at line 639.        *)
QuietHostConverges ==
    []<>dbIntact /\ <>[][UNCHANGED <<cfg, running>>]_vars
        => <>[](HostReconciled \/ BreakerTripped)

(* The spec (Lease Cache, section 2) has the cache "flushed atomically at  *)
(* the end of the pass regardless of outcome": whenever main() is not      *)
(* running, db.json holds a complete document for line 639 to load.  The   *)
(* finally clause opens the file with mode "w" (677), which truncates it   *)
(* before json.dump writes, so a kill in between breaks this.               *)
CacheFileLoadable == pc = "Idle" => dbIntact

(***************************************************************************)
(* Refinement: main() implements the contract of PassController on the     *)
(* saved file.  The pass is Running from main_Start until the try block    *)
(* ends; Done, Caught and Uncaught are how it ended; a kill or an OVS      *)
(* restart that ends a pass is Kill.  This checks that disk changes only   *)
(* in finally, that a caught error adds one to the counter read at start,  *)
(* that no pass starts past the limit or from a truncated file, and that a *)
(* kill inside the save leaves the file truncated.                         *)
(***************************************************************************)
PhaseOf(p) ==
    CASE p = "Idle"     -> "Idle"
      [] p = "Done"     -> "Succeeded"
      [] p = "Caught"   -> "Failed"
      [] p = "Uncaught" -> "Escaped"
      [] OTHER          -> "Running"

Contract == INSTANCE PassController
                WITH store <- disk, phase <- PhaseOf(pc), readable <- dbIntact

\* main() with its host implements the pass contract on /tmp/db.json.
ImplementsPassContract == Contract!Spec

=============================================================================

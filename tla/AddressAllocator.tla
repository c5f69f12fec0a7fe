-------------------------- MODULE AddressAllocator --------------------------
(***************************************************************************)
(* The lease bookkeeping of src/app/orchestrator.py: a range's host map    *)
(* (db[bridge]["iprange_hosts"]) is a partial function from host keys (a   *)
(* bridge name or a container name) to addresses.  An address is the pair  *)
(* <<net, host index>>: the host index is the position of the address in   *)
(* ipaddress.ip_network(range).hosts(), which yields hosts in ascending    *)
(* order.  The cache and the configuration hold addresses as TEXT: the     *)
(* pair is the address written with the range's own prefix length (as     *)
(* auto-allocation writes it, line 510), and <<net, host index, p>> is the *)
(* same host written with another prefix length p.  ipaddress treats both  *)
(* as one host of the range; string comparison tells them apart.           *)
(***************************************************************************)
EXTENDS Naturals, FiniteSets, Functions, TLC

CONSTANTS
    Nets,           \* the CIDR ranges a configuration may name
    NetSize,        \* NetSize[n]: number of host addresses of range n
    RangeExhausted, \* outcome: IndexError("Failed to automatically allocate")
    StopIteration,  \* outcome: next() on a range with fewer than 5 hosts
    OtherPrefixes   \* prefix lengths other than the range's own

ASSUME NetSize \in [Nets -> Nat]

Addr == UNION {{<<n, h>> : h \in 1..NetSize[n]} \cup
               {<<n, h, p>> : h \in 1..NetSize[n], p \in OtherPrefixes} : n \in Nets}

\* The host an address text denotes, whatever prefix length it is written with.
HostOf(a) == <<a[1], a[2]>>

\* The auto-allocation loop skips the first 5 host addresses (line 507).
SkipHosts == 5

(***************************************************************************)
(* Python dict operations on a host map.                                   *)
(***************************************************************************)
HasKey(hosts, k) == k \in DOMAIN hosts

\* hosts.pop(k, None)
Pop(hosts, k) == [x \in DOMAIN hosts \ {k} |-> hosts[x]]

\* hosts[k] = a
Put(hosts, k, a) == (k :> a) @@ hosts

\* ipaddr != hosts.get(k): the key holds no address or a different one.
Differs(hosts, k, a) == ~HasKey(hosts, k) \/ hosts[k] # a

(***************************************************************************)
(* Auto-allocation, lines 504-526: skip the first SkipHosts hosts, then    *)
(* return the first host whose address is not a value of the map.  The     *)
(* five next() calls raise StopIteration when the range has fewer hosts;   *)
(* the for/else raises IndexError when every remaining host is taken.      *)
(* The scan does not look at the entry the requesting key already holds.   *)
(***************************************************************************)
RECURSIVE FirstFree(_, _, _)
FirstFree(hosts, n, h) ==
    IF h > NetSize[n] THEN RangeExhausted
    ELSE IF <<n, h>> \in Range(hosts) THEN FirstFree(hosts, n, h + 1)
    ELSE <<n, h>>

auto_allocate(hosts, n) ==
    IF NetSize[n] < SkipHosts THEN StopIteration
    ELSE FirstFree(hosts, n, SkipHosts + 1)

(***************************************************************************)
(* Explicit reservation of a container address, lines 486-495.  When the   *)
(* requested address differs from the key's entry, the entry is popped     *)
(* first; the pop stays in the cache even when the conflict check then     *)
(* raises ValueError.                                                      *)
(***************************************************************************)
\* Variant: the address is reserved without looking at the other hosts.
ReserveUnchecked(hosts, k, a) == FALSE

ReserveConflict(hosts, k, a) ==
    Differs(hosts, k, a) /\ a \in Range(Pop(hosts, k))

HostsBeforeCheck(hosts, k, a) ==
    IF Differs(hosts, k, a) THEN Pop(hosts, k) ELSE hosts

reserve(hosts, k, a) == Put(HostsBeforeCheck(hosts, k, a), k, a)

=============================================================================

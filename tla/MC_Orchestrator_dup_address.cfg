CONSTANTS
    N1 = N1
    N2 = N2
    N3 = N3
    br0 = br0
    br1 = br1
    c1 = c1
    c2 = c2
    eth1 = eth1
    eth2 = eth2
    v10 = v10
    t1 = t1
    m1 = m1
    p25 = p25
    Nets = {N1, N2, N3}
    NetSize <- NetSizeVal
    Containers = {c1, c2}
    Ifaces = {eth1, eth2}
    Vlans = {v10}
    Trunks = {t1}
    Macs = {m1}
    KernelMac = KernelMac
    MaxFailCount = 2
    RangeExhausted = RangeExhausted
    StopIteration = StopIteration
    OtherPrefixes = {p25}
    NoRange = NoRange
    NoAddr = NoAddr
    AutoIP = AutoIP
    NoIP = NoIP
    BadAddr = BadAddr
    NoVlan = NoVlan
    NoTrunk = NoTrunk
    NoMac = NoMac
    NoBridge = NoBridge
    Bridges = {br0}
    Configs <- SharedLease
    MaxFaults = 0
    FaultyCmds = {}
SPECIFICATION Spec
INVARIANTS
    LiveAddressesUnique

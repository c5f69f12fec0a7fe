CONSTANTS
    B0 = B0  B1 = B1  d1 = d1  d2 = d2  u1 = u1  v1 = v1  v2 = v2  m1 = m1  m2 = m2
    B = B0
    Bridges = {B0, B1}
    NoBridge = NoBridge
    Devs = {d1, d2}
    UsbPorts = {u1}
    UsbMatch <- UsbMatchVal
    SubName <- NoSubName
    Vids = {v1, v2}
    DefaultVid = vid1
    None = None
    NoIface = NoIface
    Maps = {m1, m2}
    Src <- SrcVal
    Dst <- DstVal
    Modes <- BothModes
    Configs <- ReconcileConfigs
    MaxFailCount = 2
    MaxFaults = 2
    MaxEdits = 2
    FaultyCmds = {"add_port", "parent_up", "addif", "bridge_vlan", "link_add"}
SPECIFICATION Spec
INVARIANTS
    TypeOK
    QuietPassAttaches
PROPERTIES
    Convergence
CHECK_DEADLOCK FALSE

SPECIFICATION DSpec
CONSTANTS
    OctetBits = 2
    CursorBits = 2
    Uses <- MCUses
    Tables <- MCTables
    Queries <- MCQueries
    Geo <- MCGeo
    MaxFlows <- MCMaxFlows
    Outbounds <- MCOutbounds
    FreedomTag = "direct"
    EgressUse = "egress"
    Configs <- MCConfigs
    RouteTags <- MCRouteTags
    AppUse = "app"
    AppConfigs <- MCAppConfigs
    V4Len = 1
    V6Len = 2
    IpText <- MCIpText
    MapPrefix <- MCMapPrefix
    Base = 16
    Digits = {}
    DomainBytes = {20, 21}
    KeyLen = 1
    SaltLen = 2
    DnsUse = "dns"
    UpstreamUse = "upstream"
    ByteOf <- MCByteOf
    Zones <- MCZones
    Ttl = 2
    MaxNow = 2
    Server <- MCServer
    Login <- MCLogin
    AccountSets = {{}, {1}, {2}}
    Bounds <- MCBounds
    Uplink <- MCUplink
    Downlink <- MCDownlink
    MySalt <- MCMySalt
    HisSalt <- MCHisSalt
    None = None
INVARIANTS
    FirstMatchWins
    RoundRobinIsEven
    EgressAsConfigured
    DialsTheAnswer
    UpstreamAsAsked
    DownlinkIntact
CHECK_DEADLOCK FALSE

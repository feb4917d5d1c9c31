CONSTANTS
    Pads <- MCPads
    Mappings <- MCMappings
    Cooldown = 2
    BITRATE_PRESETS <- MCBitrates
    EnteredSizes <- MCSizes
    EnteredFps = {30, 100}
    EditedFiles <- MCEdited
    MaxEdits = 2
    StreamOptions <- MCOptions
    Ips = {a, b, c}
    NoIp = NoIp
    MaxManual = 1
    MaxPaired = 2
    MaxHosts = 2
    MaxFound = 1
    MaxFaults = 1
    MaxVisible = 1
    GameHosts = {A, B}
    NoHost = NoHost
    AppIds = {"p", "q", "r"}
    Listings <- MCListings
    Urls = {"u1", "u2", "-"}
    NoUrl = "-"
    Fallbacks = {"p"}
    IconSlots = 2
    MaxCacheFaults = 1
    MaxRuns = 3
    Ports <- MCPorts
    MaxMapped = 8
    ConfiguredRates = {384}
    Percents = {90}
    Windows <- MCWindows
    MaxWindows = 3
    ADAPT_DROP_COOLDOWN = 2
    ADAPT_GREEN_HOLDOFF = 1
    MaxUpdates = 3
SPECIFICATION ClientSpec
INVARIANTS  TilesSound  MappingsRemoved BurstHolds
PROPERTIES NoMenuLeak NoStuckInput HostsKept

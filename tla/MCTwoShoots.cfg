SPECIFICATION Spec
CONSTANTS
    Shoots = {"s", "t"}
    Workerless = {"t"}
    SeedNetworks = {"seed/16"}
    Namespaces = {"istio-ingress", "istio-ingress--b"}
    Selectors = {"zone-a", "zone-b", "both"}
    ProviderConfigs <- OneConfig
    ClusterStates <- OnlyUp
    Gateways <- OneGateway
    EgressLists <- TwoEgress
    ServiceStates <- OnlyVIP
    ShootInfos <- NoShootInfo
    IngressGateways <- NoIngress
    AdditionalCIDRs <- NoAdditional
    MaxAllowedCIDRs = 0
    MaxConcurrent = 2
    MaxChanges = 3
    MaxFaults = 0
    DeploymentLists <- FixedDeployments
    Addr <- MCAddr
    Covers <- MCCovers
    AnyV4 = "0.0.0.0/0"
    AnyV6 = "::/0"
    IngressDomain = "ingress.seed"
    NoRule = NoRule
    Malformed = Malformed
    None = None
CHECK_DEADLOCK FALSE
INVARIANTS
    NoOrphanFilters
    UpToDateWhenSettled
